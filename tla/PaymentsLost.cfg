CONSTANTS
    u1 = u1
    u2 = u2
    i1 = i1
    i2 = i2
    i3 = i3
    s1 = s1
    s2 = s2
    NULL = NULL
    Users <- OneUser
    Payments <- OnePayment
    Invoices <- OneInvoice
    Sessions <- OneSession
SPECIFICATION FairSpec
PROPERTY PaidIsGranted
CHECK_DEADLOCK FALSE

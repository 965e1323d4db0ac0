CONSTANTS
    u1 = u1
    u2 = u2
    i1 = i1
    i2 = i2
    i3 = i3
    s1 = s1
    s2 = s2
    NULL = NULL
    Users <- TwoUsers
    Payments <- TwoPayments
    Invoices <- ThreeInvoices
    Sessions <- TwoSessions
SPECIFICATION Spec
INVARIANT TypeOK
INVARIANT NoFreePro
INVARIANT PaidIffGranted
INVARIANT StarsGrantedOnce
INVARIANT InvoiceOfItsBuyer
SYMMETRY Symmetry
CHECK_DEADLOCK FALSE

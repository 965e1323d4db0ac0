CONSTANTS
    a1 = a1
    a2 = a2
    c1 = c1
    c2 = c2
    s1 = s1
    s2 = s2
    NULL = NULL
    Accounts <- OneAccount
    Campaigns <- OneCampaign
    Sessions <- TwoSessions
SPECIFICATION Spec
PROPERTY BannedIsFinal
CHECK_DEADLOCK FALSE

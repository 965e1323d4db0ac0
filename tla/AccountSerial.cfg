CONSTANTS
    a1 = a1
    a2 = a2
    c1 = c1
    c2 = c2
    s1 = s1
    s2 = s2
    NULL = NULL
    Accounts <- TwoAccounts
    Campaigns <- TwoCampaigns
    Sessions <- OneSession
SPECIFICATION Spec
INVARIANT TypeOK
INVARIANT ContainerIffWorking
INVARIANT CooldownHasWayBack
INVARIANT ContainerIsLinked
PROPERTY BannedIsFinal
SYMMETRY Symmetry
CHECK_DEADLOCK FALSE

CONSTANTS
    p1 = p1
    p2 = p2
    t1 = t1
    t2 = t2
    t3 = t3
    w1 = w1
    w2 = w2
    m1 = m1
    NULL = NULL
    NoChannel = NoChannel
    NoOne = NoOne
    NoPart = NoPart
    Accounts = {w1, w2}
    Users = {t1, t2, t3}
    Clients = {k1, k2}
    MaxMishaps = 2
    Senders = {t1, t2, t3}
    Windows = 2
    Limit <- Limits
    MaxDeaths = 1
    Owners = {o1}
    Messages = {m1, m2, m3}
    Posts = {m1, m2}
    Slots = {t1, t2}
    MaxComments = 1
    Pause = 1
    MaxTime = 1
    MaxTold = 2
    MaxHarm = 1
    Refs = {"f", "c"}
    Folders = {"f"}
    Inside = {"c"}
    Subscribed = {"c"}
    MaxRows = 3
    MaxEdits = 4
    MaxLosses = 1
    Channels = {t1, t2}
    MaxChanges = 4
    MaxIncidents = 1
    Primers = {o1}
    Goals = {1, 2}
    Loops = {t1, t2}
    DailyLimit = 2
    RampLimit = 1
    MaxFloods = 1
    MaxLinks = 2
    MaxTicks = 1
    MaxFaults = 1
    Actors = {t1, t2, t3}
    Parts = {p1, p2}
    Lines = {1, 2}
    PartOf <- TwoParts
    Chats = {m1}
    Stages = {w1, w2}
    MaxDialogs = 1
    MaxEdits_ = 4
    MaxMishaps_ = 1
    Polls = {t1, t2}
    Batch = 2
    MaxPosts = 4
    MaxCuts = 1
    Jobs = {o1}
    Derived = {d1}
    People = {t1, t2, t3}
    Requests_ = {w1, w2}
    MaxCommands = 3
    MaxMisfits = 1
    Fleet = {1, 2, 3}
    GoalRows <- ThreeGoals
    MaxActions = 2
    MaxTouches = 2
    MaxBreaks = 1
    Sessions = {t1, t2}
    MaxCodes = 2
    MaxKeys = 2
    MaxRequests = 4
    MaxTries_ = 2
    MaxTrouble = 1
    Bots = {t1, t2}
    Replies = {m1, m2}
    MaxReplies = 1
    MaxTurns = 2
    MaxUpsets = 1
    Persons_ = {t1, t2, t3}
    Wants = {0, 1, 2}
    Enough_ = 2
    Overscan = 2
    MaxRead = 4
    Sites = {t1, t2, t3}
    Limits_ = {2, 4}
    Depth = 2
    MaxSeeds = 2
    MaxNews = 2
SPECIFICATION WorkerSpec
INVARIANTS
    WorkerTypeOK
    LimitsHold
    DeliveryKept
    RowsSettle
    HandlersFollowRows
    PrimingKept
    DialogKept
    EachPostOnce
    ParsingKept
    TickHonest
    LoginHonest
    RepliesKept
PROPERTY PoolIsShared
SYMMETRY Symmetry
CHECK_DEADLOCK FALSE

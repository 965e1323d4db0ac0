SPECIFICATION PanelSpec
CONSTANTS
    a1 = a1
    a2 = a2
    h1 = h1
    h2 = h2
    p1 = p1
    p2 = p2
    Writers = {a1}
    Threads = {m1}
    Groups = {g1, g2}
    NoGroup = g0
    FirstGroup = g1
    Hands = {h1, h2}
    MaxPerPost = 4
    MaxDepth = 1
    MaxNews = 1
    MaxDamage = 1
    Hosts = {a1, a2}
    Requests = {h1, h2}
    Nobody = nobody
    MaxEdits = 3
    MaxTroubles = 2
    Workers = {h1, h2}
    Day = 3
    WindowStart = 1
    WindowEnd = 0
    MaxNow = 3
    IdleHours = 1
    Batch = 1
    Interval = 2
    ReadyActions = 2
    ReadyDays = 2
    AgedReadyDays = 1
    Keep = 2
    MaxTicks = 1
    MaxWarmingDamage = 1
    Phones = {a1, a2}
    ProxyIds = {p1, p2}
    NoProxy = p0
    Countries = {ru, ua}
    Clerks = {h1, h2}
    AccountsMax = 1
    MaxOrders = 3
    Errands = {"apply", "pool", "generate", "patch", "sync"}
    Bearers = {h1, h2}
    Values = {a1, a2}
    Nothing = n0
    MaxErrands = 2
    MaxHitches = 1
    Tasks = {"create", "pin", "unpin", "delete", "top", "untop", "ref"}
    Doers = {h1, h2}
    Channels = {a1, a2}
    NoChannel = c0
    Posts = {1, 2}
    MaxTasks = 5
    MaxSlips = 1
    Checkers = {h1, h2}
    MaxQueue = 1
    MaxAsks = 1
    MaxMishaps = 1
    MaxHistory = 3
    Editors = {h1, h2}
    Players = {a1, a2}
    Unplayed = u0
    MaxScenarios = 3
    Offers = {"add"}
    MaxRoles = 3
    MaxSteps = 3
    MaxChanges = 4
    MaxPlays = 1
    MaxLaunches = 1
    MaxLines = 3
SYMMETRY Symmetry
INVARIANTS
    PanelTypeOK
    CommentsKept
    ListenersKept
    ActivityKept
    EntitlementsKept
    MirrorKept
    ChannelsKept
    HealthKept
    ScenariosKept
CHECK_DEADLOCK FALSE

CONSTANTS
    Neither = Neither
    Items = {b1}
    Dispatches = {d1}
    First = d1
    MaxHurt = 1
SPECIFICATION BulkFairSpec
PROPERTY RunningItemEnds
CHECK_DEADLOCK FALSE

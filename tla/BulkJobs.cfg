CONSTANTS
    Neither = Neither
    Items = {b1, b2}
    Dispatches = {d1, d2}
    First = d1
    MaxHurt = 1
SPECIFICATION BulkSpec
INVARIANT BulkTypeOK
INVARIANT OneRunner
INVARIANT RunOncePerReset
INVARIANT NothingForgotten
INVARIANT ClosedJobIsClosed
SYMMETRY Symmetry
CHECK_DEADLOCK FALSE

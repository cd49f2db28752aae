CONSTANTS
    Mutators = {a, b, c}
    Generated = {a}
    LockUsers = {a, b}
    ChanUsers = {a, b}
    DeadEnds = TRUE
    MaxGC = 1
    Nobody = Nobody
SPECIFICATION WorldSpec
INVARIANT RootsOfAll
CHECK_DEADLOCK FALSE

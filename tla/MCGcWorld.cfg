CONSTANTS
    Mutators = {a, b, c}
    Generated = {a}
    LockUsers = {a, b}
    ChanUsers = {a, b}
    DeadEnds = TRUE
    MaxGC = 2
    Nobody = Nobody
SPECIFICATION FairSpec
INVARIANTS MarkAlone RootsComplete NoLostResume
PROPERTY EndsUnlessJammed
CHECK_DEADLOCK FALSE

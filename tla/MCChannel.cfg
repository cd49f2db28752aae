CONSTANTS
    Msgs = {m1, m2}
    ElemIsPtr = TRUE
    Tasks = {a, b}
    PerTask = 2
    TimeoutTasks = {a}
    CancelTasks = {b}
    MaxEnds = 2
    None = None
SPECIFICATION FairSpec
INVARIANTS RootsMatch FifoDelivery NoLostWake
PROPERTY CloseReachesWaiters
CHECK_DEADLOCK FALSE

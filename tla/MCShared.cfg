CONSTANTS
    Tasks = {a, b, c}
    PerTask <- MCPerTask
    a = a
    b = b
    c = c
    TimeoutTasks = {a}
    CancelTasks = {b}
    MaxTicket = 4
    NoFut = NoFut
SPECIFICATION FairSpec
INVARIANTS LockHeldByOne HeadIsWoken
PROPERTIES NoBarging QueuedIsServed
CHECK_DEADLOCK FALSE

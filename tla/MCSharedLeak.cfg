CONSTANTS
    Tasks = {a, b}
    PerTask <- MCPerTask
    a = a
    b = b
    c = c
    TimeoutTasks = {a}
    CancelTasks = {b}
    MaxTicket = 4
    NoFut = NoFut
SPECIFICATION Spec
INVARIANT DeadHoldNothing
CHECK_DEADLOCK FALSE

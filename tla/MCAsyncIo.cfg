CONSTANTS
    Tasks = {a, b}
    Plans = {"open", "sleep", "yield", "timeout_open", "timeout_sleep", "fn_open"}
    Sleepers = {b}
    SleepMs = 1
    TimeoutMs = 2
    Cancellable = {a}
SPECIFICATION FairSpec
INVARIANTS NothingLeft NoLostWake
PROPERTIES TimersEnd CompletionIsSeen
CHECK_DEADLOCK FALSE

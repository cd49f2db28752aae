CONSTANTS
    Joiners = {a, b}
    Kinds = {"thread", "closure", "async", "spawn"}
    MaxGC = 1
SPECIFICATION JoinSpec
INVARIANT ResultKept
CHECK_DEADLOCK FALSE

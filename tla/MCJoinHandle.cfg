CONSTANTS
    Joiners = {a, b}
    Kinds = {"thread", "closure", "async", "spawn"}
    MaxGC = 2
SPECIFICATION JoinFairSpec
INVARIANTS RootOwned HandoffAlive
PROPERTY JoinersAnswered
CHECK_DEADLOCK FALSE

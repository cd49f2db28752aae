CONSTANTS
    Threads = {t1, t2, t3}
    Kinds = {"file", "socket", "child"}
    MaxCalls = 4
    MaxGC = 1
    NoOne = NoOne
SPECIFICATION FairSpec
INVARIANTS OpenWhileUsed ChildOwned SleeperIsTold
PROPERTY CallsReturn
CHECK_DEADLOCK FALSE

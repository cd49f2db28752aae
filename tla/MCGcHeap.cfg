CONSTANTS
    Threads = {t1, t2}
    Kinds = {"node", "res", "rc", "list"}
    RcKinds = {"rc"}
    DropKinds = {"res", "rc"}
    HolderKinds = {"list"}
    Chunk = 1
    Batch = 2
    MaxBlocks = 2
    MaxAllocs = 4
    MaxGcs = 2
    MaxCount = 4
    Null = Null
    NoOne = NoOne
SPECIFICATION Spec
INVARIANTS BlocksApart NoDangling CountsExact DropOnce
CONSTRAINT Clean
SYMMETRY Symmetry
CHECK_DEADLOCK FALSE

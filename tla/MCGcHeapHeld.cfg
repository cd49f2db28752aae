CONSTANTS
    Threads = {t1, t2}
    Kinds = {"node", "res"}
    RcKinds = {}
    DropKinds = {"res"}
    HolderKinds = {}
    Chunk = 1
    Batch = 2
    MaxBlocks = 2
    MaxAllocs = 3
    MaxGcs = 2
    MaxCount = 4
    Null = Null
    NoOne = NoOne
SPECIFICATION Spec
INVARIANT HeldAlive
SYMMETRY Symmetry
CHECK_DEADLOCK FALSE

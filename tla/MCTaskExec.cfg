CONSTANTS
    Futures = {f}
    Closures = {}
    Workers = {w1, w2}
    Externals = {x}
    NoOne = NoOne
    MaxWakes = 4
SPECIFICATION Spec
INVARIANTS PollsLiveInput EndsCleanly WakeRecorded
PROPERTY ImplementsTaskLife
CHECK_DEADLOCK FALSE

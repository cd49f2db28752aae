CONSTANTS
    Futures = {f}
    Closures = {k}
    Workers = {w1, w2}
    Externals = {}
    NoOne = NoOne
    MaxWakes = 1
SPECIFICATION FairSpec
PROPERTIES WokenIsPolled CancelledEnds
CHECK_DEADLOCK FALSE

CONSTANTS
    NumWorkers = 2
    Externals = {e1}
    Copies = {c1, c2, c3}
    NoOne = NoOne
SPECIFICATION FairSpec
INVARIANTS NoLostSubmission WorkConserving
PROPERTY ImplementsRunPool

SPECIFICATION Spec
CONSTANTS
    w1 = w1
    w2 = w2
    NoWorker = NoWorker
    Workers = {w1, w2}
    MaxSerial = 3
    max_branches = 3
    RespawnLimit = 1
CONSTRAINT NoPollWithLeftovers
SYMMETRY WorkerSymmetry
CHECK_DEADLOCK FALSE
INVARIANTS
    LeaseIsTruthful
    AncestorsReachDescendants
PROPERTY
    NoResultAfterTheEnd

SPECIFICATION InstancesSpec
CONSTANTS
    Branches = {b1, b2}
    Root = root
    RngIds = {r1, r2}
    NoRng = NoRng
    max_branches = 2
    MaxMoves = 3
    MaxFaults = 0
    MaxCommits = 2
    MaxFailures = 1
INVARIANT NoBranchOutlivesItsPhase
CHECK_DEADLOCK FALSE

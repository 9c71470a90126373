SPECIFICATION InstancesSpec
CONSTANTS
    Branches = {b1, b2, b3}
    Root = root
    RngIds = {r1, r2}
    NoRng = NoRng
    max_branches = 2
    MaxMoves = 3
    MaxFaults = 1
    MaxCommits = 1
    MaxFailures = 1
SYMMETRY Symmetry
CHECK_DEADLOCK FALSE
INVARIANTS
    NoGhosts
    BooksAgree
    BranchesBelongToTheDecision

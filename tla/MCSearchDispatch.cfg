SPECIFICATION PoolsSpec
CONSTANTS
    NumWorkers = 2
    Menus <- TwoCandidates
    PendingCandidates = {1, 2}
    Hypotheses = {h1}
    MaxRetries = 1
    MaxDepth = 1
    MaxItems = 4
    Callers = {c1, c2}
    NumThreads = 2
    MaxRespawns = 1
    MaxExecutes = 2
    ManagerWorkers = {w1, w2}
    NoManagerWorker = NoManagerWorker
    ManagerRespawns = 1
    ManagerBranches = 2
CHECK_DEADLOCK FALSE
INVARIANTS
    ItemsEndWithTheirOwnResult
    RetriesAreBounded
    HolderStepsOnItsContext
    AnswersReachTheirCaller
    ThreadsAreStopped
PROPERTY
    CallsReturn
    PollReturns

SPECIFICATION FairSpec
CONSTANTS
    c1 = c1
    c2 = c2
    NoContext = NoContext
    Contexts = {c1, c2}
    NumBranchWorkers = 2
    BeamBatches <- MCBeam
    DirectBatches <- MCDirect
    Users = {"choice_runner", "beam", "direct"}
    MaxCalls <- MCCalls
    MaxFaults = 2
CHECK_DEADLOCK FALSE
INVARIANTS
    HolderStepsOnItsOwnReach
    LeasesAreSound
    AnswersBelongToTheCall
PROPERTY
    CallsEnd

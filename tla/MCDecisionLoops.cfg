SPECIFICATION LoopsSpec
CONSTANTS
    Effect <- CardEffects
    Reshuffles = TRUE
    Openings <- Combats
    Width = 2
    HypothesisCount = 2
    BeamWidth = 2
    MaxRounds = 3
    InProcessLoader = FALSE
    MaxIterations = 6
    Maps <- MCMaps
    Callers = {c1, c2}
    Drives = 2
    MaxSteps = 9
CHECK_DEADLOCK FALSE
INVARIANTS
    PrefixReplaysToMain
    PinnedDrawsAreReal
    HypothesesAgreeWithMain
    PlansComeTrue
    NoRoomEnteredTwice
    SiblingReproducesTheHolder
    StaleDecisionsAreRefused
PROPERTY
    ReloadUndoesOnlyTheRoom

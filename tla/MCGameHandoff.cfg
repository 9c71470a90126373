SPECIFICATION Spec
CONSTANTS
    Instances = {w1, w2, c1}
    WholeRuns = {w1, w2}
    NoInstance = NoInstance
    MaxGeneration = 8
CONSTRAINT GenerationBound
INVARIANTS
    NoForeignMutation
    HandoffSettles
PROPERTY
    SupersededStaysOut

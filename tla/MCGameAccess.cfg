SPECIFICATION Spec
CONSTANTS
    Holders = {h1, h2}
    NoHolder = NoHolder
    MaxGeneration = 6
CONSTRAINT GenerationBound
INVARIANTS
    OwnerHasTheLease
PROPERTY
    ImplementsExclusiveCapability

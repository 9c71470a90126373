SPECIFICATION Spec
CONSTANTS
  Scenarios = {"long", "short"}
  Opening <- MCOpening
  Snapshots <- MCSnapshots
  MaxContinuation = 1
  MaxStep = 2
  MaxDecisions = 2
  NoProgressWindow = 2
  Manifest <- MCManifest
  EvalList <- MCEvalList
  DeterminismSample = 1
  MaxAttempts = 2
  StartingDeck <- MCStartingDeck
  StartingRelic = "burning_blood"
  CardIds = {"strike", "mad_science"}
  MadScience = "mad_science"
  RelicIds = {"burning_blood", "lamp"}
  PotionIds = {"brew"}
  Evidence <- MCEvidence
  CanonicalIds = {"strike", "mad_science", "burning_blood", "brew"}
  MaxHp = 2
  HandSize = 3
  MaxPoints = 3
  MaxEvents = 2
  MaxRooms = 2
INVARIANTS
  CommittedStepIsTheDecision
  TrajectoryIsOnePlay
  ResultRowsAreBacked
  ExactStatesAreReal
  ScenariosDealTheRealDeck
CHECK_DEADLOCK FALSE

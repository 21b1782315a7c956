SPECIFICATION Spec
CONSTANTS
  None = None
  Iterations = 1
  MaxRuns = 2
  MaxTrouble = 1
CHECK_DEADLOCK FALSE
INVARIANTS
  PassHonest
  FailureCleansUp
  GateHonest
  DisplayTruthful
PROPERTY
  ButtonsComeBack

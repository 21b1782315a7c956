SPECIFICATION HostSpec
CONSTANTS
  Args = {a, b}
  None = None
  MaxTxid = 11
  MaxOps = 2
  MaxTrouble = 2
SYMMETRY PayloadSymmetry
INVARIANTS
  ResultCurrent
  UndisturbedUnderstood
  RefusedAtMostOnce
  EmergencyNeverBlocked

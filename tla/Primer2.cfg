SPECIFICATION P2Spec
CONSTANTS
  Ids = {i1, i2}
  Keys = {k1, k2}
  Txids = {t1, t2}
  Telemetry = {ta}
  MaxSeq = 2
  BadTagThreshold = 3
  None = None
  Malformed = Malformed
  Unsupported = Unsupported
SYMMETRY Symmetry
INVARIANTS
  P2TypeOK
  P2ResultAuthentic
  P2FaultNeverActive
  P2KeysGone
  P2ExecutedOnce
PROPERTIES
  P2NoReplay
  P2ResultKept

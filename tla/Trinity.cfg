SPECIFICATION SysSpec
CONSTANTS
  Ids = {i1, i2}
  Keys = {k1, k2}
  Txids = {t1, t2}
  Telemetry = {ta, tb}
  MaxSeq = 2
  BadTagThreshold = 3
  MaxTrouble = 2
  None = None
  Malformed = Malformed
  Unsupported = Unsupported
SYMMETRY Symmetry
INVARIANTS
  SharedSession
  SequenceChain
  SuccessErases
  FailureErases
PROPERTIES
  SendDelivers

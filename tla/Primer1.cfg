SPECIFICATION P1FairSpec
CONSTANTS
  Ids = {i1, i2}
  Keys = {k1, k2}
  Txids = {t1, t2}
  Telemetry = {ta, tb}
  MaxSeq = 2
  None = None
  Malformed = Malformed
  Unsupported = Unsupported
INVARIANTS
  P1TypeOK
  P1NonceOnce
  P1KeysGone
  P1EngineArmed
  P1NoOrphan
  P1ExecutedOnce
PROPERTIES
  P1SeqFollowsFrame
  P1Completes

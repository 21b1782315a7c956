SPECIFICATION P2Spec
CONSTANTS
  Ids = {i1}
  Keys = {k1}
  Txids = {t1, t2}
  Telemetry = {ta}
  MaxSeq = 2
  BadTagThreshold = 2
  None = None
  Malformed = Malformed
  Unsupported = Unsupported
PROPERTIES
  P2GapAllowed

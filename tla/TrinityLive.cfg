SPECIFICATION SysFairSpec
CONSTANTS
  Ids = {i1}
  Keys = {k1}
  Txids = {t1, t2}
  Telemetry = {ta}
  MaxSeq = 1
  BadTagThreshold = 3
  MaxTrouble = 1
  None = None
  Malformed = Malformed
  Unsupported = Unsupported
PROPERTIES
  CommandEnds

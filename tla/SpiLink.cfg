SPECIFICATION Spec
CONSTANTS
  None = None
  MaxTxid = 3
  READ_REISSUE = 2
  MaxRequests = 6
  MaxNoise = 2
CHECK_DEADLOCK FALSE
INVARIANTS
  ExchangeHonest
  EvidenceHonest

SPECIFICATION FairSpec
CONSTANTS
  HB_TIMEOUT_MS = 2
  STARTUP_ZEROIZE_MS = 1
  STARTUP_GRACE_MS = 2
  QUALIFY_MS = 2
  ZEROIZE_HOLD_MS = 1
  RECOVERY_QUALIFY_MS = 1
  UPTIME_MOD = 4
  MaxUpsets = 1
INVARIANTS
  
  SecureImpliesNoFault
  FaultKeepsZeroize
PROPERTIES
  QualifiedBeforeSecure
  RecoveryQualified
  FirstFaultKept
  ImplementsTinyLines
  SilenceEndsSecure

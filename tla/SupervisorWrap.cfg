SPECIFICATION Spec
CONSTANTS
  HB_TIMEOUT_MS = 1
  STARTUP_ZEROIZE_MS = 1
  STARTUP_GRACE_MS = 1
  QUALIFY_MS = 1
  ZEROIZE_HOLD_MS = 2
  RECOVERY_QUALIFY_MS = 1
  UPTIME_MOD = 3
  MaxUpsets = 0
PROPERTIES
  SilenceIsFatal

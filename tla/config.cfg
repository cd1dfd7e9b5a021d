SPECIFICATION Spec
CONSTANTS
  UINT64_MAX = 31
  INT_MAX = 4
  MS_PER_SEC = 3
  Numbers <- SomeNumbers
  Targets <- Target
  DEFAULT_INTERVAL_MS = 9
  DEFAULT_FAIL_THRESHOLD = 3
  DEFAULT_TIMEOUT_MS = 3
  DEFAULT_START_DELAY_MS = 0
  MaxUptime = 14
INVARIANTS
  AcceptedAsMeant
  OnlyBadRejected
  SafeForMonitor
  BannerReadsBack
CHECK_DEADLOCK FALSE

SPECIFICATION Spec
CONSTANTS
  UINT64_MAX = 63
  UINT16_MAX = 4
  INT_MAX = 4
  MaxClock = 14
  Stalls = {}
  interval_ms = 3
  timeout_ms = 2
  start_delay_ms = 1
  fail_threshold = 1
  poweroff = TRUE
  watchdog_interval_ms = 0
  LS_MAX_REPLY_DRAIN_PER_WAKEUP = 2
  MaxAction = 2
  MaxQueue = 2
  Lifetime = 2
  Unrelated <- OneUnrelated
  Signals = {}
  Faults = {}
PROPERTIES FullTimeout

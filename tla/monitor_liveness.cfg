SPECIFICATION FairSpec
CONSTANTS
  UINT64_MAX = 63
  UINT16_MAX = 4
  INT_MAX = 4
  MaxClock = 4
  Stalls = {}
  interval_ms = 2
  timeout_ms = 1
  start_delay_ms = 1
  fail_threshold = 1
  poweroff = FALSE
  watchdog_interval_ms = 2
  LS_MAX_REPLY_DRAIN_PER_WAKEUP = 2
  MaxAction = 0
  MaxQueue = 1
  Lifetime = 2
  Unrelated <- OneUnrelated
  Signals = {"SIGINT", "SIGUSR1", "SIGTERM"}
  Faults = {"socket", "notify"}
PROPERTIES StopHonoured DueProbeResolved

SPECIFICATION Spec
CONSTANTS
  UINT64_MAX = 63
  UINT16_MAX = 3
  INT_MAX = 4
  MaxClock = 7
  Stalls <- Anywhere
  interval_ms = 2
  timeout_ms = 1
  start_delay_ms = 0
  fail_threshold = 2
  poweroff = TRUE
  watchdog_interval_ms = 0
  LS_MAX_REPLY_DRAIN_PER_WAKEUP = 2
  MaxAction = 1
  MaxQueue = 1
  Lifetime = 2
  Unrelated <- OneUnrelated
  Signals = {}
  Faults = {"clock", "poll", "signalfd", "socket", "send"}
INVARIANTS TypeOK OneProbe ProbeAccounting StreakIsReal NoEarlyAction Inductive
PROPERTIES ActionJustified ReceiveErrorIsFinal TimeoutFirst ImplementsPolicy

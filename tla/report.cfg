SPECIFICATION Spec
CONSTANTS
  UINT64_MAX = 20
  NS_PER_US = 2
  MS_PER_SEC = 2
  NS_PER_MS = 3
  USEC_PER_MS = 2
  DEDUP_WINDOW_MS = 2
  PID_SPACE = 4
  MaxClock = 8
  MaxProbes = 3
  Environment <- Environments
INVARIANTS
  ShownIsCurrent
  LatencyOrder
  HeartbeatPeriod
CHECK_DEADLOCK FALSE

\* Startup and loop failures, crashes, restarts, a stop and an outage.
CONSTANTS
  Signals = {"SIGINT", "SIGTERM", "SIGUSR1"}
  Faults = {"config", "notify", "icmp", "mask", "signalfd", "clock", "ready", "loop"}
  Threshold = 3
  StartLimitBurst = 3
  MaxFailures = 3
  MaxRequests = 2
SPECIFICATION UnitSpec
INVARIANTS ResourcesReleased EveryStopAnnounced ExitCodes
PROPERTIES ActionIsFinal StopCompletes OutageIsActedOn
CHECK_DEADLOCK FALSE

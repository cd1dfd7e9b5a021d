\* The threshold action with failing system calls, held up anywhere.
CONSTANTS
  UINT64_MAX = 100
  LS_STARTUP_GRACE_MS = 3
  LS_SHUTDOWN_RETRY_MS = 2
  KillTime = 1
  MaxCalls = 2
  MaxClock = 14
  MaxHeld = 1
  Faults = {"spawn", "clock", "waitpid", "sleep"}
SPECIFICATION FairSpec
INVARIANTS NotOptimistic NothingLeftBehind InTimeIsTriggered WithinMaxAction
PROPERTY ActionReturns

\* A statistics request that arrives when the loop has ended.
CONSTANTS
  Signals = {"SIGTERM", "SIGUSR1"}
  Faults = {}
SPECIFICATION Spec
INVARIANTS CleanStopExitsZero

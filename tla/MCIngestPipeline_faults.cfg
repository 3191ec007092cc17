SPECIFICATION SafeSpec
CONSTANTS
  MaxVersion = 1
  MaxDeliveries = 2
  MaxCopies = 2
  Batches = 2
  Workers = {w1, w2}
  NoWorker = none
  Operations = {"delete"}
  FaultKinds = {"db", "io", "publish", "crash"}
  MaxFaults = 2
SYMMETRY Symmetry
INVARIANTS DoneComplete BusyHasTask DeadIsAccounted
PROPERTY AttemptsMonotone
CHECK_DEADLOCK FALSE

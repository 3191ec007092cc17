SPECIFICATION SafeSpec
CONSTANTS
  MaxVersion = 2
  MaxDeliveries = 2
  MaxCopies = 1
  Batches = 1
  Workers = {w1, w2}
  NoWorker = none
  Operations = {"trigger"}
  FaultKinds = {"channel", "io"}
  MaxFaults = 3
SYMMETRY Symmetry
INVARIANTS SoleWorker BusyHasTask
CHECK_DEADLOCK FALSE

SPECIFICATION SafeSpec
CONSTANTS
  MaxVersion = 1
  MaxDeliveries = 1
  MaxCopies = 2
  Batches = 1
  Workers = {w1, w2}
  NoWorker = none
  Operations = {}
  FaultKinds = {}
  MaxFaults = 0
SYMMETRY Symmetry
PROPERTY DoneIsFinal
CHECK_DEADLOCK FALSE

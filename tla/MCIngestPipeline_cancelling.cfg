SPECIFICATION Spec
CONSTANTS
  MaxVersion = 1
  MaxDeliveries = 1
  MaxCopies = 1
  Batches = 1
  Workers = {w1, w2}
  NoWorker = none
  Operations = {"stop"}
  FaultKinds = {}
  MaxFaults = 0
PROPERTY CancellingEnds
CHECK_DEADLOCK FALSE

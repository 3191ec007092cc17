SPECIFICATION Spec
CONSTANTS
  MaxVersion = 2
  MaxDeliveries = 2
  MaxCopies = 1
  Batches = 1
  Workers = {w1, w2}
  NoWorker = none
  Operations = {"stop", "trigger"}
  FaultKinds = {"io", "publish", "crash", "channel", "conn"}
  MaxFaults = 1
PROPERTIES BusySettles StopSettles StopWins StaleMessageInert
CHECK_DEADLOCK FALSE

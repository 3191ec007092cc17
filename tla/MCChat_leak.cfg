SPECIFICATION MCSpec
CONSTANTS
  Turns = {1}
  Leavers = {1}
  Chunks = 3
  StreamCap = 1
  EventCap = 1
  MaxHits = 0
  FaultKinds = {}
  MaxFaults = 0
PROPERTIES RunEnds
CHECK_DEADLOCK FALSE

SPECIFICATION MCSpec
CONSTANTS
  Turns = {1, 2}
  Leavers = {1}
  Chunks = 3
  StreamCap = 1
  EventCap = 1
  MaxHits = 1
  FaultKinds = {"db", "io", "crash"}
  MaxFaults = 2
INVARIANTS ChatInvariant StreamIsTrue
PROPERTIES NoRevival TurnsEnd
CHECK_DEADLOCK FALSE

SPECIFICATION MCSpec
CONSTANTS
  e1 = e1
  e2 = e2
  Edits = {e1, e2}
  Dims = {1, 2}
  MaxVectorDim = 1
  MaxTexts = 2
  relay = relay
  retry = retry
  Callers = {relay, retry}
  MaxMessages = 3
  p1 = p1
  p2 = p2
  p3 = p3
  Starters = {p1, p2, p3}
  Listings <- MCListings
  FaultKinds = {"db", "io", "crash", "publish", "conn"}
  MaxFaults = 1
  MaxParses = 3
INVARIANTS VectorInvariant PublisherInvariant MigrationInvariant MinerUInvariant
PROPERTIES StartsSucceed CallsEnd
CHECK_DEADLOCK FALSE

SPECIFICATION MCSpec
CONSTANTS
  a = a
  b = b
  x = x
  y = y
  Visitors = {a, b}
  Boxes = {x, y}
  MaxCodes = 2
  MaxUsers = 2
  MaxVisits = 5
  Slots = {a, b}
  MaxDatasets = 2
  MaxRequests = 5
  FaultKinds = {"db", "io"}
  MaxFaults = 1
SYMMETRY Symmetry
INVARIANTS AccountsInvariant CatalogInvariant
PROPERTIES SpentCodesAreDead DeletionScope
CHECK_DEADLOCK FALSE

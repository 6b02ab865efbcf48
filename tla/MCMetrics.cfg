SPECIFICATION Spec
CONSTANTS
  Handlers = {h1, h2}
  QTypes = {"A", "NS"}
  Requests <- McRequests
  MaxRequests = 1
  U64Max = 1000
SYMMETRY Symmetry
CHECK_DEADLOCK FALSE
INVARIANTS TornByOverlap QuietExact AverageWithin ExtremesOrdered

SPECIFICATION Spec
CONSTANTS
  Docs = {d1}
  Requests = {r1}
  Threads = {p1, p2}
  Schemas = {s1}
  None = None
  MaxRetries = 1
  MaxRepeats = 0
  MaxStale = 2
  MaxFaults = 2
SYMMETRY Symmetry
INVARIANTS
  ChainInOrder
PROPERTIES
  ImplementsFlow
CHECK_DEADLOCK FALSE

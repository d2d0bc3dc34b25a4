SPECIFICATION Spec
CONSTANTS
  Docs = {d1}
  Requests = {r1, r2}
  Threads = {p1, p2}
  Schemas = {s1}
  None = None
  MaxRetries = 1
  MaxRepeats = 1
  MaxStale = 0
  MaxFaults = 0
SYMMETRY Symmetry
INVARIANTS
  TypeOK
  NoLostWakeup
  PublishedOnce
  TaskReadsTarget
PROPERTIES
  ImplementsFlow
CHECK_DEADLOCK FALSE

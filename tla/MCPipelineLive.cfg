SPECIFICATION FairSpec
CONSTANTS
  Docs = {d1}
  Requests = {r1, r2}
  Threads = {p1, p2}
  Schemas = {s1}
  None = None
  MaxRetries = 1
  MaxRepeats = 0
  MaxStale = 0
  MaxFaults = 0
PROPERTIES
  WaitingRequestEnds
CHECK_DEADLOCK FALSE

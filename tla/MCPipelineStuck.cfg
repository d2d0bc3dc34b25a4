SPECIFICATION FairSpec
CONSTANTS
  Docs = {d1}
  Requests = {r1}
  Threads = {p1}
  Schemas = {s1}
  None = None
  MaxRetries = 0
  MaxRepeats = 0
  MaxStale = 0
  MaxFaults = 0
PROPERTIES RequestsFinish
CHECK_DEADLOCK FALSE

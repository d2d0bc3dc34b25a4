\* A backlog larger than the batch; a task may be overdue twice, and is given up
\* the second time.  Under fairness; no symmetry.
SPECIFICATION FairSpec
CONSTANTS
  Tasks = {t1, t2}
  Instances = {w1, w2}
  NoRow = NoRow
  Threshold = 1
  MaxSkew = 0
  MaxRetries = 1
  BatchSize = 1
  MaxTime = 4
  MaxEdits = 0
  MaxFaults = 2
PROPERTIES
  OverdueHandled
CHECK_DEADLOCK FALSE

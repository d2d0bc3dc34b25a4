\* Two replicas, one task, several claims with failing publishes and restarts.
SPECIFICATION Spec
CONSTANTS
  Tasks = {t1}
  Instances = {w1, w2}
  NoRow = NoRow
  Threshold = 2
  MaxSkew = 1
  MaxRetries = 2
  BatchSize = 1
  MaxTime = 6
  MaxEdits = 1
  MaxFaults = 4
SYMMETRY Symmetry
INVARIANTS
  TypeOK
  IInv
  RetryBound
  OnePublisherPerClaim
  PublishBound
PROPERTIES
  RefreshedTaskSpared
  FailsOnlyExhausted
CHECK_DEADLOCK FALSE

\* Trees of up to three levels of two tenants, two handlers at a time.
SPECIFICATION Spec
CONSTANTS
  Orgs = {o1, o2}
  Sites = {s1, s2, s3}
  Docs = {d1, d2}
  Threads = {t1, t2}
  None = None
  StatementTime = 1
  MaxTime = 3
  MaxChanges = 2
SYMMETRY Symmetry
INVARIANTS
  TypeOK
  ActivityCoversSubtree
  SiteForest
CHECK_DEADLOCK FALSE

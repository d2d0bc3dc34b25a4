\* References between the rows of two tenants: directories, bundles and
\* comparison sessions, while rows are deleted.
SPECIFICATION Spec
CONSTANTS
  Orgs = {o1, o2}
  Docs = {d1, d2}
  Sites = {}
  Kinds = {k1}
  Roles = {r1}
  Sessions = {c1}
  Threads = {t1}
  None = None
  MaxFaults = 0
SYMMETRY Symmetry
INVARIANTS
  SameTenant
CHECK_DEADLOCK FALSE

\* Two tenants with a document each, one shared key, two handlers at a time;
\* every message is answered once.
SPECIFICATION Spec
CONSTANTS
  o1 = o1
  o2 = o2
  d1 = d1
  d2 = d2
  Orgs = {o1, o2}
  System = System
  Docs = {d1, d2}
  Owner <- MCOwner
  Names = {a, b}
  SystemKeys = {a}
  Requests = {r1, r2}
  Threads = {p1, p2}
  None = None
  MaxRepeats = 0
  MaxFaults = 1
SYMMETRY Symmetry
INVARIANTS
  TypeOK
  CompletedIsAnswered
  TenantIsolation
PROPERTIES
  AnswersStay
CHECK_DEADLOCK FALSE

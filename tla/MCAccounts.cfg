\* Two organizations, their users, the owner, a browser and two requests at a time.
SPECIFICATION Spec
CONSTANTS
  Orgs = {o1, o2}
  Users = {u1, u2, w}
  Owners = {w}
  Emails = {e1, e2}
  Invitees = {e3}
  INNs = {n1}
  Clients = {c1}
  Threads = {t1, t2}
  None = None
  AccessTTL = 1
  RefreshTTL = 2
  HandlerTime = 1
SYMMETRY Symmetry
INVARIANTS
  TypeOK
  OrganizationsHaveUsers
  ClaimsFollowRow
PROPERTIES
  ChangedByAdmin
CHECK_DEADLOCK FALSE

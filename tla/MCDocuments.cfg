\* Files, sites, artifacts and bundles: two handlers at a time and a fault.
SPECIFICATION Spec
CONSTANTS
  Orgs = {o1}
  Docs = {d1, d2, d3}
  Sites = {s1}
  Kinds = {}
  Roles = {}
  Sessions = {}
  Threads = {t1, t2}
  None = None
  MaxFaults = 1
SYMMETRY Symmetry
INVARIANTS
  TypeOK
  SameTenant
  NoOrphanedUpload
  UploadedHasObject
  ArtifactFollowsSource
  BundleIsRoot
CHECK_DEADLOCK FALSE

CONSTANTS
  c1 = c1
  c2 = c2
  Clients = {c1, c2}
  Services = {1}
  Models = {"m1"}
  Allowlist = {}
  Manifests <- FrontendManifests
  Absent = Absent
  Interval = 2
  KubeBound = 1
  FetchBound = 1
  MaxChanges = 2
  Capacity = 2
  Limits <- MCLimits
  NoModel = NoModel
SYMMETRY ClientSymmetry
SPECIFICATION SystemSpec
PROPERTY AdmitsOnlyServed

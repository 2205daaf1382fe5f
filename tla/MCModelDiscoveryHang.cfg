CONSTANTS
  Services = {1}
  Models = {"m1"}
  Allowlist = {1}
  Absent = Absent
  Manifests <- AllowedManifests
  Interval = 2
  KubeBound = 1
  FetchBound = 1
  MaxChanges = 2
SPECIFICATION FairSpec
PROPERTY ListsForever

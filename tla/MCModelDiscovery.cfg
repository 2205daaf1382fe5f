CONSTANTS
  Services = {1, 2}
  Models = {"m1"}
  Allowlist = {}
  Absent = Absent
  Manifests <- MixedManifests
  Interval = 3
  KubeBound = 1
  FetchBound = 2
  MaxChanges = 3
SPECIFICATION FairSpec
INVARIANTS TypeOK CatalogIsRoutable AvailableUndisturbed FreshUndisturbed
PROPERTY RoutesConverge

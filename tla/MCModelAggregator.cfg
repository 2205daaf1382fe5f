CONSTANTS
  c1 = c1
  c2 = c2
  c3 = c3
  m1 = m1
  m2 = m2
  Clients = {c1, c2, c3}
  Models = {m1, m2}
  Capacity = 2
  Limits <- MCLimits
  NoModel = NoModel
SPECIFICATION FairSpec
INVARIANTS TypeOK SlotAccounting ExchangeBound
PROPERTIES PoolSpec EndedStreamReleases FinishedReleasesOrLost

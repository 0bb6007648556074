CONSTANTS
  NumProviders = 2
  Models = {m1, m2}
  Upstream = {m1}
  None = none
  Failed = failed
  Gets = {g1, g2}
  RetryLimit = 1
  MaxMutations = 3
  Budgets <- MCBudgets
SPECIFICATION Spec
INVARIANTS TypeOK RoutesMatchIdentity OwnersEnabled SeedsTrackStore NewestClaimOwns
PROPERTY AdvertisedIsServed
CHECK_DEADLOCK FALSE

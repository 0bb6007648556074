CONSTANTS
  NumProviders = 2
  Models = {m1}
  Upstream = {m1}
  None = none
  Failed = failed
  Gets = {g1}
  RetryLimit = 2
  MaxMutations = 1
  Budgets <- Unrestricted
SPECIFICATION Spec
PROPERTIES Answered LockReleased
CHECK_DEADLOCK FALSE

CONSTANTS
  NumProviders = 2
  Models = {m1}
  Upstream = {m1}
  None = none
  Failed = failed
  Gets = {}
  RetryLimit = 1
  MaxMutations = 2
  Budgets <- Unrestricted
SPECIFICATION Spec
INVARIANT CommittedIsReconciled
CHECK_DEADLOCK FALSE

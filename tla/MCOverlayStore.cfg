CONSTANTS
  NumProviders = 2
  NumIds = 3
  Toml <- MCToml
  NewProviders <- MCNewProviders
  Entries <- MCEntries
  Edits <- MCEdits
  Targets = {1, 2, 3}
  Versions = {1, 2}
  None = none
  MaxMutations = 4
  MaxDisturbances = 2
  MaxEvents = 5
SPECIFICATION Spec
INVARIANTS TypeOK ReplayRestores ClaimsInOrder
CHECK_DEADLOCK FALSE

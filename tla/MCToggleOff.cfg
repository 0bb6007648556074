CONSTANTS
  NumProviders = 1
  NumIds = 3
  Toml <- MCSiblings
  NewProviders = {}
  Entries = {}
  Edits = {}
  Targets = {1, 2, 3}
  Versions = {1}
  None = none
  MaxMutations = 2
  MaxDisturbances = 0
  MaxEvents = 2
SPECIFICATION Spec
PROPERTY ToggleOffAsRestored
CHECK_DEADLOCK FALSE

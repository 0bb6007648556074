CONSTANTS
  Keys = {k1, k2, k3}
  Models = {m1, m2}
  None = none
  MaxSessionModels = 1
  MaxUse = 7
  MaxHeld = 3
SYMMETRY Symmetry
SPECIFICATION Spec
INVARIANTS IInv SharedOrder WithinCapacity EntryIsNewestSuccess AnswersAsPromised
PROPERTY KeepsPromise
CHECK_DEADLOCK FALSE

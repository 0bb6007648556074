CONSTANTS
  Keys = {k1, k2}
  Models = {m1, m2}
  None = none
  MaxSessionModels = 1
  MaxUse = 6
  MaxHeld = 3
SYMMETRY Symmetry
SPECIFICATION Spec
INVARIANT LaterRequestWins
CHECK_DEADLOCK FALSE

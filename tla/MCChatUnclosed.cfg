SPECIFICATION Spec
CONSTANTS
  None = None
  NumSlots = 2
  Shapes <- MCShapes
  FlushAt = 2
  MaxChunks = 3
INVARIANTS UnclosedTextSurvives
CHECK_DEADLOCK FALSE

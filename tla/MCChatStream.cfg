SPECIFICATION Spec
CONSTANTS
  None = None
  NumSlots = 2
  Shapes <- MCShapes
  FlushAt = 2
  MaxChunks = 4
INVARIANTS TypeOK EventsCohere OnlyDuplicatesDropped BilledOnce
PROPERTIES TurnEnds KeepsPromise
CHECK_DEADLOCK FALSE

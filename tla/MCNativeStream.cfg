SPECIFICATION Spec
CONSTANTS
  Items = {r1, r2}
  None = None
  Shapes <- MCShapes
  FlushChars = 3
  MaxFrames = 4
INVARIANTS TypeOK InOrder OneIdentity Accounted
PROPERTIES TerminalEnds KeepsPromise
CHECK_DEADLOCK FALSE

CONSTANTS
  SegmentSize = 2
  MaxEvents = 6
SPECIFICATION Spec
INVARIANTS IInv OlderNamesOlderEvents NoGap OnePassRepairs
PROPERTY PriorBackupKept

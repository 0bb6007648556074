CONSTANTS
  r1 = r1
  r2 = r2
  r3 = r3
  r4 = r4
  k1 = k1
  k2 = k2
  Requests = {r1, r2, r3, r4}
  Keys = {k1, k2}
  NumSessions = 2
  Families <- MCFamilies
  TTL = 2
  MaxEntries = 1
  MaxFollowups = 1
  MaxBudgets = 1
  Retention = 1
  Batch = 2
  MaxEvents = 2
  None = none
  SafeName <- MCSafeName
  Messaging = {"s"}
  Control = {"t"}
  Denied <- MCDenied
SPECIFICATION Spec
INVARIANTS TypeOK SentFaithfully ExecutedOnce Accounted FollowUpsBounded
PROPERTY RefusalsJustified
CHECK_DEADLOCK FALSE

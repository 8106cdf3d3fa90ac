SPECIFICATION Spec
CONSTANTS
  r1 = r1
  r2 = r2
  r3 = r3
  Call = {r1, r2}
  Chunks = 2
  MaxPending = 2
  OrderedExit = TRUE
  MaxLosses = 2
  MaxGen = 6
SYMMETRY Symmetry
INVARIANTS
  TypeOK
  ReadyIsCurrent
  ChildrenAccountedFor
  PendingIsAwaited
PROPERTIES
  CallsImplemented
  NoSpawnDuringStop
CHECK_DEADLOCK FALSE

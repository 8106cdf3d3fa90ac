SPECIFICATION FairSpec
CONSTANTS
  r1 = r1
  r2 = r2
  r3 = r3
  Call = {r1}
  Chunks = 2
  MaxPending = 1
  OrderedExit = TRUE
  MaxLosses = 2
  MaxGen = 7
PROPERTIES
  CallsAnswered
CHECK_DEADLOCK FALSE

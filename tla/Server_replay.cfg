\* Two binaries start on one old file: does replaying migrations ever block startup?
SPECIFICATION Spec
CONSTANTS
  A = A
  B = B
  U1 = U1
  U2 = U2
  Procs = {A, B}
  Newest <- MCNewest
  Replayable = {1, 2}
  Dims = 2
  Retention = 3
  Users = {U1, U2}
  Reqs = {1, 2, 3}
  MaxSessions = 1
  SessionTTL = 1
  MaxKeys = 1
  RateMax = 2
  Window = 1
  MaxEvents = 2
  Streams = {"x", "y"}
  NoReq = 0
  Http = A
  Budgets <- MCStarts
INVARIANT NeverBlocked
CHECK_DEADLOCK FALSE

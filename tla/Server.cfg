\* Starts of two binaries on three files, sessions of two users, and replays.
SPECIFICATION Spec
CONSTANTS
  A = A
  B = B
  U1 = U1
  U2 = U2
  Procs = {A, B}
  Newest <- MCNewest
  Replayable = {1, 2}
  Dims = 2
  Retention = 3
  Users = {U1, U2}
  Reqs = {1, 2, 3}
  MaxSessions = 1
  SessionTTL = 1
  MaxKeys = 1
  RateMax = 2
  Window = 1
  MaxEvents = 2
  Streams = {"x", "y"}
  NoReq = 0
  Http = A
  Budgets <- MCBudgets
SYMMETRY UserSymmetry
INVARIANTS StartupSound VectorsRecoverable QuotasHeld LeakedOnlyIfLate ReplayComplete
CHECK_DEADLOCK FALSE

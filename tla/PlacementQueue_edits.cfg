SPECIFICATION Spec
CONSTANTS
  Process = {server}
  Thought = {a, b}
  Project = {home, work}
  EdgeId = {e1, e2}
  RowId = {r1, r2}
  RunId = {run1, run2}
  EdgeType = {"related", "supports"}
  PlanType = {"related", "supports"}
  Symmetric = {"related"}
  MaxPending = 2
  MaxPerEnqueue = 1
  MaxPerRun = 2
  TTL = 0
  MaxTime = 0
  MaxStamp = 1
  MaxPlans = 1
SYMMETRY Symmetry
INVARIANTS
  GraphMatchesQueue
  EdgeClaimedOnce
PROPERTIES
  RollbackTouchesOnlyItsRun
  AppliesWhatWasReviewed
CHECK_DEADLOCK FALSE

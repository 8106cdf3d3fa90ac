SPECIFICATION Spec
CONSTANTS
  Process = {server}
  Thought = {a, b}
  Project = {p}
  EdgeId = {e1, e2}
  RowId = {r1, r2}
  RunId = {run1}
  EdgeType = {"related", "supports"}
  PlanType = {"related", "supports"}
  Symmetric = {"related"}
  MaxPending = 1
  MaxPerEnqueue = 1
  MaxPerRun = 2
  TTL = 1
  MaxTime = 3
  MaxStamp = 0
  MaxPlans = 1
SYMMETRY Symmetry
INVARIANTS
  OneLiveRowPerItem
PROPERTIES
  DecisionsAreFinal
  RetentionSparesTheWindow
CHECK_DEADLOCK FALSE

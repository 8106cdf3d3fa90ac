SPECIFICATION Spec
CONSTANTS
  Process = {p1, p2}
  Thought = {a, b}
  Project = {proj}
  EdgeId = {e1, e2}
  RowId = {r1, r2}
  RunId = {run1}
  EdgeType = {"related", "supports"}
  PlanType = {"supports"}
  Symmetric = {"related"}
  MaxPending = 2
  MaxPerEnqueue = 1
  MaxPerRun = 2
  TTL = 0
  MaxTime = 0
  MaxStamp = 0
  MaxPlans = 1
SYMMETRY Symmetry
INVARIANTS
  TypeOK
  OneEdgePerPair
  NoDangling
CHECK_DEADLOCK FALSE

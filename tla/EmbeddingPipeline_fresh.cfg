SPECIFICATION Spec
CONSTANTS
  Thought = {a}
  Project = {home}
  Worker = {w}
  BatchSize = 1
  MaxAttempts = 2
  ResetDeadLetters = FALSE
  MaxText = 1
  MaxFaults = 0
SYMMETRY Symmetry
INVARIANTS
  FreshnessSignal
CHECK_DEADLOCK FALSE

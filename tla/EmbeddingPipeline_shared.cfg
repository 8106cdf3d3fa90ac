SPECIFICATION Spec
CONSTANTS
  Thought = {a, b}
  Project = {home}
  Worker = {w1, w2}
  BatchSize = 2
  MaxAttempts = 2
  ResetDeadLetters = FALSE
  MaxText = 1
  MaxFaults = 1
SYMMETRY Symmetry
INVARIANTS
  SignalLostOnlyInWindow
  TypeOK
  LimitMeansDead
  GhostsOnlyFromWindow
PROPERTIES
  DeadLettersStay
CHECK_DEADLOCK FALSE

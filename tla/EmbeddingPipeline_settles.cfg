SPECIFICATION FairSpec
CONSTANTS
  Thought = {a, b}
  Project = {home, work}
  Worker = {w}
  BatchSize = 1
  MaxAttempts = 2
  ResetDeadLetters = TRUE
  MaxText = 1
  MaxFaults = 2
PROPERTIES
  EventuallyFresh
CHECK_DEADLOCK FALSE

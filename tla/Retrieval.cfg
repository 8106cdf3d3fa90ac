SPECIFICATION Spec
CHECK_DEADLOCK FALSE
CONSTANTS
  P1 = P1
  P2 = P2
  Processes = {P1, P2}
  NewIds <- MCIdOrder
  DefaultProject = "def"
  MaxImp = 2
  Floor = 1
  MinAge = 2
  IdOrder <- MCIdOrder
  Similarity <- MCSimilarity
  Match <- MCMatch
  Overlap <- MCOverlap
  Cues <- MCCues
  Edits <- MCEdits
  NewLinks <- MCNewLinks
  NewTypes <- MCNewTypes
  Deletable <- MCDeletable
  Named <- MCNamed
  Says <- MCSays
  MaxLines = 2
  TopPrimers = 1
  Recent = 3
  Aging = 6
  MaxTopK = 4
  PrefixCap = 3
  Overfetch = 2
  PoolFactor = 2
  PoolMax = 6
  DefaultGate = 10
  Unrelated = 30
  Strong = 70
  PromoteAt = 2
  MaxDegree = 1
  MinSimilarity = 60
  NeighborK = 2
  MaxCandidates = 4
  MaxProposals = 1
  MaxClusterSize = 2
  Scenarios <- MCScenarios
INVARIANTS AnswerSound AnswerComplete VectorsCurrent PlanSound AgendaSound PagesComplete
PROPERTIES ReflectionSound

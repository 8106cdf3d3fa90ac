\* Two processes over one file: two previews, one plain write, one tick.
SPECIFICATION Spec
CONSTANTS
  P1 = P1
  P2 = P2
  Processes = {P1, P2}
  NewIds <- MCNewIds
  DefaultProject = "def"
  MaxImp = 2
  Floor = 1
  MinAge = 1
  TestContents = {"y"}
  InitStores <- MCInitStores
  InitNow = 3
  MaxNow = 4
  TokenTTL = 1
  K1 = K1
  K2 = K2
  TokenIds = {K1, K2}
  RetypeTypes = {"supports", "cluster"}
  MaxEdits = 1
  Creations <- MCCreations
  BulkItems <- MCBulkItems
  Updates <- MCUpdates
  Links <- MCLinks
  Requests <- MCRequests
  Near <- MCNear
  MinMembers = 2
  ClusterAge = 1
  StaleAge = 1
  DenseAt = 1
  OverlinkedAt = 2
  ClusterTitle = "title"
SYMMETRY Symmetry
INVARIANTS GraphSound
PROPERTIES ConfirmsAsPreviewed RepairHeals MergeKeepsNeighbours RemovedOnlyIfEligible
CHECK_DEADLOCK FALSE

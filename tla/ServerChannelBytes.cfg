SPECIFICATION FairSpec
CONSTANTS
  Workers = {w1, w2}
  Main = main
  None = none
  Batches <- Pipelined
  MaxRequests = 2
  MaxWrites = 1
  SendBytes = 2
  LogSocketErrors = TRUE
  ClientMayLeave = TRUE
  Maintenance = FALSE
  MayCancel = FALSE
INVARIANTS
  WireIntegrity
  CleanClose
PROPERTIES
  EveryTaskDisposed
  OutputLeaves
  WillCloseCloses
CHECK_DEADLOCK FALSE

SPECIFICATION Spec
CONSTANTS
  Workers = {w1}
  Main = main
  None = none
  Batches <- PipelinedBad
  MaxRequests = 2
  MaxWrites = 1
  SendBytes = 1
  LogSocketErrors = TRUE
  ClientMayLeave = FALSE
  Maintenance = FALSE
  MayCancel = FALSE
INVARIANT MainLoopSurvives
CHECK_DEADLOCK FALSE

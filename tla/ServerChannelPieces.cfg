SPECIFICATION Spec
CONSTANTS
  Workers = {w1, w2}
  Main = main
  None = none
  Batches <- AllPieces
  MaxRequests = 3
  MaxWrites = 1
  SendBytes = 1
  LogSocketErrors = FALSE
  ClientMayLeave = TRUE
  Maintenance = TRUE
  MayCancel = TRUE
SYMMETRY WorkerSymmetry
INVARIANTS
  TypeOK
  SingleService
  Ownership
  NoLostWakeup
  ReapOnlyIdle
PROPERTIES
  CloseOutsideSelect
  ProcessedInSequence
CHECK_DEADLOCK FALSE

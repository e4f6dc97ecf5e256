SPECIFICATION Spec
CONSTANTS
  Requests <- MCRequests
  MaxBody = 2
  None = none
INVARIANTS
  TypeOK
  ClientReads
  ClosedOnDemand
CHECK_DEADLOCK FALSE

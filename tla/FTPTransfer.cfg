SPECIFICATION FairSpec
CONSTANTS
  MaxTransfers <- MCMaxTransfers
  MaxCommands <- MCMaxCommands
  None = None
 
INVARIANT HandedOver
PROPERTY TransfersEnd
CHECK_DEADLOCK FALSE

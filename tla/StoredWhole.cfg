SPECIFICATION Spec
CONSTANTS
  MaxTransfers = 1
  MaxCommands = 1
  None = None
INVARIANT StoredWhole
CHECK_DEADLOCK FALSE

SPECIFICATION DownloadSpec
CONSTANTS
  SendBytes = 2
  MaxUnits = 3
INVARIANT AllTransferred
CHECK_DEADLOCK FALSE

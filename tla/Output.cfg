SPECIFICATION MCSpec
CONSTANTS
  Chunks <- TwoBytes
  Sizes <- UpToThree
  MaxFile = 4
  DiskFull = TRUE
  SendBytes = 2
  MaxUnits = 3
INVARIANTS
  BufferInv
  SuccessIsWhole
PROPERTIES
  IsByteQueue
  DownloadEnds
CHECK_DEADLOCK FALSE

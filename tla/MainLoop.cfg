SPECIFICATION MCSpec
CONSTANTS
  Pullers = {p1, p2}
  Thunks = {a, b}
  NoThunk = none
  MaxPulls = 4
  PipeSize = 2
  RecvSize = 1
  Channels = {c1, c2, c3, c4}
  Fds <- FourFds
  Reserved = 2
  Limit = 5
INVARIANTS
  TriggerInv
  MapsInv
PROPERTIES
  EveryThunkRuns
  PullReturns
  ZombiesReaped
CHECK_DEADLOCK FALSE

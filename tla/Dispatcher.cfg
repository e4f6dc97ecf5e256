SPECIFICATION FairSpec
CONSTANTS
  ThreadNos <- ThreeNumbers
  Tasks = {t1, t2}
  Pill = pill
  Counts <- UpToTwo
  MaxAdds = 3
INVARIANTS
  PoolInv
  StopsAreTold
PROPERTIES
  Converges
  EveryTaskTaken
  EveryTaskServicedOrCancelled
CHECK_DEADLOCK FALSE

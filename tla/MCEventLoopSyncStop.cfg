SPECIFICATION FairSpec
CONSTANTS
  Events = {e1}
  e1 = e1
  UsedKinds <- OnlyPackaged
  Intervals = {1}
  MilliTick = 2
  IntMax = 50
  MaxStamp = 100
  MaxTime = 2
  None = None
PROPERTY
  SyncCallReturns
CHECK_DEADLOCK FALSE

SPECIFICATION Spec
CONSTANTS
  Events = {e1, e2}
  e1 = e1
  UsedKinds <- OnlyTimers
  Intervals = {1, 2}
  MilliTick = 2
  IntMax = 50
  MaxStamp = 100
  MaxTime = 3
  None = None
INVARIANT
  SleepCoversQueue
CHECK_DEADLOCK FALSE

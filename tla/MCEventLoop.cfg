SPECIFICATION FairSpec
CONSTANTS
  Events = {e1, e2}
  e1 = e1
  UsedKinds <- MixedKinds
  Intervals = {1, 100}
  MilliTick = 2
  IntMax = 3
  MaxStamp = 100
  MaxTime = 3
  None = None
INVARIANTS
  TypeOK
  NeverEarly
  SleepCoversQueueUnlessMissed
  TimeoutWithinLeftUnlessIntMax
  NothingRunsAfterStop
PROPERTIES
  RemovedNeverRestarts
  ImmediateEventRuns
  StopLoopReturns
CHECK_DEADLOCK FALSE

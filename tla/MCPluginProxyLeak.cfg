SPECIFICATION FairSpec
CONSTANTS
  Tasks = {t1, t2}
  MaxIdleTime = 2
  MaxCalls = 4
PROPERTY
  IdleUnloaded
CHECK_DEADLOCK FALSE

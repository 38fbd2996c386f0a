SPECIFICATION FairSpec
CONSTANTS
  Tasks = {t1, t2, t3}
  MaxIdleTime = 2
  MaxCalls = 5
INVARIANTS
  TypeOK
  TasksHoldInstance
  UseCountBalanced
PROPERTY
  IdleUnloadedUnlessLeaked
CHECK_DEADLOCK FALSE

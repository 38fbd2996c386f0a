SPECIFICATION Spec
CONSTANTS
  Ids = {"x"}
  Plans <- MCPlans
  Modules = {m1, m2}
  PostTimes = {1, 2}
  MaxCount = 3
  Duration = 1
  MaxSessions = 2
  MaxTime = 2
INVARIANT NoLockCycle
SYMMETRY Symmetric
CHECK_DEADLOCK FALSE

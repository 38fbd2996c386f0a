SPECIFICATION FairSpec
CONSTANTS
  a = a
  b = b
  d = d
  f = f
  u = u
  v = v
  w = w
  pipe1 = pipe1
  pipe2 = pipe2
  None = None
  Shared = Shared
  Plugins = {a, b, d, f, u}
  PipeNames = {pipe1, pipe2}
  Groups <- MCGroups
  PipeGroup <- MCPipeGroup
  PipeDef <- MCPipeDef
  LoopName <- MCLoopName
  Delayed = {a}
  Unready = {u}
  Callers = {c1}
  Posters = {a, b, d}
  Unloadable = {b}
  MaxUnloads = 1
  MaxQueue = 1
  MaxLoops = 2
INVARIANTS
  TypeOK
  PipelinesLoaded
  EarlyOnlyIfDelayed
  LateOnlyIfSlipped
  LostOnlyIfSlipped
  
  OneLoopPerName
PROPERTY
  QueuesDrain
CHECK_DEADLOCK FALSE

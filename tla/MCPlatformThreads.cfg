SPECIFICATION Spec
CONSTANTS
  a = a
  b = b
  d = d
  f = f
  u = u
  v = v
  w = w
  pipe1 = pipe1
  pipe2 = pipe2
  None = None
  Shared = Shared
  Plugins = {a, b, d, f, u}
  PipeNames = {pipe1, pipe2}
  Groups <- MCGroups
  PipeGroup <- MCPipeGroup
  PipeDef <- MCPipeDef
  LoopName <- MCLoopName
  Delayed = {b}
  Unready = {u}
  Callers = {c1}
  Posters = {b, d}
  Unloadable = {}
  MaxUnloads = 1
  MaxQueue = 1
  MaxLoops = 2
INVARIANT
  SharedThreadIsShared
CHECK_DEADLOCK FALSE

SPECIFICATION TraceSpec
CONSTANTS
  Threads = {main, t1}
  Main = main
  EarlyThreads = {t1}
  NoOne = noone
  Classes = {bridge, a}
  Bridge = bridge
  A = a
  Kind <- AllClasses
  MethodCount <- OneMethod
  NoCode = {}
  SystemSkips = {}
  Included = {a}
  Reported <- FirstOfA
  MaxCalls <- OneEach
  MaxDepth = 1
  Worker = worker
  WindowSize = 1
  TransientErrors = FALSE
  MaxMessages = 2
INVARIANTS WireIsTrace NoCallDuringStop NativesBound
CHECK_DEADLOCK FALSE

SPECIFICATION FairTraceSpec
CONSTANTS
  Threads = {main, t1}
  Main = main
  EarlyThreads = {}
  NoOne = noone
  Classes = {bridge, a}
  Bridge = bridge
  A = a
  Kind <- AllClasses
  MethodCount <- OneMethod
  NoCode = {}
  SystemSkips = {}
  Included = {a}
  Reported <- FirstOfA
  MaxCalls <- OneByT1
  MaxDepth = 1
  Worker = worker
  WindowSize = 1
  TransientErrors = FALSE
  MaxMessages = 2
PROPERTIES EndCompletes CallsReturn TraceArrives
CHECK_DEADLOCK FALSE

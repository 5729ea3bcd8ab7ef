SPECIFICATION Spec
CONSTANTS
  Threads = {main, t1}
  Main = main
  EarlyThreads = {}
  NoOne = noone
  Classes = {bridge, a, b}
  Bridge = bridge
  A = a
  T1 = t1
  B = b
  Kind <- BInterface
  MethodCount <- TwoInA
  NoCode = {}
  SystemSkips <- FirstOfA
  Included = {bridge, a, b}
  Reported <- FirstOfEach
  MaxCalls <- OneEach
  MaxDepth = 1
PROPERTY MasterSwitch

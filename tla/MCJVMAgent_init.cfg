SPECIFICATION FairSpec
CONSTANTS
  Threads = {main, t1}
  Main = main
  EarlyThreads = {t1}
  NoOne = noone
  Classes = {bridge, a, b}
  Bridge = bridge
  A = a
  T1 = t1
  B = b
  Kind <- BInterface
  MethodCount <- TwoInA
  NoCode = {}
  SystemSkips <- FirstOfA
  Included = {a}
  Reported <- FirstOfEach
  MaxCalls <- OneEach
  MaxDepth = 1
PROPERTY VMInitCompletes
CHECK_DEADLOCK FALSE

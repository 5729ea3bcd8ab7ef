SPECIFICATION Spec
CONSTANTS
  Threads = {main, t1}
  Main = main
  EarlyThreads = {}
  NoOne = noone
  Classes = {bridge, a, b}
  Bridge = bridge
  A = a
  T1 = t1
  B = b
  Kind <- AllClasses
  MethodCount <- ThreeInA
  NoCode <- ThirdOfA
  SystemSkips <- FirstOfA
  Included = {a, b}
  Reported <- FirstOfEach
  MaxCalls <- TwoByT1
  MaxDepth = 2
INVARIANTS TypeOK RangeChecksNeverFire WellNested InfoInTime NumbersLeadBack NoTableRace
PROPERTIES TraceFaithful LiveClassesTraced

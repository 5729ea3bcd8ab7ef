SPECIFICATION FairFramesSpec
CONSTANTS
  Methods <- AllMethods
  MaxDelta = 12
  ClassNumber = 0
  ClassNumberIndex = 1
  MaxSame = 10
  MaxU2 = 60
INVARIANTS
  MapIsLayout
  TargetsKept
  SwitchesAligned
  TryBlocksKept
  VariableRangesKept
  FramesTypeOK
  FramesKept
  BlocksFramed
PROPERTY
  RewriteEnds
CHECK_DEADLOCK FALSE

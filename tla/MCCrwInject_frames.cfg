SPECIFICATION FairFramesSpec
CONSTANTS
  Methods <- LoopMethods
  MaxDelta = 12
  ClassNumber = 0
  ClassNumberIndex = 1
  MaxSame = 10
  MaxU2 = 65535
INVARIANT NoBlocksAdded
CHECK_DEADLOCK FALSE

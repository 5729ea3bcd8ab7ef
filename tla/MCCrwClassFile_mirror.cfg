SPECIFICATION CrwSpec
CONSTANTS
  ClassFiles <- AllClassFiles
  ClassNumbers = {0, 1, 2, 3, 4, 15, 16, 33}
  MaxIconst = 1
  MaxByte = 3
  MaxShort = 15
  IndexWidth = 32
  MaxStack = 10
  MAXIMUM_NEW_CPOOL_ENTRIES = 16
INVARIANT MirrorHoldsPool
CHECK_DEADLOCK FALSE

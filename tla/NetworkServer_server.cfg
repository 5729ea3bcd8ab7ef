SPECIFICATION FairSpec
CONSTANTS
  Callers = {p1, p2}
  Worker = worker
  NoOne = noone
  MaxCalls = 2
  WindowSize = 1
  TransientErrors = TRUE
INVARIANTS TypeOK NoQueueRace NothingLostInQueue PrefixDelivery OrderedDelivery
PROPERTIES StopReturns StopIsFinal ImplementsChannel Delivered

SPECIFICATION FairSpec
CONSTANTS
  List <- OutOfOrder
  Unread = {2}
  OwnerRun = {}
  Following = {3}
  SweepEvery = 1
  SweepMax = 1
  Window = 1
  MaxHead = 2
  MaxEvents = 1
INVARIANTS
  BusyIsReachable
CHECK_DEADLOCK FALSE
PROPERTIES
  BusyIsFollowed
  
  BrokenIsStopped

SPECIFICATION FairSpec
CONSTANTS
  Distances <- TwoDistances
  Challenge = TRUE
  WeekendFlat = TRUE
  CloseAfter = 2
  MaxOpens = 2
  MaxEvents = 1
  None = None
INVARIANTS
  OpenIsWatched
PROPERTIES
  GuardNotTaken
  LooseEnds
  
CHECK_DEADLOCK FALSE

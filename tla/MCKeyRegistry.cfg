SPECIFICATION FairSpec
CONSTANTS
  k1 = k1
  k2 = k2
  k3 = k3
  pool = pool
  stranger = stranger
  challenge = challenge
  t2 = t2
  t1 = t1
  None = None
  Keys <- MCKeys
  Callers <- MCCallers
  Accounts <- MCAccounts
  Traders <- MCTraders
  MaxSpoiledSkips = 1
  MaxBatch = 2
INVARIANTS
  MapsAgree
  FreeListExact
PROPERTIES
  OneServiceInLife
  LiveKeyWithinReach
CHECK_DEADLOCK FALSE

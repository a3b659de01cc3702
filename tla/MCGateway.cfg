SPECIFICATION GatewaySpec
CONSTANTS
  a1 = a1
  a2 = a2
  p1 = p1
  p2 = p2
  DeskAsks <- TwoAttempts
  PageAsks <- OnePost
  What <- Apart
  None = None
  Scenes <- Pairs
  MaxNonces = 2
  Expiry = 1
  MaxExpiry = 2
  HandleTime = 1
  MaxOwn = 1
  MaxRestarts = 1
  MaxTime = 4
  MaxOrders = 2
  SettleAfter = 3
  Skew = 1
  HistoryLimit = 2
  MaxKills = 1
  x = x
  y = y
  c = c
  Addresses <- TwoAddresses
  Clients <- OneClient
  PerClient = 1
  MaxDays = 1
  MaxCrashes = 1
  MaxNonce = 5
  Records <- ThreeRecords
  MaxStops = 1
  Marks <- SixPrices
  OrderSizes <- TwoSizes
  Capital = 14
  Floors <- TwoFloors
  PoolLeverage = 3
  PerpLeverage = 2
  MaxOpened = 2
INVARIANTS
  
  
  GrantsAreLimited
  KeptIsServed
  
PROPERTIES
  BudgetKept
  
CHECK_DEADLOCK FALSE

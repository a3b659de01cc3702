SPECIFICATION Spec
CONSTANTS
  s1 = s1
  platform = platform
  alice = alice
  bob = bob
  POOL = POOL
  Out = Out
  Seats <- OneSeat
  Holders <- TwoHolders
  Platform = platform
  Tickets <- TicketsOfTwo
  TicketsEach = 1
  BPS = 10000
  SpotPerPerp = 2
  NewAccountFee = 1
  FeeBps = 5000
  MaxQueue = 2
  Capital = 1
  FundedCapital = 1
  TargetBps = 10000
  ShareChallengeBps = 5000
  ShareFundedBps = 5000
  Price = 1
  PayoutWait = 0
  ReturnWait = 0
  FundedTerm = 1
  LateHandBack = FALSE
  MaxSales = 2
  MaxDeals = 2
  MaxEquity = 2
  MaxFlight = 2
  SEED_BPS = 500
  ARM_WAIT = 0
  MAX_SEATS = 1
  MAX_PER_POINT = 2
  SWEEP_MIN = 2
  MinDeposit = 3
  Lock = 1
  Seed = 6
  Deposits = {3}
  Gifts = {}
  Requests = {2, 3}
  MaxMoney = 12
SYMMETRY Alike
INVARIANTS
  BooksCoherent
  
PROPERTIES
  PriceNeverFalls
  TermIsItsOwn
CHECK_DEADLOCK FALSE

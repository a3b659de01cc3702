SPECIFICATION Spec
CONSTANTS
  listed = listed
  o1 = o1
  Assets <- OneAsset
  Listed <- OneAsset
  Orders <- OneOrder
  LateOps <- OnTime
  PosNtl = 2
  OrderMargin = 2
  SpotPerPerp = 2
  NewAccountFee = 1
  CutMayFail = FALSE
  MaxWealth = 7
  MaxDusted = 3
  MaxFlight = 3
  BPS = 10000
  MaxDrawdownBps = 5000
  DailyLossBps = 2500
  MaxLeverageX100 = 100
  MaxCancels = 1
  Price = 1
  Capital = 1
  FundedCapital = 1
  TraderShareFundedBps = 9000
  PayoutWait = 1
  AwaitKeyWindow = 1
  Arrivals = {5}
  MaxSpot = 6
  MaxEarned = 1
  KeysRunOut = FALSE
  Withdrawals = {}
  MaxMidnights = 0
INVARIANTS
  SentMoneyIsThere
  TraderIsOut
PROPERTIES
  ShortOnlyIfAllThere
  ClosedMeansDone
CHECK_DEADLOCK FALSE

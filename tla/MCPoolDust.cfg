SPECIFICATION FairSpec
CONSTANTS
  listed = listed
  o1 = o1
  Assets <- NoAsset
  Listed <- NoAsset
  Orders <- NoOrder
  LateOps <- OnTime
  PosNtl = 2
  OrderMargin = 2
  SpotPerPerp = 1
  NewAccountFee = 0
  CutMayFail = FALSE
  MaxWealth = 3
  MaxDusted = 3
  MaxFlight = 3
  BPS = 10000
  MaxDrawdownBps = 5000
  DailyLossBps = 2500
  MaxLeverageX100 = 100
  MaxCancels = 1
  Price = 1
  Capital = 1
  FundedCapital = 1
  TraderShareFundedBps = 9000
  PayoutWait = 0
  AwaitKeyWindow = 0
  Arrivals = {2}
  MaxSpot = 2
  MaxEarned = 1
  KeysRunOut = FALSE
  Withdrawals = {}
  MaxMidnights = 0
PROPERTIES
  ClosesOrEmptied
CHECK_DEADLOCK FALSE

SPECIFICATION FairSpec
CONSTANTS
  listed = listed
  foreign = foreign
  o1 = o1
  o2 = o2
  Assets <- OneAsset
  Listed <- OneAsset
  Orders <- OneOrder
  LateOps <- OnTime
  PosNtl = 2
  OrderMargin = 1
  SpotPerPerp = 2
  NewAccountFee = 1
  CutMayFail = FALSE
  MaxWealth = 6
  MaxDusted = 2
  MaxFlight = 3
  BPS = 10000
  MaxDrawdownBps = 5000
  DailyLossBps = 2500
  MaxLeverageX100 = 100
  MaxCancels = 1
  Capital = 2
  TargetBps = 5000
  TraderShareBps = 5000
  StartWindow = 1
  Duration = 1
  PayoutWait = 1
  ReturnWait = 1
  MaxMidnights = 0
PROPERTIES
  StartsOrAborts
  Ends
  SettlesOrEmptied
CHECK_DEADLOCK FALSE

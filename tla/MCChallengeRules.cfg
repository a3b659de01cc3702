SPECIFICATION Spec
CONSTANTS
  listed = listed
  foreign = foreign
  o1 = o1
  o2 = o2
  Assets <- TwoAssets
  Listed <- OneAsset
  Orders <- NoOrder
  LateOps <- OnTime
  PosNtl = 2
  OrderMargin = 1
  SpotPerPerp = 2
  NewAccountFee = 1
  CutMayFail = TRUE
  MaxWealth = 6
  MaxDusted = 0
  MaxFlight = 3
  BPS = 10000
  MaxDrawdownBps = 5000
  DailyLossBps = 2500
  MaxLeverageX100 = 100
  MaxCancels = 1
  Capital = 2
  TargetBps = 5000
  TraderShareBps = 5000
  StartWindow = 1
  Duration = 1
  PayoutWait = 1
  ReturnWait = 1
  MaxMidnights = 1
PROPERTIES
  DailyLimitInForce
CHECK_DEADLOCK FALSE

SPECIFICATION FairSpec
CONSTANTS
  a = a
  b = b
  Ticker = {a}
  NONE = NONE
  MaxOrders = 2
  MaxQty = 1
  MaxRequest = 1
  MaxPositionPct = 40
  MaxTotalExposurePct = 60
  Equity = 5
  CloseAttempts = 2
  SlowRelease = TRUE
  MaxFaults = 1
  MaxRestarts = 0
  MaxDay = 2
CHECK_DEADLOCK FALSE
PROPERTIES
  FlattenReturnsEventually
  FlattenSells

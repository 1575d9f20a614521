SPECIFICATION Spec
CONSTANTS
  a = a
  b = b
  Ticker <- MCTicker
  NONE = NONE
  MaxOrders = 2
  MaxQty = 2
  MaxRequest = 2
  MaxPositionPct = 40
  MaxTotalExposurePct = 60
  Equity = 5
  CloseAttempts = 2
  SlowRelease = TRUE
  MaxFaults = 1
  MaxRestarts = 0
  MaxDay = 1
SYMMETRY TickerSymmetry
CHECK_DEADLOCK FALSE
INVARIANT
  FlattenSeesErrors

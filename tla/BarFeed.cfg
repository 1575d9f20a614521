SPECIFICATION MCSpec
CONSTANTS
  a = a
  Symbol <- MCSymbol
  NONE = NONE
  MaxPrice = 2
  DayLen = 8
  Window = 2
  BackfillTime = 1
  SessionOpen = 2
  SignalStart = 4
  SessionClose = 6
  BarCapacity = 1
  Horizon = 11
  MaxLate = 1
  MaxDelay = 3
CHECK_DEADLOCK FALSE
INVARIANTS
  ClosedBeforeEvaluated
  VolumeWasReceived
  RowsMatchReceived

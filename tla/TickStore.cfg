SPECIFICATION FairSpec
CONSTANTS
  KindOrder <- MCKindOrder
  SENTINEL = SENTINEL
  QueueMax = 2
  BatchSize = 3
  SlowDisk = TRUE
  MaxRows = 4
  MaxFaults = 2
CHECK_DEADLOCK FALSE
INVARIANTS
  OnlyTrueOK
  OnlyTailLost
  LedgerTellsDrops
PROPERTIES
  StopEnds

SPECIFICATION FairSpec
CONSTANTS
  Daemons = {d1, d2}
  Platforms = {main}
  NoOne = NoOne
  MaxStarts = 4
  MaxFaults = 2
CHECK_DEADLOCK FALSE
INVARIANTS
  LockCoversConnection
PROPERTY
  StreamRecovers

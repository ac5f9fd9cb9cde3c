SPECIFICATION FairSpec
CONSTANTS
  Thread = {u, v, tick}
  Ticker = tick
  MaxReaders = 2
  SnapshotLimit = 5
  SnapshotCharge = {1, 2}
  CursorCharge = 2
  ScanBytes = 3
  Ttl = 1
  MaxId = 2
  MaxSequence = 2
  MaxTime = 1
INVARIANTS
  BudgetBalances
  PagesTile
PROPERTY CursorsReclaimed
CHECK_DEADLOCK FALSE

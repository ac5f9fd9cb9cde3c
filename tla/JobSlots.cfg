SPECIFICATION FairSpec
CONSTANTS
  Caller = {c1, c2}
  None = None
  History = 2
  Concurrency = 1
  MaxId = 3
  Target = 2
INVARIANTS
  RecordOutlivesThread
  ReportsTrue
PROPERTIES
  EverythingEnds
CHECK_DEADLOCK FALSE

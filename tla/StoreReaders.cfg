SPECIFICATION FairSpec
CONSTANTS
  Reader = {r1, r2}
  DayLength = 2
  MaxTime = 2
  MaxNow = 4
  Retention = {1}
  MaxRows = 1
  MaxSequence = 4
  MaxSegmentId = 3
  TargetBytes = 2
  MaxAttempts = 4
  MaxSnapshots = 2
  Faults = FALSE
  Crashes = FALSE
INVARIANTS
  PinnedReadable
PROPERTY RetirementCompletes

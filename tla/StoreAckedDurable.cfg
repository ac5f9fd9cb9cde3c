SPECIFICATION Spec
CONSTANTS
  Reader = {r1}
  DayLength = 2
  MaxTime = 2
  MaxNow = 4
  Retention = {1}
  MaxRows = 1
  MaxSequence = 2
  MaxSegmentId = 4
  TargetBytes = 2
  MaxAttempts = 3
  MaxSnapshots = 0
  Faults = TRUE
  Crashes = TRUE
INVARIANT AckedAfterDurable

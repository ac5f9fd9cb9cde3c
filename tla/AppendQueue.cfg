SPECIFICATION FairSpec
CONSTANTS
  a1 = a1
  a2 = a2
  a3 = a3
  a4 = a4
  b1 = b1
  A = A
  B = B
  Request = {a1, a2, a3, a4, b1}
  Table = {A, B}
  Maintained = {A}
  TableOf <- MCTableOf
  RowBytes <- MCRowBytes
  Together <- MCTogether
  Clock <- MCClock
  Overhead = 1
  QueueLimit = 7
  BatchTarget = 3
  FrameLimit = 4
  MaxGroup = 2
  MaxSequence = 4
  DayLength = 2
INVARIANTS
  BytesAccounted
  ReceiptsInOrder
  GroupsCommittable
PROPERTIES
  QueueDrains
CHECK_DEADLOCK FALSE

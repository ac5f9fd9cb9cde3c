SPECIFICATION TablesSpec
CONSTANTS
  Process = {p, q}
  Name = {a, b}
  MaxTables = 2
  MaxId = 4
  MaxAttempts = 4
  None = None
  Field <- MCField
  Text <- MCText
  Length <- MCLength
  Hash <- MCHash
  Limit = 33
  FirstCapacity = 1
  FirstSlots = 2
  FirstColumn = 1
  SymbolBytes = 4
  SlotBytes = 1
  IndexBytes = 1
  Reader = {r1, r2, r3}
  Segment = {s1, s2}
  CacheBytes = 7
  Reservation = 3
  NoKey = NoKey
SYMMETRY TablesSymmetry
INVARIANTS
  NeverCorrupt
  OfferedDurable
  AllocatedExact
  ReplayAgrees
  BytesBalance
PROPERTIES
  NothingOverwritten
  RefusedOnlyIfPinned

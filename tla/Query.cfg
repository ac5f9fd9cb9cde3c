SPECIFICATION QuerySpec
CONSTANTS
  Rows = 4
  MaxTime = 2
  Matching = {1, 3, 4}
  PageRows = 2
  Budgets = {5, 20}
  DictionaryBytes = 1
  Null = Null
  Key <- MCKey
  Value <- MCValue
  Hash <- MCHash
  MinInt <- MCMinInt
  MaxInt = 4
  MaxGroups = 3
  Limit = 2
  Memories = {9, 11, 20}
  FirstGroups = 1
  FirstSlots = 2
  GroupBytes = 2
  SlotBytes = 1
  OrderBytes = 1
  MaxRows = 4
  MaxBucketRows = 1
  MaxBuckets = 4
  ByteBits = 2
  WordBytes = 2
  ShortBytes = 1
  MaxRowBytes = 8
  MaxSafe = 5
  MaxFloat = 2
  MaxString = 2
  Minus = 10
  Times = {0, 6}
  Symbols <- MCSymbols
  Definitions <- MCDefinitions
  Inputs <- MCInputs
  NoValue = NoValue
  Refused = Refused
  Damaged = Damaged
INVARIANTS
  PagesExact
  AggregatesExact
  RowsExact
  CanonicalRows
CHECK_DEADLOCK FALSE

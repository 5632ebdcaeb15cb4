CONSTANTS
  itemA = itemA
  itemB = itemB
  itemC = itemC
  NoItem = NoItem
  Items <- MCItems
  Key <- MCKey
  InitReserved = 2
  MaxItems = 6
  MaxFailures = 1
  TreeNodes = {1, 2, 3, 4, 5, 6, 7, 8, 9}
  KeyRange = 10
  Heads = {101, 102}
  QueueElems = {2, 3, 4, 5, 6}
  UnitBits = 2
  MapSizes = {0, 7}
  TableSize = 5
  Data = {1, 2, 6}
  MaxRefs = 4
  IntBits = 27
  Pieces <- MCPieces
  MaxPieces <- MCMaxPieces
  Years = {1970, 1972, 1999, 2000, 2001, 2099, 2100, 2400, 9999}
  Seconds = {0, 3599, 86399}
  Formats <- MCFormats
  StringSizes = {0, 1, 3}
  DefSize = 4
  MaxSize = 8
  LogSize = 12
  LogHead <- MCLogHead
SPECIFICATION LibSpec
INVARIANTS
  ContentsKept
  AnswersRight
  AccessesInside
  HalfFull
  Balanced
  WalkInOrder
  QueuesAreSequences
  
  ConversionsExact
  
  OutputKept
PROPERTIES
  MapExact
CHECK_DEADLOCK FALSE

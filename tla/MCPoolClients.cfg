CONSTANTS
  BlockSize = 208
  HeaderSize = 120
  DOffset = 32
  DSize = 32
  LargeSize = 16
  CleanupSize = 24
  PageSize = 4096
  FailLimit = 0
  LargeScan = 0
  Customed = FALSE
  Sizes = {40, 88}
  MaxBlocks = 2
  MaxLarge = 1
  MaxCleanups = 0
  MaxChunks = 3
  ArraySize = 40
  LinkSize = 32
  BufSize = 32
  EltSize = 16
  Counts = {1, 3}
  ArrayIds = {a1, a2}
  a1 = a1
  a2 = a2
  MaxElts = 4
  MaxLinks = 2
SPECIFICATION ClientSpec
INVARIANTS
  TypeOK
  ChunksDisjoint
  ChunksInBlock
  ArraysSound
  LinksOwned
SYMMETRY Symmetry
CHECK_DEADLOCK FALSE

CONSTANTS
  BlockSize = 192
  HeaderSize = 120
  DOffset = 32
  DSize = 32
  LargeSize = 16
  CleanupSize = 24
  PageSize = 4096
  FailLimit = 0
  LargeScan = 1
  Customed = FALSE
  Sizes = {64, 100}
  MaxBlocks = 4
  MaxLarge = 2
  MaxCleanups = 2
  MaxChunks = 3
SPECIFICATION FairSpec
INVARIANTS
  DestroyFreesAll
  HandlersInOrder
PROPERTIES
  DestroyEnds

CONSTANTS
  BlockSize = 192
  HeaderSize = 120
  DOffset = 32
  DSize = 32
  LargeSize = 16
  CleanupSize = 24
  PageSize = 4096
  FailLimit = 0
  LargeScan = 0
  Customed = FALSE
  Sizes = {20, 70}
  MaxBlocks = 3
  MaxLarge = 0
  MaxCleanups = 0
  MaxChunks = 4
SPECIFICATION Spec
INVARIANTS
  ChunkClearOfHeader

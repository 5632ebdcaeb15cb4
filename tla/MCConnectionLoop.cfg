SPECIFICATION FairSpec
CONSTANTS
  Buffers <- MCNoBuffers
  Chains <- MCShortChains
  IovMax = 2
  SockRoom = 3
  MaxIn = 0
  MaxFaults = 0
PROPERTIES SendChainReturns
CHECK_DEADLOCK FALSE

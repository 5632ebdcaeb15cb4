SPECIFICATION FairSpec
CONSTANTS
  Buffers <- MCBuffers
  Chains <- MCChains
  IovMax = 2
  SockRoom = 3
  MaxIn = 1
  MaxFaults = 1
INVARIANTS StreamIntact
PROPERTIES WaitsOnlyWhenFull 
CHECK_DEADLOCK FALSE

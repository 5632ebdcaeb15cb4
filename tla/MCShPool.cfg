CONSTANTS
  p1 = p1
  p2 = p2
  Procs = {p1, p2}
  NoOwner = none
  Pages = 7
  Sizes = {16, 100, 2049, 8192}
  Zeroed = {100}
  MaxLive = 2
SPECIFICATION FairSpec
INVARIANTS
  FreePagesSound
  SlotsSound
  
  LiveCovered
 
CHECK_DEADLOCK FALSE

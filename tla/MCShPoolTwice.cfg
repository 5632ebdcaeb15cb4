CONSTANTS
  p1 = p1
  p2 = p2
  Procs = {p1}
  NoOwner = none
  Pages = 7
  Sizes = {8, 100}
  Zeroed = {}
  MaxLive = 2
SPECIFICATION Spec
INVARIANTS
  LiveDisjoint
CHECK_DEADLOCK FALSE

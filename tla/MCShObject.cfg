CONSTANTS
  p1 = p1
  p2 = p2
  p3 = p3
  Procs = {p1, p2, p3}
  NoProc = none
  MaxObjects = 2
  Addresses = {1, 2}
SPECIFICATION Spec
INVARIANTS
  PoolUsable
  NothingLeft
SYMMETRY Symmetry
CHECK_DEADLOCK FALSE

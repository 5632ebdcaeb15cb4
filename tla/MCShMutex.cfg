CONSTANTS
  p1 = p1
  p2 = p2
  p3 = p3
  Procs <- ThreeProcs
  MaxUint = 7
  DefaultSpin = 4
  GivenSpin = 0
SPECIFICATION FairSpec
INVARIANTS
  TypeOK
  MutualExclusion
  NoStrandedLock
  HolderKeepsLock
PROPERTIES
  FreeLockIsTaken
  DeadOwnerIsUnlocked
  ImplementsMutex

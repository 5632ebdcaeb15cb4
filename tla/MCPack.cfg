SPECIFICATION FairSpec
CONSTANTS
  IntSize = 2
  Names <- MCNames
  Ints = {5}
  Strings <- MCStrings
  Max = 2
  Foreign <- MCForeign
  MaxAdds = 3
INVARIANTS BufferSuffices 
PROPERTIES Arrives
CHECK_DEADLOCK FALSE

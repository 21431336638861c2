SPECIFICATION MCSpec
CONSTANTS
  Keys = {k1, k2}
  Contents = {1, 2}
  Lifetimes = {0, 1, 99}
  Never = 99
  KeyPrefixes <- MCPrefixes
  SizeOf <- MCSizeOf
  MaxMemory = 1
  HasDiskPath = TRUE
  DiskFails = TRUE
  MaxTime = 2
  None = none
SYMMETRY MCSymmetry
INVARIANTS
  NothingExpiredIsReturned
  
  StoredPairSurvives
  
CHECK_DEADLOCK FALSE

CONSTANTS
  k1 = k1
  k2 = k2
  Keys <- TwoKeys
  NumSlots = 2
  Home <- SameHome
  NULL = NULL
  Lives <- Mortal
  MaxSets = 3
  MaxCrashes = 0
  MaxStarts = 3
  MayFail = FALSE
SPECIFICATION Spec
INVARIANT FlushedOnExit
CHECK_DEADLOCK FALSE

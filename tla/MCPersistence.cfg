CONSTANTS
  k1 = k1
  k2 = k2
  Keys <- TwoKeys
  NumSlots = 2
  Home <- SameHome
  NULL = NULL
  Lives <- Mortal
  MaxSets = 3
  MaxCrashes = 1
  MaxStarts = 2
  MayFail = TRUE
SPECIFICATION Spec
INVARIANTS TypeOK KeepsValues
PROPERTIES SignalsAreHeeded StatsAreWritten
CHECK_DEADLOCK FALSE

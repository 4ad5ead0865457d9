CONSTANTS
  t1 = t1
  t2 = t2
  k1 = k1
  k2 = k2
  g1 = g1
  e1 = e1
  e2 = e2
  e3 = e3
  NULL = NULL
  Never = Never
  Threads <- OneThread
  Keys <- TwoKeys
  Tags <- OneTag
  Entries <- ThreeEntries
  Size = 2
  Hash <- SameSlot
  Sets <- SameTag
  Modes <- OnlyOld
  Requests <- OneEach
  TTLs <- AtOnce
  MaxClock = 1
  MayFail = FALSE
SPECIFICATION Spec
INVARIANT HandledAbove

CONSTANTS
  t1 = t1
  t2 = t2
  k1 = k1
  k2 = k2
  g1 = g1
  e1 = e1
  e2 = e2
  e3 = e3
  NULL = NULL
  Never = Never
  Threads <- TwoThreads
  Keys <- TwoKeys
  Tags <- OneTag
  Entries <- ThreeEntries
  Size = 2
  Hash <- SameSlot
  Sets <- OneTagged
  Modes <- AllModes
  Requests <- OneEach
  TTLs <- AtOnce
  MaxClock = 1
  MayFail = TRUE
SYMMETRY Symmetric
SPECIFICATION Spec
INVARIANTS TypeOK MappedIsListed ListedIsReal
PROPERTIES ClearsAreComplete MissesAreTrue

CONSTANTS
  t1 = t1
  t2 = t2
  k1 = k1
  k2 = k2
  e1 = e1
  e2 = e2
  e3 = e3
  e4 = e4
  NULL = NULL
  Threads <- TwoThreads
  Keys <- TwoKeys
  Entries <- FourEntries
  Size = 3
  Hash <- Collide
SYMMETRY Symmetric
SPECIFICATION Spec
INVARIANTS HeldIsLocked SpinsOnLiveEntry GetReturnsItsMatch EntriesAccountedFor NoCircularWait NoFalseMiss

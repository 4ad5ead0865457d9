CONSTANTS
  t1 = t1
  t2 = t2
  k1 = k1
  k2 = k2
  n1 = n1
  n2 = n2
  n3 = n3
  NULL = NULL
  root = root
  Threads <- TwoThreads
  Tags <- LeftSide
  RootTag = 2
  Keys <- OneKey
  Nodes <- FourNodes
  TagLists <- Both
  Calls <- AllCalls
  MayFail = FALSE
SYMMETRY Symmetric
SPECIFICATION Spec
INVARIANTS OneNodePerTag WalkIsComplete
PROPERTIES MissesAreReal SearchesProgress

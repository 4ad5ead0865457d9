CONSTANTS
  t1 = t1
  t2 = t2
  k1 = k1
  k2 = k2
  n1 = n1
  n2 = n2
  n3 = n3
  NULL = NULL
  root = root
  Threads <- TwoThreads
  Tags <- TwoTags
  RootTag = 1
  Keys <- TwoKeys
  Nodes <- ThreeNodes
  TagLists <- AllLists
  Calls <- AllCalls
  MayFail = TRUE
SYMMETRY Symmetric
SPECIFICATION Spec
INVARIANTS KeysUnique CountsAgree MatchesAreSound
CHECK_DEADLOCK FALSE

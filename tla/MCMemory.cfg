CONSTANTS
  t1 = t1
  t2 = t2
  NULL = NULL
  Threads <- TwoThreads
  Partitions = {1, 2}
  Requests = {1, 2, 3}
  Header = 1
  SystemSize = 1
  Capacity = 6
  WordSize = 4
  MaxCursor = 7
SYMMETRY Symmetric
SPECIFICATION Spec
INVARIANTS ExclusiveOwnership StackIsExact StatsAgree
PROPERTY ImplementsAllocator

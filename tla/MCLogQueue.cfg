CONSTANTS
  d1 = d1
  d2 = d2
  None = None
  NumWorkers = 2
  Size = 4
  Data <- TwoData
  Loads <- EvenOrMixed
SPECIFICATION FairSpec
INVARIANT CopiesApart
PROPERTIES ImplementsLossyFifo EventuallyPrinted LoggerEnds
CHECK_DEADLOCK FALSE

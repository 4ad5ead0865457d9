CONSTANTS
  c1 = c1
  c2 = c2
  f1 = f1
  f2 = f2
  NULL = NULL
  Acceptor = Acceptor
  Main = Main
  NumWorkers = 2
  NumClients = 2
  Conns <- TwoConns
  Fds <- TwoFds
  MayFail = TRUE
SPECIFICATION FairSpec
INVARIANTS TypeOK OwnConnection NothingForgotten
PROPERTIES OnlyForCause StopEnds RequestsAreTaken
CHECK_DEADLOCK FALSE

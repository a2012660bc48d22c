SPECIFICATION FairSpec
CONSTANTS
  Main = main
  Threads = {main, g1, g2, g3}
  NoThread = NoThread
INVARIANT TypeOK
INVARIANT RuntimeOutlivesPool
INVARIANT RuntimeOutlivesThreads
PROPERTY ShutdownCompletes
CHECK_DEADLOCK FALSE

SPECIFICATION FairForkSpec
CONSTANTS
  Threads = {main, w1, w2}
  Main = main
  MaxCall = 13
INVARIANTS
  NothingOutlivesRoot
  NoCircularWait
PROPERTIES
  Terminates
\* the sort returns, and nothing happens after that
CHECK_DEADLOCK FALSE

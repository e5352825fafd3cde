SPECIFICATION FairSpec
CONSTANTS
  Threads = {0, 1, main}
  Main = main
  Elements = {1, 2, 3, 4, 5}
  Key <- OnePair
  MaxCall = 31
INVARIANTS
  SortedAtEnd
  TasksKept
  QueueMirrorsStack
PROPERTIES
  ForkJoinDiscipline
  PoolEnds

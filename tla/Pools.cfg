SPECIFICATION FairSpec
CONSTANTS
  MaxTasks = 3
  Hardware = {0, 1, 2, 3}
  Lengths = {0, 1, 2, 3, 5, 7, 8}
  MinPerThread = 2
INVARIANTS
  RunOnce
  QuietAtEnd
  NoFutureForgotten
  SumIsExact
PROPERTIES
  CallsReturn
\* an owner may keep its pool, and has nothing to do when it is gone
CHECK_DEADLOCK FALSE

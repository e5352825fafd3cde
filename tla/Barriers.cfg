SPECIFICATION FairSpec
CONSTANTS
  Threads = {a, b, c, d, e}
  Rounds = 2
  Generations = 2
  CondGenerations = 4
  Threshold = 3
  MaxSpurious = 1
  Length = 6
INVARIANTS
  NoDataRace
PROPERTIES
  BarrierHolds
  NobodyHeldBack
\* the threads have waited as often as they want to, or quit
CHECK_DEADLOCK FALSE

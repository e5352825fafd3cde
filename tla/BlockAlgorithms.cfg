SPECIFICATION FairSpec
CONSTANTS
  Lengths = {0, 1, 2, 3, 4, 5, 6}
  AsyncLengths = {0, 3, 5, 7}
  Hardware = {0, 1, 3}
  MinPerThread = 2
  MinElements = 2
  MinBlockSize = 2
  MaxThrows = 2
  MaxEvents = 3
  Element <- PowersOfTwo
INVARIANTS
  BlocksCover
  PrefixSums
  ThrownIsReported
  FoundIsMatch
  DiesOnlyOf
  EveryElementOnce
  NothingOutlivesCall
PROPERTIES
  Ends
\* the call has ended
CHECK_DEADLOCK FALSE

SPECIFICATION Spec
CONSTANT Length = 3
INVARIANTS
  PrefixSums
\* all threads have ended
CHECK_DEADLOCK FALSE

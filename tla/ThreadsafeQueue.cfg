SPECIFICATION FairSpec
CONSTANTS
  Threads = {a, b, c}
  Values = {v1, v2}
  NoValue = NoValue
  Free = Free
  MaxCalls = 4
  MaxSpurious = 1
INVARIANTS
  NoUndefinedPop
  NoLostWakeup
PROPERTIES
  FifoOrder
  WaitersServed
\* the callers may stop calling
CHECK_DEADLOCK FALSE

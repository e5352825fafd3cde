SPECIFICATION FairSpec
CONSTANTS
  Threads = {a, b, c}
  Values = {v1, v2}
  NoValue = NoValue
  Free = Free
  NoNode = NoNode
  Ops = {"push", "pop", "wait_pop", "printData"}
  MaxCalls = 4
INVARIANTS
  MemorySafe
PROPERTIES
  FifoOrder
  CallsReturn
\* the callers may stop calling, and printData may walk off the list
CHECK_DEADLOCK FALSE

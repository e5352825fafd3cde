SPECIFICATION FairSpec
CONSTANTS
  Threads = {a, b}
  Values = {v1}
  NoValue = NoValue
  Free = Free
  NoNode = NoNode
  Ops = {"push", "wait_pop"}
  MaxCalls = 2
PROPERTIES
  WaitersServed
\* the callers may stop calling
CHECK_DEADLOCK FALSE

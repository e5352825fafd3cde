SPECIFICATION FairSpec
CONSTANTS
  Threads = {t1, t2, t3}
  Accounts = {a1, a2}
  Free = Free
  MaxCalls = 5
  MaxSpurious = 1
  Permissions = 2
  Total = 3
  Loops = 3
INVARIANTS
  PermitsKept
  ListKept
  MoneyKept
PROPERTIES
  StackOrder
  EveryoneServed
\* a program is over, its threads stop calling, or transfers wait in a circle
CHECK_DEADLOCK FALSE

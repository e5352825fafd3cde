SPECIFICATION FairSpec
CONSTANTS
  Threads = {t1, t2}
  Keys = {k1, k2}
  Values = {v1, v2}
  Zero = Zero
  ArraySize = 4
  Ops = {"SetItem", "GetItem", "GetItemCount", "Clear"}
  Runner = t1
INVARIANTS
  TableInv
PROPERTIES
  Linearizable
  WaitFree
  CountInRange

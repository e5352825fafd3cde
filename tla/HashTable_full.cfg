SPECIFICATION FairSpec
CONSTANTS
  Threads = {t1, t2}
  Keys = {k1, k2, k3}
  Values = {v1}
  Zero = Zero
  ArraySize = 2
  Ops = {"SetItem", "GetItem"}
  Runner = t1
PROPERTIES
  WaitFree

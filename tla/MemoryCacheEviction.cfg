CONSTANTS
  Keys = {k1, k2, k3}
  MaxSize = 2
  TTLs = {2}
  MaxTime = 1
  MaxDepth = 1
SPECIFICATION SpecUse
INVARIANTS KeepsRecentlyUsed

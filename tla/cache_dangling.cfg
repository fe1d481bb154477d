\* Readers that fill the cache while others are served from it.
CONSTANTS
  Workers = {w1, w2}
  Caches = {1, 2}
  NumKeys <- TwoAndNone
  Keys = {"a", "b"}
  Null = "null"
  Pages <- Readers
  Overwrites = FALSE
  Ids = {1, 2, 3, 4, 5, 6}
  NoValue = 0
  TxMax = 4
  OpsMax = 1
SPECIFICATION Spec
INVARIANTS HitInMemory
SYMMETRY Threads
CHECK_DEADLOCK FALSE

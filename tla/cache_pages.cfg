\* Two threads and two queries, of which each page changes the one the other reads;
\* a page does not change what it has queried before.
CONSTANTS
  Workers = {w1, w2}
  Caches = {1, 2}
  NumKeys <- TwoAndNone
  Keys = {"a", "b"}
  Null = "null"
  Pages <- Crossed
  Overwrites = FALSE
  Ids = {1, 2, 3, 4, 5, 6}
  NoValue = 0
  TxMax = 3
  OpsMax = 2
SPECIFICATION Spec
INVARIANTS HitIsCurrent ValuesOwned NoCircle
PROPERTIES FlushSpares
SYMMETRY Threads
CHECK_DEADLOCK FALSE

SPECIFICATION Spec
CONSTANTS
  None = None
  CoreN = 2
  PoolN = 2
  Index = {3}
  Thread = {main, t1, t2}
  MainThread = main
  Chunk = {c1}
  NPerSize <- Batch1
  MaxBatch = 1
  LateMalloc = FALSE
  Joined = TRUE
SYMMETRY Symmetry
INVARIANTS EveryThreadHasManager

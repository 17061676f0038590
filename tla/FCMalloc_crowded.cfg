SPECIFICATION Spec
CONSTANTS
  None = None
  CoreN = 3
  PoolN = 1
  Index = {3}
  Thread = {main, t1}
  MainThread = main
  Chunk = {c1, c2, c3, c4}
  NPerSize <- Batch2
  MaxBatch = 2
  LateMalloc = TRUE
  Joined = TRUE
SYMMETRY Symmetry
INVARIANTS OnePlace NoLeak HomeAffinity Exclusive
PROPERTIES FlushIsComplete ImplementsHeap

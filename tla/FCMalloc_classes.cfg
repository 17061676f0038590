SPECIFICATION FairSpec
CONSTANTS
  None = None
  CoreN = 2
  PoolN = 1
  Index = {3, 4, 5}
  Thread = {main, t1}
  MainThread = main
  Chunk = {c1, c2}
  NPerSize <- Batch0
  MaxBatch = 1
  LateMalloc = FALSE
  Joined = FALSE
INVARIANTS OnePlace NoLeak HomeAffinity
PROPERTIES ImplementsHeap CallsReturn

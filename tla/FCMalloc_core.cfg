SPECIFICATION Spec
CONSTANTS
  None = None
  CoreN = 2
  PoolN = 2
  Index = {3}
  Thread = {main, t1}
  MainThread = main
  Chunk = {c1, c2, c3}
  NPerSize <- Batch1
  MaxBatch = 1
  LateMalloc = FALSE
  Joined = TRUE
SYMMETRY Symmetry
INVARIANTS TypeOK OnePlace NoLeak HomeAffinity Exclusive NoFault
PROPERTIES CarveOnlyWhenDry ImplementsHeap

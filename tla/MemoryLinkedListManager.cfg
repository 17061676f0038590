SPECIFICATION Spec
CONSTANTS
  Null = Null
  Manager = {malloc, free, pool}
  Index = {3, 4}
  Chunk = {c1, c2, c3, c4}
  MaxBatch = 2
SYMMETRY Symmetry
INVARIANTS WellFormed FreeNextIsNull
PROPERTIES ImplementsQueues

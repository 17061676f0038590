SPECIFICATION Spec
CONSTANTS
  CoreN = 2
  Thread = {main, t1, t2}
  MainThread = main
  None = None
  MainSize = 2
  SubSize = 1
  MinExtend = 2
  Request = {1, 3}
  ExtendMax = 5
  ForceMmap = TRUE
  PrintfMallocs = TRUE
  Wrap = 4
  MaxHanded = 4
SYMMETRY Symmetry
INVARIANTS NoSelfDeadlock

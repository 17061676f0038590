SPECIFICATION FairSpec
CONSTANTS
  CoreN = 2
  Thread = {main, t1, t2}
  MainThread = main
  None = None
  MainSize = 2
  SubSize = 1
  MinExtend = 2
  Request = {1, 3}
  ExtendMax = 3
  ForceMmap = TRUE
  PrintfMallocs = FALSE
  Wrap = 2
  MaxHanded = 3
PROPERTIES FirstTouchEnds

SPECIFICATION FairSpec
CONSTANTS
  CoreN = 2
  Thread = {main, t1, t2}
  MainThread = main
  None = None
  MainSize = 2
  SubSize = 1
  MinExtend = 2
  Request = {1, 3}
  ExtendMax = 3
  ForceMmap = TRUE
  PrintfMallocs = TRUE
  Wrap = 4
  MaxHanded = 3
INVARIANTS TypeOK Disjoint InBounds TouchedFirst RegistrySuffices
PROPERTIES CallsReturn ImplementsPageSource
CHECK_DEADLOCK FALSE

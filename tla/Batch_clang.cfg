SPECIFICATION Spec
CONSTANTS
  LogW = 4
  ClzOfZero = 7
  NPerSize <- Table
  HeaderSize = 48
  PageSize = 64
  Sizes <- Around
  Products <- Pairs
  MaxAreas = 2
  MaxHeld = 2
INVARIANTS BlockFits

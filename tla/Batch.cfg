SPECIFICATION Spec
CONSTANTS
  LogW = 4
  ClzOfZero = 8
  NPerSize <- Table
  HeaderSize = 48
  PageSize = 64
  Sizes <- Around
  Products <- Pairs
  MaxAreas = 3
  MaxHeld = 2
INVARIANTS BlockFits SameClass Layout RoundedUp

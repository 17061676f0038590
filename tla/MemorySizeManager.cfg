SPECIFICATION Spec
CONSTANTS
  Size = 3
  max_num_digits = 2
  Default <- DefaultTable
  Digit = {0, 1}
  NL = NL
  NUL = NUL
  MaxLen = 8
INVARIANTS TableIsFile
PROPERTIES Loads

SPECIFICATION StreamSpec
CONSTANTS
  Bits = 16
  Narrow = 8
  Depth = 2
  Scripts <- MCScripts
INVARIANTS
  WritesValue
  ReadsPiece
  ComesBack
CHECK_DEADLOCK FALSE

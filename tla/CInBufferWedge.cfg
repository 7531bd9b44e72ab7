SPECIFICATION Spec
CONSTANTS
  Length = 3
  MaxRecv = 6
  Uses <- MCUnlocked
PROPERTIES
  Taken
CHECK_DEADLOCK FALSE

SPECIFICATION Spec
CONSTANTS
  Length = 3
  MaxRecv = 6
  Uses <- MCUses
INVARIANTS
  TypeOK
  InOrder
  FullOrEnabled
PROPERTIES
  TakenUnderLock
CHECK_DEADLOCK FALSE

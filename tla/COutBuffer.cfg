SPECIFICATION Spec
CONSTANTS
  Length = 3
  MaxPut = 7
  Uses <- MCUses
INVARIANTS
  TypeOK
  InOrder
  NoLostWakeup
  OnlyWhatWasPut
PROPERTIES
  AllSent
CHECK_DEADLOCK FALSE

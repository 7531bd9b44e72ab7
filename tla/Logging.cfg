SPECIFICATION Spec
CONSTANTS
  Char <- MCChar
  Modulus = 256
  Uses <- MCUses
INVARIANTS
  AsIfAlone
  MainUndisturbed
  HandlersComplete
CHECK_DEADLOCK FALSE

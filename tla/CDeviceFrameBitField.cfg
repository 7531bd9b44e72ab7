SPECIFICATION Spec
CONSTANTS
  Char <- MCChar
  sofr = "a"
  eofr = "s"
  esc = "e"
  Flow = {}
  Mod <- MCMod
  Message <- MCMessage
  payload = 3
  FLT = 4
  Uses <- MCUnlocked
INVARIANTS
  ReadsAMessage
CHECK_DEADLOCK FALSE

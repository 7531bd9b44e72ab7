SPECIFICATION Spec
CONSTANTS
  Char <- MCChar
  sofr = "a"
  eofr = "s"
  esc = "e"
  Flow = {}
  Mod <- MCMod
  Message <- MCMessage
  payload = 3
  FLT = 4
  Uses <- MCUses
INVARIANTS
  LineIsFrames
  ReceivedIsSent
PROPERTIES
  AcceptedGetsOut
  AllReceived
  ReceiverIsFreed
CHECK_DEADLOCK FALSE

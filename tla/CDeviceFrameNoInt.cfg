SPECIFICATION Spec
CONSTANTS
  Char <- MCChar
  sofr = "a"
  eofr = "s"
  esc = "e"
  Flow = {"q"}
  Mod <- MCMod
  Links <- MCLinks
PROPERTY ImplementsChannel
CHECK_DEADLOCK FALSE

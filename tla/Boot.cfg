SPECIFICATION BootSpec
CONSTANTS
  Period = 3
  Start = 12
  PerUnit = 17
  Values = {1, 3}
  MaxTime = 15
  MaxDepth = 2
  MaxTimeout = 1
  Words = 2
  HighWord = 1
  Garbage = {0, 12}
INVARIANTS
  TypeOK
  HalvesAgree
  ReadingBound
  LocksNest
  ClockRuns
PROPERTIES
  DelayNotEarly
  DelayEnds
  StartsUp
CHECK_DEADLOCK FALSE

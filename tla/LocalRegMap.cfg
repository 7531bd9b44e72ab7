SPECIFICATION Spec
CONSTANT Programs <- MCPrograms
INVARIANTS
  ReadsCurrent
  ModeIsSelected
PROPERTY ImplementsIndependent
CHECK_DEADLOCK FALSE

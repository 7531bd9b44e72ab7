SPECIFICATION QueueSpec
CONSTANTS
  Length = 4
  Data_Type = {a, b, c}
INVARIANTS
  QueueTypeOK
  FullIsCapacity
  CountOfNonEmpty
PROPERTY ImplementsFifo

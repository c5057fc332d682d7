CONSTANTS
  None = None
  MaxSlots = 4
  MaxSubslots = 3
  Ports = 1
  Expected <- SameModule
  Value = {1}
  AsksAgain = {FALSE}
  MaxConnects = 3
SPECIFICATION Spec
CHECK_DEADLOCK FALSE
INVARIANT Aligned

CONSTANTS
  None = None
  MaxSlots = 4
  MaxSubslots = 3
  Ports = 1
  Expected <- MCExpected
  Value = {1}
  AsksAgain = {TRUE, FALSE}
  MaxConnects = 4
SPECIFICATION Spec
CHECK_DEADLOCK FALSE
INVARIANTS Remembers Found   Lit

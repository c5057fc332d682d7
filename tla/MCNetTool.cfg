CONSTANTS
  None = None
  Empty = Empty
  Names <- MCNames
  Trees <- MCTrees
  Leaving <- MCLeaving
  Asked <- MCAsked
  MaxGen = 2
  MaxCrashes = 1
  MaxFails = 1
  MaxUps = 1
SPECIFICATION Spec
CHECK_DEADLOCK FALSE
INVARIANTS InOrder ExitsFirst  Confirmed
PROPERTY DisabledKept

SPECIFICATION Spec
CONSTANTS
  Node = {eth0, br0}
  Post = post
  MaxTxn = 3
  MaxCrashes = 1
CHECK_DEADLOCK FALSE
INVARIANTS
  Agreement
  OwnScripts
  CurrentApplied
  Exclusive
PROPERTIES
  Released

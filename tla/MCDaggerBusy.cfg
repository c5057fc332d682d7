SPECIFICATION Spec
CONSTANTS
  Node = {eth0, br0}
  Post = post
  MaxTxn = 3
  MaxCrashes = 0
CHECK_DEADLOCK FALSE
INVARIANT InProgress

CONSTANTS
  Config <- MCConfig
  NoFile = NoFile
  Shipped = Shipped
  MaxCommits = 2
  MaxCrashes = 0
SPECIFICATION Spec
CHECK_DEADLOCK FALSE
INVARIANT AsDescribed

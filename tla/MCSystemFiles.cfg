CONSTANTS
  Config <- MCConfig
  NoFile = NoFile
  Shipped = Shipped
  MaxCommits = 3
  MaxCrashes = 1
SPECIFICATION Spec
CHECK_DEADLOCK FALSE
INVARIANTS OnlyStored Installed
PROPERTIES Resolves Replaces

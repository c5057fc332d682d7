SPECIFICATION Spec
CONSTANTS
  h1 = h1
  h2 = h2
  k1 = k1
  User <- MCUser
  Password = {h1, h2}
  Setup <- MCSetup
  Iface = {e0, e1}
  ClientId = {id1}
  Host = {alpha}
  Default = infix
  None = None
  Absent = Absent
  Off = Off
  Locked = Locked
  MaxCommits = 3
  MaxFaults = 1
INVARIANTS Accounts NoGhost Keys  Clients
CHECK_DEADLOCK FALSE

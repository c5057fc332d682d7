SPECIFICATION Spec
CONSTANTS
  interfaces = interfaces
  clock = clock
  ntp = ntp
  client = client
  ietf_interfaces = ietf_interfaces
  ietf_system = ietf_system
  infix_dhcp_client = infix_dhcp_client
  Session = {netconf, cli}
  Sub <- MCSub
  ModuleOf <- MCModuleOf
  Serial = TRUE
  MaxCommits = 3
  MaxCrashes = 1
CHECK_DEADLOCK FALSE
INVARIANTS
  OncePerChangeset
  NothingStale
PROPERTIES
  ReloadsLast
  Activated

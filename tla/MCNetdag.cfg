SPECIFICATION Spec
CONSTANTS
  e0 = e0
  br0 = br0
  vlan1 = vlan1
  vlan2 = vlan2
  veth0 = veth0
  veth1 = veth1
  a24 = a24
  a16 = a16
  Iface <- MCIface
  Type <- MCType
  Peer <- MCPeer
  Choice <- MCChoice
  Addr = {a24, a16}
  None = None
  Absent = Absent
  MaxDiff = 2
  MaxGen = 3
INVARIANTS Agrees  Evolves
PROPERTY Bystanders
CHECK_DEADLOCK FALSE

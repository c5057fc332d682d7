SPECIFICATION Spec
CONSTANTS
  Node = {eth0, br0, vlan1, veth0}
  MaxKills = 1
INVARIANTS BottomUpValid TopDownValid
PROPERTY Returns

------------------------------ MODULE MCNetdag ------------------------------
(* An instance of Netdag for TLC: an Ethernet interface, a bridge, a VLAN  *)
(* on either, a VLAN on top of that, and a veth pair.                      *)
EXTENDS Netdag, TLC

CONSTANTS e0, br0, vlan1, vlan2, veth0, veth1, a24, a16

MCIface == {e0, br0, vlan1, vlan2, veth0, veth1}
MCType == e0 :> "ether" @@ br0 :> "bridge" @@ vlan1 :> "vlan" @@
          vlan2 :> "vlan" @@ veth0 :> "veth" @@ veth1 :> "veth"
MCPeer == veth0 :> veth1 @@ veth1 :> veth0

Plain == [parent |-> None, tag |-> 0, master |-> None, ip |-> FALSE,
          addr |-> None, auto |-> FALSE]
Has(addr) == [Plain EXCEPT !.ip = TRUE, !.addr = addr]
On(parent, tag) == [Plain EXCEPT !.parent = parent, !.tag = tag]
Port == [Plain EXCEPT !.master = br0]
Auto(ip) == [Plain EXCEPT !.ip = ip, !.addr = a24, !.auto = TRUE]

MCChoice ==
  e0 :> {Plain, Port, Auto(TRUE), Auto(FALSE)} @@
  br0 :> {Has(a24), Has(a16)} @@
  vlan1 :> {On(e0, 1), [On(e0, 2) EXCEPT !.ip = TRUE, !.addr = a24], On(br0, 1)} @@
  vlan2 :> {On(vlan1, 1)} @@
  veth0 :> {Plain} @@
  veth1 :> {Plain, Port}
=============================================================================

------------------------------- MODULE Netdag -------------------------------
(***************************************************************************)
(* What confd writes into the scripts of a generation, and what becomes of *)
(* the network interfaces when they are run: ifchange() and the netdag_*() *)
(* functions of ietf-interfaces.c.                                         *)
(*                                                                         *)
(* On CHANGE each interface of the diff gets its scripts: its removal goes *)
(* to the exit action of the current generation, its setup to the init     *)
(* action of the next one, and what it depends on to the DAG of the next   *)
(* one.  On DONE /sbin/dagger runs the exit scripts in an order that has   *)
(* interfaces before what they depend on according to the DAG of the       *)
(* current generation, then the init scripts in one that has them after    *)
(* what they depend on according to that of the next.  An interface that   *)
(* is not in the diff has no scripts, and nothing it depends on.           *)
(*                                                                         *)
(* The life of generations is the subject of Dagger, and orders are that   *)
(* of DagOrder.  Here the scripts are sequences of commands that change    *)
(* the links of the kernel, or fail.  The kernel is external: a link that  *)
(* is deleted takes along the VLANs on top of it and the other end of its  *)
(* pair, and its bridge ports become free.  One address stands for those   *)
(* of an interface, IPv4 for both families.  Whether links are up is left  *)
(* out.                                                                    *)
(***************************************************************************)
EXTENDS Integers, FiniteSets, FiniteSetsExt, SequencesExt

CONSTANTS
  Iface,      \* names of interfaces
  Type,       \* Type[i] \in {"ether", "bridge", "vlan", "veth"}
  Peer,       \* Peer[i]: the other end, for a veth
  Choice,     \* Choice[i]: what may be configured for i, a set of settings
  Addr,       \* addresses, with their prefix
  None,       \* no address, no bridge, no parent
  Absent,     \* no such interface
  MaxDiff,    \* bound on the size of diffs, after the first generation
  MaxGen      \* bound on the number of generations

ASSUME NetdagBoundsAssumption == MaxDiff \in Nat /\ MaxGen \in Nat

(* Interfaces that nobody can delete: iface_is_phys().                     *)
Fixed == {i \in Iface : Type[i] = "ether"}

VARIABLES
  running,   \* the running configuration: settings of interfaces
  conf,      \* the one that is being committed
  at,        \* "idle", "change", "exit", "init", or "failed"
  todo,      \* interfaces whose turn is yet to come there
  link,      \* the links of the kernel
  zeroconf,  \* interfaces with a zeroconf service that is enabled
  exit,      \* exit[i]: script of i in the exit action of the current one
  init,      \* init[i]: script of i in the init action of the next one
  skip,      \* the directory "skip" of the next generation
  nodes,     \* nodes of the DAG of the current generation
  dag,       \* its edges: pairs <<depender, dependee>>
  nextdag,   \* edges of the DAG of the next generation
  gen,       \* number of generations so far
  barred,    \* a generation was abandoned: the next claim will fail
  adrift,    \* interfaces that the scripts have lost sight of
  lingers    \* interfaces whose zeroconf service may have been left enabled

generation == <<exit, init, skip, nodes, dag, nextdag>>
history == <<adrift, lingers>>
vars == <<running, conf, at, todo, link, zeroconf, generation, gen, barred,
          history>>

-----------------------------------------------------------------------------
(***************************************************************************)
(* Configurations.                                                         *)
(***************************************************************************)

Exists(c, i) == c[i] # Absent
Changed(b, c) == {i \in Iface : b[i] # c[i]}

(* What the YANG models ask for.                                           *)
Valid(c) ==
  \A i \in Iface : Exists(c, i) =>
    /\ c[i].parent # None => Exists(c, c[i].parent)
    /\ c[i].master # None => Exists(c, c[i].master)
    /\ Type[i] = "veth" => Exists(c, Peer[i])

Config ==
  LET With(i, cs) == {[c EXCEPT ![i] = x] : c \in cs, x \in Choice[i] \cup {Absent}}
  IN {c \in FoldSet(With, {[i \in Iface |-> Absent]}, Iface) : Valid(c)}

Created(i) == ~ Exists(running, i)
Deleted(i) == ~ Exists(conf, i)

-----------------------------------------------------------------------------
(***************************************************************************)
(* The kernel, as ip(8) drives it.  Cmd(s, c) is what becomes of the state *)
(* s = [link, zeroconf, ok] when command c is run; none is after a failure.*)
(***************************************************************************)

NoLink == [there |-> FALSE, parent |-> None, tag |-> 0, master |-> None,
           addr |-> {}]
NewLink == [NoLink EXCEPT !.there = TRUE]

(* The links that go when link x goes.                                     *)
Falls(l, x) ==
  LET Takes(S) == {i \in Iface : l[i].parent \in S \/
                     (Type[i] = "veth" /\ l[i].there /\ Peer[i] \in S)}
      All[S \in SUBSET Iface] ==
        IF Takes(S) \subseteq S THEN S ELSE All[S \cup Takes(S)]
  IN All[{x}]

Without(l, gone) ==
  [i \in Iface |->
     IF i \in gone THEN NoLink
     ELSE IF l[i].master \in gone THEN [l[i] EXCEPT !.master = None]
     ELSE l[i]]

(* The command makes l the links, provided that it can.                    *)
Does(s, can, l) == IF can THEN [s EXCEPT !.link = l] ELSE [s EXCEPT !.ok = FALSE]

Cmd(s, c) ==
  LET l == s.link
      i == c.dev
  IN CASE ~ s.ok -> s
       [] c.op = "del" -> Does(s, l[i].there, Without(l, Falls(l, i)))
       [] c.op = "add" -> Does(s, ~ l[i].there, [l EXCEPT ![i] = NewLink])
       [] c.op = "add vlan" ->
            Does(s, ~ l[i].there /\ l[c.arg].there,
                 [l EXCEPT ![i] = [NewLink EXCEPT !.parent = c.arg, !.tag = c.tag]])
       [] c.op = "add veth" ->
            Does(s, ~ l[i].there /\ ~ l[c.arg].there,
                 [l EXCEPT ![i] = NewLink, ![c.arg] = NewLink])
       [] c.op = "set" -> Does(s, l[i].there, l)
       [] c.op = "set master" ->
            Does(s, l[i].there /\ l[c.arg].there, [l EXCEPT ![i].master = c.arg])
       [] c.op = "flush" -> Does(s, l[i].there, [l EXCEPT ![i].addr = {}])
       [] c.op = "address add" ->
            Does(s, l[i].there /\ c.arg \notin l[i].addr,
                 [l EXCEPT ![i].addr = @ \cup {c.arg}])
       [] c.op = "address delete" ->
            Does(s, c.arg \in l[i].addr, [l EXCEPT ![i].addr = @ \ {c.arg}])
       [] c.op = "enable" -> [s EXCEPT !.zeroconf = @ \cup {i}]
       [] c.op = "disable" -> [s EXCEPT !.zeroconf = @ \ {i}]

Ran(script) ==
  FoldLeft(Cmd, [link |-> link, zeroconf |-> zeroconf, ok |-> TRUE], script)

Run(op, i) == <<[op |-> op, dev |-> i]>>
RunOn(op, i, x) == <<[op |-> op, dev |-> i, arg |-> x]>>

-----------------------------------------------------------------------------
Init ==
  /\ running = [i \in Iface |-> Absent]
  /\ conf = running
  /\ at = "idle" /\ todo = {}
  /\ link = [i \in Iface |-> IF i \in Fixed THEN NewLink ELSE NoLink]
  /\ zeroconf = {}
  /\ exit = [i \in Iface |-> <<>>] /\ init = exit
  /\ skip = {} /\ nodes = {} /\ dag = {} /\ nextdag = {}
  /\ gen = 0 /\ barred = FALSE
  /\ adrift = {} /\ lingers = {}

(* CHANGE: the next generation is claimed.                                 *)
Claim(c) ==
  /\ at = "idle" /\ gen < MaxGen /\ ~ barred
  /\ c # running /\ (gen = 0 \/ Cardinality(Changed(running, c)) <= MaxDiff)
  /\ conf' = c
  /\ at' = "change" /\ todo' = Changed(running, c)
  /\ exit' = [i \in Iface |-> <<>>] /\ init' = exit'
  /\ skip' = {} /\ nextdag' = {}
  /\ UNCHANGED <<running, link, zeroconf, nodes, dag, gen, barred, history>>

-----------------------------------------------------------------------------
(***************************************************************************)
(* The scripts of an interface.                                            *)
(***************************************************************************)

(* Mutant of MustDel: a bridge that is modified is deleted, too.           *)
MustDelBridge(i) ==
  \/ Type[i] = "bridge" /\ running[i] # conf[i]
  \/ /\ Type[i] = "vlan"
     /\ running[i].parent # conf[i].parent \/ running[i].tag # conf[i].tag

(* What the kernel cannot modify.  The peer of a veth is not found where   *)
(* it is looked for.                                                       *)
MustDel(i) ==
  /\ Type[i] = "vlan"
  /\ running[i].parent # conf[i].parent \/ running[i].tag # conf[i].tag

(* The interface is new, or is created anew.                               *)
Fresh(i) == Created(i) \/ MustDel(i)

(* netdag_gen_iface_del().                                                 *)
IfaceDel(i) == IF i \in Fixed THEN Run("set", i) \o Run("flush", i)
               ELSE Run("del", i)

(* The second end of a pair is there once the first one is.                *)
GenVeth(i) ==
  IF i \in skip THEN <<>> ELSE RunOn("add veth", i, Peer[i])

GenVlan(i) ==
  <<[op |-> "add vlan", dev |-> i, arg |-> conf[i].parent, tag |-> conf[i].tag]>>

AfspecAdd(i) ==
  CASE Type[i] = "bridge" -> Run("add", i)
    [] Type[i] = "veth" -> GenVeth(i)
    [] Type[i] = "vlan" -> GenVlan(i)

(* A VLAN that is modified has no tag in its diff, and gets no command.    *)
AfspecSet(i) == IF Type[i] = "bridge" THEN Run("set", i) ELSE <<>>

BridgeLinks(i) ==
  IF conf[i].master = None THEN Run("set", i)
  ELSE RunOn("set master", i, conf[i].master)

(* Mutant of Deps: a VLAN that is modified has its parent already.         *)
DepsCreated(i) ==
  {<<i, x>> : x \in
     (IF Type[i] = "vlan" /\ Created(i) THEN {conf[i].parent} ELSE {}) \cup
     (IF Type[i] = "veth" /\ Created(i) /\ i \in skip THEN {Peer[i]} ELSE {}) \cup
     ({conf[i].master} \ {None})}

(* dagger_add_dep() in netdag_gen_vlan(), netdag_gen_veth() and            *)
(* netdag_bridge_links().                                                  *)
Deps(i) ==
  {<<i, x>> : x \in
     (IF Type[i] = "vlan" THEN {conf[i].parent} ELSE {}) \cup
     (IF Type[i] = "veth" /\ Created(i) /\ i \in skip THEN {Peer[i]} ELSE {}) \cup
     ({conf[i].master} \ {None})}

Adding(i, a) == IF a = None THEN <<>> ELSE RunOn("address add", i, a)
Deleting(i, a) == IF a = None THEN <<>> ELSE RunOn("address delete", i, a)

(* The diff says that IP was switched on: op REPLACE.                      *)
SwitchedOn(i) == ~ Fresh(i) /\ ~ running[i].ip /\ conf[i].ip

(* Mutant of GenIpAddrs: addresses are taken from the diff.                *)
GenIpAddrsDiff(i) ==
  IF ~ conf[i].ip THEN <<>>
  ELSE IF Fresh(i) THEN Adding(i, conf[i].addr)
  ELSE IF running[i].addr = conf[i].addr THEN <<>>
  ELSE Deleting(i, running[i].addr) \o Adding(i, conf[i].addr)

(* netdag_gen_ip_addrs(), but for the flush that it does at once.          *)
GenIpAddrs(i) ==
  IF ~ conf[i].ip THEN <<>>
  ELSE IF SwitchedOn(i) \/ Fresh(i) THEN Adding(i, conf[i].addr)
  ELSE IF running[i].addr = conf[i].addr THEN <<>>
  ELSE Deleting(i, running[i].addr) \o Adding(i, conf[i].addr)

(* Mutant of Autoconf: what was configured while IP was off is forgotten.  *)
AutoconfDiff(i) ==
  IF ~ conf[i].ip THEN "disable"
  ELSE IF Fresh(i) THEN IF conf[i].auto THEN "enable" ELSE "none"
  ELSE IF running[i].auto = conf[i].auto THEN "none"
  ELSE IF conf[i].auto THEN "enable" ELSE "disable"

(* netdag_gen_ipv4_autoconf(): what it finds to be done.                   *)
Autoconf(i) ==
  IF ~ conf[i].ip THEN "disable"
  ELSE IF SwitchedOn(i) THEN IF conf[i].auto THEN "enable" ELSE "disable"
  ELSE IF Fresh(i) THEN IF conf[i].auto THEN "enable" ELSE "none"
  ELSE IF running[i].auto = conf[i].auto THEN "none"
  ELSE IF conf[i].auto THEN "enable" ELSE "disable"

(* There is no exit action before the first generation.                    *)
ExitScript(i) ==
  IF Deleted(i) THEN IfaceDel(i)
  ELSE (IF Autoconf(i) = "disable" /\ gen > 0 THEN Run("disable", i) ELSE <<>>)
       \o (IF ~ Created(i) /\ MustDel(i) THEN IfaceDel(i) ELSE <<>>)

InitScript(i) ==
  IF Deleted(i) THEN <<>>
  ELSE (IF i \notin Fixed /\ Fresh(i) THEN AfspecAdd(i) ELSE <<>>)
       \o BridgeLinks(i)
       \o (IF i \notin Fixed /\ ~ Fresh(i) THEN AfspecSet(i) ELSE <<>>)
       \o GenIpAddrs(i)
       \o (IF Autoconf(i) = "enable" THEN Run("enable", i) ELSE <<>>)

(* netdag_gen_iface().  An interface that is to have no IP loses its       *)
(* addresses while the change is still being prepared.                     *)
GenIface(i) ==
  /\ at = "change" /\ i \in todo
  /\ todo' = todo \ {i}
  /\ exit' = [exit EXCEPT ![i] = ExitScript(i)]
  /\ init' = [init EXCEPT ![i] = InitScript(i)]
  /\ nextdag' = IF Deleted(i) THEN nextdag ELSE nextdag \cup Deps(i)
  /\ skip' = IF ~ Deleted(i) /\ Created(i) /\ Type[i] = "veth" /\ i \notin skip
             THEN skip \cup {Peer[i]} ELSE skip
  /\ link' = IF ~ Deleted(i) /\ ~ conf[i].ip
             THEN [link EXCEPT ![i].addr = {}] ELSE link
  /\ UNCHANGED <<running, conf, at, zeroconf, nodes, dag, gen, barred, history>>

(* The scripts cannot be written, or ABORT: the change is refused.  The    *)
(* link to the exit order stays behind and makes the next claim fail.      *)
Abandon ==
  /\ at = "change"
  /\ at' = "idle" /\ todo' = {} /\ conf' = running
  /\ exit' = [i \in Iface |-> <<>>] /\ init' = exit'
  /\ skip' = {} /\ nextdag' = {}
  /\ barred' = (gen > 0)
  /\ UNCHANGED <<running, link, zeroconf, nodes, dag, gen, history>>

-----------------------------------------------------------------------------
(***************************************************************************)
(* DONE: dagger evolve.  Nodes of a DAG are the interfaces that were       *)
(* configured or changed then; scripts of others are not found.            *)
(***************************************************************************)

Scripts(action) == {i \in Iface : action[i] # <<>>}

(* What i depends on, at any distance.                                     *)
Below(d, i) ==
  LET Needs(S) == {p[2] : p \in {q \in d : q[1] \in S}}
      All[S \in SUBSET Iface] ==
        IF Needs(S) \subseteq S THEN S ELSE All[S \cup Needs(S)]
  IN All[{i}] \ {i}

(* Interfaces that nothing takes out of their bridge.                      *)
Stuck(i) ==
  /\ Exists(running, i) /\ running[i].master # None
  /\ Exists(conf, running[i].master)
  /\ IF Deleted(i) THEN i \in Fixed
     ELSE conf[i].master = None /\ ~ MustDel(i)

(* VLANs that are gone with the VLAN below them.                           *)
Lost(i) ==
  /\ Exists(running, i) /\ Exists(conf, i) /\ ~ MustDel(i)
  /\ \E j \in Iface : /\ Exists(running, j) /\ Exists(conf, j) /\ MustDel(j)
                      /\ i # j /\ i \in Falls(link, j)

Back(i) ==
  \/ i \notin Fixed /\ (Deleted(i) \/ Fresh(i))
  \/ ~ Deleted(i) /\ conf[i].master # None /\ link[i].there

Evolve ==
  /\ at = "change" /\ todo = {}
  /\ at' = "exit" /\ todo' = Scripts(exit) \cap nodes
  /\ adrift' = adrift \cup {i \in Iface : Stuck(i) \/ Lost(i)}
  /\ UNCHANGED <<running, conf, link, zeroconf, generation, gen, barred,
                 lingers>>

(* A script is run.  If it fails the generation is abandoned, though not   *)
(* what has been done.                                                     *)
Work(i, script) ==
  LET s == Ran(script) IN
  /\ link' = s.link /\ zeroconf' = s.zeroconf
  /\ IF s.ok THEN todo' = todo \ {i} /\ UNCHANGED <<at, barred>>
     ELSE at' = "failed" /\ barred' = TRUE /\ UNCHANGED todo
  /\ UNCHANGED <<running, conf, generation, gen, history>>

(* Top-down, by the DAG of the current generation.                         *)
ExitNode(i) ==
  /\ at = "exit" /\ i \in todo
  /\ \A j \in todo : i \notin Below(dag, j)
  /\ Work(i, exit[i])

ExitEnd ==
  /\ at = "exit" /\ todo = {}
  /\ at' = "init" /\ todo' = Scripts(init)
  /\ UNCHANGED <<running, conf, link, zeroconf, generation, gen, barred,
                 history>>

(* Bottom-up, by the DAG of the next generation.                           *)
InitNode(i) ==
  /\ at = "init" /\ i \in todo
  /\ todo \cap Below(nextdag, i) = {}
  /\ Work(i, init[i])

InitEnd ==
  /\ at = "init" /\ todo = {}
  /\ at' = "idle" /\ running' = conf
  /\ nodes' = {i \in Iface : Exists(conf, i)} \cup Changed(running, conf)
  /\ dag' = nextdag /\ nextdag' = {} /\ skip' = {}
  /\ exit' = [i \in Iface |-> <<>>] /\ init' = exit'
  /\ gen' = gen + 1
  /\ lingers' =
       {i \in lingers \cup {j \in Changed(running, conf) : Deleted(j)} :
          i \in Changed(running, conf) =>
            \/ Deleted(i) \/ Autoconf(i) = "none"
            \/ Autoconf(i) = "disable" /\ i \notin nodes}
  /\ adrift' = adrift \ {i \in Changed(running, conf) : Back(i) /\ ~ Stuck(i)}
  /\ UNCHANGED <<conf, todo, link, zeroconf, barred>>

Next ==
  \/ \E c \in Config : Claim(c)
  \/ \E i \in Iface : GenIface(i) \/ ExitNode(i) \/ InitNode(i)
  \/ Abandon \/ Evolve \/ ExitEnd \/ InitEnd

Spec == Init /\ [][Next]_vars

-----------------------------------------------------------------------------
(***************************************************************************)
(* Properties.                                                             *)
(***************************************************************************)

(* What the kernel should have for an interface.                           *)
Due(i) ==
  IF running[i] = Absent THEN IF i \in Fixed THEN NewLink ELSE NoLink
  ELSE [there |-> TRUE, parent |-> running[i].parent, tag |-> running[i].tag,
        master |-> running[i].master,
        addr |-> IF running[i].ip THEN {running[i].addr} \ {None} ELSE {}]

(* When a generation has been evolved to, the links are those of the       *)
(* running configuration, though the scripts only had the differences to   *)
(* go by.  Exceptions are interfaces that have lost their bridge-port      *)
(* setting, VLANs on top of one that was created anew, and addresses that  *)
(* a refused change has flushed.                                           *)
Agrees ==
  at = "idle" =>
    \A i \in Iface \ adrift :
      \/ link[i] = Due(i)
      \/ barred /\ link[i] = [Due(i) EXCEPT !.addr = {}]

(* The zeroconf service of an interface is enabled when it should be,      *)
(* unless it was left enabled by an interface of that name that has been   *)
(* deleted (netdag_gen_iface_del() does not disable it).                   *)
Services ==
  at = "idle" =>
    \A i \in Iface \ lingers :
      i \in zeroconf <=> running[i] # Absent /\ running[i].ip /\ running[i].auto

(* A script only fails if both ends of a veth are deleted; if it is about  *)
(* an interface that was lost earlier; or if an interface and what it is   *)
(* on top of are deleted, and the current generation did not see the       *)
(* former change, so that its DAG does not order the two.  In particular,  *)
(* the DAG of the next generation, which only knows the interfaces of the  *)
(* diff, always suffices to set them up.                                   *)
Evolves ==
  at = "failed" =>
    \/ \E i \in Iface : Type[i] = "veth" /\ running[i] # Absent /\ conf[i] = Absent
    \/ \E i \in adrift : running[i] # conf[i] /\ ~ link[i].there
    \/ \E i, j \in Scripts(exit) :
         running[i] # Absent /\ running[i].parent = j /\ <<i, j>> \notin dag

(* A change leaves the links of interfaces alone that it is not about,     *)
(* other than VLANs on top of one that is created anew.                    *)
Bystanders ==
  [][\A i \in Iface \ adrift :
       running[i] = conf[i] => link'[i] = link[i]]_vars
=============================================================================

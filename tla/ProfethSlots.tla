---------------------------- MODULE ProfethSlots ----------------------------
(***************************************************************************)
(* The modules and submodules of profeth: which are plugged, in the p-net  *)
(* stack and in the application's own table (app_api_t of app_utils.h),    *)
(* what the controller gets to see of their data, and their parameters.    *)
(*                                                                         *)
(* A controller that connects expects modules in slots and submodules in   *)
(* their subslots.  For what is not there the stack calls                  *)
(* app_exp_module_ind() and app_exp_submodule_ind(), which pull the old    *)
(* one, first from the stack and then from the table, and plug the new one *)
(* in the same way, even if it is not known.  Records are then written and *)
(* read by app_write_ind() and app_read_ind(), and cyclic data exchanged   *)
(* for every entry of the table.  What was plugged stays plugged.          *)
(*                                                                         *)
(* The stack calls the application from one thread.  Data is abstracted to *)
(* its length, its status and the bit that drives the LED.                 *)
(***************************************************************************)
EXTENDS Integers, FiniteSets, FiniteSetsExt

CONSTANTS
  None,         \* nothing is plugged
  MaxSlots,     \* PNET_MAX_SLOTS
  MaxSubslots,  \* PNET_MAX_SUBSLOTS
  Ports,        \* number of ports of the device
  Expected,     \* what controllers expect: for some slots a module, and for
                \* some of its subslots a submodule
  Value,        \* values of parameters that are written
  AsksAgain,    \* TRUE is in it if the stack may ask for what is plugged
  MaxConnects   \* bound on the number of connections

ASSUME SlotsAssumption ==
  /\ MaxSlots \in Nat \ {0} /\ MaxSubslots \in Nat \ {0}
  /\ AsksAgain \subseteq BOOLEAN /\ Ports \in Nat /\ MaxConnects \in Nat

Slot == 0 .. MaxSlots - 1
Index == 1 .. MaxSubslots
Number == 0 .. 2

(* Controllers expect the DAP as it is, in slot 0.                         *)
ASSUME ExpectedAssumption ==
  \A e \in Expected :
    /\ DOMAIN e \subseteq Slot \ {0}
    /\ \A s \in DOMAIN e :
         /\ e[s].module # None
         /\ DOMAIN e[s].sub \subseteq Number \ {0}

VARIABLES
  module,    \* module[s]: the module that the stack has in slot s
  sub,       \* sub[s]: the submodules that it has there, by subslot number
  used,      \* the subslots of the connection
  iops,      \* iops[p]: the provider status of the input data of p
  iocs,      \* those whose output data we have declared to consume
  calls,     \* the indications that the stack has still to give
  phase,     \* how far the connection has come
  slots,     \* slots[s]: the application's entry for the module in s
  subslots,  \* subslots[s]: its entries for submodules in s
  param,     \* the parameters
  led,       \* the output
  replaced,  \* slots whose module was pulled with submodules in it
  connects   \* number of connections

stack == <<module, sub, used, iops, iocs>>
table == <<slots, subslots>>
vars == <<stack, table, calls, phase, param, led, replaced, connects>>

-----------------------------------------------------------------------------
(***************************************************************************)
(* app_gsdml.c                                                             *)
(***************************************************************************)

Dap == {"identity", "interface"} \cup {"port"}

Submodule(in, out, parameters) == [in |-> in, out |-> out, par |-> parameters]

(* The supported submodules, with the length of their data.                *)
Gsdml ==
  [id \in Dap \cup {"di", "do", "dio", "echo"} |->
     CASE id \in Dap  -> Submodule(0, 0, {})
       [] id = "di"   -> Submodule(1, 0, {})
       [] id = "do"   -> Submodule(0, 1, {})
       [] id = "dio"  -> Submodule(1, 1, {"demo1", "demo2"})
       [] id = "echo" -> Submodule(8, 8, {"gain"})]

Known(id) == id \in DOMAIN Gsdml

ASSUME NoneAssumption == ~ Known(None) /\ None # "dap"

(* What is not supported has the data that the controller expects of it.   *)
DataCfg(id) == IF Known(id) THEN Gsdml[id] ELSE Submodule(1, 0, {})

(* Known, and in the list of the submodule.                                *)
ParameterCfg(id, index) == Known(id) /\ index \in Gsdml[id].par

-----------------------------------------------------------------------------
(***************************************************************************)
(* The table: app_utils.c                                                  *)
(***************************************************************************)

(* What memset() leaves.                                                   *)
Unused == [used |-> FALSE, slot |-> 0, nr |-> 0, id |-> None]

(* Mutant of SubslotGet: the number is taken as the index.                 *)
SubslotGetIndex(s, n) == {n} \cap Index

(* app_utils_subslot_get(): the first entry with this number, used or not. *)
SubslotGet(s, n) ==
  LET found == {i \in Index : subslots[s][i].nr = n}
  IN IF found = {} THEN {} ELSE {Min(found)}

(* app_utils_pull_module() leaves the submodules and the name, and         *)
(* app_utils_plug_module() the submodules.                                 *)
PullModule(t, s) == [t EXCEPT ![s].plugged = FALSE]
PlugModule(t, s, id) == [t EXCEPT ![s] = [plugged |-> TRUE, id |-> id]]

(* Mutant of PullSubmodule: the entry stays.                               *)
PullSubmoduleNot(s, n) == subslots

(* app_utils_pull_submodule().  The slot is compared with the number of    *)
(* subslots.                                                               *)
PullSubmodule(s, n) ==
  IF s >= MaxSubslots THEN subslots
  ELSE [subslots EXCEPT ![s] =
          [i \in Index |-> IF i \in SubslotGet(s, n) THEN Unused ELSE @[i]]]

(* Mutant of PlugSubmodule: the first entry, free or not.                  *)
PlugSubmoduleOver(t, s, n, id) ==
  [t EXCEPT ![s][1] = [used |-> TRUE, slot |-> s, nr |-> n, id |-> id]]

(* app_utils_plug_submodule(): the first entry of t that is free.  Nobody  *)
(* looks at what it returns if there is none.                              *)
PlugSubmodule(t, s, n, id) ==
  LET free == {i \in Index : ~t[s][i].used}
  IN IF free = {} THEN t
     ELSE [t EXCEPT ![s][Min(free)] =
             [used |-> TRUE, slot |-> s, nr |-> n, id |-> id]]

-----------------------------------------------------------------------------
(***************************************************************************)
(* The stack.                                                              *)
(***************************************************************************)

Call(s, n, id) == [slot |-> s, nr |-> n, id |-> id]

Init ==
  /\ module = [s \in Slot |-> None]
  /\ sub = [s \in Slot |-> << >>]
  /\ used = {} /\ iops = << >> /\ iocs = {}
  /\ slots = [s \in Slot |-> [plugged |-> FALSE, id |-> None]]
  /\ subslots = [s \in Slot |-> [i \in Index |-> Unused]]
  /\ calls = {Call(0, 0, "dap"), Call(0, 1, "identity"),
              Call(0, 32768, "interface")}
             \cup {Call(0, 32768 + i, "port") : i \in 1 .. Ports}
  /\ phase = "plug"
  /\ param = [demo1 |-> 0, demo2 |-> 0, gain |-> 1]
  /\ led = FALSE
  /\ replaced = {}
  /\ connects = 0

(* The subslots that a controller expects something in.                    *)
Subslots(e) == {p \in (DOMAIN e) \X Number : p[2] \in DOMAIN e[p[1]].sub}

(* A controller connects.  The stack asks for the modules that differ from *)
(* the ones it has, with their submodules, and for submodules that differ; *)
(* it may ask for others again.                                            *)
Wanted(e, again) ==
  LET id(p) == e[p[1]].sub[p[2]]
      modules == {s \in DOMAIN e : module[s] # e[s].module}
      due == {p \in Subslots(e) : \/ p[1] \in modules
                                  \/ p[2] \notin DOMAIN sub[p[1]]
                                  \/ sub[p[1]][p[2]] # id(p)
                                  \/ again}
  IN {Call(s, 0, e[s].module) : s \in modules}
     \cup {Call(p[1], p[2], id(p)) : p \in due}

Connect(e) ==
  /\ phase = "idle"
  /\ connects < MaxConnects
  /\ connects' = connects + 1
  /\ phase' = "connect"
  /\ \E again \in AsksAgain : calls' = Wanted(e, again)
  /\ used' = Subslots(e) \cup {<<0, n>> : n \in DOMAIN sub[0]}
  /\ iops' = [p \in used' |-> "bad"]
  /\ iocs' = {}
  /\ UNCHANGED <<module, sub, table, param, led, replaced>>

(* All is plugged.  Before the first connection it was the DAP.            *)
Plugged ==
  /\ calls = {}
  /\ phase \in {"plug", "connect"}
  /\ phase' = IF phase = "plug" THEN "idle" ELSE "records"
  /\ UNCHANGED <<stack, table, calls, param, led, replaced, connects>>

-----------------------------------------------------------------------------
(***************************************************************************)
(* Plugging: sampleapp_common.c                                            *)
(***************************************************************************)

(* Indications come in the order of slots and subslots, and for a module   *)
(* before those for its submodules.                                        *)
Indicates(c) ==
  /\ \A d \in calls : c.slot < d.slot \/ (c.slot = d.slot /\ c.nr <= d.nr)
  /\ calls' = calls \ {c}

(* app_exp_module_ind(): pull the old module, if the stack has one, and    *)
(* plug the new one.  The stack pulls a module together with its           *)
(* submodules; the table keeps those.                                      *)
ExpModuleInd(c) ==
  LET pulled == IF module[c.slot] = None THEN slots ELSE PullModule(slots, c.slot)
  IN
  /\ Indicates(c)
  /\ c.nr = 0
  /\ module' = [module EXCEPT ![c.slot] = c.id]
  /\ sub' = [sub EXCEPT ![c.slot] = << >>]
  /\ slots' = PlugModule(pulled, c.slot, c.id)
  /\ replaced' = IF DOMAIN sub[c.slot] = {} THEN replaced
                 ELSE replaced \cup {c.slot}
  /\ UNCHANGED <<used, iops, iocs, subslots, phase, param, led,
                 connects>>

(* app_exp_submodule_ind(): pull the old one, if the stack has one, and    *)
(* plug the new one, if the stack has room for it.                         *)
ExpSubmoduleInd(c) ==
  LET pulled == IF c.nr \in DOMAIN sub[c.slot] THEN PullSubmodule(c.slot, c.nr)
                ELSE subslots
      room == Cardinality((DOMAIN sub[c.slot]) \ {c.nr}) < MaxSubslots
  IN
  /\ Indicates(c)
  /\ c.nr # 0
  /\ IF room
       THEN /\ sub' = [sub EXCEPT ![c.slot] =
                        [n \in (DOMAIN @) \cup {c.nr} |->
                           IF n = c.nr THEN c.id ELSE @[n]]]
            /\ subslots' = PlugSubmodule(pulled, c.slot, c.nr, c.id)
       ELSE /\ UNCHANGED sub
            /\ subslots' = pulled
  /\ UNCHANGED <<module, used, iops, iocs, slots, phase, param, led,
                 replaced, connects>>

-----------------------------------------------------------------------------
(***************************************************************************)
(* Records.                                                                *)
(***************************************************************************)

(* The submodule has such a parameter, and the length is right.            *)
HasParameter(id, index, fits) == ParameterCfg(id, index) /\ fits

(* The answer to a request to read or write a record: accepted if there is *)
(* an entry in the table, with such a parameter.  Reading changes nothing. *)
Accepted(s, n, index, fits) ==
  \E i \in SubslotGet(s, n) : HasParameter(subslots[s][i].id, index, fits)

(* The parameters exist once, for all submodules.                          *)
WriteParameter(index, value) == param' = [param EXCEPT ![index] = value]

WriteInd(s, n, index, fits, value) ==
  /\ phase \in {"records", "data"}
  /\ Accepted(s, n, index, fits)
  /\ WriteParameter(index, value)
  /\ UNCHANGED <<stack, table, calls, phase, led, replaced, connects>>

-----------------------------------------------------------------------------
(***************************************************************************)
(* Data.                                                                   *)
(***************************************************************************)

(* The entries in the order of the loops over slots and subslots.          *)
Size == MaxSlots * MaxSubslots
EntryAt(k) == subslots[(k - 1) \div MaxSubslots][((k - 1) % MaxSubslots) + 1]

(* pnet_input_set_data_and_iops(), for data of this length.                *)
Provide(d, e, length, status) ==
  LET p == <<e.slot, e.nr>>
  IN IF p \in used /\ length \in {0, DataCfg(sub[e.slot][e.nr]).in}
       THEN [d EXCEPT !.iops[p] = status] ELSE d

(* app_data_get_input_data(): digital input, echo, or nothing.             *)
GetInputData(id) ==
  IF Known(id) /\ Gsdml[id].in > 0
    THEN [length |-> Gsdml[id].in, status |-> "good"]
    ELSE [length |-> 0, status |-> "bad"]

(* Mutant of InitialFor: submodules without data are left out.             *)
InitialForData(d, e) ==
  LET data == GetInputData(e.id)
      cfg == DataCfg(e.id)
      provided == IF cfg.in > 0 THEN Provide(d, e, data.length, data.status)
                  ELSE d
  IN IF cfg.out > 0 /\ <<e.slot, e.nr>> \in used
       THEN [provided EXCEPT !.iocs = @ \cup {<<e.slot, e.nr>>}]
       ELSE provided

(* app_set_initial_data_and_ioxs(), for one entry.                         *)
InitialFor(d, e) ==
  LET data == GetInputData(e.id)
      cfg == DataCfg(e.id)
      provided ==
        IF cfg.in = 0 /\ cfg.out > 0 THEN d
        ELSE IF e.slot = 0 THEN Provide(d, e, 0, "good")
        ELSE Provide(d, e, data.length, data.status)
  IN IF cfg.out > 0 /\ <<e.slot, e.nr>> \in used
       THEN [provided EXCEPT !.iocs = @ \cup {<<e.slot, e.nr>>}]
       ELSE provided

(* ... for entry k, if it is in use, and for all of them.                  *)
InitialAt(d, k) == IF EntryAt(k).used THEN InitialFor(d, EntryAt(k)) ELSE d

InitialData ==
  LET after[k \in 0 .. Size] ==
        IF k = 0 THEN [iops |-> iops, iocs |-> iocs]
        ELSE InitialAt(after[k - 1], k)
  IN after[Size]

(* PNET_EVENT_PRMEND                                                       *)
PrmEnd ==
  /\ phase = "records"
  /\ phase' = "data"
  /\ iops' = InitialData.iops
  /\ iocs' = InitialData.iocs
  /\ UNCHANGED <<module, sub, used, table, calls, param, led, replaced, connects>>

(* app_data_set_output_data(): the highest bit is the LED; echo data does  *)
(* not show.                                                               *)
SetOutputData(d, id, bit) ==
  IF id \in {"do", "dio"} THEN [d EXCEPT !.led = bit] ELSE d

(* Mutant of Cyclic: the length is not compared.                           *)
CyclicAny(d, e, status, bit) ==
  LET data == GetInputData(e.id)
      out == IF DataCfg(e.id).out = 0 THEN d
             ELSE IF status = "good" THEN SetOutputData(d, e.id, bit)
             ELSE [d EXCEPT !.led = FALSE]
  IN Provide(out, e, data.length, data.status)

(* app_cyclic_data_callback() for one entry, while the controller sends    *)
(* this status and this bit.  The stack has output data for a subslot of   *)
(* the connection, in the length of its submodule, and otherwise says that *)
(* the length is 0.                                                        *)
Cyclic(d, e, status, bit) ==
  LET cfg == DataCfg(e.id)
      data == GetInputData(e.id)
      length == IF <<e.slot, e.nr>> \in used THEN DataCfg(sub[e.slot][e.nr]).out
                ELSE 0
      out == IF cfg.out = 0 THEN d
             ELSE IF length = cfg.out /\ status = "good"
               THEN SetOutputData(d, e.id, bit)
             ELSE [d EXCEPT !.led = FALSE]
  IN IF cfg.in = 0 THEN out ELSE Provide(out, e, data.length, data.status)

(* There is a callback for submodules that are known and have data.        *)
CyclicAt(d, k, status, bit) ==
  LET e == EntryAt(k)
  IN IF e.used /\ Known(e.id) /\ e.slot # 0 THEN Cyclic(d, e, status, bit) ELSE d

CyclicData(status, bit) ==
  LET after[k \in 0 .. Size] ==
        IF k = 0 THEN [iops |-> iops, led |-> led]
        ELSE CyclicAt(after[k - 1], k, status, bit)
  IN after[Size]

(* app_utils_cyclic_data_poll().                                           *)
Poll(status, bit) ==
  /\ phase = "data"
  /\ iops' = CyclicData(status, bit).iops
  /\ led' = CyclicData(status, bit).led
  /\ UNCHANGED <<module, sub, used, iocs, table, calls, phase, param, replaced,
                 connects>>

(* PNET_EVENT_ABORT: the connection is closed; default outputs.            *)
AbortInd ==
  /\ phase \in {"connect", "records", "data"}
  /\ phase' = "idle"
  /\ calls' = {}
  /\ used' = {} /\ iops' = << >> /\ iocs' = {}
  /\ led' = FALSE
  /\ UNCHANGED <<module, sub, table, param, replaced, connects>>

Next ==
  \/ \E e \in Expected : Connect(e)
  \/ Plugged
  \/ \E c \in calls : ExpModuleInd(c) \/ ExpSubmoduleInd(c)
  \/ \E s \in Slot, n \in Number, index \in DOMAIN param, fits \in BOOLEAN,
        value \in Value : WriteInd(s, n, index, fits, value)
  \/ PrmEnd
  \/ \E status \in {"good", "bad"}, bit \in BOOLEAN : Poll(status, bit)
  \/ AbortInd

Spec == Init /\ [][Next]_vars

-----------------------------------------------------------------------------
(***************************************************************************)
(* Properties.                                                             *)
(***************************************************************************)

(* The entries for subslot n of slot s.                                    *)
EntriesFor(s, n) == {i \in Index : subslots[s][i].used /\ subslots[s][i].nr = n}

AlignedSlot(s) ==
  /\ slots[s].plugged = (module[s] # None) /\ slots[s].id = module[s]
  /\ \A i \in Index : subslots[s][i].used => subslots[s][i].nr \in DOMAIN sub[s]
  /\ \A n \in DOMAIN sub[s] :
       \E i \in Index : EntriesFor(s, n) = {i} /\ subslots[s][i].id = sub[s][n]

Orderly(s) == s \notin replaced /\ s < MaxSubslots

(* "This is for the application to remember which subslots are populated   *)
(* in the p-net stack": it does, with one entry for each submodule, as     *)
(* long as the module in the slot is not replaced and the number of the    *)
(* slot is less than that of subslots per slot.                            *)
Remembers == \A s \in Slot : Orderly(s) => AlignedSlot(s)

(* In any slot a submodule of the stack has an entry, unless old ones have *)
(* taken all of them.                                                      *)
Found ==
  \A s \in Slot : \A n \in DOMAIN sub[s] :
    \/ \E i \in EntriesFor(s, n) : subslots[s][i].id = sub[s][n]
    \/ \A i \in Index : subslots[s][i].used

(* While data is exchanged the controller sees every submodule with input  *)
(* data, or without data, as good if it is known and "Iops will be set to  *)
(* bad" otherwise, and its outputs as consumed.                            *)
Statuses ==
  phase = "data" =>
    \A p \in used : p[2] \in DOMAIN sub[p[1]] /\ Orderly(p[1]) =>
      LET id == sub[p[1]][p[2]]
          cfg == DataCfg(id)
      IN /\ cfg.in > 0 \/ p[1] = 0 => iops[p] = IF Known(id) THEN "good" ELSE "bad"
         /\ cfg.out > 0 => p \in iocs

(* A record can be written or read if and only if the submodule in the     *)
(* subslot has this parameter, and the length is right.                    *)
Records ==
  phase \in {"records", "data"} =>
    \A s \in {x \in Slot : Orderly(x)}, n \in Number, index \in DOMAIN param :
      LET has == n \in DOMAIN sub[s] /\ ParameterCfg(sub[s][n], index)
      IN \A fits \in BOOLEAN : Accepted(s, n, index, fits) = (has /\ fits)

(* Output data lights the LED only for as long as there is a controller    *)
(* with a submodule for it.                                                *)
Lit == led => \E p \in used : DataCfg(sub[p[1]][p[2]]).out > 0

-----------------------------------------------------------------------------
(* "This is for the application to remember which subslots are populated   *)
(* in the p-net stack": while data is exchanged the table has one entry    *)
(* for each submodule of the stack, and no others.                         *)
Aligned == phase = "data" => \A s \in Slot : AlignedSlot(s)

=============================================================================

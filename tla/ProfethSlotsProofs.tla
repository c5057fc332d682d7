------------------------- MODULE ProfethSlotsProofs -------------------------
(***************************************************************************)
(* Proofs of the safety properties of ProfethSlots, for any number of      *)
(* slots and subslots, and whatever controllers expect.                    *)
(***************************************************************************)
EXTENDS ProfethSlots, FiniteSetTheorems, WellFoundedInduction, TLAPS

(* An entry for slot s is unused or for a submodule.                       *)
New(s, n, id) == [used |-> TRUE, slot |-> s, nr |-> n, id |-> id]

IsEntry(e, s) == e = Unused \/ (e.nr \in Nat \ {0} /\ e = New(s, e.nr, e.id))

Row(s, row) ==
  row = [i \in Index |-> row[i]] /\ \A i \in Index : IsEntry(row[i], s)

(* Submodules that the stack has, and indications it may give.             *)
Submodules(s, d) ==
  /\ IsFiniteSet(DOMAIN d) /\ Cardinality(DOMAIN d) <= MaxSubslots
  /\ DOMAIN d \subseteq Nat \ {0}
  /\ s = 0 => \A n \in DOMAIN d : d[n] \in Dap

IsCall(c) ==
  /\ c.slot \in Slot /\ c.nr \in Nat
  /\ c.nr = 0 => c.id # None
  /\ c.nr # 0 /\ c.slot = 0 => c.id \in Dap

TypeInv ==
  /\ module = [s \in Slot |-> module[s]] /\ slots = [s \in Slot |-> slots[s]]
  /\ sub = [s \in Slot |-> sub[s]] /\ subslots = [s \in Slot |-> subslots[s]]
  /\ \A s \in Slot : Submodules(s, sub[s]) /\ Row(s, subslots[s])
  /\ \A c \in calls : IsCall(c)
  /\ used \subseteq Slot \X Nat
  /\ iops = [p \in used |-> iops[p]]

(* Plugging is over before records are written or data is exchanged, and   *)
(* the output is set while data is exchanged.                              *)
PhaseInv ==
  /\ led \in BOOLEAN
  /\ calls # {} => phase \in {"plug", "connect"}
  /\ led => phase = "data"

-----------------------------------------------------------------------------
(***************************************************************************)
(* The table.                                                              *)
(***************************************************************************)

(* The least of some numbers is one of them.                               *)
LEMMA MinIs ==
  ASSUME NEW S \in SUBSET Nat, S # {}
  PROVE  Min(S) \in S /\ \A y \in S : Min(S) <= y
<1> DEFINE R == {ss \in Nat \X Nat : ss[1] < ss[2]}
<1>1. IsWellFoundedOn(R, Nat)
  BY NatLessThanWellFounded, Zenon DEF OpToRel
<1> HIDE DEF R
<1>2. PICK x \in S : \A y \in S : ~ (<<y, x>> \in R)
  BY <1>1, WFMin, Zenon
<1>3. ASSUME NEW y \in S PROVE x <= y
  <2>1. <<y, x>> \in R <=> y < x
    BY Zenon DEF R
  <2>2. QED
    BY <1>2, <2>1
<1>4. QED
  BY <1>3, Zenon DEF Min

(* The fields of entries.                                                  *)
LEMMA Fields ==
  ASSUME NEW s, NEW n, NEW id
  PROVE  /\ New(s, n, id).used = TRUE /\ Unused.used = FALSE
         /\ New(s, n, id).nr = n /\ Unused.nr = 0
         /\ New(s, n, id).id = id /\ Unused.id = None
         /\ New(s, n, id).slot = s
  BY Zenon DEF New, Unused

(* An entry is used if it has a number.                                    *)
LEMMA UsedIs ==
  ASSUME NEW s, NEW e, IsEntry(e, s)
  PROVE  /\ e.used \in BOOLEAN /\ (e.used <=> e.nr # 0)
         /\ e.used => e.slot = s /\ e.nr \in Nat \ {0}
<1>1. CASE e = Unused
  BY <1>1, Fields, Zenon
<1>2. CASE e.nr \in Nat \ {0} /\ e = New(s, e.nr, e.id)
  <2>1. PICK n, id : e = New(s, n, id)
    BY <1>2, Zenon
  <2>2. New(s, n, id).used = TRUE /\ New(s, n, id).slot = s
    BY Zenon DEF New
  <2>3. e.used = TRUE /\ e.slot = s
    BY <2>1, <2>2, Zenon
  <2> QED
    BY <2>3, <1>2, Zenon
<1> QED
  BY <1>1, <1>2, Zenon DEF IsEntry

(* A submodule is found by its number if there is an entry for it.         *)
LEMMA GetIs ==
  ASSUME TypeInv, NEW s \in Slot, NEW n \in Nat \ {0}
  PROVE  \/ EntriesFor(s, n) = {} /\ SubslotGet(s, n) = {}
         \/ \E i \in EntriesFor(s, n) : SubslotGet(s, n) = {i}
<1> DEFINE found == {i \in Index : subslots[s][i].nr = n}
<1>1. found = EntriesFor(s, n)
  <2>1. \A i \in Index : IsEntry(subslots[s][i], s)
    BY Zenon DEF TypeInv, Row
  <2>2. ASSUME NEW i \in Index
        PROVE  subslots[s][i].nr = n => subslots[s][i].used
    BY <2>1, UsedIs, Zenon
  <2> QED
    BY <2>2, Zenon DEF EntriesFor
<1>2. CASE found = {}
  BY <1>1, <1>2, Zenon DEF SubslotGet
<1>3. CASE found # {}
  <2>1. found \in SUBSET Nat
    BY SlotsAssumption DEF Index
  <2>2. Min(found) \in found
    BY <2>1, <1>3, MinIs, Zenon
  <2>3. SubslotGet(s, n) = {Min(found)}
    BY <1>3, Zenon DEF SubslotGet
  <2> QED
    BY <1>1, <2>2, <2>3, Zenon
<1> QED
  BY <1>2, <1>3, Zenon

(* What pulling submodule n makes of a row of the table.                   *)
Pulls(s, row, n, r) ==
  \/ r = row /\ (s < MaxSubslots => ~ \E i \in Index : row[i].used /\ row[i].nr = n)
  \/ /\ s < MaxSubslots
     /\ \E i \in Index : /\ row[i].used /\ row[i].nr = n
                         /\ r = [row EXCEPT ![i] = Unused]

(* PullSubmodule() changes one row of the table.                           *)
LEMMA PullIs ==
  ASSUME TypeInv, NEW s \in Slot, NEW n \in Nat \ {0}
  PROVE  \E r : /\ PullSubmodule(s, n) = [subslots EXCEPT ![s] = r]
                /\ Pulls(s, subslots[s], n, r)
<1> DEFINE row == subslots[s]
<1>0. row = [i \in Index |-> row[i]] /\ subslots = [x \in Slot |-> subslots[x]]
  BY Zenon DEF TypeInv, Row
<1>00. subslots = [subslots EXCEPT ![s] = row]
  BY <1>0, Zenon
<1>1. CASE s >= MaxSubslots
  <2>1. PullSubmodule(s, n) = subslots
    BY <1>1, Zenon DEF PullSubmodule
  <2>2. Pulls(s, row, n, row)
    BY <1>1, SlotsAssumption DEF Pulls, Slot
  <2> QED
    BY <2>1, <2>2, <1>00, Zenon
<1>2. CASE ~ (s >= MaxSubslots)
  <2> DEFINE r == [i \in Index |-> IF i \in SubslotGet(s, n) THEN Unused ELSE row[i]]
  <2>1. PullSubmodule(s, n) = [subslots EXCEPT ![s] = r]
    BY <1>2, Zenon DEF PullSubmodule
  <2>2. s < MaxSubslots
    BY <1>2, SlotsAssumption DEF Slot
  <2>3. CASE EntriesFor(s, n) = {} /\ SubslotGet(s, n) = {}
    <3>1. r = row
      BY <2>3, <1>0, Zenon
    <3>2. ~ \E i \in Index : row[i].used /\ row[i].nr = n
      BY <2>3, Zenon DEF EntriesFor
    <3>3. Pulls(s, row, n, r)
      BY <3>1, <3>2, Zenon DEF Pulls
    <3> QED
      BY <2>1, <3>3, Zenon
  <2>4. ASSUME NEW i \in EntriesFor(s, n), SubslotGet(s, n) = {i}
        PROVE  Pulls(s, row, n, r)
    <3>1. i \in Index /\ row[i].used /\ row[i].nr = n
      BY Zenon DEF EntriesFor
    <3>2. r = [row EXCEPT ![i] = Unused]
      BY <2>4, <1>0, Zenon
    <3> QED
      BY <2>2, <3>1, <3>2, Zenon DEF Pulls
  <2> QED
    BY <2>1, <2>3, <2>4, GetIs, Zenon
<1> QED
  BY <1>1, <1>2, Zenon

(* What plugging submodule n makes of it.                                  *)
Plugs(s, r, n, id, q) ==
  \/ q = r /\ \A i \in Index : r[i].used
  \/ \E i \in Index : ~ r[i].used /\ q = [r EXCEPT ![i] = New(s, n, id)]

(* PlugSubmodule() changes one row of the table.                           *)
LEMMA PlugIs ==
  ASSUME NEW t, t = [x \in Slot |-> t[x]], NEW s \in Slot,
         t[s] = [i \in Index |-> t[s][i]], NEW n, NEW id
  PROVE  \E q : /\ PlugSubmodule(t, s, n, id) = [t EXCEPT ![s] = q]
                /\ Plugs(s, t[s], n, id, q)
<1> DEFINE free == {i \in Index : ~t[s][i].used}
<1>1. CASE free = {}
  <2>1. PlugSubmodule(t, s, n, id) = t
    BY <1>1, Zenon DEF PlugSubmodule
  <2>2. t = [t EXCEPT ![s] = t[s]]
    OBVIOUS
  <2>3. Plugs(s, t[s], n, id, t[s])
    BY <1>1, Zenon DEF Plugs
  <2> QED
    BY <2>1, <2>2, <2>3, Zenon
<1>2. CASE free # {}
  <2>1. free \in SUBSET Nat
    BY SlotsAssumption DEF Index
  <2>2. Min(free) \in free
    BY <2>1, <1>2, MinIs, Zenon
  <2> DEFINE q == [t[s] EXCEPT ![Min(free)] = New(s, n, id)]
  <2>3. PlugSubmodule(t, s, n, id) = [t EXCEPT ![s] = q]
    BY <1>2, Zenon DEF PlugSubmodule, New
  <2>4. Plugs(s, t[s], n, id, q)
    BY <2>2, Zenon DEF Plugs
  <2> QED
    BY <2>3, <2>4, Zenon
<1> QED
  BY <1>1, <1>2, Zenon

(* What an indication for a submodule does: nothing, if the stack has no   *)
(* room, or it pulls and plugs.                                            *)
Adding(d, n, id) ==
  [x \in (DOMAIN d) \cup {n} |-> IF x = n THEN id ELSE d[x]]

PulledRow(c, r) ==
  IF c.nr \in DOMAIN sub[c.slot] THEN Pulls(c.slot, subslots[c.slot], c.nr, r)
  ELSE r = subslots[c.slot]

Replugged(c) ==
  /\ Cardinality((DOMAIN sub[c.slot]) \ {c.nr}) < MaxSubslots
  /\ sub' = [sub EXCEPT ![c.slot] = Adding(sub[c.slot], c.nr, c.id)]
  /\ \E r, q : /\ PulledRow(c, r) /\ Plugs(c.slot, r, c.nr, c.id, q)
               /\ subslots' = [subslots EXCEPT ![c.slot] = q]

(* A row stays a row when a submodule is pulled.                           *)
LEMMA PulledRowIs ==
  ASSUME TypeInv, NEW s \in Slot, NEW n \in Nat, NEW r,
         Pulls(s, subslots[s], n, r) \/ r = subslots[s]
  PROVE  Row(s, r)
<1> DEFINE row == subslots[s]
<1>1. Row(s, row)
  BY Zenon DEF TypeInv
<1>2. CASE r = row
  BY <1>1, <1>2, Zenon
<1>3. ASSUME NEW i \in Index, r = [row EXCEPT ![i] = Unused]
      PROVE  Row(s, r)
  BY <1>1, <1>3, Zenon DEF Row, IsEntry
<1> QED
  BY <1>2, <1>3, Zenon DEF Pulls

(* What the indication for a submodule does to the submodules that are     *)
(* plugged and to the table.                                               *)
LEMMA SubmoduleIs ==
  ASSUME TypeInv, NEW c \in calls, ExpSubmoduleInd(c)
  PROVE  UNCHANGED <<sub, subslots>> \/ Replugged(c)
<1> DEFINE s == c.slot
           n == c.nr
           pulled == IF n \in DOMAIN sub[s] THEN PullSubmodule(s, n) ELSE subslots
<1>0. s \in Slot /\ n \in Nat \ {0}
  BY Zenon DEF TypeInv, IsCall, ExpSubmoduleInd
<1>00. subslots = [x \in Slot |-> subslots[x]]
  BY Zenon DEF TypeInv
<1>1. PICK r : pulled = [subslots EXCEPT ![s] = r] /\ PulledRow(c, r)
  <2>1. CASE n \in DOMAIN sub[s]
    <3>1. PICK r : /\ PullSubmodule(s, n) = [subslots EXCEPT ![s] = r]
                   /\ Pulls(s, subslots[s], n, r)
      BY <1>0, PullIs, Zenon
    <3> QED
      BY <2>1, <3>1, Zenon DEF PulledRow
  <2>2. CASE n \notin DOMAIN sub[s]
    <3>1. subslots = [subslots EXCEPT ![s] = subslots[s]]
      BY <1>0, <1>00, Zenon
    <3> QED
      BY <2>2, <3>1, Zenon DEF PulledRow
  <2> QED
    BY <2>1, <2>2, Zenon
<1>2. CASE Cardinality((DOMAIN sub[s]) \ {n}) < MaxSubslots
  <2>1. sub' = [sub EXCEPT ![s] = Adding(sub[s], n, c.id)]
    BY <1>2, Zenon DEF ExpSubmoduleInd, Adding
  <2>2. subslots' = PlugSubmodule(pulled, s, n, c.id)
    BY <1>2, Zenon DEF ExpSubmoduleInd
  <2>3. pulled[s] = r /\ pulled = [x \in Slot |-> pulled[x]]
    BY <1>0, <1>00, <1>1, Zenon
  <2>4. r = [i \in Index |-> r[i]]
    BY <1>0, <1>1, PulledRowIs DEF PulledRow, Row
  <2> HIDE DEF pulled
  <2>5. PICK q : /\ PlugSubmodule(pulled, s, n, c.id) = [pulled EXCEPT ![s] = q]
                 /\ Plugs(s, r, n, c.id, q)
    BY <1>0, <2>3, <2>4, PlugIs, Zenon
  <2>6. subslots' = [subslots EXCEPT ![s] = q]
    BY <1>0, <1>00, <1>1, <2>2, <2>5, Zenon
  <2> QED
    BY <1>1, <1>2, <2>1, <2>5, <2>6, Zenon DEF Replugged
<1>3. CASE ~ (Cardinality((DOMAIN sub[s]) \ {n}) < MaxSubslots)
  <2>1. n \notin DOMAIN sub[s]
    <3> SUFFICES ASSUME n \in DOMAIN sub[s] PROVE FALSE
      OBVIOUS
    <3>1. IsFiniteSet(DOMAIN sub[s]) /\ Cardinality(DOMAIN sub[s]) <= MaxSubslots
      BY <1>0, Zenon DEF TypeInv, Submodules
    <3>2. Cardinality((DOMAIN sub[s]) \ {n}) = Cardinality(DOMAIN sub[s]) - 1
      BY <3>1, FS_RemoveElement, Zenon
    <3>3. Cardinality(DOMAIN sub[s]) \in Nat
      BY <3>1, FS_CardinalityType, Zenon
    <3> QED
      BY <1>3, <3>1, <3>2, <3>3, SlotsAssumption
  <2>2. sub' = sub /\ subslots' = pulled
    BY <1>3, Zenon DEF ExpSubmoduleInd
  <2> QED
    BY <2>1, <2>2, Zenon
<1> QED
  BY <1>2, <1>3, Zenon

-----------------------------------------------------------------------------
(***************************************************************************)
(* The loops over the table.                                               *)
(***************************************************************************)

(* Entry k is in one of the slots, and each entry is at some k.            *)
LEMMA PlaceIs ==
  ASSUME NEW k \in 1 .. Size
  PROVE  (k - 1) \div MaxSubslots \in Slot /\ ((k - 1) % MaxSubslots) + 1 \in Index
<1> DEFINE M == MaxSubslots
           q == (k - 1) \div M
           r == (k - 1) % M
<1>0. MaxSlots \in Nat \ {0} /\ M \in Nat \ {0}
  BY SlotsAssumption, Zenon
<1>1. k \in Int /\ 1 <= k /\ k <= MaxSlots * M
  BY SlotsAssumption DEF Size
<1> HIDE DEF M
<1>2. q \in Int /\ r \in 0 .. M - 1 /\ k - 1 = M * q + r
  BY <1>0, <1>1
<1> HIDE DEF q, r
<1>3. q >= 0
  <2> SUFFICES ASSUME q <= -1 PROVE FALSE
    BY <1>2
  <2>1. M * q <= -M
    BY <1>0, <1>2
  <2> QED
    BY <1>0, <1>1, <1>2, <2>1
<1>4. q <= MaxSlots - 1
  <2> SUFFICES ASSUME q >= MaxSlots PROVE FALSE
    BY <1>0, <1>2
  <2>1. M * q >= M * MaxSlots
    BY <1>0, <1>2
  <2> QED
    BY <1>0, <1>1, <1>2, <2>1
<1> QED
  BY <1>0, <1>2, <1>3, <1>4 DEF Slot, Index, q, r, M

(* Every entry of the table has a place in the loop over it.               *)
LEMMA PlaceOf ==
  ASSUME NEW s \in Slot, NEW i \in Index
  PROVE  \E k \in 1 .. Size : EntryAt(k) = subslots[s][i]
<1> DEFINE M == MaxSubslots
           k == M * s + i
           q == (k - 1) \div M
           r == (k - 1) % M
<1>0. MaxSlots \in Nat \ {0} /\ M \in Nat \ {0}
  BY SlotsAssumption, Zenon
<1>1. s \in Nat /\ s <= MaxSlots - 1 /\ i \in 1 .. M
  BY SlotsAssumption DEF Slot, Index
<1> HIDE DEF M
<1>2. M * s \in Nat /\ M * s <= M * (MaxSlots - 1)
  BY <1>0, <1>1
<1>3. k \in 1 .. Size
  BY <1>0, <1>1, <1>2 DEF Size, M
<1>4. q \in Int /\ r \in 0 .. M - 1 /\ k - 1 = M * q + r
  BY <1>0, <1>1, <1>2
<1> HIDE DEF q, r
<1>5. M * s + (i - 1) = M * q + r
  BY <1>0, <1>1, <1>2, <1>4
<1>6. q = s
  <2>1. ASSUME q >= s + 1 PROVE FALSE
    <3>1. M * q >= M * (s + 1) /\ M * (s + 1) = M * s + M
      BY <1>0, <1>1, <1>4, <2>1
    <3> QED
      BY <1>0, <1>1, <1>4, <1>5, <3>1
  <2>2. ASSUME s >= q + 1 PROVE FALSE
    <3>1. M * s >= M * (q + 1) /\ M * (q + 1) = M * q + M
      BY <1>0, <1>1, <1>4, <2>2
    <3> QED
      BY <1>0, <1>1, <1>4, <1>5, <3>1
  <2> QED
    BY <1>1, <1>4, <2>1, <2>2
<1>7. r + 1 = i
  BY <1>0, <1>1, <1>2, <1>4, <1>5, <1>6
<1> QED
  BY <1>3, <1>6, <1>7, Zenon DEF EntryAt, q, r, M

(* In an orderly slot an entry that is in use is that of the submodule.    *)
LEMMA EntryIs ==
  ASSUME TypeInv, Remembers, NEW s \in Slot, Orderly(s),
         NEW i \in Index, subslots[s][i].used
  PROVE  LET e == subslots[s][i]
         IN e.nr \in DOMAIN sub[s] /\ e.id = sub[s][e.nr]
<1> DEFINE n == subslots[s][i].nr
<1>1. AlignedSlot(s)
  BY Zenon DEF Remembers
<1>2. n \in DOMAIN sub[s]
  BY <1>1, Zenon DEF AlignedSlot
<1>3. PICK j \in Index : EntriesFor(s, n) = {j} /\ subslots[s][j].id = sub[s][n]
  BY <1>1, <1>2, Zenon DEF AlignedSlot
<1>4. i \in EntriesFor(s, n)
  BY Zenon DEF EntriesFor
<1> QED
  BY <1>2, <1>3, <1>4, Zenon

(* The entry at k, in slot s.                                              *)
LEMMA At ==
  ASSUME TypeInv, NEW k \in 1 .. Size, EntryAt(k).used
  PROVE  LET e == EntryAt(k)
         IN /\ e.slot \in Slot /\ e.nr \in Nat \ {0}
            /\ Remembers /\ Orderly(e.slot) =>
                 e.nr \in DOMAIN sub[e.slot] /\ e.id = sub[e.slot][e.nr]
<1> DEFINE s == (k - 1) \div MaxSubslots
           i == ((k - 1) % MaxSubslots) + 1
<1>1. s \in Slot /\ i \in Index /\ EntryAt(k) = subslots[s][i]
  BY PlaceIs, Zenon DEF EntryAt
<1> HIDE DEF s, i
<1>2. IsEntry(subslots[s][i], s)
  BY <1>1, Zenon DEF TypeInv, Row
<1>3. subslots[s][i].slot = s /\ subslots[s][i].nr \in Nat \ {0}
  BY <1>1, <1>2, UsedIs, Zenon
<1> QED
  BY <1>1, <1>3, EntryIs

(* The status of p that the controller should see.                         *)
Shown(p) == p \in used /\ p[2] \in DOMAIN sub[p[1]] /\ Orderly(p[1])

Right(ps, cs, p) ==
  LET id == sub[p[1]][p[2]]
      cfg == DataCfg(id)
  IN /\ cfg.in > 0 \/ p[1] = 0 => ps[p] = IF Known(id) THEN "good" ELSE "bad"
     /\ cfg.out > 0 => p \in cs

(* The data of submodules.                                                 *)
LEMMA CfgIs ==
  ASSUME NEW id
  PROVE  /\ DataCfg(id).in \in Nat /\ DataCfg(id).out \in Nat
         /\ id \in Dap => Known(id) /\ DataCfg(id).in = 0 /\ DataCfg(id).out = 0
         /\ Known(id) /\ DataCfg(id).in > 0 =>
              GetInputData(id) = [length |-> DataCfg(id).in, status |-> "good"]
         /\ ~ Known(id) => GetInputData(id) = [length |-> 0, status |-> "bad"]
<1>1. CASE Known(id)
  <2>1. DataCfg(id) = Gsdml[id]
    BY <1>1, Zenon DEF DataCfg
  <2>2. id \in Dap \cup {"di", "do", "dio", "echo"}
    BY <1>1, Zenon DEF Known, Gsdml
  <2>3. /\ Gsdml[id].in \in Nat /\ Gsdml[id].out \in Nat
        /\ id \in Dap => Gsdml[id].in = 0 /\ Gsdml[id].out = 0
    BY <2>2, Zenon DEF Gsdml, Submodule, Dap
  <2> QED
    BY <1>1, <2>1, <2>3, Zenon DEF GetInputData
<1>2. CASE ~ Known(id)
  <2>1. id \notin Dap
    BY <1>2, Zenon DEF Known, Gsdml
  <2>2. DataCfg(id) = Submodule(1, 0, {})
    BY <1>2, Zenon DEF DataCfg
  <2> QED
    BY <1>2, <2>1, <2>2 DEF Submodule, GetInputData
<1> QED
  BY <1>1, <1>2, Zenon

(* What the loops do for an entry: the status of others stays.             *)
Others(x, y, p) ==
  /\ y.iops = [q \in used |-> y.iops[q]]
  /\ \A q \in used : q # p => y.iops[q] = x.iops[q]

(* Input data of the right length sets the status of that subslot, and of  *)
(* no other.                                                               *)
LEMMA ProvideIs ==
  ASSUME NEW d, d.iops = [p \in used |-> d.iops[p]], "iops" \in DOMAIN d,
         d = [d EXCEPT !.iops = d.iops], NEW e, NEW length, NEW status
  PROVE  LET x == Provide(d, e, length, status)
             p == <<e.slot, e.nr>>
         IN /\ Others(d, x, p) /\ x = [d EXCEPT !.iops = x.iops]
            /\ p \in used /\ length \in {0, DataCfg(sub[e.slot][e.nr]).in} =>
                 x.iops[p] = status
<1> DEFINE x == Provide(d, e, length, status)
           p == <<e.slot, e.nr>>
           y == [d EXCEPT !.iops[p] = status]
<1>1. CASE p \in used /\ length \in {0, DataCfg(sub[e.slot][e.nr]).in}
  <2>1. x = y
    BY <1>1, Zenon DEF Provide
  <2>2. y.iops = [d.iops EXCEPT ![p] = status] /\ y = [d EXCEPT !.iops = y.iops]
    OBVIOUS
  <2>3. Others(d, y, p) /\ y.iops[p] = status
    BY <1>1, <2>2, Zenon DEF Others
  <2> QED
    BY <1>1, <2>1, <2>2, <2>3, Zenon
<1>2. CASE ~ (p \in used /\ length \in {0, DataCfg(sub[e.slot][e.nr]).in})
  <2>1. x = d
    BY <1>2, Zenon DEF Provide
  <2>2. Others(d, d, p) /\ d = [d EXCEPT !.iops = d.iops]
    BY Zenon DEF Others
  <2> QED
    BY <1>2, <2>1, <2>2, Zenon
<1> QED
  BY <1>1, <1>2, Zenon

(* What the loop of initial data does for one entry.                       *)
LEMMA InitialForIs ==
  ASSUME TypeInv, Remembers, NEW k \in 1 .. Size, EntryAt(k).used,
         NEW d, d = [iops |-> d.iops, iocs |-> d.iocs],
         d.iops = [p \in used |-> d.iops[p]]
  PROVE  LET e == EntryAt(k)
             x == InitialFor(d, e)
             p == <<e.slot, e.nr>>
         IN /\ x = [iops |-> x.iops, iocs |-> x.iocs]
            /\ Others(d, x, p) /\ d.iocs \subseteq x.iocs
            /\ Shown(p) => Right(x.iops, x.iocs, p)
<1> DEFINE e == EntryAt(k)
           x == InitialFor(d, e)
           p == <<e.slot, e.nr>>
           data == GetInputData(e.id)
           cfg == DataCfg(e.id)
           provided ==
             IF cfg.in = 0 /\ cfg.out > 0 THEN d
             ELSE IF e.slot = 0 THEN Provide(d, e, 0, "good")
             ELSE Provide(d, e, data.length, data.status)
<1>0. e.slot \in Slot /\ e.nr \in Nat \ {0}
  BY At, Zenon
<1>1. cfg.in \in Nat /\ cfg.out \in Nat
  BY CfgIs, Zenon
<1>2. x = IF cfg.out > 0 /\ p \in used
            THEN [provided EXCEPT !.iocs = @ \cup {p}] ELSE provided
  BY Zenon DEF InitialFor
<1>3. "iops" \in DOMAIN d /\ d = [d EXCEPT !.iops = d.iops]
  OBVIOUS
<1>4. Others(d, provided, p) /\ provided = [d EXCEPT !.iops = provided.iops]
  <2> HIDE DEF e, data, cfg
  <2>1. Others(d, d, p)
    BY Zenon DEF Others
  <2> QED
    BY <1>3, <2>1, ProvideIs
<1>5. provided = [iops |-> provided.iops, iocs |-> d.iocs]
  <2> HIDE DEF provided
  <2> QED
    BY <1>4, Zenon
<1>6. /\ x.iops = provided.iops /\ x.iocs = (IF cfg.out > 0 /\ p \in used
                                              THEN d.iocs \cup {p} ELSE d.iocs)
      /\ x = [iops |-> x.iops, iocs |-> x.iocs]
  <2> HIDE DEF provided, e, cfg, p, x
  <2> QED
    BY <1>2, <1>5
<1>7. ASSUME Shown(p) PROVE Right(x.iops, x.iocs, p)
  <2>1. p \in used /\ p[1] = e.slot /\ p[2] = e.nr /\ Orderly(e.slot)
    BY <1>7, Zenon DEF Shown
  <2>2. e.id = sub[e.slot][e.nr] /\ e.nr \in DOMAIN sub[e.slot]
    BY <2>1, At, Zenon
  <2>3. cfg.out > 0 => p \in x.iocs
    BY <1>6, <2>1, Zenon
  <2>4. CASE e.slot = 0
    <3>1. e.id \in Dap
      BY <1>0, <2>2, <2>4, Zenon DEF TypeInv, Submodules
    <3>2. Known(e.id) /\ cfg.in = 0 /\ cfg.out = 0
      BY <3>1, CfgIs, Zenon
    <3>3. provided = Provide(d, e, 0, "good")
      BY <2>4, <3>2
    <3>4. provided.iops[p] = "good"
      <4> HIDE DEF provided, e
      <4> QED
        BY <1>3, <2>1, <3>3, ProvideIs, ZenonT(30)
    <3> QED
      BY <1>6, <2>1, <2>2, <2>3, <3>2, <3>4, Zenon DEF Right
  <2>5. CASE e.slot # 0 /\ cfg.in > 0
    <3>1. provided = Provide(d, e, data.length, data.status)
      BY <1>1, <2>5
    <3>2. data.length \in {0, cfg.in} /\ data.status = IF Known(e.id) THEN "good" ELSE "bad"
      BY <2>5, CfgIs
    <3>3. provided.iops[p] = data.status
      <4> HIDE DEF provided, e, data
      <4> QED
        BY <1>3, <2>1, <2>2, <3>1, <3>2, ProvideIs
    <3> QED
      BY <1>6, <2>1, <2>2, <2>3, <3>2, <3>3 DEF Right
  <2>6. CASE e.slot # 0 /\ ~ (cfg.in > 0)
    BY <2>1, <2>2, <2>3, <2>6, Zenon DEF Right
  <2> QED
    BY <2>4, <2>5, <2>6, Zenon
<1> HIDE DEF provided, x
<1> QED
  BY <1>4, <1>6, <1>7, Zenon DEF Others, x

(* A subslot of the connection has output data.                            *)
Lights == \E p \in used : DataCfg(sub[p[1]][p[2]]).out > 0

(* What app_cyclic_data_callback() makes of the output.                    *)
Output(d, id, length, status, bit) ==
  IF DataCfg(id).out = 0 THEN d
  ELSE IF length = DataCfg(id).out /\ status = "good"
    THEN SetOutputData(d, id, bit)
  ELSE [d EXCEPT !.led = FALSE]

(* The LED is on only by data of the controller.                           *)
LEMMA OutputIs ==
  ASSUME NEW d, d = [iops |-> d.iops, led |-> d.led], d.led \in BOOLEAN,
         NEW id, NEW status, NEW bit \in BOOLEAN, NEW length,
         DataCfg(id).out > 0 /\ length = DataCfg(id).out => Lights
  PROVE  \E m \in BOOLEAN :
           /\ Output(d, id, length, status, bit) = [iops |-> d.iops, led |-> m]
           /\ m => d.led \/ Lights
<1> DEFINE cfg == DataCfg(id)
<1>1. cfg.out \in Nat
  BY CfgIs, Zenon
<1>2. \E m \in {FALSE} : [d EXCEPT !.led = FALSE] = [iops |-> d.iops, led |-> m]
  <2>1. ASSUME NEW m PROVE [d EXCEPT !.led = m] = [iops |-> d.iops, led |-> m]
    OBVIOUS
  <2> QED
    BY <2>1, Zenon
<1>3. SetOutputData(d, id, bit) \in {d, [iops |-> d.iops, led |-> bit]}
  BY Zenon DEF SetOutputData
<1>4. CASE cfg.out = 0
  BY <1>4, Zenon DEF Output
<1>5. CASE cfg.out # 0 /\ ~ (length = cfg.out /\ status = "good")
  BY <1>2, <1>5, Zenon DEF Output
<1>6. CASE cfg.out # 0 /\ length = cfg.out /\ status = "good"
  <2>1. Lights
    BY <1>1, <1>6
  <2> QED
    BY <1>3, <1>6, <2>1, Zenon DEF Output
<1> QED
  BY <1>4, <1>5, <1>6, Zenon

(* What the cyclic loop does for one entry.                                *)
LEMMA CyclicIs ==
  ASSUME TypeInv, Remembers, NEW k \in 1 .. Size, EntryAt(k).used,
         Known(EntryAt(k).id), EntryAt(k).slot # 0,
         NEW status, NEW bit \in BOOLEAN, NEW cs,
         NEW d, d = [iops |-> d.iops, led |-> d.led], d.led \in BOOLEAN,
         d.iops = [p \in used |-> d.iops[p]]
  PROVE  LET e == EntryAt(k)
             x == Cyclic(d, e, status, bit)
             p == <<e.slot, e.nr>>
         IN /\ x = [iops |-> x.iops, led |-> x.led] /\ x.led \in BOOLEAN
            /\ Others(d, x, p)
            /\ x.led => d.led \/ Lights
            /\ Shown(p) /\ Right(d.iops, cs, p) => Right(x.iops, cs, p)
<1> DEFINE e == EntryAt(k)
           x == Cyclic(d, e, status, bit)
           p == <<e.slot, e.nr>>
           data == GetInputData(e.id)
           cfg == DataCfg(e.id)
           length == IF p \in used THEN DataCfg(sub[e.slot][e.nr]).out ELSE 0
           out == Output(d, e.id, length, status, bit)
<1>0. e.slot \in Slot /\ e.nr \in Nat \ {0}
  BY At, Zenon
<1>1. cfg.in \in Nat /\ cfg.out \in Nat
  BY CfgIs, Zenon
<1>2. x = IF cfg.in = 0 THEN out ELSE Provide(out, e, data.length, data.status)
  BY Zenon DEF Cyclic, Output
<1>3. PICK m \in BOOLEAN : out = [iops |-> d.iops, led |-> m] /\ (m => d.led \/ Lights)
  <2>1. cfg.out > 0 /\ length = cfg.out => Lights
    <3> SUFFICES ASSUME cfg.out > 0, length = cfg.out PROVE Lights
      OBVIOUS
    <3>1. p \in used
      OBVIOUS
    <3>2. p[1] = e.slot /\ p[2] = e.nr
      OBVIOUS
    <3> QED
      BY <3>1, <3>2, Zenon DEF Lights
  <2> HIDE DEF e, length
  <2> QED
    BY <2>1, OutputIs
<1> HIDE DEF out
<1>4. CASE cfg.in = 0
  <2>1. x.iops = d.iops /\ x.led = m /\ x = [iops |-> d.iops, led |-> m]
    <3>1. x = [iops |-> d.iops, led |-> m]
      BY <1>2, <1>3, <1>4, Zenon
    <3> HIDE DEF x
    <3> QED
      BY <3>1, Zenon
  <2>2. Others(d, x, p)
    BY <2>1, Zenon DEF Others
  <2> HIDE DEF x
  <2> QED
    BY <1>3, <2>1, <2>2, Zenon DEF x
<1>5. CASE cfg.in # 0
  <2>1. x = Provide(out, e, data.length, data.status)
    BY <1>2, <1>5, Zenon
  <2>2. /\ out.iops = d.iops /\ "iops" \in DOMAIN out
        /\ out = [out EXCEPT !.iops = out.iops]
    BY <1>3, Zenon
  <2>3. Others(out, x, p) /\ x = [out EXCEPT !.iops = x.iops]
    <3> HIDE DEF e, data
    <3> QED
      BY <2>1, <2>2, ProvideIs
  <2> HIDE DEF x
  <2>4. Others(d, x, p)
    BY <2>2, <2>3, Zenon DEF Others
  <2>5. x = [iops |-> x.iops, led |-> m] /\ x.led = m
    BY <1>3, <2>3, Zenon
  <2>6. ASSUME Shown(p), Right(d.iops, cs, p) PROVE Right(x.iops, cs, p)
    <3>1. p \in used /\ p[1] = e.slot /\ p[2] = e.nr /\ Orderly(e.slot)
      BY <2>6, Zenon DEF Shown
    <3>2. e.id = sub[e.slot][e.nr] /\ e.nr \in DOMAIN sub[e.slot]
      BY <3>1, At, Zenon
    <3>3. data = [length |-> cfg.in, status |-> "good"]
      BY <1>1, <1>5, CfgIs, SMTT(30)
    <3>4. x.iops[p] = "good"
      <4> HIDE DEF e, data
      <4> QED
        BY <2>1, <2>2, <3>1, <3>2, <3>3, ProvideIs
    <3> QED
      BY <2>6, <3>1, <3>2, <3>4, Zenon DEF Right
  <2> QED
    BY <1>3, <2>4, <2>5, <2>6, Zenon DEF x
<1> QED
  BY <1>4, <1>5, Zenon

(* The loop of app_set_initial_data_and_ioxs() has a result.               *)
InitialRound(g, k) == IF k = 0 THEN [iops |-> iops, iocs |-> iocs] ELSE InitialAt(g[k - 1], k)

InitialAfter(n, g) == g = [k \in 0 .. n |-> InitialRound(g, k)]

(* The recursive function that stands for the loop of initial data exists. *)
LEMMA InitialExists ==
  \A n \in Nat : \E g : InitialAfter(n, g)
<1> DEFINE T == {n \in Nat : ~ \E g : InitialAfter(n, g)}
<1> SUFFICES ASSUME T # {} PROVE FALSE
  OBVIOUS
<1>1. PICK n \in T : \A y \in T : n <= y
  <2>1. Min(T) \in T /\ \A y \in T : Min(T) <= y
    BY MinIs, Zenon
  <2> QED
    BY <2>1, Zenon
<1>2. CASE n = 0
  <2> DEFINE g == [k \in 0 .. 0 |-> [iops |-> iops, iocs |-> iocs]]
  <2>1. \A k \in 0 .. 0 : g[k] = InitialRound(g, k)
    BY DEF InitialRound
  <2>2. InitialAfter(0, g)
    BY <2>1, Zenon DEF InitialAfter
  <2> QED
    BY <1>2, <2>2, Zenon
<1>3. CASE n # 0
  <2>1. n - 1 \in Nat /\ n - 1 \notin T
    BY <1>1, <1>3
  <2>2. PICK g : InitialAfter(n - 1, g)
    BY <2>1, Zenon
  <2> DEFINE h == [k \in 0 .. n |->
                     IF k < n THEN g[k] ELSE InitialAt(g[n - 1], n)]
  <2>3. ASSUME NEW k \in 0 .. n PROVE h[k] = InitialRound(h, k)
    <3>1. CASE k < n
      <4>1. k \in 0 .. n - 1 /\ h[k] = g[k]
        BY <3>1
      <4>2. g[k] = InitialRound(g, k)
        BY <2>2, <4>1, Zenon DEF InitialAfter
      <4>3. k # 0 => k - 1 \in 0 .. n /\ h[k - 1] = g[k - 1]
        BY <3>1
      <4> QED
        BY <4>1, <4>2, <4>3, Zenon DEF InitialRound
    <3>2. CASE k = n
      <4>1. h[k] = InitialAt(g[n - 1], n)
        BY <3>2
      <4>2. h[n - 1] = g[n - 1]
        BY <1>3
      <4> QED
        BY <1>3, <3>2, <4>1, <4>2, Zenon DEF InitialRound
    <3> QED
      BY <3>1, <3>2
  <2>4. InitialAfter(n, h)
    BY <2>3, Zenon DEF InitialAfter
  <2> QED
    BY <2>4, Zenon
<1> QED
  BY <1>2, <1>3, Zenon

(* So has that of app_utils_cyclic_data_poll().                            *)
CyclicRound(status, bit, g, k) == IF k = 0 THEN [iops |-> iops, led |-> led] ELSE CyclicAt(g[k - 1], k, status, bit)

CyclicAfter(status, bit, n, g) == g = [k \in 0 .. n |-> CyclicRound(status, bit, g, k)]

(* The same for the cyclic loop.                                           *)
LEMMA CyclicExists ==
  ASSUME NEW status, NEW bit
  PROVE  \A n \in Nat : \E g : CyclicAfter(status, bit, n, g)
<1> DEFINE T == {n \in Nat : ~ \E g : CyclicAfter(status, bit, n, g)}
<1> SUFFICES ASSUME T # {} PROVE FALSE
  OBVIOUS
<1>1. PICK n \in T : \A y \in T : n <= y
  <2>1. Min(T) \in T /\ \A y \in T : Min(T) <= y
    BY MinIs, Zenon
  <2> QED
    BY <2>1, Zenon
<1>2. CASE n = 0
  <2> DEFINE g == [k \in 0 .. 0 |-> [iops |-> iops, led |-> led]]
  <2>1. \A k \in 0 .. 0 : g[k] = CyclicRound(status, bit, g, k)
    BY DEF CyclicRound
  <2>2. CyclicAfter(status, bit, 0, g)
    BY <2>1, Zenon DEF CyclicAfter
  <2> QED
    BY <1>2, <2>2, Zenon
<1>3. CASE n # 0
  <2>1. n - 1 \in Nat /\ n - 1 \notin T
    BY <1>1, <1>3
  <2>2. PICK g : CyclicAfter(status, bit, n - 1, g)
    BY <2>1, Zenon
  <2> DEFINE h == [k \in 0 .. n |->
                     IF k < n THEN g[k] ELSE CyclicAt(g[n - 1], n, status, bit)]
  <2>3. ASSUME NEW k \in 0 .. n PROVE h[k] = CyclicRound(status, bit, h, k)
    <3>1. CASE k < n
      <4>1. k \in 0 .. n - 1 /\ h[k] = g[k]
        BY <3>1
      <4>2. g[k] = CyclicRound(status, bit, g, k)
        BY <2>2, <4>1, Zenon DEF CyclicAfter
      <4>3. k # 0 => k - 1 \in 0 .. n /\ h[k - 1] = g[k - 1]
        BY <3>1
      <4> QED
        BY <4>1, <4>2, <4>3, Zenon DEF CyclicRound
    <3>2. CASE k = n
      <4>1. h[k] = CyclicAt(g[n - 1], n, status, bit)
        BY <3>2
      <4>2. h[n - 1] = g[n - 1]
        BY <1>3
      <4> QED
        BY <1>3, <3>2, <4>1, <4>2, Zenon DEF CyclicRound
    <3> QED
      BY <3>1, <3>2
  <2>4. CyclicAfter(status, bit, n, h)
    BY <2>3, Zenon DEF CyclicAfter
  <2> QED
    BY <2>4, Zenon
<1> QED
  BY <1>2, <1>3, Zenon

(* After k rounds the entries so far have their status.                    *)
Place(k) == <<EntryAt(k).slot, EntryAt(k).nr>>

InitialGood(d, k) ==
  /\ d = [iops |-> d.iops, iocs |-> d.iocs]
  /\ d.iops = [p \in used |-> d.iops[p]]
  /\ \A j \in 1 .. k : EntryAt(j).used /\ Shown(Place(j)) =>
       Right(d.iops, d.iocs, Place(j))

(* A pass of the loop of initial data.                                     *)
LEMMA InitialStep ==
  ASSUME TypeInv, Remembers, NEW k \in 1 .. Size, NEW d, InitialGood(d, k - 1)
  PROVE  InitialGood(InitialAt(d, k), k)
<1>0. k \in Nat
  BY SlotsAssumption DEF Size
<1>1. CASE ~ EntryAt(k).used
  <2>1. InitialAt(d, k) = d
    BY <1>1, Zenon DEF InitialAt
  <2>2. \A j \in 1 .. k : j = k \/ j \in 1 .. k - 1
    BY <1>0
  <2> QED
    BY <1>1, <2>1, <2>2, Zenon DEF InitialGood
<1>2. CASE EntryAt(k).used
  <2> DEFINE x == InitialFor(d, EntryAt(k))
             p == Place(k)
  <2>1. InitialAt(d, k) = x
    BY <1>2, Zenon DEF InitialAt
  <2>2. d = [iops |-> d.iops, iocs |-> d.iocs] /\ d.iops = [q \in used |-> d.iops[q]]
    BY Zenon DEF InitialGood
  <2>3. /\ x = [iops |-> x.iops, iocs |-> x.iocs]
        /\ Others(d, x, p) /\ d.iocs \subseteq x.iocs
        /\ Shown(p) => Right(x.iops, x.iocs, p)
    BY <1>2, <2>2, InitialForIs, Zenon DEF Place
  <2> HIDE DEF x, p
  <2>4. ASSUME NEW j \in 1 .. k, EntryAt(j).used, Shown(Place(j))
        PROVE  Right(x.iops, x.iocs, Place(j))
    <3> DEFINE q == Place(j)
    <3>1. CASE q = p
      BY <2>3, <2>4, <3>1, Zenon
    <3>2. CASE q # p
      <4>1. j \in 1 .. k - 1
        BY <1>0, <3>2 DEF p
      <4>2. Right(d.iops, d.iocs, q) /\ q \in used
        BY <2>4, <4>1, Zenon DEF InitialGood, Shown
      <4>3. x.iops[q] = d.iops[q]
        BY <2>3, <3>2, <4>2, Zenon DEF Others
      <4> HIDE DEF q
      <4> QED
        BY <2>3, <4>2, <4>3, Zenon DEF Right, q
    <3> QED
      BY <3>1, <3>2, Zenon
  <2> QED
    BY <2>1, <2>3, <2>4, Zenon DEF InitialGood, Others
<1> QED
  BY <1>1, <1>2, Zenon

(* At PRMEND the controller gets to see the status of all submodules.      *)
LEMMA InitialDataIs ==
  ASSUME TypeInv, Remembers
  PROVE  /\ InitialData.iops = [p \in used |-> InitialData.iops[p]]
         /\ \A p \in used : Shown(p) => Right(InitialData.iops, InitialData.iocs, p)
<1> DEFINE g == CHOOSE h : InitialAfter(Size, h)
<1>0. Size \in Nat
  BY SlotsAssumption DEF Size
<1>1. InitialAfter(Size, g)
  BY <1>0, InitialExists, Zenon
<1>2. InitialData = g[Size]
  BY Zenon DEF InitialData, InitialAfter, InitialRound
<1> HIDE DEF g
<1>3. /\ g[0] = [iops |-> iops, iocs |-> iocs]
      /\ \A k \in 0 .. Size : k # 0 => g[k] = InitialAt(g[k - 1], k)
  <2>1. \A k \in 0 .. Size : g[k] = InitialRound(g, k)
    BY <1>1, Zenon DEF InitialAfter
  <2>2. 0 \in 0 .. Size
    BY <1>0
  <2> QED
    BY <2>1, <2>2, Zenon DEF InitialRound
<1>4. InitialGood(g[0], 0)
  BY <1>3 DEF InitialGood, TypeInv
<1> DEFINE T == {n \in 0 .. Size : ~ InitialGood(g[n], n)}
<1>5. T = {}
  <2> SUFFICES ASSUME T # {} PROVE FALSE
    OBVIOUS
  <2>1. T \in SUBSET Nat
    BY <1>0
  <2>2. PICK n \in T : \A y \in T : n <= y
    <3> HIDE DEF T
    <3>1. Min(T) \in T /\ \A y \in T : Min(T) <= y
      BY <2>1, MinIs, Zenon
    <3> QED
      BY <3>1, Zenon
  <2>3. n \in 1 .. Size /\ n - 1 \in 0 .. Size /\ n - 1 \notin T
    BY <1>0, <1>4, <2>2
  <2>4. InitialGood(g[n - 1], n - 1)
    BY <2>3, Zenon
  <2>5. InitialGood(InitialAt(g[n - 1], n), n)
    BY <2>3, <2>4, InitialStep, Zenon
  <2> QED
    BY <1>0, <1>3, <2>2, <2>3, <2>5
<1>6. InitialGood(g[Size], Size)
  BY <1>0, <1>5
<1>7. ASSUME NEW p \in used, Shown(p) PROVE Right(g[Size].iops, g[Size].iocs, p)
  <2>1. p[1] \in Slot /\ p = <<p[1], p[2]>> /\ AlignedSlot(p[1])
    BY <1>7 DEF TypeInv, Remembers, Shown
  <2>2. PICK i \in Index : EntriesFor(p[1], p[2]) = {i}
    BY <1>7, <2>1, Zenon DEF AlignedSlot, Shown
  <2>3. subslots[p[1]][i].used /\ subslots[p[1]][i].nr = p[2]
    BY <2>2, Zenon DEF EntriesFor
  <2>4. subslots[p[1]][i].slot = p[1]
    BY <2>1, <2>3, UsedIs, Zenon DEF TypeInv, Row
  <2>5. PICK k \in 1 .. Size : EntryAt(k) = subslots[p[1]][i]
    BY <2>1, PlaceOf, Zenon
  <2>6. EntryAt(k).used /\ Place(k) = p
    BY <2>1, <2>3, <2>4, <2>5, Zenon DEF Place
  <2> QED
    BY <1>6, <1>7, <2>6, Zenon DEF InitialGood
<1> QED
  BY <1>2, <1>6, <1>7, Zenon DEF InitialGood

(* Polling keeps statuses that are right, and the output is set only if a  *)
(* subslot of the connection has output data.                              *)
CyclicGood(d) ==
  /\ d = [iops |-> d.iops, led |-> d.led] /\ d.led \in BOOLEAN
  /\ d.iops = [p \in used |-> d.iops[p]]
  /\ d.led => led \/ Lights
  /\ \A p \in used : Shown(p) /\ Right(iops, iocs, p) => Right(d.iops, iocs, p)

(* A pass of the cyclic loop.                                              *)
LEMMA CyclicStep ==
  ASSUME TypeInv, Remembers, NEW k \in 1 .. Size, NEW d, CyclicGood(d),
         NEW status, NEW bit \in BOOLEAN
  PROVE  CyclicGood(CyclicAt(d, k, status, bit))
<1> DEFINE e == EntryAt(k)
           x == Cyclic(d, e, status, bit)
           p == <<e.slot, e.nr>>
<1>1. CASE ~ (e.used /\ Known(e.id) /\ e.slot # 0)
  <2>1. CyclicAt(d, k, status, bit) = d
    BY <1>1, Zenon DEF CyclicAt
  <2> QED
    BY <2>1, Zenon
<1>2. CASE e.used /\ Known(e.id) /\ e.slot # 0
  <2>1. CyclicAt(d, k, status, bit) = x
    BY <1>2, Zenon DEF CyclicAt
  <2>2. /\ d = [iops |-> d.iops, led |-> d.led] /\ d.led \in BOOLEAN
        /\ d.iops = [q \in used |-> d.iops[q]]
    BY Zenon DEF CyclicGood
  <2>3. /\ x = [iops |-> x.iops, led |-> x.led] /\ x.led \in BOOLEAN
        /\ Others(d, x, p)
        /\ x.led => d.led \/ Lights
        /\ Shown(p) /\ Right(d.iops, iocs, p) => Right(x.iops, iocs, p)
    BY <1>2, <2>2, CyclicIs
  <2> HIDE DEF x, p
  <2>4. ASSUME NEW q \in used, Shown(q), Right(iops, iocs, q)
        PROVE  Right(x.iops, iocs, q)
    <3>1. Right(d.iops, iocs, q)
      BY <2>4, Zenon DEF CyclicGood
    <3>2. CASE q = p
      BY <2>3, <2>4, <3>1, <3>2, Zenon
    <3>3. CASE q # p
      <4>1. x.iops[q] = d.iops[q]
        BY <2>3, <3>3, Zenon DEF Others
      <4> QED
        BY <3>1, <4>1, Zenon DEF Right
    <3> QED
      BY <3>2, <3>3, Zenon
  <2>5. x.led => led \/ Lights
    BY <2>3, Zenon DEF CyclicGood
  <2>6. x.iops = [q \in used |-> x.iops[q]]
    BY <2>3, Zenon DEF Others
  <2> QED
    BY <2>1, <2>3, <2>4, <2>5, <2>6, Zenon DEF CyclicGood
<1> QED
  BY <1>1, <1>2, Zenon

(* The whole cyclic loop.                                                  *)
LEMMA CyclicDataIs ==
  ASSUME TypeInv, PhaseInv, Remembers, NEW status, NEW bit \in BOOLEAN
  PROVE  CyclicGood(CyclicData(status, bit))
<1> DEFINE g == CHOOSE h : CyclicAfter(status, bit, Size, h)
<1>0. Size \in Nat
  BY SlotsAssumption DEF Size
<1>1. CyclicAfter(status, bit, Size, g)
  BY <1>0, CyclicExists, Zenon
<1>2. CyclicData(status, bit) = g[Size]
  BY Zenon DEF CyclicData, CyclicAfter, CyclicRound
<1> HIDE DEF g
<1>3. /\ g[0] = [iops |-> iops, led |-> led]
      /\ \A k \in 0 .. Size : k # 0 => g[k] = CyclicAt(g[k - 1], k, status, bit)
  <2>1. \A k \in 0 .. Size : g[k] = CyclicRound(status, bit, g, k)
    BY <1>1, Zenon DEF CyclicAfter
  <2>2. 0 \in 0 .. Size
    BY <1>0
  <2> QED
    BY <2>1, <2>2, Zenon DEF CyclicRound
<1>4. CyclicGood(g[0])
  <2>1. g[0].iops = iops /\ g[0].led = led
    BY <1>3
  <2>2. g[0] = [iops |-> g[0].iops, led |-> g[0].led]
    BY <1>3, <2>1, Zenon
  <2>3. led \in BOOLEAN /\ iops = [p \in used |-> iops[p]]
    BY Zenon DEF PhaseInv, TypeInv
  <2> QED
    BY <2>1, <2>2, <2>3, Zenon DEF CyclicGood
<1> DEFINE T == {n \in 0 .. Size : ~ CyclicGood(g[n])}
<1>5. T = {}
  <2> SUFFICES ASSUME T # {} PROVE FALSE
    OBVIOUS
  <2>1. T \in SUBSET Nat
    BY <1>0
  <2>2. PICK n \in T : \A y \in T : n <= y
    <3> HIDE DEF T
    <3>1. Min(T) \in T /\ \A y \in T : Min(T) <= y
      BY <2>1, MinIs, Zenon
    <3> QED
      BY <3>1, Zenon
  <2>3. n \in 1 .. Size /\ n - 1 \in 0 .. Size /\ n - 1 \notin T
    BY <1>0, <1>4, <2>2
  <2>4. CyclicGood(g[n - 1])
    BY <2>3, Zenon
  <2>5. CyclicGood(CyclicAt(g[n - 1], n, status, bit))
    BY <2>3, <2>4, CyclicStep, Zenon
  <2> QED
    BY <1>0, <1>3, <2>2, <2>3, <2>5
<1> QED
  BY <1>0, <1>2, <1>5

-----------------------------------------------------------------------------
(***************************************************************************)
(* The inductive invariant.                                                *)
(***************************************************************************)

IInv ==
  /\ TypeInv /\ PhaseInv
  /\ Remembers /\ Found /\ Statuses /\ Lit

(* What the stack asks for when a controller connects.                     *)
LEMMA WantedIs ==
  ASSUME NEW e \in Expected, NEW again \in AsksAgain
  PROVE  /\ \A c \in Wanted(e, again) : IsCall(c)
         /\ Subslots(e) \subseteq Slot \X Nat
<1>0. DOMAIN e \subseteq Slot \ {0}
  BY ExpectedAssumption, Zenon
<1>1. Subslots(e) \subseteq (Slot \ {0}) \X (Nat \ {0})
  <2> SUFFICES ASSUME NEW p \in Subslots(e)
               PROVE  p \in (Slot \ {0}) \X (Nat \ {0})
    OBVIOUS
  <2>1. p \in (DOMAIN e) \X Number /\ p[2] \in DOMAIN e[p[1]].sub
    BY Zenon DEF Subslots
  <2>2. p[1] \in DOMAIN e /\ p[2] \in Number \ {0}
    BY <2>1, ExpectedAssumption, Zenon
  <2> QED
    BY <1>0, <2>1, <2>2 DEF Number
<1>2. ASSUME NEW s \in DOMAIN e PROVE IsCall(Call(s, 0, e[s].module))
  BY <1>0, ExpectedAssumption, Zenon DEF IsCall, Call
<1>3. ASSUME NEW p \in Subslots(e), NEW id PROVE IsCall(Call(p[1], p[2], id))
  BY <1>1, Zenon DEF IsCall, Call
<1> QED
  BY <1>1, <1>2, <1>3, Zenon DEF Wanted

(* Steps keep the types.                                                   *)
LEMMA TypeStep == IInv /\ [Next]_vars => TypeInv'
<1> SUFFICES ASSUME IInv, [Next]_vars PROVE TypeInv'
  OBVIOUS
<1> USE DEF IInv
<1>1. ASSUME NEW e \in Expected, Connect(e) PROVE TypeInv'
  <2>1. UNCHANGED <<module, sub, slots, subslots>>
    BY <1>1, Zenon DEF Connect, table
  <2>2. \A c \in calls' : IsCall(c)
    BY <1>1, WantedIs, Zenon DEF Connect
  <2>3. used' \subseteq Slot \X Nat
    <3>1. 0 \in Slot /\ DOMAIN sub[0] \subseteq Nat
      BY SlotsAssumption DEF TypeInv, Submodules, Slot
    <3>2. \E again \in AsksAgain : TRUE
      BY <1>1, Zenon DEF Connect
    <3>3. Subslots(e) \subseteq Slot \X Nat
      BY <3>2, WantedIs, Zenon
    <3> QED
      BY <1>1, <3>1, <3>3 DEF Connect
  <2>4. iops' = [p \in used' |-> iops'[p]]
    BY <1>1, Zenon DEF Connect
  <2> QED
    BY <2>1, <2>2, <2>3, <2>4, Zenon DEF TypeInv
<1>2. CASE Plugged
  BY <1>2, Zenon DEF Plugged, stack, table, TypeInv
<1>3. ASSUME NEW c \in calls, ExpModuleInd(c) PROVE TypeInv'
  <2>1. /\ UNCHANGED <<subslots, used, iops>> /\ calls' \subseteq calls
        /\ module' = [module EXCEPT ![c.slot] = c.id]
        /\ sub' = [sub EXCEPT ![c.slot] = << >>]
    BY <1>3, Zenon DEF ExpModuleInd, Indicates
  <2>2. slots' = [s \in Slot |-> slots'[s]]
    BY <1>3, Zenon DEF ExpModuleInd, PullModule, PlugModule, TypeInv
  <2>3. ASSUME NEW s \in Slot PROVE Submodules(s, sub'[s])
    <3>1. DOMAIN << >> = {} /\ Cardinality({}) = 0 /\ IsFiniteSet({})
      BY FS_EmptySet
    <3>2. Submodules(s, << >>)
      BY <3>1, SlotsAssumption DEF Submodules
    <3> QED
      BY <2>1, <3>2, Zenon DEF TypeInv
  <2>4. /\ module' = [s \in Slot |-> module'[s]]
        /\ sub' = [s \in Slot |-> sub'[s]]
    BY <2>1, Zenon DEF TypeInv
  <2> QED
    BY <2>1, <2>2, <2>3, <2>4, Zenon DEF TypeInv
<1>4. ASSUME NEW c \in calls, ExpSubmoduleInd(c) PROVE TypeInv'
  <2>1. UNCHANGED <<module, slots, used, iops>> /\ calls' \subseteq calls
    BY <1>4, Zenon DEF ExpSubmoduleInd, Indicates
  <2>2. CASE UNCHANGED <<sub, subslots>>
    BY <2>1, <2>2, Zenon DEF TypeInv
  <2>3. CASE Replugged(c)
    <3> DEFINE s == c.slot
    <3>0. s \in Slot /\ c.nr \in Nat \ {0} /\ (s = 0 => c.id \in Dap)
      BY <1>4, Zenon DEF TypeInv, IsCall, ExpSubmoduleInd
    <3>1. PICK r, q : /\ PulledRow(c, r) /\ Plugs(s, r, c.nr, c.id, q)
                      /\ subslots' = [subslots EXCEPT ![s] = q]
      BY <2>3, Zenon DEF Replugged
    <3>2. Row(s, r)
      BY <3>0, <3>1, PulledRowIs, Zenon DEF PulledRow
    <3>3. Row(s, q)
      <4>1. ASSUME NEW i \in Index, q = [r EXCEPT ![i] = New(s, c.nr, c.id)]
            PROVE  Row(s, q)
        <5>1. IsEntry(New(s, c.nr, c.id), s)
          BY <3>0, Zenon DEF IsEntry, New
        <5> QED
          BY <3>2, <4>1, <5>1, Zenon DEF Row
      <4> QED
        BY <3>1, <3>2, <4>1, Zenon DEF Plugs
    <3>4. sub' = [sub EXCEPT ![s] = Adding(sub[s], c.nr, c.id)]
      BY <2>3, Zenon DEF Replugged
    <3>5. Submodules(s, Adding(sub[s], c.nr, c.id))
      <4> DEFINE D == DOMAIN sub[s]
                 d == Adding(sub[s], c.nr, c.id)
      <4>1. DOMAIN d = D \cup {c.nr} /\ D \subseteq Nat \ {0}
        BY <3>0, Zenon DEF Adding, TypeInv, Submodules
      <4>2. IsFiniteSet(D \ {c.nr}) /\ Cardinality(D \ {c.nr}) < MaxSubslots
        BY <2>3, <3>0, FS_RemoveElement, Zenon
           DEF Replugged, TypeInv, Submodules
      <4>3. D \cup {c.nr} = (D \ {c.nr}) \cup {c.nr}
        OBVIOUS
      <4>4. /\ IsFiniteSet((D \ {c.nr}) \cup {c.nr})
            /\ Cardinality((D \ {c.nr}) \cup {c.nr}) = Cardinality(D \ {c.nr}) + 1
        BY <4>2, FS_AddElement, Zenon
      <4>5. Cardinality(D \ {c.nr}) \in Nat
        BY <4>2, FS_CardinalityType, Zenon
      <4>6. Cardinality(DOMAIN d) <= MaxSubslots /\ IsFiniteSet(DOMAIN d)
        <5>1. DOMAIN d = (D \ {c.nr}) \cup {c.nr}
          BY <4>1, <4>3, Zenon
        <5>2. Cardinality(DOMAIN d) = Cardinality(D \ {c.nr}) + 1
              /\ IsFiniteSet(DOMAIN d)
          BY <4>4, <5>1, Zenon
        <5> HIDE DEF d, D
        <5> QED
          BY <4>2, <4>5, <5>2, SlotsAssumption
      <4>7. ASSUME s = 0, NEW n \in DOMAIN d PROVE d[n] \in Dap
        BY <3>0, <4>7, Zenon DEF Adding, TypeInv, Submodules
      <4> QED
        BY <3>0, <4>1, <4>6, <4>7, Zenon DEF Submodules
    <3> QED
      BY <2>1, <3>0, <3>1, <3>3, <3>4, <3>5, Zenon DEF TypeInv
  <2> QED
    BY <1>4, <2>2, <2>3, SubmoduleIs, Zenon
<1>5. ASSUME NEW s \in Slot, NEW n \in Number, NEW index \in DOMAIN param,
             NEW fits \in BOOLEAN, NEW value \in Value,
             WriteInd(s, n, index, fits, value)
      PROVE  TypeInv'
  BY <1>5, Zenon DEF WriteInd, stack, table, TypeInv
<1>6. CASE PrmEnd
  <2>1. UNCHANGED <<module, sub, used, slots, subslots, calls>>
    BY <1>6, Zenon DEF PrmEnd, table
  <2>2. iops' = [p \in used' |-> iops'[p]]
    BY <1>6, <2>1, InitialDataIs, Zenon DEF PrmEnd
  <2> QED
    BY <2>1, <2>2, Zenon DEF TypeInv
<1>7. ASSUME NEW status \in {"good", "bad"}, NEW bit \in BOOLEAN, Poll(status, bit)
      PROVE  TypeInv'
  <2>1. UNCHANGED <<module, sub, used, slots, subslots, calls>>
    BY <1>7, Zenon DEF Poll, table
  <2>2. iops' = [p \in used' |-> iops'[p]]
    BY <1>7, <2>1, CyclicDataIs, Zenon DEF Poll, CyclicGood
  <2> QED
    BY <2>1, <2>2, Zenon DEF TypeInv
<1>8. CASE AbortInd
  BY <1>8 DEF AbortInd, table, TypeInv
<1>9. CASE UNCHANGED vars
  BY <1>9, Zenon DEF vars, stack, table, TypeInv
<1> QED
  BY <1>1, <1>2, <1>3, <1>4, <1>5, <1>6, <1>7, <1>8, <1>9, Zenon DEF Next

(* Steps keep what holds in each phase.                                    *)
LEMMA PhaseStep == IInv /\ [Next]_vars => PhaseInv'
<1> SUFFICES ASSUME IInv, [Next]_vars PROVE PhaseInv'
  OBVIOUS
<1> USE DEF IInv, PhaseInv
<1>1. ASSUME NEW e \in Expected, Connect(e) PROVE PhaseInv'
  BY <1>1, Zenon DEF Connect
<1>2. CASE Plugged
  BY <1>2, Zenon DEF Plugged
<1>3. ASSUME NEW c \in calls, ExpModuleInd(c) PROVE PhaseInv'
  BY <1>3, Zenon DEF ExpModuleInd, Indicates
<1>4. ASSUME NEW c \in calls, ExpSubmoduleInd(c) PROVE PhaseInv'
  BY <1>4, Zenon DEF ExpSubmoduleInd, Indicates
<1>5. ASSUME NEW s \in Slot, NEW n \in Number, NEW index \in DOMAIN param,
             NEW fits \in BOOLEAN, NEW value \in Value,
             WriteInd(s, n, index, fits, value)
      PROVE  PhaseInv'
  BY <1>5, Zenon DEF WriteInd
<1>6. CASE PrmEnd
  BY <1>6, Zenon DEF PrmEnd
<1>7. ASSUME NEW status \in {"good", "bad"}, NEW bit \in BOOLEAN, Poll(status, bit)
      PROVE  PhaseInv'
  BY <1>7, CyclicDataIs, Zenon DEF Poll, CyclicGood
<1>8. CASE AbortInd
  BY <1>8, Zenon DEF AbortInd
<1>9. CASE UNCHANGED vars
  BY <1>9, Zenon DEF vars
<1> QED
  BY <1>1, <1>2, <1>3, <1>4, <1>5, <1>6, <1>7, <1>8, <1>9, Zenon DEF Next

(* While data is exchanged no indications are left, and the stack and the  *)
(* table stay as they are.                                                 *)
LEMMA StatusesStep == IInv /\ [Next]_vars => Statuses'
<1> SUFFICES ASSUME IInv, [Next]_vars PROVE Statuses'
  OBVIOUS
<1> USE DEF IInv
<1>0. Statuses <=> (phase = "data" =>
                      \A p \in used : Shown(p) => Right(iops, iocs, p))
  BY Zenon DEF Statuses, Shown, Right
<1>1. ASSUME UNCHANGED <<sub, used, replaced>>,
             phase' = "data" => \A p \in used : Shown(p) => Right(iops', iocs', p)
      PROVE  Statuses'
  BY <1>1, Zenon DEF Statuses, Shown, Right, Orderly
<1>2. ASSUME phase' # "data" PROVE Statuses'
  BY <1>2, Zenon DEF Statuses
<1>3. ASSUME NEW e \in Expected, Connect(e) PROVE Statuses'
  BY <1>2, <1>3, Zenon DEF Connect
<1>4. CASE Plugged
  BY <1>2, <1>4, Zenon DEF Plugged
<1>5. ASSUME NEW c \in calls, ExpModuleInd(c) PROVE Statuses'
  BY <1>2, <1>5, Zenon DEF ExpModuleInd, PhaseInv
<1>6. ASSUME NEW c \in calls, ExpSubmoduleInd(c) PROVE Statuses'
  BY <1>2, <1>6, Zenon DEF ExpSubmoduleInd, PhaseInv
<1>7. ASSUME NEW s \in Slot, NEW n \in Number, NEW index \in DOMAIN param,
             NEW fits \in BOOLEAN, NEW value \in Value,
             WriteInd(s, n, index, fits, value)
      PROVE  Statuses'
  BY <1>0, <1>1, <1>7, Zenon DEF WriteInd, stack
<1>8. CASE PrmEnd
  BY <1>1, <1>8, InitialDataIs, Zenon DEF PrmEnd
<1>9. ASSUME NEW status \in {"good", "bad"}, NEW bit \in BOOLEAN, Poll(status, bit)
      PROVE  Statuses'
  <2>1. CyclicGood(CyclicData(status, bit))
    BY CyclicDataIs, Zenon
  <2>2. ASSUME NEW p \in used, Shown(p) PROVE Right(iops', iocs', p)
    BY <1>0, <1>9, <2>1, <2>2, Zenon DEF Poll, CyclicGood
  <2>3. UNCHANGED <<sub, used, replaced>>
    BY <1>9, Zenon DEF Poll
  <2> QED
    BY <1>1, <2>2, <2>3, Zenon
<1>10. CASE AbortInd
  BY <1>2, <1>10, Zenon DEF AbortInd
<1>11. CASE UNCHANGED vars
  BY <1>0, <1>1, <1>11, Zenon DEF vars, stack
<1> QED
  BY <1>3, <1>4, <1>5, <1>6, <1>7, <1>8, <1>9, <1>10, <1>11, Zenon DEF Next

(* Steps keep the LED as it has to be.                                     *)
LEMMA LitStep == IInv /\ [Next]_vars => Lit'
<1> SUFFICES ASSUME IInv, [Next]_vars PROVE Lit'
  OBVIOUS
<1> USE DEF IInv
<1>0. Lit <=> (led => Lights)
  BY Zenon DEF Lit, Lights
<1>1. ASSUME UNCHANGED <<sub, used>>, led' => led \/ Lights PROVE Lit'
  BY <1>0, <1>1, Zenon DEF Lit, Lights
<1>2. ASSUME phase # "data", led' = led PROVE Lit'
  BY <1>2, Zenon DEF Lit, PhaseInv
<1>3. ASSUME NEW e \in Expected, Connect(e) PROVE Lit'
  BY <1>2, <1>3, Zenon DEF Connect
<1>4. CASE Plugged
  BY <1>1, <1>4, Zenon DEF Plugged, stack
<1>5. ASSUME NEW c \in calls, ExpModuleInd(c) PROVE Lit'
  BY <1>2, <1>5, Zenon DEF ExpModuleInd, PhaseInv
<1>6. ASSUME NEW c \in calls, ExpSubmoduleInd(c) PROVE Lit'
  BY <1>2, <1>6, Zenon DEF ExpSubmoduleInd, PhaseInv
<1>7. ASSUME NEW s \in Slot, NEW n \in Number, NEW index \in DOMAIN param,
             NEW fits \in BOOLEAN, NEW value \in Value,
             WriteInd(s, n, index, fits, value)
      PROVE  Lit'
  BY <1>1, <1>7, Zenon DEF WriteInd, stack
<1>8. CASE PrmEnd
  BY <1>1, <1>8, Zenon DEF PrmEnd
<1>9. ASSUME NEW status \in {"good", "bad"}, NEW bit \in BOOLEAN, Poll(status, bit)
      PROVE  Lit'
  BY <1>1, <1>9, CyclicDataIs, Zenon DEF Poll, CyclicGood
<1>10. CASE AbortInd
  BY <1>10, Zenon DEF AbortInd, Lit
<1>11. CASE UNCHANGED vars
  BY <1>1, <1>11, Zenon DEF vars, stack
<1> QED
  BY <1>3, <1>4, <1>5, <1>6, <1>7, <1>8, <1>9, <1>10, <1>11, Zenon DEF Next

(* A row of the table lists some submodules: one entry for each, and no    *)
(* others.                                                                 *)
For(r, m) == {i \in Index : r[i].used /\ r[i].nr = m}

Lists(r, d) ==
  /\ \A i \in Index : r[i].used => r[i].nr \in DOMAIN d
  /\ \A m \in DOMAIN d : \E i \in Index : For(r, m) = {i} /\ r[i].id = d[m]

Without(d, n) == [x \in (DOMAIN d) \ {n} |-> d[x]]

(* The table lists the submodules that are left after one was pulled.      *)
LEMMA PullLists ==
  ASSUME NEW s \in Slot, s < MaxSubslots, NEW row, NEW d, NEW n, NEW r,
         Row(s, row), Lists(row, d),
         IF n \in DOMAIN d THEN Pulls(s, row, n, r) ELSE r = row
  PROVE  Lists(r, Without(d, n))
<1>0. DOMAIN Without(d, n) = (DOMAIN d) \ {n}
      /\ \A m \in (DOMAIN d) \ {n} : Without(d, n)[m] = d[m]
  BY Zenon DEF Without
<1>1. CASE n \notin DOMAIN d
  <2>1. r = row
    BY <1>1, Zenon
  <2> QED
    BY <1>0, <1>1, <2>1, Zenon DEF Lists
<1>2. CASE n \in DOMAIN d
  <2>1. PICK i \in Index : For(row, n) = {i}
    BY <1>2, Zenon DEF Lists
  <2>2. r = [row EXCEPT ![i] = Unused]
    BY <1>2, <2>1, Zenon DEF Pulls, For
  <2>3. ASSUME NEW j \in Index
        PROVE  /\ j = i => ~ r[j].used
               /\ j # i => r[j] = row[j] /\ ~ (row[j].used /\ row[j].nr = n)
    <3>1. j = i => r[j] = Unused
      BY <2>2, Zenon DEF Row
    <3>2. j # i => r[j] = row[j]
      BY <2>2, Zenon DEF Row
    <3>3. ~ Unused.used
      BY Zenon DEF Unused
    <3>4. j # i => ~ (row[j].used /\ row[j].nr = n)
      BY <2>1, Zenon DEF For
    <3> QED
      BY <3>1, <3>2, <3>3, <3>4, Zenon
  <2>4. ASSUME NEW j \in Index, r[j].used PROVE r[j].nr \in (DOMAIN d) \ {n}
    BY <2>3, <2>4, Zenon DEF Lists
  <2>5. ASSUME NEW m \in (DOMAIN d) \ {n}
        PROVE  \E j \in Index : For(r, m) = {j} /\ r[j].id = d[m]
    <3>1. PICK j \in Index : For(row, m) = {j} /\ row[j].id = d[m]
      BY <2>5, Zenon DEF Lists
    <3>2. row[j].used /\ row[j].nr = m /\ row[i].nr = n
      BY <2>1, <3>1, Zenon DEF For
    <3>3. i # j
      BY <3>2, <2>5, Zenon
    <3>4. For(r, m) = For(row, m)
      BY <2>3, <3>1, <3>3, Zenon DEF For
    <3> QED
      BY <2>3, <3>1, <3>3, <3>4, Zenon
  <2> QED
    BY <1>0, <2>4, <2>5, Zenon DEF Lists
<1> QED
  BY <1>1, <1>2, Zenon

(* If there are fewer submodules than entries one of these is free.        *)
LEMMA FreeEntry ==
  ASSUME NEW r, NEW d, Lists(r, d), IsFiniteSet(DOMAIN d),
         Cardinality(DOMAIN d) < MaxSubslots
  PROVE  \E i \in Index : ~ r[i].used
<1> SUFFICES ASSUME \A i \in Index : r[i].used PROVE FALSE
  OBVIOUS
<1> DEFINE f == [i \in Index |-> r[i].nr]
<1>1. f \in [Index -> DOMAIN d]
  BY Zenon DEF Lists
<1>2. IsFiniteSet(Index) /\ Cardinality(Index) = MaxSubslots
  BY FS_Interval, SlotsAssumption DEF Index
<1>3. PICK x \in Index, y \in Index : x # y /\ f[x] = f[y]
  <2> HIDE DEF f
  <2>1. Cardinality(DOMAIN d) < Cardinality(Index)
    BY <1>2, Zenon
  <2>2. \E x, y \in Index : x # y /\ f[x] = f[y]
    BY <1>1, <1>2, <2>1, FS_PigeonHole, Zenon
  <2> QED
    BY <2>2, Zenon
<1>4. x \in For(r, r[x].nr) /\ y \in For(r, r[x].nr)
  BY <1>3, Zenon DEF For
<1>5. PICK i \in Index : For(r, r[x].nr) = {i}
  BY Zenon DEF Lists
<1> QED
  BY <1>3, <1>4, <1>5, Zenon

(* The table lists the new submodule too, as there is room for it.         *)
LEMMA PlugLists ==
  ASSUME NEW s, NEW r, Row(s, r), NEW d, NEW n, NEW id, NEW q,
         Lists(r, Without(d, n)), Plugs(s, r, n, id, q),
         IsFiniteSet(DOMAIN d), Cardinality((DOMAIN d) \ {n}) < MaxSubslots
  PROVE  Lists(q, Adding(d, n, id))
<1>0. DOMAIN Without(d, n) = (DOMAIN d) \ {n}
      /\ \A m \in (DOMAIN d) \ {n} : Without(d, n)[m] = d[m]
  BY Zenon DEF Without
<1>1. \E i \in Index : ~ r[i].used
  <2>1. IsFiniteSet((DOMAIN d) \ {n})
    BY FS_RemoveElement, Zenon
  <2> QED
    BY <1>0, <2>1, FreeEntry, Zenon
<1>2. PICK j \in Index : ~ r[j].used /\ q = [r EXCEPT ![j] = New(s, n, id)]
  BY <1>1, Zenon DEF Plugs
<1>3. /\ q[j] = New(s, n, id)
      /\ \A i \in Index : i # j => q[i] = r[i]
  BY <1>2, Zenon DEF Row
<1>4. q[j].used /\ q[j].nr = n /\ q[j].id = id
  BY <1>3 DEF New
<1>5. /\ DOMAIN Adding(d, n, id) = (DOMAIN d) \cup {n}
      /\ Adding(d, n, id)[n] = id
      /\ \A m \in (DOMAIN d) \ {n} : Adding(d, n, id)[m] = d[m]
  BY Zenon DEF Adding
<1>6. \A i \in Index : r[i].used => r[i].nr \in (DOMAIN d) \ {n}
  BY <1>0, Zenon DEF Lists
<1>7. ASSUME NEW i \in Index, q[i].used PROVE q[i].nr \in (DOMAIN d) \cup {n}
  BY <1>3, <1>4, <1>6, <1>7, Zenon
<1>8. For(q, n) = {j}
  BY <1>3, <1>4, <1>6, Zenon DEF For
<1>9. ASSUME NEW m \in (DOMAIN d) \ {n}
      PROVE  \E i \in Index : For(q, m) = {i} /\ q[i].id = d[m]
  <2>1. PICK i \in Index : For(r, m) = {i} /\ r[i].id = d[m]
    BY <1>0, Zenon DEF Lists
  <2>2. i # j
    BY <1>2, <2>1, Zenon DEF For
  <2>3. For(q, m) = For(r, m)
    BY <1>2, <1>3, <1>4, Zenon DEF For
  <2> QED
    BY <1>3, <2>1, <2>2, <2>3, Zenon
<1> QED
  BY <1>4, <1>5, <1>7, <1>8, <1>9 DEF Lists

(* Whatever the stack's part in it, the table lists what Lists() says.     *)
LEMMA AlignedIs ==
  ASSUME NEW s
  PROVE  AlignedSlot(s) <=> /\ slots[s].plugged = (module[s] # None)
                            /\ slots[s].id = module[s]
                            /\ Lists(subslots[s], sub[s])
  BY Zenon DEF AlignedSlot, Lists, For, EntriesFor

(* Steps keep the table up to date.                                        *)
LEMMA RemembersStep == IInv /\ [Next]_vars => Remembers'
<1> SUFFICES ASSUME IInv, [Next]_vars PROVE Remembers'
  OBVIOUS
<1> USE DEF IInv
<1>0. ASSUME NEW s \in Slot, Orderly(s),
             slots'[s] = slots[s], module'[s] = module[s],
             subslots'[s] = subslots[s], sub'[s] = sub[s]
      PROVE  AlignedSlot(s)'
  <2>1. AlignedSlot(s)
    BY <1>0, Zenon DEF Remembers
  <2> QED
    BY <1>0, <2>1 DEF AlignedSlot, EntriesFor
<1>1. ASSUME UNCHANGED <<slots, module, subslots, sub, replaced>> PROVE Remembers'
  BY <1>0, <1>1, Zenon DEF Remembers, Orderly
<1>2. ASSUME NEW e \in Expected, Connect(e) PROVE Remembers'
  BY <1>1, <1>2, Zenon DEF Connect, table
<1>3. CASE Plugged
  BY <1>1, <1>3, Zenon DEF Plugged, stack, table
<1>4. ASSUME NEW c \in calls, ExpModuleInd(c) PROVE Remembers'
  <2> DEFINE s == c.slot
  <2>0. s \in Slot /\ c.id # None
    BY <1>4, Zenon DEF TypeInv, IsCall, ExpModuleInd
  <2>1. /\ UNCHANGED subslots
        /\ module' = [module EXCEPT ![s] = c.id]
        /\ sub' = [sub EXCEPT ![s] = << >>]
        /\ replaced' = IF DOMAIN sub[s] = {} THEN replaced ELSE replaced \cup {s}
    BY <1>4, Zenon DEF ExpModuleInd
  <2>2. /\ slots'[s] = [plugged |-> TRUE, id |-> c.id]
        /\ \A x \in Slot : x # s => slots'[x] = slots[x]
    BY <1>4, <2>0, Zenon DEF ExpModuleInd, PullModule, PlugModule, TypeInv
  <2>3. /\ module'[s] = c.id /\ sub'[s] = << >>
        /\ \A x \in Slot : x # s => module'[x] = module[x] /\ sub'[x] = sub[x]
    BY <2>0, <2>1, Zenon DEF TypeInv
  <2>4. \A x \in Slot : Orderly(x)' => Orderly(x)
    BY <2>1, Zenon DEF Orderly
  <2>5. ASSUME Orderly(s)' PROVE AlignedSlot(s)'
    <3>1. DOMAIN sub[s] = {}
      BY <2>1, <2>5, Zenon DEF Orderly
    <3>2. AlignedSlot(s)
      BY <2>0, <2>4, <2>5, Zenon DEF Remembers
    <3>3. \A i \in Index : ~ subslots[s][i].used
      BY <3>1, <3>2, Zenon DEF AlignedSlot
    <3>4. DOMAIN sub'[s] = {}
      BY <2>3
    <3>5. slots'[s].plugged = TRUE /\ slots'[s].id = module'[s] /\ module'[s] # None
      BY <2>0, <2>2, <2>3
    <3>6. (slots[s].plugged = (module[s] # None) /\ slots[s].id = module[s])'
      BY <3>5, Zenon
    <3> QED
      BY <2>1, <3>3, <3>4, <3>6, Zenon DEF AlignedSlot
  <2>6. ASSUME NEW x \in Slot, x # s, Orderly(x)' PROVE AlignedSlot(x)'
    BY <1>0, <2>1, <2>2, <2>3, <2>4, <2>6, Zenon
  <2> QED
    BY <2>5, <2>6, Zenon DEF Remembers
<1>5. ASSUME NEW c \in calls, ExpSubmoduleInd(c) PROVE Remembers'
  <2>0. UNCHANGED <<slots, module, replaced>>
    BY <1>5, Zenon DEF ExpSubmoduleInd
  <2>1. CASE UNCHANGED <<sub, subslots>>
    BY <1>1, <2>0, <2>1, Zenon
  <2>2. CASE Replugged(c)
    <3> DEFINE s == c.slot
               d == sub[s]
    <3>0. s \in Slot /\ c.nr \in Nat
      BY Zenon DEF TypeInv, IsCall
    <3>1. PICK r, q : /\ PulledRow(c, r) /\ Plugs(s, r, c.nr, c.id, q)
                      /\ subslots' = [subslots EXCEPT ![s] = q]
      BY <2>2, Zenon DEF Replugged
    <3>2. /\ sub' = [sub EXCEPT ![s] = Adding(d, c.nr, c.id)]
          /\ Cardinality((DOMAIN d) \ {c.nr}) < MaxSubslots
      BY <2>2, Zenon DEF Replugged
    <3>3. /\ sub'[s] = Adding(d, c.nr, c.id) /\ subslots'[s] = q
          /\ \A x \in Slot : x # s => sub'[x] = sub[x] /\ subslots'[x] = subslots[x]
      BY <3>0, <3>1, <3>2, Zenon DEF TypeInv
    <3>4. ASSUME Orderly(s) PROVE AlignedSlot(s)'
      <4>1. AlignedSlot(s)
        BY <3>0, <3>4, Zenon DEF Remembers
      <4>2. Lists(subslots[s], d)
        BY <4>1, AlignedIs, Zenon
      <4>3. Row(s, subslots[s]) /\ IsFiniteSet(DOMAIN d)
        BY <3>0, Zenon DEF TypeInv, Submodules
      <4>4. s < MaxSubslots
        BY <3>4, Zenon DEF Orderly
      <4>5. Row(s, r)
        BY <3>0, <3>1, PulledRowIs, Zenon DEF PulledRow
      <4>6. IF c.nr \in DOMAIN d THEN Pulls(s, subslots[s], c.nr, r)
            ELSE r = subslots[s]
        BY <3>1, Zenon DEF PulledRow
      <4> HIDE DEF d, s
      <4>7. Lists(r, Without(d, c.nr))
        BY <3>0, <4>2, <4>3, <4>4, <4>6, PullLists, Zenon
      <4>8. Lists(q, Adding(d, c.nr, c.id))
        BY <3>1, <3>2, <4>3, <4>5, <4>7, PlugLists, Zenon
      <4> QED
        BY <2>0, <3>3, <4>1, <4>8 DEF AlignedSlot, Lists, For, EntriesFor
    <3>5. ASSUME NEW x \in Slot, x # s, Orderly(x) PROVE AlignedSlot(x)'
      BY <1>0, <2>0, <3>3, <3>5, Zenon
    <3> QED
      BY <2>0, <3>4, <3>5, Zenon DEF Remembers, Orderly
  <2> QED
    BY <1>5, <2>1, <2>2, SubmoduleIs, Zenon
<1>6. ASSUME NEW s \in Slot, NEW n \in Number, NEW index \in DOMAIN param,
             NEW fits \in BOOLEAN, NEW value \in Value,
             WriteInd(s, n, index, fits, value)
      PROVE  Remembers'
  BY <1>1, <1>6, Zenon DEF WriteInd, stack, table
<1>7. CASE PrmEnd
  BY <1>1, <1>7, Zenon DEF PrmEnd, table
<1>8. ASSUME NEW status \in {"good", "bad"}, NEW bit \in BOOLEAN, Poll(status, bit)
      PROVE  Remembers'
  BY <1>1, <1>8, Zenon DEF Poll, table
<1>9. CASE AbortInd
  BY <1>1, <1>9, Zenon DEF AbortInd, table
<1>10. CASE UNCHANGED vars
  BY <1>1, <1>10, Zenon DEF vars, stack, table
<1> QED
  BY <1>2, <1>3, <1>4, <1>5, <1>6, <1>7, <1>8, <1>9, <1>10, Zenon DEF Next

(* A row has an entry for each of some submodules, or is full.             *)
Has(r, d) ==
  \A m \in DOMAIN d : \/ \E i \in Index : r[i].used /\ r[i].nr = m /\ r[i].id = d[m]
                      \/ \A i \in Index : r[i].used

(* Pulling frees one entry at most, and plugging takes one.                *)
LEMMA RepluggedHas ==
  ASSUME NEW s, NEW row, Row(s, row), NEW d, Has(row, d), NEW n, NEW id,
         NEW r, Pulls(s, row, n, r) \/ r = row, NEW q, Plugs(s, r, n, id, q)
  PROVE  Has(q, Adding(d, n, id))
<1>0. /\ DOMAIN Adding(d, n, id) = (DOMAIN d) \cup {n}
      /\ Adding(d, n, id)[n] = id
      /\ \A m \in (DOMAIN d) \ {n} : Adding(d, n, id)[m] = d[m]
  BY Zenon DEF Adding
<1>1. ASSUME \A i \in Index : q[i].used PROVE Has(q, Adding(d, n, id))
  BY <1>1, Zenon DEF Has
<1>2. ASSUME NEW j \in Index, ~ r[j].used, q = [r EXCEPT ![j] = New(s, n, id)],
             r = [i \in Index |-> r[i]],
             \A m \in (DOMAIN d) \ {n} :
               \E i \in Index : r[i].used /\ r[i].nr = m /\ r[i].id = d[m]
      PROVE  Has(q, Adding(d, n, id))
  <2>1. q[j] = New(s, n, id) /\ \A i \in Index : i # j => q[i] = r[i]
    BY <1>2, Zenon
  <2>2. q[j].used /\ q[j].nr = n /\ q[j].id = id
    BY <2>1 DEF New
  <2>3. ASSUME NEW m \in (DOMAIN d) \ {n}
        PROVE  \E i \in Index : q[i].used /\ q[i].nr = m /\ q[i].id = d[m]
    <3>1. PICK i \in Index : r[i].used /\ r[i].nr = m /\ r[i].id = d[m]
      BY <1>2, Zenon
    <3>2. q[i] = r[i]
      BY <1>2, <2>1, <3>1, Zenon
    <3> QED
      BY <3>1, <3>2, Zenon
  <2> QED
    BY <1>0, <2>2, <2>3 DEF Has
<1>3. CASE r = row
  <2>1. CASE q = r /\ \A i \in Index : r[i].used
    BY <1>1, <2>1, Zenon
  <2>2. ASSUME NEW j \in Index, ~ r[j].used, q = [r EXCEPT ![j] = New(s, n, id)]
        PROVE  Has(q, Adding(d, n, id))
    <3>1. \A m \in (DOMAIN d) \ {n} :
            \E i \in Index : r[i].used /\ r[i].nr = m /\ r[i].id = d[m]
      BY <1>3, <2>2, Zenon DEF Has
    <3> QED
      BY <1>2, <1>3, <2>2, <3>1, Zenon DEF Row
  <2> QED
    BY <2>1, <2>2, Zenon DEF Plugs
<1>4. ASSUME NEW i \in Index, row[i].used, row[i].nr = n,
             r = [row EXCEPT ![i] = Unused]
      PROVE  Has(q, Adding(d, n, id))
  <2>1. /\ r[i] = Unused /\ \A k \in Index : k # i => r[k] = row[k]
        /\ r = [k \in Index |-> r[k]]
    BY <1>4, Zenon DEF Row
  <2>2. ~ r[i].used
    BY <2>1 DEF Unused
  <2>3. PICK j \in Index : ~ r[j].used /\ q = [r EXCEPT ![j] = New(s, n, id)]
    BY <2>2, Zenon DEF Plugs
  <2>4. CASE \A k \in Index : row[k].used
    <3>1. j = i
      BY <2>1, <2>3, <2>4, Zenon
    <3>2. q[i] = New(s, n, id) /\ \A k \in Index : k # i => q[k] = row[k]
      BY <2>1, <2>3, <3>1, Zenon
    <3>3. New(s, n, id).used
      BY Zenon DEF New
    <3>4. \A k \in Index : q[k].used
      BY <2>4, <3>2, <3>3, Zenon
    <3> QED
      BY <1>1, <3>4, Zenon
  <2>5. CASE ~ \A k \in Index : row[k].used
    <3>1. ASSUME NEW m \in (DOMAIN d) \ {n}
          PROVE  \E k \in Index : r[k].used /\ r[k].nr = m /\ r[k].id = d[m]
      <4>1. PICK k \in Index : row[k].used /\ row[k].nr = m /\ row[k].id = d[m]
        BY <2>5, Zenon DEF Has
      <4>2. r[k] = row[k]
        BY <1>4, <2>1, <4>1, Zenon
      <4> QED
        BY <4>1, <4>2, Zenon
    <3> QED
      BY <1>2, <2>1, <2>3, <3>1, Zenon
  <2> QED
    BY <2>4, <2>5, Zenon
<1> QED
  BY <1>3, <1>4, Zenon DEF Pulls

(* Steps keep every submodule in its table.                                *)
LEMMA FoundStep == IInv /\ [Next]_vars => Found'
<1> SUFFICES ASSUME IInv, [Next]_vars PROVE Found'
  OBVIOUS
<1> USE DEF IInv
<1>0. Found <=> \A s \in Slot : Has(subslots[s], sub[s])
  BY Zenon DEF Found, Has, EntriesFor
<1>00. Found' <=> \A s \in Slot : Has(subslots'[s], sub'[s])
  BY Zenon DEF Found, Has, EntriesFor
<1>1. ASSUME UNCHANGED <<subslots, sub>> PROVE Found'
  BY <1>0, <1>00, <1>1, Zenon
<1>2. ASSUME NEW e \in Expected, Connect(e) PROVE Found'
  BY <1>1, <1>2, Zenon DEF Connect, table
<1>3. CASE Plugged
  BY <1>1, <1>3, Zenon DEF Plugged, stack, table
<1>4. ASSUME NEW c \in calls, ExpModuleInd(c) PROVE Found'
  <2>1. UNCHANGED subslots /\ sub' = [sub EXCEPT ![c.slot] = << >>]
    BY <1>4, Zenon DEF ExpModuleInd
  <2>2. ASSUME NEW s \in Slot PROVE sub'[s] = sub[s] \/ DOMAIN sub'[s] = {}
    BY <2>1 DEF TypeInv
  <2>3. ASSUME NEW s \in Slot PROVE Has(subslots'[s], sub'[s])
    BY <1>0, <2>1, <2>2 DEF Has
  <2> QED
    BY <1>00, <2>3, Zenon
<1>5. ASSUME NEW c \in calls, ExpSubmoduleInd(c) PROVE Found'
  <2>1. CASE UNCHANGED <<sub, subslots>>
    BY <1>1, <2>1, Zenon
  <2>2. CASE Replugged(c)
    <3> DEFINE s == c.slot
    <3>0. s \in Slot
      BY Zenon DEF TypeInv, IsCall
    <3>1. PICK r, q : /\ PulledRow(c, r) /\ Plugs(s, r, c.nr, c.id, q)
                      /\ subslots' = [subslots EXCEPT ![s] = q]
      BY <2>2, Zenon DEF Replugged
    <3>2. /\ sub'[s] = Adding(sub[s], c.nr, c.id) /\ subslots'[s] = q
          /\ \A x \in Slot : x # s => sub'[x] = sub[x] /\ subslots'[x] = subslots[x]
      BY <2>2, <3>0, <3>1, Zenon DEF TypeInv, Replugged
    <3>3. Pulls(s, subslots[s], c.nr, r) \/ r = subslots[s]
      BY <3>1, Zenon DEF PulledRow
    <3>4. Row(s, subslots[s]) /\ Has(subslots[s], sub[s])
      BY <1>0, <3>0, Zenon DEF TypeInv
    <3> HIDE DEF s
    <3>5. Has(q, Adding(sub[s], c.nr, c.id))
      BY <3>1, <3>3, <3>4, RepluggedHas, Zenon
    <3>6. Has(subslots'[s], sub'[s])
      BY <3>2, <3>5, Zenon
    <3> QED
      BY <1>0, <1>00, <3>2, <3>6, Zenon
  <2> QED
    BY <1>5, <2>1, <2>2, SubmoduleIs, Zenon
<1>6. ASSUME NEW s \in Slot, NEW n \in Number, NEW index \in DOMAIN param,
             NEW fits \in BOOLEAN, NEW value \in Value,
             WriteInd(s, n, index, fits, value)
      PROVE  Found'
  BY <1>1, <1>6, Zenon DEF WriteInd, stack, table
<1>7. CASE PrmEnd
  BY <1>1, <1>7, Zenon DEF PrmEnd, table
<1>8. ASSUME NEW status \in {"good", "bad"}, NEW bit \in BOOLEAN, Poll(status, bit)
      PROVE  Found'
  BY <1>1, <1>8, Zenon DEF Poll, table
<1>9. CASE AbortInd
  BY <1>1, <1>9, Zenon DEF AbortInd, table
<1>10. CASE UNCHANGED vars
  BY <1>1, <1>10, Zenon DEF vars, stack, table
<1> QED
  BY <1>2, <1>3, <1>4, <1>5, <1>6, <1>7, <1>8, <1>9, <1>10, Zenon DEF Next

(* The invariant holds initially.                                          *)
LEMMA InitStep == Init => IInv
<1> SUFFICES ASSUME Init PROVE IInv
  OBVIOUS
<1>0. MaxSlots \in Nat \ {0} /\ MaxSubslots \in Nat \ {0} /\ 0 \in Slot
  BY SlotsAssumption DEF Slot
<1>1. \A c \in calls : IsCall(c)
  <2>1. \A i \in 1 .. Ports : 32768 + i \in Nat /\ 32768 + i # 0
    OBVIOUS
  <2>2. ASSUME NEW n \in Nat \ {0}, NEW id \in Dap PROVE IsCall(Call(0, n, id))
    BY <1>0, Zenon DEF IsCall, Call
  <2>3. IsCall(Call(0, 0, "dap"))
    BY <1>0, NoneAssumption, Zenon DEF IsCall, Call
  <2> QED
    BY <2>1, <2>2, <2>3 DEF Init, Dap
<1>2. ASSUME NEW s \in Slot
      PROVE  DOMAIN sub[s] = {} /\ subslots[s] = [i \in Index |-> Unused]
  BY DEF Init
<1>3. ~ Unused.used
  BY Zenon DEF Unused
<1>4. \A s \in Slot : Submodules(s, sub[s]) /\ Row(s, subslots[s])
  <2>1. ASSUME NEW s \in Slot PROVE Submodules(s, sub[s])
    <3>1. IsFiniteSet({}) /\ Cardinality({}) = 0
      BY FS_EmptySet, Zenon
    <3>2. DOMAIN sub[s] = {}
      BY <1>2, Zenon
    <3> QED
      BY <1>0, <3>1, <3>2 DEF Submodules
  <2>2. ASSUME NEW s \in Slot PROVE Row(s, subslots[s])
    BY <1>2, Zenon DEF Row, IsEntry
  <2> QED
    BY <2>1, <2>2, Zenon
<1>5. TypeInv
  BY <1>1, <1>4 DEF Init, TypeInv
<1>6. PhaseInv /\ Statuses /\ Lit
  <2>1. led = FALSE /\ phase = "plug"
    BY DEF Init
  <2>2. Statuses
    BY <2>1, Zenon DEF Statuses
  <2>3. Lit /\ (led => phase = "data") /\ led \in BOOLEAN
    BY <2>1, Zenon DEF Lit
  <2> QED
    BY <2>1, <2>2, <2>3, Zenon DEF PhaseInv
<1>7. ASSUME NEW s \in Slot PROVE AlignedSlot(s)
  <2>1. slots[s].plugged = FALSE /\ slots[s].id = None /\ module[s] = None
    BY DEF Init
  <2>2. slots[s].plugged = (module[s] # None)
    BY <2>1, Zenon
  <2> QED
    <3>1. \A i \in Index : ~ subslots[s][i].used
      BY <1>2, <1>3
    <3>2. DOMAIN sub[s] = {} /\ slots[s].id = module[s]
      BY <1>2, <2>1
    <3> QED
      BY <2>2, <3>1, <3>2 DEF AlignedSlot
<1>8. Remembers /\ Found
  BY <1>2, <1>7, Zenon DEF Remembers, Found
<1> QED
  BY <1>5, <1>6, <1>8, Zenon DEF IInv

(***************************************************************************)
(* The theorems.                                                           *)
(***************************************************************************)

(* The invariant of all that app_exp_module_ind(),                         *)
(* app_exp_submodule_ind(), the events of the connection and the cyclic    *)
(* data callbacks do to the table and to the stack.                        *)
THEOREM Inductive == Spec => []IInv
<1>1. Init => IInv
  BY InitStep, Zenon
<1>2. IInv /\ [Next]_vars => IInv'
  BY TypeStep, PhaseStep, RemembersStep, FoundStep, StatusesStep, LitStep,
     Zenon DEF IInv
<1> QED
  BY <1>1, <1>2, PTL DEF Spec

(* "This is for the application to remember which subslots are populated   *)
(* in the p-net stack": the table of app_utils.c has one entry for each    *)
(* submodule of the stack and no others, in any slot whose number is less  *)
(* than that of subslots and whose module was not replaced.                *)
THEOREM RemembersCorrect == Spec => []Remembers
<1>1. IInv => Remembers
  BY Zenon DEF IInv
<1> QED
  BY <1>1, Inductive, PTL

(* In any slot whatever app_utils_plug_submodule() was called for has an   *)
(* entry, unless all entries of the slot are taken.                        *)
THEOREM FoundCorrect == Spec => []Found
<1>1. IInv => Found
  BY Zenon DEF IInv
<1> QED
  BY <1>1, Inductive, PTL

(* While data is exchanged app_set_initial_data_and_ioxs() and             *)
(* app_cyclic_data_callback() keep the statuses that the controller sees   *)
(* right for every submodule, whatever order and contents the table has.   *)
THEOREM StatusesCorrect == Spec => []Statuses
<1>1. IInv => Statuses
  BY Zenon DEF IInv
<1> QED
  BY <1>1, Inductive, PTL

(* app_write_ind() and app_read_ind() accept a record if and only if the   *)
(* submodule that the stack has in the subslot has such a parameter.       *)
THEOREM RecordsCorrect == Spec => []Records
<1>1. ASSUME TypeInv, Remembers PROVE Records
  <2> SUFFICES ASSUME NEW s \in Slot, Orderly(s), NEW n \in Number,
                      NEW index \in DOMAIN param, NEW fits \in BOOLEAN
               PROVE  Accepted(s, n, index, fits)
                      <=> (/\ n \in DOMAIN sub[s] /\ ParameterCfg(sub[s][n], index)
                           /\ fits)
    BY Zenon DEF Records, Accepted, ParameterCfg
  <2>0. n \in Nat
    BY DEF Number
  <2>1. AlignedSlot(s)
    BY <1>1, Zenon DEF Remembers
  <2>2. CASE n = 0
    <3>1. n \notin DOMAIN sub[s]
      BY <1>1, <2>2, Zenon DEF TypeInv, Submodules
    <3>2. ASSUME NEW i \in SubslotGet(s, n)
          PROVE  ~ HasParameter(subslots[s][i].id, index, fits)
      <4>1. i \in Index /\ subslots[s][i].nr = 0
        <5> DEFINE found == {x \in Index : subslots[s][x].nr = n}
        <5>1. found # {} /\ i = Min(found)
          BY Zenon DEF SubslotGet
        <5>2. found \in SUBSET Nat
          BY SlotsAssumption DEF Index
        <5>3. i \in found
          BY <5>1, <5>2, MinIs, Zenon
        <5> QED
          BY <2>2, <5>3, Zenon
      <4>2. subslots[s][i] = Unused
        BY <1>1, <4>1, Zenon DEF TypeInv, Row, IsEntry
      <4>3. subslots[s][i].id = None
        BY <4>2 DEF Unused
      <4> QED
        BY <4>3, NoneAssumption, Zenon DEF HasParameter, ParameterCfg
    <3> QED
      BY <3>1, <3>2, Zenon DEF Accepted
  <2>3. CASE n # 0 /\ n \notin DOMAIN sub[s]
    <3>1. EntriesFor(s, n) = {}
      BY <2>1, <2>3, Zenon DEF AlignedSlot, EntriesFor
    <3>2. SubslotGet(s, n) = {}
      BY <1>1, <2>0, <2>3, <3>1, GetIs, Zenon
    <3> QED
      BY <2>3, <3>2, Zenon DEF Accepted
  <2>4. CASE n # 0 /\ n \in DOMAIN sub[s]
    <3>1. PICK i \in Index : EntriesFor(s, n) = {i} /\ subslots[s][i].id = sub[s][n]
      BY <2>1, <2>4, Zenon DEF AlignedSlot
    <3>2. SubslotGet(s, n) = {i}
      BY <1>1, <2>0, <2>4, <3>1, GetIs, Zenon
    <3> QED
      BY <2>4, <3>1, <3>2, Zenon DEF Accepted, HasParameter
  <2> QED
    BY <2>2, <2>3, <2>4, Zenon
<1>2. IInv => Records
  BY <1>1, Zenon DEF IInv
<1> QED
  BY <1>2, Inductive, PTL

(* The output of app_data_set_output_data() is lit only while a connection *)
(* has a submodule with output data: PNET_EVENT_ABORT and                  *)
(* app_data_set_default_outputs() leave nothing behind.                    *)
THEOREM LitCorrect == Spec => []Lit
<1>1. IInv => Lit
  BY Zenon DEF IInv
<1> QED
  BY <1>1, Inductive, PTL
=============================================================================

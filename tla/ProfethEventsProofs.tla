------------------------- MODULE ProfethEventsProofs -------------------------
(***************************************************************************)
(* Proofs of the safety properties of ProfethEvents, for any set of        *)
(* connections and a list of any size.                                     *)
(***************************************************************************)
EXTENDS ProfethEvents, FiniteSetTheorems, WellFoundedInduction, TLAPS

Entry == [arep : Arep \cup {None}, events : SUBSET ArEvent]

(* No entry has a mark that nobody will look at.                           *)
Clean(list) == \A i \in Index : list[i].arep = None => list[i] = Unused

(* The used entries come first.                                            *)
NoHoles(list) ==
  \A i \in Index, k \in Index :
    i < k /\ list[k].arep # None => list[i].arep # None

(* The used entries of c are those of list, in the same order.             *)
Moves(list, c, m) ==
  /\ \A i \in Index : c[i].arep # None => c[i] = list[m[i]]
  /\ \A i \in Index, k \in Index :
       i < k /\ c[i].arep # None /\ c[k].arep # None => m[i] < m[k]
  /\ \A k \in Index : list[k].arep # None =>
       \E i \in Index : c[i].arep # None /\ m[i] = k

-----------------------------------------------------------------------------
(***************************************************************************)
(* Closing the holes.                                                      *)
(***************************************************************************)

(* The least of some numbers is one of them.                               *)
LEMMA MinIs ==
  ASSUME NEW S \in SUBSET Nat, S # {}
  PROVE  Min(S) \in S /\ \A y \in S : Min(S) <= y
<1> DEFINE R == {ss \in Nat \X Nat : ss[1] < ss[2]}
<1>1. IsWellFoundedOn(R, Nat)
  BY NatLessThanWellFounded, Zenon DEF OpToRel
<1> HIDE DEF R
<1>2. PICK x \in S : \A y \in S : ~ (<<y, x>> \in R)
  BY <1>1, WFMin, Zenon
<1>3. ASSUME NEW y \in S PROVE x <= y
  <2>1. <<y, x>> \in R <=> y < x
    BY DEF R
  <2>2. QED
    BY <1>2, <2>1
<1>4. QED
  BY <1>3, Zenon DEF Min

(* After(list, n, g): g is what the loop has after each of n rounds.       *)
Round(list, g, k) ==
  IF k = 0 THEN [ar |-> list, stop |-> FALSE] ELSE Close(g[k - 1], k - 1)

After(list, n, g) == g = [k \in 0 .. n |-> Round(list, g, k)]

(* There is such a g.                                                      *)
LEMMA AfterExists ==
  ASSUME NEW list
  PROVE  \A n \in Nat : \E g : After(list, n, g)
<1> DEFINE T == {n \in Nat : ~ \E g : After(list, n, g)}
<1> SUFFICES ASSUME T # {} PROVE FALSE
  OBVIOUS
<1>1. PICK n \in T : \A y \in T : n <= y
  <2>1. Min(T) \in T /\ \A y \in T : Min(T) <= y
    BY MinIs
  <2>2. QED
    BY <2>1, Zenon
<1>2. CASE n = 0
  <2> DEFINE g == [k \in 0 .. 0 |-> [ar |-> list, stop |-> FALSE]]
  <2>1. \A k \in 0 .. 0 : g[k] = Round(list, g, k)
    BY DEF Round
  <2>2. After(list, 0, g)
    BY <2>1 DEF After
  <2>3. QED
    BY <1>2, <2>2
<1>3. CASE n # 0
  <2>1. n - 1 \in Nat /\ n - 1 \notin T
    BY <1>1, <1>3
  <2>2. PICK g : After(list, n - 1, g)
    BY <2>1
  <2> DEFINE h == [k \in 0 .. n |->
                     IF k < n THEN g[k] ELSE Close(g[n - 1], n - 1)]
  <2>3. ASSUME NEW k \in 0 .. n PROVE h[k] = Round(list, h, k)
    <3>1. CASE k < n
      <4>1. k \in 0 .. n - 1 /\ h[k] = g[k]
        BY <3>1
      <4>2. g[k] = Round(list, g, k)
        BY <2>2, <4>1 DEF After
      <4>3. k # 0 => k - 1 \in 0 .. n /\ h[k - 1] = g[k - 1]
        BY <3>1
      <4>4. QED
        BY <4>1, <4>2, <4>3 DEF Round
    <3>2. CASE k = n
      <4>1. h[k] = Close(g[n - 1], n - 1)
        BY <3>2
      <4>2. h[n - 1] = g[n - 1]
        BY <1>3
      <4>3. QED
        BY <1>3, <3>2, <4>1, <4>2 DEF Round
    <3>3. QED
      BY <3>1, <3>2
  <2>4. After(list, n, h)
    BY <2>3, Zenon DEF After
  <2>5. QED
    BY <2>4
<1>4. QED
  BY <1>2, <1>3

(* What holds after n rounds.                                              *)
Good(list, s, n) ==
  /\ s = [ar |-> s.ar, stop |-> s.stop] /\ s.stop \in BOOLEAN
  /\ s.ar \in [Index -> Entry] /\ Clean(s.ar)
  /\ s.stop => NoHoles(s.ar)
  /\ ~s.stop => \A j \in 0 .. n - 1 : s.ar[j].arep # None
  /\ \E m \in [Index -> Index] : Moves(list, s.ar, m)

(* A round fills the first hole.                                           *)
LEMMA CloseStep ==
  ASSUME NEW list, NEW s, NEW n \in Index, Good(list, s, n)
  PROVE  Good(list, Close(s, n), n + 1)
<1> DEFINE later == {j \in Index : j > n /\ s.ar[j].arep # None}
<1>1. CASE s.stop
  <2>1. Close(s, n) = s
    BY <1>1 DEF Close
  <2>2. QED
    BY <1>1, <2>1, Zenon DEF Good
<1>2. CASE ~s.stop /\ s.ar[n].arep # None
  <2>1. Close(s, n) = s
    BY <1>2 DEF Close
  <2>2. \A j \in 0 .. (n + 1) - 1 : s.ar[j].arep # None
    BY <1>2 DEF Good, Index
  <2>3. QED
    BY <1>2, <2>1, <2>2 DEF Good
<1>3. CASE ~s.stop /\ s.ar[n].arep = None /\ later = {}
  <2>1. Close(s, n) = [s EXCEPT !.stop = TRUE]
    BY <1>3 DEF Close
  <2>2. Close(s, n) = [ar |-> s.ar, stop |-> TRUE]
    BY <2>1, Zenon DEF Good
  <2>3. NoHoles(s.ar)
    <3> SUFFICES ASSUME NEW i \in Index, NEW k \in Index,
                        i < k, s.ar[k].arep # None
                 PROVE  s.ar[i].arep # None
      BY DEF NoHoles
    <3>1. k < n
      BY <1>3 DEF Index
    <3>2. i \in 0 .. n - 1
      BY <3>1 DEF Index
    <3>3. QED
      BY <1>3, <3>2 DEF Good
  <2>4. QED
    BY <2>2, <2>3 DEF Good
<1>4. CASE ~s.stop /\ s.ar[n].arep = None /\ later # {}
  <2> DEFINE j == Min(later)
             c == [s.ar EXCEPT ![n] = s.ar[j], ![j] = Unused]
  <2>1. Close(s, n) = [ar |-> c, stop |-> j >= MaxAR - 1]
    BY <1>4 DEF Close
  <2>2. j \in later /\ \A y \in later : j <= y
    <3>1. later \in SUBSET Nat
      BY DEF Index
    <3> HIDE DEF later
    <3>2. QED
      BY <1>4, <3>1, MinIs
  <2>3. /\ j \in Index /\ n < j /\ s.ar[j].arep # None
        /\ \A k \in Index : n < k /\ k < j => s.ar[k].arep = None
    <3>1. j \in Index /\ n < j /\ s.ar[j].arep # None
      BY <2>2
    <3>2. ASSUME NEW k \in Index, n < k, k < j PROVE s.ar[k].arep = None
      <4>1. k \notin later
        <5> HIDE DEF j, later
        <5>1. QED
          BY <2>2, <3>1, <3>2 DEF Index
      <4>2. QED
        BY <3>2, <4>1
    <3>3. QED
      BY <3>1, <3>2
  <2> HIDE DEF j
  <2>4. s.ar \in [Index -> Entry] /\ Unused \in Entry
    BY DEF Good, Entry, Unused
  <2>5. /\ c[n] = s.ar[j] /\ c[j] = Unused
        /\ \A k \in Index : k \notin {n, j} => c[k] = s.ar[k]
        /\ c \in [Index -> Entry]
    BY <2>3, <2>4 DEF Index
  <2> HIDE DEF c
  <2>6. Unused.arep = None
    BY DEF Unused
  <2>7. Clean(c)
    BY <2>3, <2>5, <2>6 DEF Good, Clean
  <2>8. \A k \in 0 .. n - 1 : k \in Index /\ c[k].arep # None
    <3> TAKE k \in 0 .. n - 1
    <3>1. k \in Index /\ k \notin {n, j}
      BY <2>3, MaxARAssumption DEF Index
    <3>2. s.ar[k].arep # None
      BY <1>4 DEF Good
    <3>3. QED
      BY <2>5, <3>1, <3>2
  <2>9. \A k \in 0 .. (n + 1) - 1 : c[k].arep # None
    BY <2>3, <2>5, <2>8 DEF Index
  <2>10. ASSUME j >= MaxAR - 1 PROVE NoHoles(c)
    <3> SUFFICES ASSUME NEW i \in Index, NEW k \in Index,
                        i < k, c[k].arep # None
                 PROVE  c[i].arep # None
      BY DEF NoHoles
    <3>1. k <= n
      BY <2>3, <2>5, <2>6, <2>10, MaxARAssumption DEF Index
    <3>2. i \in 0 .. n - 1
      BY <3>1 DEF Index
    <3>3. QED
      BY <2>8, <3>2
  <2>11. \E m \in [Index -> Index] : Moves(list, c, m)
    <3>1. PICK m \in [Index -> Index] : Moves(list, s.ar, m)
      BY DEF Good
    <3> DEFINE new == [m EXCEPT ![n] = m[j]]
    <3>2. /\ new \in [Index -> Index] /\ new[n] = m[j]
          /\ \A k \in Index : k # n => new[k] = m[k]
      BY <2>3
    <3> HIDE DEF new
    <3>3. \A i \in Index : c[i].arep # None => c[i] = list[new[i]]
      BY <2>3, <2>5, <2>6, <3>1, <3>2 DEF Moves
    <3>4. ASSUME NEW i \in Index, NEW k \in Index,
                 i < k, c[i].arep # None, c[k].arep # None
          PROVE  new[i] < new[k]
      <4>1. i # j /\ k # j
        BY <2>5, <2>6, <3>4
      <4>2. CASE i = n
        <5>1. j < k /\ s.ar[k].arep # None /\ new[k] = m[k] /\ new[i] = m[j]
          BY <2>3, <2>5, <3>2, <3>4, <4>1, <4>2 DEF Index
        <5>2. QED
          BY <2>3, <3>1, <5>1 DEF Moves
      <4>3. CASE k = n
        <5>1. i < j /\ s.ar[i].arep # None /\ new[i] = m[i] /\ new[k] = m[j]
          BY <2>3, <2>5, <3>2, <3>4, <4>1, <4>3 DEF Index
        <5>2. QED
          BY <2>3, <3>1, <5>1 DEF Moves
      <4>4. CASE i # n /\ k # n
        BY <2>5, <3>1, <3>2, <3>4, <4>1, <4>4 DEF Moves
      <4>5. QED
        BY <4>2, <4>3, <4>4
    <3>5. ASSUME NEW k \in Index, list[k].arep # None
          PROVE  \E i \in Index : c[i].arep # None /\ new[i] = k
      <4>1. PICK i \in Index : s.ar[i].arep # None /\ m[i] = k
        BY <3>1, <3>5 DEF Moves
      <4>2. CASE i = j
        BY <2>3, <2>5, <3>2, <4>1, <4>2
      <4>3. CASE i # j
        BY <1>4, <2>5, <3>2, <4>1, <4>3
      <4>4. QED
        BY <4>2, <4>3
    <3>6. QED
      BY <3>2, <3>3, <3>4, <3>5 DEF Moves
  <2>12. QED
    <3> DEFINE r == Close(s, n)
               last == j >= MaxAR - 1
    <3>0. last \in BOOLEAN
      OBVIOUS
    <3>1. r = [ar |-> r.ar, stop |-> r.stop] /\ r.ar = c /\ r.stop = last
      BY <2>1
    <3> HIDE DEF r, last
    <3>2. r.stop \in BOOLEAN /\ (r.stop => NoHoles(c))
      BY <2>10, <3>0, <3>1, Zenon DEF last
    <3>3. Good(list, r, n + 1)
      BY <2>5, <2>7, <2>9, <2>11, <3>1, <3>2 DEF Good
    <3>4. QED
      BY <3>3 DEF r
<1>5. QED
  BY <1>1, <1>2, <1>3, <1>4 DEF Good

(* Closing the holes keeps the used entries and their order, and leaves    *)
(* the unused ones at the end.                                             *)
THEOREM Compacted ==
  ASSUME NEW list \in [Index -> Entry], Clean(list)
  PROVE  /\ Compact(list) \in [Index -> Entry]
         /\ Clean(Compact(list)) /\ NoHoles(Compact(list))
         /\ \E m \in [Index -> Index] : Moves(list, Compact(list), m)
<1> DEFINE g == CHOOSE h : After(list, MaxAR, h)
<1>1. After(list, MaxAR, g)
  BY AfterExists, MaxARAssumption
<1>2. Compact(list) = g[MaxAR].ar
  BY DEF Compact, After, Round
<1> HIDE DEF g
<1>3. /\ g[0] = [ar |-> list, stop |-> FALSE]
      /\ \A k \in 0 .. MaxAR : k # 0 => g[k] = Close(g[k - 1], k - 1)
  <2>1. \A k \in 0 .. MaxAR : g[k] = Round(list, g, k)
    BY <1>1, Zenon DEF After
  <2>2. 0 \in 0 .. MaxAR
    BY MaxARAssumption
  <2>3. QED
    BY <2>1, <2>2, Zenon DEF Round
<1> DEFINE T == {n \in 0 .. MaxAR : ~ Good(list, g[n], n)}
<1>4. Good(list, g[0], 0)
  <2> DEFINE m == [i \in Index |-> i]
  <2>1. m \in [Index -> Index] /\ Moves(list, list, m)
    BY DEF Moves
  <2>2. QED
    BY <1>3, <2>1 DEF Good, Index
<1>5. T = {}
  <2> SUFFICES ASSUME T # {} PROVE FALSE
    OBVIOUS
  <2>1. T \in SUBSET Nat
    BY MaxARAssumption
  <2>2. PICK n \in T : \A y \in T : n <= y
    <3> HIDE DEF T
    <3>1. Min(T) \in T /\ \A y \in T : Min(T) <= y
      BY <2>1, MinIs
    <3>2. QED
      BY <3>1
  <2>3. n # 0 /\ n - 1 \in Index /\ n - 1 \notin T
    BY <1>4, <2>2, MaxARAssumption DEF Index
  <2>4. Good(list, g[n - 1], n - 1)
    BY <2>3, MaxARAssumption DEF Index
  <2>5. Good(list, Close(g[n - 1], n - 1), (n - 1) + 1)
    BY <2>3, <2>4, CloseStep
  <2>6. QED
    BY <1>3, <2>2, <2>3, <2>5, MaxARAssumption
<1>6. Good(list, g[MaxAR], MaxAR)
  BY <1>5, MaxARAssumption
<1>7. NoHoles(g[MaxAR].ar)
  BY <1>6, MaxARAssumption DEF Good, NoHoles, Index
<1>8. QED
  BY <1>2, <1>6, <1>7 DEF Good

-----------------------------------------------------------------------------
(***************************************************************************)
(* The inductive invariant.                                                *)
(***************************************************************************)

TypeOK ==
  /\ ar \in [Index -> Entry]
  /\ conn \in [Arep -> {"idle", "connect", "prmend", "data"}]
  /\ owner \in Arep \cup {None}
  /\ sent \in [Arep -> Nat]
  /\ alarms \subseteq Arep /\ released \subseteq Arep

(* The stack has no more connections than the list has entries.            *)
Few == IsFiniteSet(Live) /\ Cardinality(Live) <= MaxAR

(* Every entry is that of a connection or about to be deleted.             *)
Current ==
  \A i \in Index : ar[i].arep # None =>
    "abort" \in ar[i].events \/ conn[ar[i].arep] \in {"prmend", "data"}

(* The entry of a is not about to be deleted.                              *)
Listed(a) == \E i \in Index : ar[i].arep = a /\ "abort" \notin ar[i].events

(* What the stack waits for is marked, and the connection is not closed.   *)
DueTo(a) ==
  /\ conn[a] \in {"prmend", "data"} => Listed(a)
  /\ conn[a] = "prmend" => MarkedFor(a, "ready")
  /\ a \in released => conn[a] = "data" /\ MarkedFor(a, "released")
  /\ a \in alarms => /\ conn[a] = "data"
                     /\ alarmArg = a => MarkedFor(a, "alarm")

Due == \A a \in Arep : DueTo(a)

(* The only one to have an alarm to confirm is the first of the list, and  *)
(* button 2 closes that connection before it sends the next alarm.         *)
First ==
  \A a \in Arep : sent[a] # 0 =>
    sent[a] = 1 /\ conn[a] = "data" /\ ar[0].arep = a /\ demo # "alarm"

IInv ==
  /\ TypeOK /\ Clean(ar) /\ ListIntact /\ Few
  /\ Prompt => Current /\ Due /\ First

-----------------------------------------------------------------------------
(***************************************************************************)
(* What the operations do to the list.                                     *)
(***************************************************************************)

(* The list is one without holes, and of different connections.            *)
LEMMA ListIs ==
  /\ ListIntact => NoHoles(ar)
  /\ NoHoles(ar) => Visited = {i \in Index : ar[i].arep # None}
<1>1. ListIntact => NoHoles(ar)
  BY DEF ListIntact, NoHoles
<1>2. ASSUME NoHoles(ar), NEW i \in Index
      PROVE  (\A k \in 0 .. i : ar[k].arep # None) <=> ar[i].arep # None
  <2>1. i \in 0 .. i
    BY MaxARAssumption DEF Index
  <2>2. ASSUME NEW k \in 0 .. i, ar[i].arep # None PROVE ar[k].arep # None
    <3>1. k \in Index /\ (k < i \/ k = i)
      BY MaxARAssumption DEF Index
    <3>2. QED
      BY <1>2, <2>2, <3>1 DEF NoHoles
  <2>3. QED
    BY <2>1, <2>2
<1>3. QED
  BY <1>1, <1>2 DEF Visited

(* The marks of an event are in used entries.                              *)
LEMMA MarksIs ==
  ASSUME Clean(ar), ListIntact, NEW e
  PROVE  Marks(e) = {i \in Index : e \in ar[i].events}
<1>1. Visited = {i \in Index : ar[i].arep # None}
  BY ListIs
<1>2. Unused.events = {}
  BY DEF Unused
<1>3. QED
  BY <1>1, <1>2 DEF Marks, Clean

(* The event is cleared in every entry.                                    *)
LEMMA ClearedIs ==
  ASSUME ar \in [Index -> Entry], Clean(ar), ListIntact, NEW e
  PROVE  /\ Cleared(e) \in [Index -> Entry]
         /\ \A i \in Index : /\ Cleared(e)[i].arep = ar[i].arep
                             /\ Cleared(e)[i].events = ar[i].events \ {e}
         /\ Clean(Cleared(e))
<1>1. ASSUME NEW i \in Index
      PROVE  /\ Cleared(e)[i] \in Entry
             /\ Cleared(e)[i].arep = ar[i].arep
             /\ Cleared(e)[i].events = ar[i].events \ {e}
             /\ Cleared(e)[i].arep = None => Cleared(e)[i] = Unused
  <2>1. ar[i] \in Entry
    OBVIOUS
  <2>2. CASE e \in ar[i].events
    <3>1. Cleared(e)[i] = [ar[i] EXCEPT !.events = @ \ {e}]
      BY <2>2, MarksIs DEF Cleared
    <3>2. ar[i].arep # None
      BY <2>2 DEF Clean, Unused
    <3>3. QED
      BY <2>1, <3>1, <3>2 DEF Entry
  <2>3. CASE e \notin ar[i].events
    <3>1. Cleared(e)[i] = ar[i]
      BY <2>3, MarksIs DEF Cleared
    <3>2. ar[i].events \ {e} = ar[i].events
      BY <2>1, <2>3 DEF Entry
    <3>3. QED
      BY <2>1, <3>1, <3>2 DEF Clean
  <2>4. QED
    BY <2>2, <2>3
<1>2. Cleared(e) \in [Index -> Entry]
  BY <1>1 DEF Cleared
<1>3. QED
  BY <1>1, <1>2 DEF Clean

(* The entry of a gets the mark ...                                        *)
Marked1(list, a, e, i) ==
  /\ ar[i].arep = a
  /\ list[i].arep = a /\ list[i].events = ar[i].events \cup {e}
  /\ \A k \in Index : k # i => list[k] = ar[k]

(* ... or the first unused one becomes that of a.                          *)
Added(list, a, e, i) ==
  /\ ar[i].arep = None
  /\ \A k \in Index : ar[k].arep # a
  /\ \A k \in Index : k < i => ar[k].arep # None
  /\ list[i].arep = a /\ list[i].events = {e}
  /\ \A k \in Index : k # i => list[k] = ar[k]

(* Marking an event changes the entry of that AR, or adds one.             *)
LEMMA MarkedIs ==
  ASSUME ar \in [Index -> Entry], Clean(ar), ListIntact,
         NEW a \in Arep, NEW e \in ArEvent, NEW add \in BOOLEAN
  PROVE  /\ Marked(a, e, add) \in [Index -> Entry]
         /\ \/ \E i \in Index : Marked1(Marked(a, e, add), a, e, i)
            \/ add /\ \E i \in Index : Added(Marked(a, e, add), a, e, i)
            \/ /\ Marked(a, e, add) = ar
               /\ \A k \in Index : ar[k].arep # a
               /\ add => \A k \in Index : ar[k].arep # None
<1> DEFINE mine == {i \in Visited : ar[i].arep = a}
           free == {i \in Index : ar[i].arep = None}
           new == Marked(a, e, add)
<1>1. mine = {i \in Index : ar[i].arep = a}
  BY ListIs, NoneAssumption
<1>2. mine \in SUBSET Nat /\ free \in SUBSET Nat
  BY <1>1, MaxARAssumption DEF Index
<1>3. CASE mine # {}
  <2> DEFINE i == Min(mine)
  <2>1. new = [ar EXCEPT ![i].events = @ \cup {e}]
    BY <1>3 DEF Marked
  <2>2. i \in mine
    <3> HIDE DEF mine
    <3>1. QED
      BY <1>2, <1>3, MinIs
  <2>3. i \in Index /\ ar[i].arep = a
    BY <1>1, <2>2
  <2> HIDE DEF i, new, mine
  <2>4. /\ new[i] = [ar[i] EXCEPT !.events = @ \cup {e}]
        /\ \A k \in Index : k # i => new[k] = ar[k]
        /\ new = [k \in Index |-> new[k]]
    BY <2>1, <2>3, Zenon
  <2>5. /\ new[i] \in Entry
        /\ new[i].arep = a /\ new[i].events = ar[i].events \cup {e}
    BY <2>3, <2>4 DEF Entry
  <2>6. new \in [Index -> Entry]
    BY <2>4, <2>5
  <2>7. Marked1(new, a, e, i)
    BY <2>3, <2>4, <2>5 DEF Marked1
  <2>8. QED
    BY <2>3, <2>6, <2>7 DEF new
<1>4. CASE mine = {} /\ add /\ free # {}
  <2> DEFINE i == Min(free)
  <2>1. new = [ar EXCEPT ![i] = [arep |-> a, events |-> {e}]]
    BY <1>4 DEF Marked
  <2>2. i \in free /\ \A y \in free : i <= y
    <3> HIDE DEF free
    <3>1. QED
      BY <1>2, <1>4, MinIs
  <2> HIDE DEF i, new
  <2>3. i \in Index /\ ar[i].arep = None
    BY <2>2
  <2>4. /\ new[i] = [arep |-> a, events |-> {e}]
        /\ \A k \in Index : k # i => new[k] = ar[k]
        /\ new = [k \in Index |-> new[k]]
    BY <2>1, <2>3, Zenon
  <2>5. new[i] \in Entry /\ new[i].arep = a /\ new[i].events = {e}
    BY <2>4 DEF Entry
  <2>6. new \in [Index -> Entry]
    BY <2>4, <2>5
  <2>7. ASSUME NEW k \in Index, k < i PROVE ar[k].arep # None
    BY <2>2, <2>3, <2>7, MaxARAssumption DEF Index
  <2>8. \A k \in Index : ar[k].arep # a
    BY <1>1, <1>4
  <2>9. Added(new, a, e, i)
    BY <2>3, <2>4, <2>5, <2>7, <2>8 DEF Added
  <2>10. QED
    BY <1>4, <2>3, <2>6, <2>9, Zenon DEF new
<1>5. CASE mine = {} /\ ~(add /\ free # {})
  <2>1. new = ar
    BY <1>5 DEF Marked
  <2>2. QED
    BY <1>1, <1>5, <2>1
<1>6. QED
  BY <1>3, <1>4, <1>5

(* The entries that are left when connections are deleted.                 *)
Left(list) ==
  /\ \A i \in Index : list[i].arep # None =>
       \E k \in Index : list[i] = ar[k] /\ "abort" \notin ar[k].events
  /\ \A k \in Index : ar[k].arep # None /\ "abort" \notin ar[k].events =>
       \E i \in Index : list[i] = ar[k]
  /\ ar[0].arep # None /\ "abort" \notin ar[0].events => list[0] = ar[0]

(* The handler of abort deletes the entries with that event, and no other. *)
LEMMA AbortIs ==
  ASSUME ar \in [Index -> Entry], Clean(ar), ListIntact, HandleAbort
  PROVE  ar' \in [Index -> Entry] /\ Clean(ar') /\ ListIntact' /\ Left(ar')
<1> DEFINE list == [i \in Index |-> IF i \in Marks("abort") THEN Unused ELSE ar[i]]
<1>1. Marks("abort") = {i \in Index : "abort" \in ar[i].events}
  BY MarksIs
<1>2. CASE Marks("abort") = {}
  <2>1. ar' = ar
    BY <1>2 DEF HandleAbort
  <2>2. ListIntact'
    BY <2>1 DEF ListIntact
  <2>3. Left(ar')
    BY <1>1, <1>2, <2>1 DEF Left
  <2>4. QED
    BY <2>1, <2>2, <2>3
<1>3. CASE Marks("abort") # {}
  <2>1. ar' = Compact(list)
    BY <1>3 DEF HandleAbort
  <2>2. Unused \in Entry /\ Unused.arep = None
    BY DEF Entry, Unused
  <2>3. list \in [Index -> Entry] /\ Clean(list)
    BY <2>2 DEF Clean
  <2>4. \A k \in Index : list[k].arep # None <=>
          ar[k].arep # None /\ "abort" \notin ar[k].events
    BY <1>1, <2>2
  <2>5. \A k \in Index : list[k].arep # None => list[k] = ar[k]
    BY <2>2
  <2> HIDE DEF list
  <2>6. /\ ar' \in [Index -> Entry] /\ Clean(ar') /\ NoHoles(ar')
        /\ \E m \in [Index -> Index] : Moves(list, ar', m)
    BY <2>1, <2>3, Compacted
  <2>7. PICK m \in [Index -> Index] : Moves(list, ar', m)
    BY <2>6
  <2>8. \A i \in Index : ar'[i].arep # None =>
          /\ m[i] \in Index /\ ar'[i] = ar[m[i]]
          /\ "abort" \notin ar[m[i]].events
    BY <2>4, <2>5, <2>7 DEF Moves
  <2>9. ListIntact'
    <3> SUFFICES ASSUME NEW i \in Index, NEW k \in Index,
                        i < k, ar'[k].arep # None
                 PROVE  ar'[i].arep \notin {None, ar'[k].arep}
      BY DEF ListIntact
    <3>1. ar'[i].arep # None
      BY <2>6 DEF NoHoles
    <3>2. m[i] < m[k]
      BY <2>7, <3>1 DEF Moves
    <3>3. ar[m[i]].arep # ar[m[k]].arep
      BY <2>8, <3>1, <3>2 DEF ListIntact
    <3>4. QED
      BY <2>8, <3>1, <3>3
  <2>10. ASSUME NEW k \in Index, ar[k].arep # None, "abort" \notin ar[k].events
         PROVE  \E i \in Index : ar'[i].arep # None /\ m[i] = k /\ ar'[i] = ar[k]
    BY <2>4, <2>7, <2>8, <2>10 DEF Moves
  <2>11. ASSUME ar[0].arep # None, "abort" \notin ar[0].events
         PROVE  ar'[0] = ar[0]
    <3>1. 0 \in Index
      BY MaxARAssumption DEF Index
    <3>2. PICK i \in Index : ar'[i].arep # None /\ m[i] = 0 /\ ar'[i] = ar[0]
      BY <2>10, <2>11, <3>1
    <3>3. ASSUME i # 0 PROVE FALSE
      <4>1. 0 < i
        BY <3>3, MaxARAssumption DEF Index
      <4>2. ar'[0].arep # None
        BY <2>6, <3>1, <3>2, <4>1 DEF NoHoles
      <4>3. m[0] < m[i] /\ m[0] \in Index
        BY <2>7, <3>1, <3>2, <4>1, <4>2 DEF Moves
      <4>4. QED
        BY <3>2, <4>3, MaxARAssumption DEF Index
    <3>4. QED
      BY <3>2, <3>3
  <2>12. Left(ar')
    BY <2>8, <2>10, <2>11 DEF Left
  <2>13. QED
    BY <2>6, <2>9, <2>12
<1>4. QED
  BY <1>2, <1>3

(* What app_event_set() does, and does not.                                *)
EventFacts(a, e, add) ==
  /\ ar' \in [Index -> Entry] /\ Clean(ar') /\ ListIntact'
  /\ main' = main \cup {e}
  /\ \A i \in Index : ar[i].arep # None =>
       /\ ar'[i].arep = ar[i].arep
       /\ ar[i].events \subseteq ar'[i].events
       /\ ar'[i].events \subseteq ar[i].events \cup {e}
       /\ ar[i].arep # a => ar'[i] = ar[i]
  /\ \A i \in Index : ar[i].arep = None /\ ar'[i].arep # None =>
       ar'[i].arep = a /\ ar'[i].events = {e}
  /\ \A i \in Index : ar'[i].arep = a => e \in ar'[i].events
  /\ (\E i \in Index : ar[i].arep = a \/ (add /\ ar[i].arep = None)) =>
       \E i \in Index : ar'[i].arep = a

(* What setting an event does to the list and the flags.                   *)
LEMMA EventSetIs ==
  ASSUME ar \in [Index -> Entry], Clean(ar), ListIntact,
         NEW a \in Arep, NEW e \in ArEvent, NEW add \in BOOLEAN,
         EventSet(a, e, add)
  PROVE  EventFacts(a, e, add)
<1>1. ar' = Marked(a, e, add) /\ main' = main \cup {e}
  BY DEF EventSet
<1>2. /\ ar' \in [Index -> Entry]
      /\ \/ \E i \in Index : Marked1(ar', a, e, i)
         \/ add /\ \E i \in Index : Added(ar', a, e, i)
         \/ /\ ar' = ar
            /\ \A k \in Index : ar[k].arep # a
            /\ add => \A k \in Index : ar[k].arep # None
  BY <1>1, MarkedIs
<1>3. a # None
  BY NoneAssumption, Zenon
<1>4. ASSUME NEW i \in Index, Marked1(ar', a, e, i) PROVE EventFacts(a, e, add)
  <2>1. \A k \in Index : ar'[k].arep = ar[k].arep
    BY <1>4, Zenon DEF Marked1
  <2>2. \A k \in Index : k # i => ar[k].arep # a /\ ar'[k] = ar[k]
    <3> TAKE k \in Index
    <3> HAVE k # i
    <3>1. k < i \/ i < k
      BY MaxARAssumption DEF Index
    <3>2. QED
      BY <1>3, <1>4, <3>1 DEF Marked1, ListIntact
  <2>3. Clean(ar')
    BY <1>3, <1>4, <2>1, <2>2 DEF Clean, Marked1
  <2>4. ListIntact'
    BY <2>1 DEF ListIntact
  <2>5. ar[i].arep = a /\ ar'[i].events = ar[i].events \cup {e}
    BY <1>4, Zenon DEF Marked1
  <2>6. QED
    BY <1>1, <1>2, <1>3, <2>1, <2>2, <2>3, <2>4, <2>5 DEF EventFacts
<1>5. ASSUME add, NEW i \in Index, Added(ar', a, e, i)
      PROVE  EventFacts(a, e, add)
  <2>1. /\ ar[i].arep = None /\ ar'[i].arep = a /\ ar'[i].events = {e}
        /\ \A k \in Index : k # i => ar[k].arep # a /\ ar'[k] = ar[k]
    BY <1>5 DEF Added
  <2>2. Clean(ar')
    BY <1>3, <2>1 DEF Clean
  <2>3. ListIntact'
    <3> SUFFICES ASSUME NEW j \in Index, NEW k \in Index,
                        j < k, ar'[k].arep # None
                 PROVE  ar'[j].arep \notin {None, ar'[k].arep}
      BY DEF ListIntact
    <3>1. CASE k = i
      <4>1. j # i /\ ar[j].arep # None
        BY <1>5, <3>1, MaxARAssumption DEF Added, Index
      <4>2. QED
        BY <2>1, <3>1, <4>1
    <3>2. CASE k # i
      <4>1. ar[k].arep # None /\ ar[j].arep \notin {None, ar[k].arep}
        BY <2>1, <3>2 DEF ListIntact
      <4>2. j # i
        BY <2>1, <4>1, Zenon
      <4>3. QED
        BY <2>1, <3>2, <4>1, <4>2
    <3>3. QED
      BY <3>1, <3>2
  <2>4. QED
    BY <1>1, <1>2, <1>3, <2>1, <2>2, <2>3 DEF EventFacts
<1>6. ASSUME ar' = ar, \A k \in Index : ar[k].arep # a,
             add => \A k \in Index : ar[k].arep # None
      PROVE  EventFacts(a, e, add)
  <2>1. ListIntact' /\ Clean(ar')
    BY <1>6 DEF ListIntact
  <2>2. QED
    BY <1>1, <1>2, <1>6, <2>1 DEF EventFacts
<1>7. QED
  BY <1>2, <1>4, <1>5, <1>6

-----------------------------------------------------------------------------
(***************************************************************************)
(* The steps.                                                              *)
(***************************************************************************)

(* Nothing is marked, cleared, connected or closed.                        *)
Quiet ==
  /\ UNCHANGED <<ar, conn, owner, sent, alarms, released, alarmArg>>
  /\ \A e \in ArEvent : e \in main \cup flags => e \in main' \cup flags'
  /\ demo' = demo \/ demo' # "alarm"

(* The kinds of steps; the quiet ones leave the list and the flags alone.  *)
LEMMA Steps ==
  ASSUME [Next]_vars
  PROVE  \/ Quiet
         \/ HandleReady \/ HandleAlarm \/ HandleReleased \/ HandleAbort
         \/ PressAlarm \/ PressAbort
         \/ \E a \in Arep : \/ Connect(a) \/ PrmEnd(a) \/ AbortInd(a)
                            \/ SmReleasedInd(a) \/ AlarmInd(a) \/ AlarmCnf(a)
<1>1. Tick => Quiet
  BY DEF Tick, Quiet, stack, loop
<1>2. Wait => Quiet
  BY DEF Wait, Quiet, stack
<1>3. HandleTimer => Quiet
  BY DEF HandleTimer, Quiet, stack, ArEvent
<1>4. NoPress \/ PeriodicEnd => Quiet
  BY DEF NoPress, PeriodicEnd, Quiet, stack
<1>5. PressCalls => Quiet
  BY DEF PressCalls, Quiet, stack
<1>6. NewDataStatusInd => Quiet
  BY DEF NewDataStatusInd, Quiet, stack, loop
<1>7. UNCHANGED vars => Quiet
  BY Zenon DEF vars, Quiet, stack, loop
<1>8. QED
  BY <1>1, <1>2, <1>3, <1>4, <1>5, <1>6, <1>7 DEF Next, Loop, Timer, Callback

(* A handler clears its event.                                             *)
HandleFacts(e) ==
  /\ ar' \in [Index -> Entry] /\ Clean(ar') /\ ListIntact'
  /\ \A i \in Index : /\ ar'[i].arep = ar[i].arep
                      /\ ar'[i].events = ar[i].events \ {e}
  /\ main' = main \ {e} /\ flags' = flags \ {e}
  /\ MarkedBy(e) = {ar[i].arep : i \in {k \in Index : e \in ar[k].events}}

(* What a handler does to the list and the flags.                          *)
LEMMA HandleIs ==
  ASSUME ar \in [Index -> Entry], Clean(ar), ListIntact,
         NEW e, Handle(e), ar' = Cleared(e)
  PROVE  HandleFacts(e)
<1>1. /\ ar' \in [Index -> Entry] /\ Clean(ar')
      /\ \A i \in Index : /\ ar'[i].arep = ar[i].arep
                          /\ ar'[i].events = ar[i].events \ {e}
  BY ClearedIs
<1>2. ListIntact'
  BY <1>1 DEF ListIntact
<1>3. main' = main \ {e} /\ flags' = flags \ {e}
  BY DEF Handle
<1>4. MarkedBy(e) = {ar[i].arep : i \in {k \in Index : e \in ar[k].events}}
  BY MarksIs DEF MarkedBy
<1>5. QED
  BY <1>1, <1>2, <1>3, <1>4, Zenon DEF HandleFacts

(* The same for each of the handlers.                                      *)
LEMMA HandlersAre ==
  ASSUME TypeOK, Clean(ar), ListIntact
  PROVE  /\ HandleReady => HandleFacts("ready")
         /\ HandleAlarm => HandleFacts("alarm")
         /\ HandleReleased => HandleFacts("released")
         /\ HandleAbort => Left(ar')
<1>1. ar \in [Index -> Entry]
  BY DEF TypeOK
<1>2. HandleReady => HandleFacts("ready")
  BY <1>1, HandleIs DEF HandleReady
<1>3. HandleAlarm => HandleFacts("alarm")
  BY <1>1, HandleIs DEF HandleAlarm
<1>4. HandleReleased => HandleFacts("released")
  BY <1>1, HandleIs DEF HandleReleased
<1>5. HandleAbort => Left(ar')
  BY <1>1, AbortIs
<1>6. QED
  BY <1>2, <1>3, <1>4, <1>5

(* The callbacks of the stack mark theirs.                                 *)
LEMMA IndicationsAre ==
  ASSUME TypeOK, Clean(ar), ListIntact, NEW a \in Arep
  PROVE  /\ PrmEnd(a) => EventFacts(a, "ready", TRUE)
         /\ SmReleasedInd(a) => EventFacts(a, "released", FALSE)
         /\ AlarmInd(a) => EventFacts(a, "alarm", FALSE)
         /\ Closed(a) => EventFacts(a, "abort", FALSE)
<1>1. \A e \in ArEvent, add \in BOOLEAN :
        EventSet(a, e, add) => EventFacts(a, e, add)
  BY EventSetIs DEF TypeOK
<1>2. {"ready", "released", "alarm", "abort"} \subseteq ArEvent
  BY DEF ArEvent
<1>3. PrmEnd(a) => EventFacts(a, "ready", TRUE)
  BY <1>1, <1>2, Zenon DEF PrmEnd
<1>4. SmReleasedInd(a) => EventFacts(a, "released", FALSE)
  BY <1>1, <1>2, Zenon DEF SmReleasedInd
<1>5. AlarmInd(a) => EventFacts(a, "alarm", FALSE)
  BY <1>1, <1>2, Zenon DEF AlarmInd
<1>6. Closed(a) => EventFacts(a, "abort", FALSE)
  BY <1>1, <1>2, Zenon DEF Closed
<1>7. QED
  BY <1>3, <1>4, <1>5, <1>6, Zenon

(* The end of a connection.                                                *)
ClosedFacts(a) ==
  /\ EventFacts(a, "abort", FALSE)
  /\ conn' = [conn EXCEPT ![a] = "idle"]
  /\ owner' = IF owner = a THEN None ELSE owner
  /\ sent' = [sent EXCEPT ![a] = 0]
  /\ alarms' = alarms \ {a} /\ released' = released \ {a}
  /\ UNCHANGED <<flags, alarmArg>>
  /\ demo' = demo \/ ar[0].arep = a

(* What the indication of an abort leaves.                                 *)
LEMMA AbortIndIs ==
  ASSUME TypeOK, Clean(ar), ListIntact, NEW a \in Arep, AbortInd(a)
  PROVE  ClosedFacts(a)
<1>1. EventFacts(a, "abort", FALSE)
  BY IndicationsAre, Zenon DEF AbortInd
<1>2. QED
  BY <1>1, Zenon DEF AbortInd, Closed, ClosedFacts, loop

(* Button 2 closes the first connection, if there is one.                  *)
LEMMA PressAbortIs ==
  ASSUME TypeOK, Clean(ar), ListIntact, PressAbort
  PROVE  \/ \E a \in Arep : ClosedFacts(a) /\ ar[0].arep = a
         \/ /\ UNCHANGED <<ar, main, flags, alarmArg, conn, owner, sent, alarms,
                           released>>
            /\ ar[0].arep = None \/ conn[ar[0].arep] = "idle"
<1> DEFINE a == ar[0].arep
<1>1. 0 \in Index
  BY MaxARAssumption DEF Index
<1>2. CASE Connected /\ conn[a] # "idle"
  <2>1. Closed(a) /\ UNCHANGED <<flags, alarmArg>>
    BY <1>2 DEF PressAbort
  <2>2. a \in Arep
    BY <1>1, <1>2 DEF TypeOK, Entry, Connected
  <2> HIDE DEF a
  <2>3. EventFacts(a, "abort", FALSE)
    BY <2>1, <2>2, IndicationsAre, Zenon
  <2>4. ClosedFacts(a)
    BY <2>1, <2>3, Zenon DEF Closed, ClosedFacts, a
  <2>5. QED
    BY <2>2, <2>4, Zenon DEF a
<1>3. CASE ~(Connected /\ conn[a] # "idle")
  BY <1>3, Zenon DEF PressAbort, stack, Connected
<1>4. QED
  BY <1>2, <1>3, Zenon

(* The list keeps its form, and the variables their types.                 *)
LEMMA ListStep ==
  ASSUME TypeOK, Clean(ar), ListIntact, [Next]_vars
  PROVE  TypeOK' /\ Clean(ar)' /\ ListIntact'
<1> DEFINE Goal == TypeOK' /\ Clean(ar)' /\ ListIntact'
<1>1. CASE Quiet
  BY <1>1, Zenon DEF Quiet, TypeOK, Clean, ListIntact
<1>2. CASE HandleReady
  <2>1. HandleFacts("ready")
    BY <1>2, HandlersAre
  <2>2. conn' \in [Arep -> {"idle", "connect", "prmend", "data"}]
    BY <1>2 DEF TypeOK, HandleReady
  <2>3. UNCHANGED <<owner, sent, alarms, released>>
    BY <1>2, Zenon DEF HandleReady, Handle
  <2>4. QED
    BY <2>1, <2>2, <2>3 DEF HandleFacts, TypeOK
<1>3. CASE HandleAlarm
  <2>1. HandleFacts("alarm")
    BY <1>3, HandlersAre
  <2>2. UNCHANGED <<owner, conn, sent, released>> /\ alarms' \subseteq alarms
    BY <1>3, Zenon DEF HandleAlarm, Handle
  <2>3. QED
    BY <2>1, <2>2 DEF HandleFacts, TypeOK
<1>4. CASE HandleReleased
  <2>1. HandleFacts("released")
    BY <1>4, HandlersAre
  <2>2. UNCHANGED <<owner, conn, sent, alarms>> /\ released' \subseteq released
    BY <1>4 DEF HandleReleased, Handle
  <2>3. QED
    BY <2>1, <2>2 DEF HandleFacts, TypeOK
<1>5. CASE HandleAbort
  <2>1. ar' \in [Index -> Entry] /\ Clean(ar') /\ ListIntact'
    BY <1>5, AbortIs DEF TypeOK
  <2>2. UNCHANGED <<owner, conn, sent, alarms, released>>
    BY <1>5, Zenon DEF HandleAbort, Handle
  <2>3. QED
    BY <2>1, <2>2 DEF TypeOK
<1>6. CASE PressAlarm
  <2>1. UNCHANGED <<ar, conn, owner, alarms, released>>
    BY <1>6 DEF PressAlarm
  <2>2. sent' \in [Arep -> Nat]
    BY <1>6 DEF PressAlarm, TypeOK
  <2>3. QED
    BY <2>1, <2>2 DEF TypeOK, Clean, ListIntact
<1>7. ASSUME NEW a \in Arep, ClosedFacts(a) PROVE Goal
  <2>1. ar' \in [Index -> Entry] /\ Clean(ar') /\ ListIntact'
    BY <1>7, Zenon DEF ClosedFacts, EventFacts
  <2>2. /\ conn' \in [Arep -> {"idle", "connect", "prmend", "data"}]
        /\ owner' \in Arep \cup {None} /\ sent' \in [Arep -> Nat]
        /\ alarms' \subseteq Arep /\ released' \subseteq Arep
    BY <1>7, Zenon DEF ClosedFacts, TypeOK
  <2>3. QED
    BY <2>1, <2>2, Zenon DEF TypeOK
<1>8. CASE PressAbort
  <2>1. CASE UNCHANGED <<ar, conn, owner, sent, alarms, released>>
    BY <2>1, Zenon DEF TypeOK, Clean, ListIntact
  <2>2. QED
    BY <1>7, <1>8, <2>1, PressAbortIs, Zenon
<1>9. ASSUME NEW a \in Arep, Connect(a) PROVE Goal
  <2>1. UNCHANGED <<ar, sent, alarms, released>>
    BY <1>9 DEF Connect
  <2>2. /\ conn' \in [Arep -> {"idle", "connect", "prmend", "data"}]
        /\ owner' \in Arep \cup {None}
    BY <1>9, Zenon DEF Connect, TypeOK
  <2>3. QED
    BY <2>1, <2>2, Zenon DEF TypeOK, Clean, ListIntact
<1>10. ASSUME NEW a \in Arep, PrmEnd(a) PROVE Goal
  <2>1. EventFacts(a, "ready", TRUE)
    BY <1>10, IndicationsAre, Zenon
  <2>2. /\ conn' \in [Arep -> {"idle", "connect", "prmend", "data"}]
        /\ UNCHANGED <<owner, sent, alarms, released>>
    BY <1>10, Zenon DEF PrmEnd, TypeOK
  <2>3. QED
    BY <2>1, <2>2 DEF EventFacts, TypeOK
<1>11. ASSUME NEW a \in Arep, AbortInd(a) PROVE Goal
  BY <1>7, <1>11, AbortIndIs
<1>12. ASSUME NEW a \in Arep, SmReleasedInd(a) PROVE Goal
  <2>1. EventFacts(a, "released", FALSE)
    BY <1>12, IndicationsAre, Zenon
  <2>2. /\ released' = released \cup {a}
        /\ UNCHANGED <<conn, owner, sent, alarms>>
    BY <1>12 DEF SmReleasedInd
  <2>3. QED
    BY <2>1, <2>2, Zenon DEF EventFacts, TypeOK
<1>13. ASSUME NEW a \in Arep, AlarmInd(a) PROVE Goal
  <2>1. EventFacts(a, "alarm", FALSE)
    BY <1>13, IndicationsAre, Zenon
  <2>2. /\ alarms' = alarms \cup {a}
        /\ UNCHANGED <<conn, owner, sent, released>>
    BY <1>13 DEF AlarmInd
  <2>3. QED
    BY <2>1, <2>2, Zenon DEF EventFacts, TypeOK
<1>14. ASSUME NEW a \in Arep, AlarmCnf(a) PROVE Goal
  <2>1. UNCHANGED <<ar, conn, owner, alarms, released>>
    BY <1>14 DEF AlarmCnf
  <2>2. sent' \in [Arep -> Nat]
    BY <1>14 DEF AlarmCnf, TypeOK
  <2>3. QED
    BY <2>1, <2>2, Zenon DEF TypeOK, Clean, ListIntact
<1>15. QED
  BY <1>1, <1>2, <1>3, <1>4, <1>5, <1>6, <1>8, <1>9, <1>10, <1>11, <1>12,
     <1>13, <1>14, Steps, Zenon

(* A connection more, and otherwise none.                                  *)
LEMMA FewStep ==
  ASSUME TypeOK, Clean(ar), ListIntact, Few, [Next]_vars
  PROVE  Few'
<1>1. ASSUME Live' \subseteq Live PROVE Few'
  <2>1. IsFiniteSet(Live') /\ Cardinality(Live') <= Cardinality(Live)
    BY <1>1, FS_Subset DEF Few
  <2>2. Cardinality(Live) \in Nat /\ Cardinality(Live') \in Nat
    BY <2>1, FS_CardinalityType DEF Few
  <2>3. QED
    BY <2>1, <2>2, MaxARAssumption DEF Few
<1>2. ASSUME UNCHANGED conn PROVE Few'
  <2>1. Live' = Live
    BY <1>2 DEF Live
  <2>2. QED
    BY <1>1, <2>1
<1>3. ASSUME NEW a \in Arep, ClosedFacts(a) PROVE Few'
  <2>1. Live' \subseteq Live
    BY <1>3 DEF Live, ClosedFacts, TypeOK
  <2>2. QED
    BY <1>1, <2>1
<1>4. CASE HandleReady
  <2>1. Live' \subseteq Live
    BY <1>4, Zenon DEF Live, HandleReady, TypeOK
  <2>2. QED
    BY <1>1, <2>1
<1>5. ASSUME NEW a \in Arep, PrmEnd(a) PROVE Few'
  <2>1. Live' \subseteq Live
    BY <1>5 DEF Live, PrmEnd, TypeOK
  <2>2. QED
    BY <1>1, <2>1
<1>6. ASSUME NEW a \in Arep, Connect(a) PROVE Few'
  <2>1. Live' = Live \cup {a} /\ a \notin Live /\ Cardinality(Live) < MaxAR
    BY <1>6 DEF Live, Connect, TypeOK
  <2>2. IsFiniteSet(Live') /\ Cardinality(Live') = Cardinality(Live) + 1
    BY <2>1, FS_AddElement DEF Few
  <2>3. Cardinality(Live) \in Nat
    BY FS_CardinalityType DEF Few
  <2>4. QED
    BY <2>1, <2>2, <2>3, MaxARAssumption DEF Few
<1>7. CASE Quiet \/ HandleAlarm \/ HandleReleased \/ HandleAbort \/ PressAlarm
  BY <1>2, <1>7, Zenon
     DEF Quiet, HandleAlarm, HandleReleased, HandleAbort, PressAlarm
<1>8. ASSUME NEW a \in Arep, SmReleasedInd(a) \/ AlarmInd(a) \/ AlarmCnf(a)
      PROVE  Few'
  BY <1>2, <1>8, Zenon DEF SmReleasedInd, AlarmInd, AlarmCnf
<1>9. CASE PressAbort
  BY <1>2, <1>3, <1>9, PressAbortIs
<1>10. QED
  BY <1>3, <1>4, <1>5, <1>6, <1>7, <1>8, <1>9, AbortIndIs, Steps

(* There is an unused entry for a connection that is not in the list.      *)
LEMMA Room ==
  ASSUME TypeOK, ListIntact, Few, Current, NEW a \in Arep, conn[a] = "connect",
         \A i \in Index : "abort" \notin ar[i].events
  PROVE  \E i \in Index : ar[i].arep = None
<1> SUFFICES ASSUME \A i \in Index : ar[i].arep # None PROVE FALSE
  OBVIOUS
<1> DEFINE f == [i \in Index |-> ar[i].arep]
           T == Live \ {a}
<1>1. \A i \in Index : f[i] \in T
  BY DEF Current, TypeOK, Entry, Live
<1>2. ASSUME NEW i \in Index, NEW k \in Index, f[i] = f[k] PROVE i = k
  <2>1. ~ (i < k) /\ ~ (k < i)
    BY <1>2 DEF ListIntact
  <2>2. QED
    BY <2>1, MaxARAssumption DEF Index
<1>3. f \in Injection(Index, T)
  BY <1>1, <1>2, Zenon DEF Injection, IsInjective
<1>4. IsFiniteSet(T) /\ Cardinality(T) = Cardinality(Live) - 1
  BY FS_RemoveElement, Zenon DEF Few, Live
<1>5. Cardinality(Index) = MaxAR
  BY FS_Interval, MaxARAssumption DEF Index
<1>6. Cardinality(Index) <= Cardinality(T)
  BY <1>3, <1>4, FS_Injection, Zenon
<1>7. Cardinality(Live) \in Nat
  BY FS_CardinalityType DEF Few
<1>8. QED
  BY <1>4, <1>5, <1>6, <1>7, MaxARAssumption DEF Few

-----------------------------------------------------------------------------
(***************************************************************************)
(* What is owed to the stack, if the loop is prompt.                       *)
(***************************************************************************)

(* There is one entry for a connection.                                    *)
LEMMA OneEntry ==
  ASSUME ListIntact, NEW i \in Index, NEW k \in Index,
         ar[i].arep = ar[k].arep, ar[i].arep # None
  PROVE  i = k
<1>1. ~ (i < k) /\ ~ (k < i)
  BY Zenon DEF ListIntact
<1>2. QED
  BY <1>1, MaxARAssumption DEF Index

(* An entry is marked when its connection is closed.                       *)
LEMMA CurrentStep ==
  ASSUME TypeOK, Clean(ar), ListIntact, Current, [Next]_vars
  PROVE  Current'
<1>1. ASSUME \A i \in Index : /\ ar'[i].arep = ar[i].arep
                              /\ "abort" \in ar[i].events => "abort" \in ar'[i].events,
             \A a \in Arep : conn[a] \in {"prmend", "data"} =>
                               conn'[a] \in {"prmend", "data"}
      PROVE  Current'
  BY <1>1, Zenon DEF Current, TypeOK, Entry
<1>2. CASE Quiet \/ PressAlarm
  BY <1>2, Zenon DEF Quiet, PressAlarm, Current
<1>3. CASE HandleReady
  <2>1. HandleFacts("ready")
    BY <1>3, HandlersAre
  <2>2. \A a \in Arep : conn[a] \in {"prmend", "data"} =>
                          conn'[a] \in {"prmend", "data"}
    BY <1>3, Zenon DEF HandleReady
  <2>3. QED
    BY <1>1, <2>1, <2>2 DEF HandleFacts
<1>4. CASE HandleAlarm
  <2>0. HandleFacts("alarm")
    BY <1>4, HandlersAre
  <2>1. HandleFacts("alarm") /\ UNCHANGED conn
    BY <1>4, <2>0, Zenon DEF HandleAlarm
  <2>2. QED
    BY <1>1, <2>1 DEF HandleFacts
<1>5. CASE HandleReleased
  <2>0. HandleFacts("released")
    BY <1>5, HandlersAre
  <2>1. HandleFacts("released") /\ UNCHANGED conn
    BY <1>5, <2>0, Zenon DEF HandleReleased
  <2>2. QED
    BY <1>1, <2>1 DEF HandleFacts
<1>6. CASE HandleAbort
  <2>0. Left(ar')
    BY <1>6, HandlersAre
  <2>1. Left(ar') /\ UNCHANGED conn
    BY <1>6, <2>0, Zenon DEF HandleAbort
  <2>2. QED
    BY <2>1 DEF Left, Current
<1>7. ASSUME NEW a \in Arep, ClosedFacts(a) PROVE Current'
  <2> SUFFICES ASSUME NEW i \in Index, ar'[i].arep # None,
                      "abort" \notin ar'[i].events
               PROVE  conn'[ar'[i].arep] \in {"prmend", "data"}
    BY Zenon DEF Current
  <2>1. EventFacts(a, "abort", FALSE)
    BY <1>7, Zenon DEF ClosedFacts
  <2>2. ar'[i].arep # a /\ ar[i].arep # None
    BY <2>1, Zenon DEF EventFacts
  <2>3. ar'[i] = ar[i]
    BY <2>1, <2>2, Zenon DEF EventFacts
  <2>4. ar[i].arep \in Arep /\ conn[ar[i].arep] \in {"prmend", "data"}
    BY <2>2, <2>3, Zenon DEF Current, TypeOK, Entry
  <2>5. QED
    BY <1>7, <2>2, <2>3, <2>4 DEF ClosedFacts, TypeOK
<1>8. CASE PressAbort
  <2>1. CASE UNCHANGED <<ar, conn>>
    BY <2>1 DEF Current
  <2>2. QED
    BY <1>7, <1>8, <2>1, PressAbortIs, Zenon
<1>9. ASSUME NEW a \in Arep, Connect(a) PROVE Current'
  <2>1. UNCHANGED ar /\ conn[a] = "idle" /\ conn' = [conn EXCEPT ![a] = "connect"]
    BY <1>9, Zenon DEF Connect
  <2>2. QED
    BY <1>1, <2>1, Zenon DEF TypeOK
<1>10. ASSUME NEW a \in Arep, NEW e \in {"ready", "released", "alarm"},
              NEW add \in BOOLEAN, EventFacts(a, e, add),
              conn'[a] \in {"prmend", "data"},
              \A b \in Arep : b # a => conn'[b] = conn[b]
       PROVE  Current'
  <2> SUFFICES ASSUME NEW i \in Index, ar'[i].arep # None,
                      "abort" \notin ar'[i].events
               PROVE  conn'[ar'[i].arep] \in {"prmend", "data"}
    BY Zenon DEF Current
  <2>1. CASE ar[i].arep = None
    BY <1>10, <2>1, Zenon DEF EventFacts
  <2>2. CASE ar[i].arep # None
    <3>1. ar'[i].arep = ar[i].arep /\ "abort" \notin ar[i].events
      BY <1>10, <2>2, Zenon DEF EventFacts
    <3>2. ar[i].arep \in Arep /\ conn[ar[i].arep] \in {"prmend", "data"}
      BY <2>2, <3>1 DEF Current, TypeOK, Entry
    <3>3. QED
      BY <1>10, <3>1, <3>2, Zenon
  <2>3. QED
    BY <2>1, <2>2, Zenon
<1>11. ASSUME NEW a \in Arep, PrmEnd(a) PROVE Current'
  <2>1. EventFacts(a, "ready", TRUE)
    BY <1>11, IndicationsAre, Zenon
  <2>2. conn'[a] = "prmend" /\ \A b \in Arep : b # a => conn'[b] = conn[b]
    BY <1>11, Zenon DEF PrmEnd, TypeOK
  <2>3. QED
    BY <1>10, <2>1, <2>2, Zenon
<1>12. ASSUME NEW a \in Arep, SmReleasedInd(a) PROVE Current'
  <2>1. EventFacts(a, "released", FALSE)
    BY <1>12, IndicationsAre, Zenon
  <2>2. conn[a] = "data" /\ UNCHANGED conn
    BY <1>12, Zenon DEF SmReleasedInd
  <2>3. QED
    BY <1>10, <2>1, <2>2, Zenon
<1>13. ASSUME NEW a \in Arep, AlarmInd(a) PROVE Current'
  <2>1. EventFacts(a, "alarm", FALSE)
    BY <1>13, IndicationsAre, Zenon
  <2>2. conn[a] = "data" /\ UNCHANGED conn
    BY <1>13 DEF AlarmInd
  <2>3. QED
    BY <1>10, <2>1, <2>2, Zenon
<1>14. ASSUME NEW a \in Arep, AlarmCnf(a) PROVE Current'
  BY <1>14 DEF AlarmCnf, Current
<1>15. QED
  BY <1>2, <1>3, <1>4, <1>5, <1>6, <1>7, <1>8, <1>9, <1>11, <1>12, <1>13,
     <1>14, AbortIndIs, Steps, Zenon

(* The entry of b stays, and the marks in X.                               *)
Follows(b, X) ==
  /\ \A i \in Index : ar[i].arep = b /\ "abort" \notin ar[i].events =>
       \E k \in Index : /\ ar'[k].arep = b /\ "abort" \notin ar'[k].events
                        /\ ar[i].events \cap X \subseteq ar'[k].events
  /\ \A x \in X : x \in main \cup flags => x \in main' \cup flags'

(* An AR that is listed stays listed, with its events among X.             *)
LEMMA FollowsKeeps ==
  ASSUME ListIntact, NEW b \in Arep, Listed(b), NEW X, Follows(b, X)
  PROVE  /\ Listed(b)'
         /\ \A x \in X : MarkedFor(b, x) => MarkedFor(b, x)'
<1>1. PICK i \in Index : ar[i].arep = b /\ "abort" \notin ar[i].events
  BY Zenon DEF Listed
<1>2. PICK k \in Index : /\ ar'[k].arep = b /\ "abort" \notin ar'[k].events
                         /\ ar[i].events \cap X \subseteq ar'[k].events
  BY <1>1, Zenon DEF Follows
<1>3. Listed(b)'
  BY <1>2, Zenon DEF Listed
<1>4. ASSUME NEW x \in X, MarkedFor(b, x) PROVE MarkedFor(b, x)'
  <2>1. PICK j \in Index : ar[j].arep = b /\ x \in ar[j].events
    BY <1>4, Zenon DEF MarkedFor
  <2>2. j = i
    BY <1>1, <2>1, OneEntry, NoneAssumption, Zenon
  <2>3. x \in ar'[k].events
    BY <1>2, <2>1, <2>2, Zenon
  <2>4. x \in main' \cup flags'
    BY <1>4 DEF MarkedFor, Follows
  <2>5. QED
    BY <1>2, <2>3, <2>4, Zenon DEF MarkedFor
<1>5. QED
  BY <1>3, <1>4

Events == {"ready", "released", "alarm"}

(* The steps for which that is so.                                         *)
LEMMA FollowsIf ==
  ASSUME NEW b \in Arep
  PROVE  /\ UNCHANGED ar /\ (\A x \in ArEvent : x \in main \cup flags =>
                                x \in main' \cup flags') => Follows(b, Events)
         /\ \A a, e, add : /\ EventFacts(a, e, add) /\ UNCHANGED flags
                           /\ e # "abort" \/ a # b
                           => Follows(b, Events)
         /\ \A e \in Events : HandleFacts(e) => Follows(b, Events \ {e})
<1>1. ASSUME UNCHANGED ar, \A x \in ArEvent : x \in main \cup flags =>
                                               x \in main' \cup flags'
      PROVE  Follows(b, Events)
  BY <1>1, Zenon DEF Follows, Events, ArEvent
<1>2. ASSUME NEW a, NEW e, NEW add, EventFacts(a, e, add), UNCHANGED flags,
             e # "abort" \/ a # b
      PROVE  Follows(b, Events)
  <2>1. ASSUME NEW i \in Index, ar[i].arep = b, "abort" \notin ar[i].events
        PROVE  /\ ar'[i].arep = b /\ "abort" \notin ar'[i].events
               /\ ar[i].events \cap Events \subseteq ar'[i].events
    <3>1. ar[i].arep # None
      BY <2>1, NoneAssumption, Zenon
    <3>2. QED
      BY <1>2, <2>1, <3>1 DEF EventFacts
  <2>2. \A x : x \in main \cup flags => x \in main' \cup flags'
    BY <1>2, Zenon DEF EventFacts
  <2>3. QED
    BY <2>1, <2>2, Zenon DEF Follows
<1>3. ASSUME NEW e \in Events, HandleFacts(e) PROVE Follows(b, Events \ {e})
  <2>1. ASSUME NEW i \in Index, ar[i].arep = b, "abort" \notin ar[i].events
        PROVE  /\ ar'[i].arep = b /\ "abort" \notin ar'[i].events
               /\ ar[i].events \cap (Events \ {e}) \subseteq ar'[i].events
    BY <1>3, <2>1, Zenon DEF HandleFacts
  <2>2. \A x \in Events \ {e} : x \in main \cup flags => x \in main' \cup flags'
    BY <1>3, Zenon DEF HandleFacts
  <2>3. QED
    BY <2>1, <2>2, Zenon DEF Follows
<1>4. QED
  BY <1>1, <1>2, <1>3

(* Nothing changes for b.                                                  *)
LEMMA DueStays ==
  ASSUME ListIntact, NEW b \in Arep, DueTo(b), Follows(b, Events),
         conn'[b] = conn[b], b \in released' => b \in released,
         b \in alarms' => b \in alarms, alarmArg' = b => alarmArg = b
  PROVE  DueTo(b)'
<1>1. conn[b] \in {"prmend", "data"} =>
        /\ Listed(b)'
        /\ MarkedFor(b, "ready") => MarkedFor(b, "ready")'
        /\ MarkedFor(b, "released") => MarkedFor(b, "released")'
        /\ MarkedFor(b, "alarm") => MarkedFor(b, "alarm")'
  BY FollowsKeeps, Zenon DEF DueTo, Events
<1>2. QED
  BY <1>1, Zenon DEF DueTo

(* A handler clears the event of whom it tells.                            *)
LEMMA HandledAll ==
  ASSUME NEW e, HandleFacts(e), NEW b, MarkedFor(b, e)
  PROVE  b \in MarkedBy(e)
  BY Zenon DEF HandleFacts, MarkedFor

(* Steps keep every event that is due.                                     *)
LEMMA DueStep ==
  ASSUME Prompt, TypeOK, Clean(ar), ListIntact, Few, Current, Due, [Next]_vars
  PROVE  Due'
<1> SUFFICES ASSUME NEW b \in Arep PROVE DueTo(b)'
  BY DEF Due
<1>0. DueTo(b)
  BY DEF Due
<1>1. CASE Quiet
  <2>1. Follows(b, Events)
    BY <1>1, FollowsIf, Zenon DEF Quiet
  <2>2. QED
    BY <1>0, <1>1, <2>1, DueStays DEF Quiet
<1>2. CASE HandleReady
  <2>1. HandleFacts("ready")
    BY <1>2, HandlersAre
  <2>2. Follows(b, {"released", "alarm"})
    <3>1. Events \ {"ready"} = {"released", "alarm"} /\ "ready" \in Events
      BY DEF Events
    <3>2. QED
      BY <2>1, <3>1, FollowsIf
  <2>3. UNCHANGED <<alarms, released, alarmArg>>
    BY <1>2 DEF HandleReady, Handle
  <2>4. conn'[b] # "prmend"
    BY <1>0, <1>2, <2>1, HandledAll DEF HandleReady, DueTo
  <2>5. /\ conn'[b] = "data" => conn[b] \in {"prmend", "data"}
        /\ conn[b] = "data" => conn'[b] = "data"
    BY <1>2 DEF HandleReady
  <2>6. conn[b] \in {"prmend", "data"} =>
          /\ Listed(b)'
          /\ MarkedFor(b, "released") => MarkedFor(b, "released")'
          /\ MarkedFor(b, "alarm") => MarkedFor(b, "alarm")'
    BY <1>0, <2>2, FollowsKeeps, Zenon DEF DueTo
  <2>7. QED
    BY <1>0, <2>3, <2>4, <2>5, <2>6 DEF DueTo
<1>3. CASE HandleAlarm
  <2>1. HandleFacts("alarm")
    BY <1>3, HandlersAre
  <2>2. Follows(b, {"ready", "released"})
    <3>1. Events \ {"alarm"} = {"ready", "released"} /\ "alarm" \in Events
      BY DEF Events
    <3>2. QED
      BY <2>1, <3>1, FollowsIf
  <2>3. UNCHANGED <<conn, released, alarmArg>> /\ alarms' \subseteq alarms
    BY <1>3 DEF HandleAlarm, Handle
  <2>4. b \in alarms' => alarmArg # b
    BY <1>0, <1>3, <2>1, HandledAll DEF HandleAlarm, DueTo
  <2>5. conn[b] \in {"prmend", "data"} =>
          /\ Listed(b)'
          /\ MarkedFor(b, "ready") => MarkedFor(b, "ready")'
          /\ MarkedFor(b, "released") => MarkedFor(b, "released")'
    BY <1>0, <2>2, FollowsKeeps DEF DueTo
  <2>6. QED
    BY <1>0, <2>3, <2>4, <2>5 DEF DueTo
<1>4. CASE HandleReleased
  <2>1. HandleFacts("released")
    BY <1>4, HandlersAre
  <2>2. Follows(b, {"ready", "alarm"})
    <3>1. Events \ {"released"} = {"ready", "alarm"} /\ "released" \in Events
      BY DEF Events
    <3>2. QED
      BY <2>1, <3>1, FollowsIf
  <2>3. UNCHANGED <<conn, alarms, alarmArg>>
    BY <1>4 DEF HandleReleased, Handle
  <2>4. b \notin released'
    BY <1>0, <1>4, <2>1, HandledAll DEF HandleReleased, DueTo
  <2>5. conn[b] \in {"prmend", "data"} =>
          /\ Listed(b)'
          /\ MarkedFor(b, "ready") => MarkedFor(b, "ready")'
          /\ MarkedFor(b, "alarm") => MarkedFor(b, "alarm")'
    BY <1>0, <2>2, FollowsKeeps DEF DueTo
  <2>6. QED
    BY <1>0, <2>3, <2>4, <2>5 DEF DueTo
<1>5. CASE HandleAbort
  <2>1. Left(ar')
    BY <1>5, HandlersAre
  <2>2. /\ UNCHANGED <<conn, alarms, released, alarmArg>>
        /\ main' = main \ {"abort"} /\ flags' = flags \ {"abort"}
    BY <1>5, Zenon DEF HandleAbort, Handle
  <2>3. Follows(b, Events)
    <3>1. \A x \in Events : x \in main \cup flags => x \in main' \cup flags'
      BY <2>2, Zenon DEF Events
    <3>2. ASSUME NEW i \in Index, ar[i].arep = b, "abort" \notin ar[i].events
          PROVE  \E k \in Index : ar'[k] = ar[i]
      BY <2>1, <3>2, NoneAssumption DEF Left
    <3>3. QED
      BY <3>1, <3>2 DEF Follows
  <2>4. QED
    BY <1>0, <2>2, <2>3, DueStays
<1>6. CASE PressAlarm
  <2>1. UNCHANGED <<ar, main, flags, conn, alarms, released, alarmArg>>
    BY <1>6 DEF PressAlarm
  <2>2. Follows(b, Events)
    BY <2>1, FollowsIf
  <2>3. QED
    BY <1>0, <2>1, <2>2, DueStays, Zenon
<1>7. ASSUME NEW a \in Arep, ClosedFacts(a) PROVE DueTo(b)'
  <2>1. CASE a = b
    <3>1. conn'[b] = "idle" /\ b \notin alarms' /\ b \notin released'
      BY <1>7, <2>1, Zenon DEF ClosedFacts, TypeOK
    <3>2. QED
      BY <3>1, Zenon DEF DueTo
  <2>2. CASE a # b
    <3>1. Follows(b, Events)
      BY <1>7, <2>2, FollowsIf, Zenon DEF ClosedFacts
    <3>2. conn'[b] = conn[b]
      BY <1>7, <2>2, Zenon DEF ClosedFacts, TypeOK
    <3>3. QED
      BY <1>0, <1>7, <3>1, <3>2, DueStays, Zenon DEF ClosedFacts
  <2>3. QED
    BY <2>1, <2>2
<1>8. CASE PressAbort
  <2>1. CASE UNCHANGED <<ar, main, flags, alarmArg, conn, owner, sent, alarms,
                         released>>
    <3>1. Follows(b, Events)
      BY <2>1, FollowsIf, Zenon
    <3>2. QED
      BY <1>0, <2>1, <3>1, DueStays
  <2>2. QED
    BY <1>7, <1>8, <2>1, PressAbortIs, Zenon
<1>9. ASSUME NEW a \in Arep, Connect(a) PROVE DueTo(b)'
  <2>1. UNCHANGED <<ar, main, flags, alarmArg, alarms, released>>
    BY <1>9, Zenon DEF Connect, loop
  <2>2. CASE a = b
    <3>1. conn[b] = "idle" /\ conn'[b] = "connect"
      BY <1>9, <2>2, Zenon DEF Connect, TypeOK
    <3>2. QED
      BY <1>0, <2>1, <3>1 DEF DueTo
  <2>3. CASE a # b
    <3>1. conn'[b] = conn[b]
      BY <1>9, <2>3 DEF Connect, TypeOK
    <3>2. Follows(b, Events)
      BY <2>1, FollowsIf
    <3>3. QED
      BY <1>0, <2>1, <3>1, <3>2, DueStays, Zenon
  <2>4. QED
    BY <2>2, <2>3
<1>10. ASSUME NEW a \in Arep, PrmEnd(a) PROVE DueTo(b)'
  <2>1. EventFacts(a, "ready", TRUE)
    BY <1>10, IndicationsAre, Zenon
  <2>2. UNCHANGED <<flags, alarmArg, alarms, released>>
    BY <1>10, Zenon DEF PrmEnd, loop
  <2>3. CASE a = b
    <3>1. conn[a] = "connect" /\ conn'[a] = "prmend"
      BY <1>10, Zenon DEF PrmEnd, TypeOK
    <3>2. \A i \in Index : "abort" \notin ar[i].events
      BY <1>10, Zenon DEF PrmEnd
    <3>3. PICK i \in Index : ar'[i].arep = a
      BY <2>1, <3>1, <3>2, Room, Zenon DEF EventFacts
    <3>4. "ready" \in ar'[i].events
      BY <2>1, <3>3, Zenon DEF EventFacts
    <3>5. "abort" \notin ar'[i].events
      <4>1. a # None
        BY NoneAssumption, Zenon
      <4>2. QED
        BY <2>1, <3>2, <3>3, <4>1 DEF EventFacts
    <3>6. Listed(a)' /\ MarkedFor(a, "ready")'
      BY <2>1, <3>3, <3>4, <3>5, Zenon DEF Listed, MarkedFor, EventFacts
    <3>7. a \notin released /\ a \notin alarms
      BY <1>0, <2>3, <3>1, Zenon DEF DueTo
    <3>8. QED
      BY <2>2, <2>3, <3>1, <3>6, <3>7, Zenon DEF DueTo
  <2>4. CASE a # b
    <3>1. conn'[b] = conn[b]
      BY <1>10, <2>4, Zenon DEF PrmEnd, TypeOK
    <3>2. Follows(b, Events)
      BY <2>1, <2>2, <2>4, FollowsIf, Zenon
    <3>3. QED
      BY <1>0, <2>2, <3>1, <3>2, DueStays, Zenon
  <2>5. QED
    BY <2>3, <2>4
<1>11. ASSUME NEW a \in Arep, NEW e \in Events, conn[a] = "data",
              EventFacts(a, e, FALSE)
       PROVE  MarkedFor(a, e)'
  <2>1. PICK i \in Index : ar[i].arep = a
    BY <1>11, Zenon DEF Due, DueTo, Listed
  <2>2. PICK k \in Index : ar'[k].arep = a /\ e \in ar'[k].events
    BY <1>11, <2>1, Zenon DEF EventFacts
  <2>3. QED
    BY <1>11, <2>2, Zenon DEF EventFacts, MarkedFor
<1>12. ASSUME NEW a \in Arep, SmReleasedInd(a) PROVE DueTo(b)'
  <2>1. EventFacts(a, "released", FALSE)
    BY <1>12, IndicationsAre, Zenon
  <2>2. UNCHANGED <<flags, conn, alarmArg, alarms>> /\ conn[a] = "data"
    BY <1>12, Zenon DEF SmReleasedInd, loop
  <2>3. released' = released \cup {a}
    BY <1>12, Zenon DEF SmReleasedInd
  <2>4. Follows(b, Events)
    BY <2>1, <2>2, FollowsIf, Zenon
  <2>5. MarkedFor(a, "released")'
    BY <1>11, <2>1, <2>2, Zenon DEF Events
  <2>6. conn[b] \in {"prmend", "data"} =>
          /\ Listed(b)'
          /\ MarkedFor(b, "ready") => MarkedFor(b, "ready")'
          /\ MarkedFor(b, "released") => MarkedFor(b, "released")'
          /\ MarkedFor(b, "alarm") => MarkedFor(b, "alarm")'
    BY <1>0, <2>4, FollowsKeeps, Zenon DEF DueTo, Events
  <2>7. QED
    BY <1>0, <2>2, <2>3, <2>5, <2>6 DEF DueTo
<1>13. ASSUME NEW a \in Arep, AlarmInd(a) PROVE DueTo(b)'
  <2>1. EventFacts(a, "alarm", FALSE)
    BY <1>13, IndicationsAre, Zenon
  <2>2. UNCHANGED <<flags, conn, released>> /\ conn[a] = "data"
    BY <1>13, Zenon DEF AlarmInd, loop
  <2>3. alarms' = alarms \cup {a} /\ alarmArg' = a
    BY <1>13, Zenon DEF AlarmInd
  <2>4. Follows(b, Events)
    BY <2>1, <2>2, FollowsIf, Zenon
  <2>5. MarkedFor(a, "alarm")'
    BY <1>11, <2>1, <2>2, Zenon DEF Events
  <2>6. conn[b] \in {"prmend", "data"} =>
          /\ Listed(b)'
          /\ MarkedFor(b, "ready") => MarkedFor(b, "ready")'
          /\ MarkedFor(b, "released") => MarkedFor(b, "released")'
    BY <1>0, <2>4, FollowsKeeps, Zenon DEF DueTo, Events
  <2>7. QED
    BY <1>0, <2>2, <2>3, <2>5, <2>6 DEF DueTo
<1>14. ASSUME NEW a \in Arep, AlarmCnf(a) PROVE DueTo(b)'
  <2>1. UNCHANGED <<ar, main, flags, conn, alarms, released, alarmArg>>
    BY <1>14, Zenon DEF AlarmCnf, loop
  <2>2. Follows(b, Events)
    BY <2>1, FollowsIf, Zenon
  <2>3. QED
    BY <1>0, <2>1, <2>2, DueStays, Zenon
<1>15. QED
  BY <1>1, <1>2, <1>3, <1>4, <1>5, <1>6, <1>7, <1>8, <1>9, <1>10, <1>12,
     <1>13, <1>14, AbortIndIs, Steps

(* A connection that data is exchanged with stays where it is, or moves to *)
(* the front.                                                              *)
LEMMA FirstStep ==
  ASSUME TypeOK, Clean(ar), ListIntact, Due, First, [Next]_vars
  PROVE  First'
<1>0. 0 \in Index
  BY MaxARAssumption DEF Index
<1>1. ASSUME UNCHANGED sent, demo' = demo \/ demo' # "alarm",
             ar[0].arep # None => ar'[0].arep = ar[0].arep,
             \A b \in Arep : conn[b] = "data" => conn'[b] = "data"
      PROVE  First'
  BY <1>1, NoneAssumption, Zenon DEF First
<1>2. CASE Quiet
  BY <1>1, <1>2, Zenon DEF Quiet
<1>3. CASE HandleReady
  <2>1. HandleFacts("ready")
    BY <1>3, HandlersAre, Zenon
  <2>2. /\ UNCHANGED <<sent, demo>>
        /\ \A b \in Arep : conn[b] = "data" => conn'[b] = "data"
    BY <1>3, Zenon DEF HandleReady, Handle
  <2>3. QED
    BY <1>0, <1>1, <2>1, <2>2 DEF HandleFacts
<1>4. CASE HandleAlarm
  <2>0. HandleFacts("alarm")
    BY <1>4, HandlersAre, Zenon
  <2>1. HandleFacts("alarm") /\ UNCHANGED <<conn, sent, demo>>
    BY <1>4, <2>0, Zenon DEF HandleAlarm, Handle
  <2>2. QED
    BY <1>0, <1>1, <2>1 DEF HandleFacts
<1>5. CASE HandleReleased
  <2>0. HandleFacts("released")
    BY <1>5, HandlersAre, Zenon
  <2>1. HandleFacts("released") /\ UNCHANGED <<conn, sent, demo>>
    BY <1>5, <2>0, Zenon DEF HandleReleased, Handle
  <2>2. QED
    BY <1>0, <1>1, <2>1 DEF HandleFacts
<1>6. CASE HandleAbort
  <2>0. Left(ar')
    BY <1>6, HandlersAre, Zenon
  <2>1. Left(ar') /\ UNCHANGED <<conn, sent, demo>>
    BY <1>6, <2>0, Zenon DEF HandleAbort, Handle
  <2> SUFFICES ASSUME NEW a \in Arep, sent[a] # 0 PROVE ar'[0].arep = a
    BY <2>1, Zenon DEF First
  <2>2. conn[a] = "data" /\ ar[0].arep = a
    BY Zenon DEF First
  <2>3. PICK i \in Index : ar[i].arep = a /\ "abort" \notin ar[i].events
    BY <2>2, Zenon DEF Due, DueTo, Listed
  <2>4. i = 0
    BY <1>0, <2>2, <2>3, OneEntry, NoneAssumption, Zenon
  <2>5. QED
    BY <2>1, <2>2, <2>3, <2>4, NoneAssumption DEF Left
<1>7. CASE PressAlarm
  <2>1. UNCHANGED <<ar, conn>> /\ demo' = "calls" /\ demo = "alarm"
    BY <1>7, Zenon DEF PressAlarm
  <2> SUFFICES ASSUME NEW a \in Arep, sent'[a] # 0
               PROVE  sent'[a] = 1 /\ conn[a] = "data" /\ ar[0].arep = a
    BY <2>1, Zenon DEF First
  <2>2. sent[a] = 0
    BY <2>1, Zenon DEF First
  <2>3. sent' = sent \/
          sent' = [b \in Arep |-> IF b = ar[0].arep /\ conn[b] = "data"
                                  THEN sent[b] + 1 ELSE sent[b]]
    BY <1>7, Zenon DEF PressAlarm
  <2>4. QED
    BY <2>2, <2>3
<1>8. ASSUME NEW a \in Arep, ClosedFacts(a) PROVE First'
  <2> SUFFICES ASSUME NEW b \in Arep, sent'[b] # 0
               PROVE  /\ sent'[b] = 1 /\ conn'[b] = "data"
                      /\ ar'[0].arep = b /\ demo' # "alarm"
    BY Zenon DEF First
  <2>1. b # a /\ sent'[b] = sent[b] /\ conn'[b] = conn[b]
    BY <1>8, Zenon DEF ClosedFacts, TypeOK
  <2>2. sent[b] = 1 /\ conn[b] = "data" /\ ar[0].arep = b /\ demo # "alarm"
    BY <2>1, Zenon DEF First
  <2>3. ar'[0].arep = b
    BY <1>0, <1>8, <2>2, NoneAssumption, Zenon DEF ClosedFacts, EventFacts
  <2>4. demo' = demo
    BY <1>8, <2>1, <2>2, Zenon DEF ClosedFacts
  <2>5. QED
    BY <2>1, <2>2, <2>3, <2>4, Zenon
<1>9. CASE PressAbort
  <2>1. CASE /\ UNCHANGED <<ar, conn, sent>>
             /\ ar[0].arep = None \/ conn[ar[0].arep] = "idle"
    <3>1. \A b \in Arep : sent[b] = 0
      BY <2>1, NoneAssumption, Zenon DEF First
    <3>2. QED
      BY <2>1, <3>1, Zenon DEF First
  <2>2. QED
    BY <1>8, <1>9, <2>1, PressAbortIs, Zenon
<1>10. ASSUME NEW a \in Arep, Connect(a) PROVE First'
  <2>1. UNCHANGED <<ar, sent, demo>>
    BY <1>10, Zenon DEF Connect
  <2>2. \A b \in Arep : conn[b] = "data" => conn'[b] = "data"
    BY <1>10, Zenon DEF Connect, TypeOK
  <2>3. QED
    BY <1>1, <2>1, <2>2, Zenon
<1>11. ASSUME NEW a \in Arep, PrmEnd(a) PROVE First'
  <2>0. EventFacts(a, "ready", TRUE)
    BY <1>11, IndicationsAre, Zenon
  <2>1. EventFacts(a, "ready", TRUE) /\ UNCHANGED <<sent, demo>>
    BY <1>11, <2>0, Zenon DEF PrmEnd
  <2>2. \A b \in Arep : conn[b] = "data" => conn'[b] = "data"
    BY <1>11, Zenon DEF PrmEnd, TypeOK
  <2>3. QED
    BY <1>0, <1>1, <2>1, <2>2 DEF EventFacts
<1>12. ASSUME NEW a \in Arep, SmReleasedInd(a) PROVE First'
  <2>0. EventFacts(a, "released", FALSE)
    BY <1>12, IndicationsAre, Zenon
  <2>1. EventFacts(a, "released", FALSE) /\ UNCHANGED <<conn, sent, demo>>
    BY <1>12, <2>0, Zenon DEF SmReleasedInd
  <2>2. QED
    BY <1>0, <1>1, <2>1 DEF EventFacts
<1>13. ASSUME NEW a \in Arep, AlarmInd(a) PROVE First'
  <2>0. EventFacts(a, "alarm", FALSE)
    BY <1>13, IndicationsAre, Zenon
  <2>1. EventFacts(a, "alarm", FALSE) /\ UNCHANGED <<conn, sent, demo>>
    BY <1>13, <2>0, Zenon DEF AlarmInd
  <2>2. QED
    BY <1>0, <1>1, <2>1, Zenon DEF EventFacts
<1>14. ASSUME NEW a \in Arep, AlarmCnf(a) PROVE First'
  <2>1. UNCHANGED <<ar, conn, demo>> /\ sent[a] > 0
    BY <1>14, Zenon DEF AlarmCnf
  <2>2. /\ sent'[a] = sent[a] - 1
        /\ \A b \in Arep : b # a => sent'[b] = sent[b]
    BY <1>14 DEF AlarmCnf, TypeOK
  <2>3. sent[a] = 1
    BY <2>1 DEF First, TypeOK
  <2>4. QED
    BY <2>1, <2>2, <2>3 DEF First
<1>15. QED
  BY <1>2, <1>3, <1>4, <1>5, <1>6, <1>7, <1>8, <1>9, <1>10, <1>11, <1>12,
     <1>13, <1>14, AbortIndIs, Steps

-----------------------------------------------------------------------------
(***************************************************************************)
(* The theorems.                                                           *)
(***************************************************************************)

(* The invariants hold initially.                                          *)
LEMMA Initially ==
  ASSUME Init
  PROVE  IInv /\ SafeOutputs
<1>1. TypeOK
  BY Zenon DEF Init, TypeOK, Entry, Unused
<1>2. Clean(ar) /\ ListIntact
  BY DEF Init, Clean, ListIntact, Unused
<1>3. Few
  <2>1. Live = {}
    BY Zenon DEF Init, Live
  <2>2. QED
    BY <2>1, FS_EmptySet, MaxARAssumption DEF Few
<1>4. Current /\ First
  BY Zenon DEF Init, Current, First, Unused
<1>5. Due
  BY DEF Init, Due, DueTo
<1>6. SafeOutputs
  BY DEF Init, SafeOutputs
<1>7. QED
  BY <1>1, <1>2, <1>3, <1>4, <1>5, <1>6, Zenon DEF IInv

(* The list has no holes and no connection twice.  If the loop is prompt,  *)
(* its entries are those of the connections of the stack, what the stack   *)
(* waits for is marked, and only the first connection has an alarm to      *)
(* confirm.                                                                *)
THEOREM Inductive == Spec => []IInv
<1>1. Init => IInv
  BY Initially
<1>2. IInv /\ [Next]_vars => IInv'
  <2> SUFFICES ASSUME IInv, [Next]_vars PROVE IInv'
    OBVIOUS
  <2>1. TypeOK' /\ Clean(ar)' /\ ListIntact'
    BY ListStep DEF IInv
  <2>2. Few'
    BY FewStep DEF IInv
  <2>3. ASSUME Prompt PROVE Current' /\ Due' /\ First'
    BY <2>3, CurrentStep, DueStep, FirstStep DEF IInv
  <2>4. QED
    BY <2>1, <2>2, <2>3 DEF IInv
<1>3. QED
  BY <1>1, <1>2, PTL DEF Spec

(* app_ar_iterator_next() closes every hole that deleted connections leave *)
(* and app_event_set() never adds a connection twice.                      *)
THEOREM ListIntactCorrect == Spec => []ListIntact
<1>1. IInv => ListIntact
  BY DEF IInv
<1>2. QED
  BY <1>1, Inductive, PTL

(* No event that the stack waits for an answer to is lost, if the loop is  *)
(* prompt.                                                                 *)
THEOREM OwedCorrect == ASSUME Prompt PROVE Spec => []Owed
<1>1. IInv => Owed
  BY Zenon DEF IInv, Due, DueTo, Listed, Owed
<1>2. QED
  BY <1>1, Inductive, PTL

(* Button 2 does not send a process alarm before the last one is confirmed *)
(* or its connection closed, if the loop is prompt.                        *)
THEOREM OneAlarmCorrect == ASSUME Prompt PROVE Spec => []OneAlarm
<1>1. IInv => OneAlarm
  BY DEF IInv, First, OneAlarm, TypeOK
<1>2. QED
  BY <1>1, Inductive, PTL

(* Steps keep the outputs safe.                                            *)
LEMMA SafeOutputsStep ==
  ASSUME TypeOK, SafeOutputs, [Next]_vars
  PROVE  SafeOutputs'
<1>1. ASSUME ~out' PROVE SafeOutputs'
  BY <1>1, Zenon DEF SafeOutputs
<1>2. ASSUME UNCHANGED <<out, owner>>,
             \A a \in Arep : conn[a] = "data" => conn'[a] = "data"
      PROVE  SafeOutputs'
  BY <1>2 DEF SafeOutputs, TypeOK
<1>3. CASE UNCHANGED <<out, owner, conn>>
  BY <1>3 DEF SafeOutputs
<1>4. CASE HandleTimer
  <2>1. UNCHANGED <<owner, conn>> /\ out' \in Polled
    BY <1>4 DEF HandleTimer, stack
  <2>2. QED
    BY <2>1, Zenon DEF Polled, SafeOutputs
<1>5. CASE HandleReady
  <2>1. /\ UNCHANGED <<out, owner>>
        /\ \A a \in Arep : conn[a] = "data" => conn'[a] = "data"
    BY <1>5 DEF HandleReady, Handle
  <2>2. QED
    BY <1>2, <2>1, Zenon
<1>6. CASE HandleAlarm \/ HandleReleased \/ HandleAbort
  <2>1. UNCHANGED <<out, owner, conn>>
    BY <1>6 DEF HandleAlarm, HandleReleased, HandleAbort, Handle
  <2>2. QED
    BY <1>3, <2>1, Zenon
<1>7. CASE PressAbort
  <2>1. ~out' \/ UNCHANGED <<out, owner, conn>>
    BY <1>7, Zenon DEF PressAbort, Closed, stack
  <2>2. QED
    BY <1>1, <1>3, <2>1
<1>8. CASE Tick \/ Wait \/ NoPress \/ PressAlarm \/ PressCalls \/ PeriodicEnd
             \/ UNCHANGED vars
  <2>1. UNCHANGED <<out, owner, conn>>
    BY <1>8
       DEF Tick, Wait, NoPress, PressAlarm, PressCalls, PeriodicEnd, vars,
                stack
  <2>2. QED
    BY <1>3, <2>1
<1>9. CASE NewDataStatusInd
  BY <1>1, <1>9 DEF NewDataStatusInd
<1>10. ASSUME NEW a \in Arep, Connect(a) PROVE SafeOutputs'
  <2>1. UNCHANGED out /\ \A b \in Arep : conn[b] = "data" => conn'[b] = "data"
    BY <1>10, Zenon DEF Connect, TypeOK
  <2>2. owner # None => UNCHANGED owner
    BY <1>10, Zenon DEF Connect
  <2>3. QED
    BY <2>1, <2>2, Zenon DEF SafeOutputs, TypeOK
<1>11. ASSUME NEW a \in Arep, PrmEnd(a) PROVE SafeOutputs'
  <2>1. /\ UNCHANGED <<out, owner>>
        /\ \A b \in Arep : conn[b] = "data" => conn'[b] = "data"
    BY <1>11, Zenon DEF PrmEnd, TypeOK
  <2>2. QED
    BY <1>2, <2>1, Zenon
<1>12. ASSUME NEW a \in Arep, AbortInd(a) PROVE SafeOutputs'
  BY <1>1, <1>12 DEF AbortInd, Closed
<1>13. ASSUME NEW a \in Arep, SmReleasedInd(a) \/ AlarmInd(a) \/ AlarmCnf(a)
       PROVE  SafeOutputs'
  <2>1. UNCHANGED <<out, owner, conn>>
    BY <1>13, Zenon DEF SmReleasedInd, AlarmInd, AlarmCnf
  <2>2. QED
    BY <1>3, <2>1, Zenon
<1>14. QED
  BY <1>4, <1>5, <1>6, <1>7, <1>8, <1>9, <1>10, <1>11, <1>12, <1>13
     DEF Next, Loop, Timer, Callback

(* app_set_outputs_default_value() is called on every way in which the     *)
(* controller of the outputs is lost, prompt or not.                       *)
THEOREM SafeOutputsCorrect == Spec => []SafeOutputs
<1>1. Init => SafeOutputs
  BY Initially
<1>2. IInv /\ SafeOutputs /\ [Next]_vars => SafeOutputs'
  BY SafeOutputsStep DEF IInv
<1>3. QED
  BY <1>1, <1>2, Inductive, PTL DEF Spec

=============================================================================

---------------------------- MODULE NetToolProofs ----------------------------
(***************************************************************************)
(* Proofs of the safety properties of NetTool, for any interfaces, any     *)
(* number of generations, and any trees of dependencies without cycles.    *)
(***************************************************************************)
EXTENDS NetTool, WellFoundedInduction, TLAPS

Least(S) == CHOOSE x \in S : \A y \in S : x <= y

(* The least of some numbers is one of them.                               *)
LEMMA LeastIs ==
  ASSUME NEW S \in SUBSET Nat, S # {}
  PROVE  Least(S) \in S /\ \A y \in S : Least(S) <= y
<1> DEFINE R == {ss \in Nat \X Nat : ss[1] < ss[2]}
<1>1. IsWellFoundedOn(R, Nat)
  BY NatLessThanWellFounded, Zenon DEF OpToRel
<1> HIDE DEF R
<1>2. PICK x \in S : \A y \in S : ~ (<<y, x>> \in R)
  BY <1>1, WFMin, Zenon
<1>3. ASSUME NEW y \in S PROVE x <= y
  <2>1. <<y, x>> \in R <=> y < x
    BY DEF R
  <2>2. QED
    BY <1>2, <2>1
<1>4. QED
  BY <1>3, Zenon DEF Least

(* The names are a sequence.                                               *)
LEMMA LenIs == Len(Names) \in Nat /\ DOMAIN Names = 1 .. Len(Names)
  BY NetAssumption

-----------------------------------------------------------------------------
(***************************************************************************)
(* The order of interfaces.                                                *)
(***************************************************************************)

(* A sequence of interfaces of t, each once and after those it depends on. *)
Good(t, s) ==
  /\ s \in Seq(Interface)
  /\ \A j, k \in DOMAIN s : s[j] = s[k] => j = k
  /\ \A k \in DOMAIN s : /\ s[k] \in DOMAIN t.deps
                         /\ \A i \in t.deps[s[k]] : \E j \in DOMAIN s : j < k /\ s[j] = i

(* f adds i, and what has to be before it.                                 *)
Adds(t, f, i) ==
  \A s : Good(t, s) => LET r == f[<<i, s>>]
                       IN Good(t, r) /\ Range(s) \subseteq Range(r) /\ i \in Range(r)

(* An interface is added after those it depends on.                        *)
LEMMA AddedGood ==
  ASSUME NEW t, NEW s, Good(t, s), NEW i \in DOMAIN t.deps, i \in Interface,
         t.deps[i] \subseteq Range(s)
  PROVE  /\ Good(t, Added(s, i))
         /\ Range(s) \subseteq Range(Added(s, i)) /\ i \in Range(Added(s, i))
<1>1. CASE i \in Range(s)
  BY <1>1 DEF Added
<1>2. CASE i \notin Range(s)
  <2> DEFINE r == Append(s, i)
             n == Len(s)
  <2>0. s \in Seq(Interface) /\ n \in Nat /\ DOMAIN s = 1 .. n
    BY DEF Good
  <2>1. /\ Added(s, i) = r /\ r \in Seq(Interface) /\ DOMAIN r = 1 .. n + 1
        /\ r[n + 1] = i /\ \A k \in 1 .. n : r[k] = s[k]
    BY <1>2, <2>0 DEF Added
  <2>2. \A k \in 1 .. n : s[k] # i
    BY <1>2, <2>0 DEF Range
  <2> HIDE DEF r, n
  <2>3. \A k \in 1 .. n + 1 : k \in 1 .. n \/ k = n + 1
    BY <2>0
  <2>4. \A j, k \in DOMAIN r : r[j] = r[k] => j = k
    BY <2>0, <2>1, <2>2, <2>3 DEF Good
  <2>5. ASSUME NEW k \in DOMAIN r
        PROVE  /\ r[k] \in DOMAIN t.deps
               /\ \A x \in t.deps[r[k]] : \E j \in DOMAIN r : j < k /\ r[j] = x
    <3>1. CASE k \in 1 .. n
      <4>1. r[k] = s[k] /\ k \in DOMAIN s
        BY <2>0, <2>1, <3>1
      <4>2. ASSUME NEW x \in t.deps[s[k]] PROVE \E j \in DOMAIN r : j < k /\ r[j] = x
        <5>1. PICK j \in DOMAIN s : j < k /\ s[j] = x
          BY <4>1 DEF Good
        <5>2. j \in DOMAIN r /\ r[j] = x
          BY <2>0, <2>1, <5>1
        <5> QED
          BY <5>1, <5>2
      <4> QED
        BY <4>1, <4>2 DEF Good
    <3>2. CASE k = n + 1
      <4>1. ASSUME NEW x \in t.deps[i] PROVE \E j \in DOMAIN r : j < k /\ r[j] = x
        <5>1. PICK j \in 1 .. n : s[j] = x
          BY <2>0 DEF Range
        <5> QED
          BY <2>0, <2>1, <3>2, <5>1
      <4> QED
        BY <2>1, <3>2, <4>1
    <3> QED
      BY <2>1, <2>3, <3>1, <3>2
  <2>6. Range(s) \subseteq Range(r) /\ i \in Range(r)
    BY <2>0, <2>1, <2>3 DEF Range
  <2> QED
    BY <2>1, <2>4, <2>5, <2>6 DEF Good
<1> QED
  BY <1>1, <1>2

(* The loop over a directory.                                              *)
EachRound(f, S, seen, g, k) ==
  IF k = 0 THEN seen
  ELSE IF Names[k] \in S THEN f[<<Names[k], g[k - 1]>>]
  ELSE g[k - 1]

EachAfter(f, S, seen, n, g) == g = [k \in 0 .. n |-> EachRound(f, S, seen, g, k)]

(* The recursive function that stands for the loop of dir() exists.        *)
LEMMA EachExists ==
  ASSUME NEW f, NEW S, NEW seen
  PROVE  \A n \in Nat : \E g : EachAfter(f, S, seen, n, g)
<1> DEFINE T == {n \in Nat : ~ \E g : EachAfter(f, S, seen, n, g)}
<1> SUFFICES ASSUME T # {} PROVE FALSE
  OBVIOUS
<1>1. PICK n \in T : \A y \in T : n <= y
  <2>1. Least(T) \in T /\ \A y \in T : Least(T) <= y
    BY LeastIs, Zenon
  <2> QED
    BY <2>1, Zenon
<1>2. CASE n = 0
  <2> DEFINE g == [k \in 0 .. 0 |-> seen]
  <2>1. \A k \in 0 .. 0 : g[k] = EachRound(f, S, seen, g, k)
    BY DEF EachRound
  <2>2. EachAfter(f, S, seen, 0, g)
    BY <2>1, Zenon DEF EachAfter
  <2> QED
    BY <1>2, <2>2, Zenon
<1>3. CASE n # 0
  <2>1. n - 1 \in Nat /\ n - 1 \notin T
    BY <1>1, <1>3
  <2>2. PICK g : EachAfter(f, S, seen, n - 1, g)
    BY <2>1, Zenon
  <2> DEFINE h == [k \in 0 .. n |->
                     IF k < n THEN g[k] ELSE EachRound(f, S, seen, g, n)]
  <2>3. ASSUME NEW k \in 0 .. n PROVE h[k] = EachRound(f, S, seen, h, k)
    <3>1. CASE k < n
      <4>1. k \in 0 .. n - 1 /\ h[k] = g[k]
        BY <3>1
      <4>2. g[k] = EachRound(f, S, seen, g, k)
        BY <2>2, <4>1, Zenon DEF EachAfter
      <4>3. k # 0 => k - 1 \in 0 .. n /\ h[k - 1] = g[k - 1]
        BY <3>1
      <4> QED
        BY <4>1, <4>2, <4>3, Zenon DEF EachRound
    <3>2. CASE k = n
      <4>1. h[k] = EachRound(f, S, seen, g, n)
        BY <3>2
      <4>2. h[n - 1] = g[n - 1]
        BY <1>3
      <4> QED
        BY <1>3, <3>2, <4>1, <4>2, Zenon DEF EachRound
    <3> QED
      BY <3>1, <3>2
  <2>4. EachAfter(f, S, seen, n, h)
    BY <2>3, Zenon DEF EachAfter
  <2> QED
    BY <2>4, Zenon
<1> QED
  BY <1>2, <1>3, Zenon

(* dir() adds what it is called for, if f does for each.                   *)
LEMMA EachGood ==
  ASSUME NEW t, NEW f, NEW S \in SUBSET Interface, \A i \in S : Adds(t, f, i),
         NEW seen, Good(t, seen)
  PROVE  LET r == EachOf(f, S, seen)
         IN Good(t, r) /\ Range(seen) \subseteq Range(r) /\ S \subseteq Range(r)
<1> DEFINE N == Len(Names)
           g == CHOOSE h : EachAfter(f, S, seen, N, h)
           Fine(k) == /\ Good(t, g[k]) /\ Range(seen) \subseteq Range(g[k])
                      /\ \A j \in 1 .. k : Names[j] \in S => Names[j] \in Range(g[k])
<1>0. N \in Nat
  BY LenIs
<1>1. EachAfter(f, S, seen, N, g)
  BY <1>0, EachExists, Zenon
<1>2. EachOf(f, S, seen) = g[N]
  BY Zenon DEF EachOf, EachAfter, EachRound
<1> HIDE DEF g
<1>3. \A k \in 0 .. N : g[k] = EachRound(f, S, seen, g, k)
  BY <1>1, Zenon DEF EachAfter
<1>4. g[0] = seen
  <2>1. 0 \in 0 .. N
    BY <1>0
  <2> QED
    BY <1>3, <2>1, Zenon DEF EachRound
<1>5. Fine(0)
  <2>1. \A j \in 1 .. 0 : FALSE
    OBVIOUS
  <2> QED
    BY <1>4, <2>1, Zenon
<1>6. ASSUME NEW k \in 1 .. N, Fine(k - 1) PROVE Fine(k)
  <2>1. g[k] = EachRound(f, S, seen, g, k) /\ k # 0
    BY <1>0, <1>3
  <2>2. \A j \in 1 .. k : j \in 1 .. k - 1 \/ j = k
    BY <1>0
  <2>3. CASE Names[k] \in S
    <3>1. g[k] = f[<<Names[k], g[k - 1]>>]
      BY <2>1, <2>3, Zenon DEF EachRound
    <3>2. /\ Good(t, g[k]) /\ Range(g[k - 1]) \subseteq Range(g[k])
          /\ Names[k] \in Range(g[k])
      BY <1>6, <2>3, <3>1, Zenon DEF Adds
    <3> QED
      BY <1>6, <2>2, <3>2
  <2>4. CASE Names[k] \notin S
    <3>1. g[k] = g[k - 1]
      BY <2>1, <2>4, Zenon DEF EachRound
    <3> QED
      BY <1>6, <2>2, <2>4, <3>1
  <2> QED
    BY <2>3, <2>4
<1> DEFINE T == {n \in 0 .. N : ~ Fine(n)}
<1>7. T = {}
  <2> SUFFICES ASSUME T # {} PROVE FALSE
    OBVIOUS
  <2> HIDE DEF Fine
  <2>1. T \in SUBSET Nat
    BY <1>0
  <2>2. PICK n \in T : \A y \in T : n <= y
    <3> HIDE DEF T
    <3>1. Least(T) \in T /\ \A y \in T : Least(T) <= y
      BY <2>1, LeastIs, Zenon
    <3> QED
      BY <3>1, Zenon
  <2>3. n \in 1 .. N /\ n - 1 \in 0 .. N /\ n - 1 \notin T
    BY <1>0, <1>5, <2>2
  <2> QED
    BY <1>6, <2>2, <2>3
<1>8. Fine(N)
  BY <1>0, <1>7
<1>9. ASSUME NEW i \in S PROVE i \in Range(g[N])
  <2>1. PICK j \in 1 .. N : Names[j] = i
    BY LenIs DEF Interface, Range
  <2> QED
    BY <1>8, <2>1
<1> QED
  BY <1>2, <1>8, <1>9

(* The calls of deps(), by how deep they may be.                           *)
DepsRound(t, g, n) ==
  [p \in Interface \X Seq(Interface) |->
     IF n = 0 THEN p[2] ELSE Visited(t, g[n - 1], p[1], p[2])]

DepsAfter(t, n, g) == g = [k \in 0 .. n |-> DepsRound(t, g, k)]

(* The recursive function that stands for deps() exists.                   *)
LEMMA DepsExists ==
  ASSUME NEW t
  PROVE  \A n \in Nat : \E g : DepsAfter(t, n, g)
<1> DEFINE T == {n \in Nat : ~ \E g : DepsAfter(t, n, g)}
<1> SUFFICES ASSUME T # {} PROVE FALSE
  OBVIOUS
<1>0. ASSUME NEW g, NEW h, NEW k, k # 0 => g[k - 1] = h[k - 1]
      PROVE  DepsRound(t, g, k) = DepsRound(t, h, k)
  BY <1>0, Zenon DEF DepsRound
<1>1. PICK n \in T : \A y \in T : n <= y
  <2>1. Least(T) \in T /\ \A y \in T : Least(T) <= y
    BY LeastIs, Zenon
  <2> QED
    BY <2>1, Zenon
<1>2. CASE n = 0
  <2> DEFINE g == [k \in 0 .. 0 |-> DepsRound(t, << >>, 0)]
  <2>1. ASSUME NEW k \in 0 .. 0 PROVE g[k] = DepsRound(t, g, k)
    <3>1. k = 0
      OBVIOUS
    <3>2. g[k] = DepsRound(t, << >>, 0)
      BY Zenon
    <3> QED
      BY <1>0, <3>1, <3>2, Zenon
  <2>2. DepsAfter(t, 0, g)
    BY <2>1, Zenon DEF DepsAfter
  <2> QED
    BY <1>2, <2>2, Zenon
<1>3. CASE n # 0
  <2>1. n - 1 \in Nat /\ n - 1 \notin T
    BY <1>1, <1>3
  <2>2. PICK g : DepsAfter(t, n - 1, g)
    BY <2>1, Zenon
  <2> DEFINE h == [k \in 0 .. n |-> IF k < n THEN g[k] ELSE DepsRound(t, g, n)]
  <2>3. ASSUME NEW k \in 0 .. n PROVE h[k] = DepsRound(t, h, k)
    <3>1. CASE k < n
      <4>1. k \in 0 .. n - 1 /\ h[k] = g[k]
        BY <3>1
      <4>2. g[k] = DepsRound(t, g, k)
        BY <2>2, <4>1, Zenon DEF DepsAfter
      <4>3. k # 0 => h[k - 1] = g[k - 1]
        BY <3>1
      <4> HIDE DEF h
      <4> QED
        BY <1>0, <4>1, <4>2, <4>3, Zenon
    <3>2. CASE k = n
      <4>1. h[k] = DepsRound(t, g, n)
        BY <3>2
      <4>2. h[n - 1] = g[n - 1]
        BY <1>3
      <4> HIDE DEF h
      <4> QED
        BY <1>0, <3>2, <4>1, <4>2, Zenon
    <3> QED
      BY <3>1, <3>2
  <2>4. DepsAfter(t, n, h)
    BY <2>3, Zenon DEF DepsAfter
  <2> QED
    BY <2>4, Zenon
<1> QED
  BY <1>2, <1>3, Zenon

(* deps() adds an interface after those it depends on: there are no        *)
(* cycles, so it goes no deeper than there are interfaces.                 *)
LEMMA DepsGood ==
  ASSUME NEW t \in Trees
  PROVE  \A i \in DOMAIN t.deps : Adds(t, Deps(t), i)
<1> DEFINE N == Len(Names)
           g == CHOOSE h : DepsAfter(t, N, h)
<1>0. /\ N \in Nat /\ DOMAIN t.deps \subseteq Interface
      /\ \A i \in DOMAIN t.deps : t.deps[i] \subseteq DOMAIN t.deps
  BY LenIs, TreesAssumption
<1>00. PICK rank \in [DOMAIN t.deps -> 0 .. N - 1] :
         \A i \in DOMAIN t.deps : \A j \in t.deps[i] : rank[j] < rank[i]
  BY TreesAssumption
<1>1. DepsAfter(t, N, g)
  BY <1>0, DepsExists, Zenon
<1>2. Deps(t) = g[N]
  BY Zenon DEF Deps, DepsAfter, DepsRound
<1> HIDE DEF g
<1>3. \A k \in 0 .. N : g[k] = DepsRound(t, g, k)
  BY <1>1, Zenon DEF DepsAfter
<1> DEFINE Fine(n) == \A i \in DOMAIN t.deps : rank[i] < n => Adds(t, g[n], i)
<1>4. Fine(0)
  BY <1>0, <1>00
<1>5. ASSUME NEW n \in 1 .. N, Fine(n - 1) PROVE Fine(n)
  <2> SUFFICES ASSUME NEW i \in DOMAIN t.deps, rank[i] < n, NEW s, Good(t, s)
               PROVE  LET r == g[n][<<i, s>>]
                      IN /\ Good(t, r) /\ Range(s) \subseteq Range(r)
                         /\ i \in Range(r)
    BY DEF Adds
  <2> DEFINE f == g[n - 1]
             b == EachOf(f, t.deps[i], s)
  <2>1. <<i, s>> \in Interface \X Seq(Interface)
    BY <1>0 DEF Good
  <2>2. g[n] = DepsRound(t, g, n) /\ n # 0
    BY <1>0, <1>3
  <2>3. g[n][<<i, s>>] = Visited(t, f, i, s)
    BY <2>1, <2>2 DEF DepsRound
  <2>4. ASSUME NEW j \in t.deps[i] PROVE Adds(t, f, j)
    <3>1. j \in DOMAIN t.deps /\ rank[j] < rank[i]
      BY <1>0, <1>00
    <3>2. rank[j] \in Int /\ rank[i] \in Int
      BY <1>00, <3>1
    <3>3. rank[j] < n - 1
      BY <1>0, <3>1, <3>2
    <3> QED
      BY <1>5, <3>1, <3>3, Zenon
  <2>5. t.deps[i] \in SUBSET Interface
    BY <1>0
  <2> HIDE DEF f
  <2>6. Good(t, b) /\ Range(s) \subseteq Range(b) /\ t.deps[i] \subseteq Range(b)
    BY <2>4, <2>5, EachGood, Zenon
  <2> HIDE DEF b
  <2>7. /\ Good(t, Added(b, i)) /\ Range(b) \subseteq Range(Added(b, i))
        /\ i \in Range(Added(b, i))
    BY <1>0, <2>6, AddedGood
  <2>8. g[n][<<i, s>>] = Added(b, i)
    BY <2>3 DEF Visited, b
  <2> QED
    BY <2>6, <2>7, <2>8
<1> DEFINE T == {n \in 0 .. N : ~ Fine(n)}
<1>6. T = {}
  <2> SUFFICES ASSUME T # {} PROVE FALSE
    OBVIOUS
  <2> HIDE DEF Fine
  <2>1. T \in SUBSET Nat
    BY <1>0
  <2>2. PICK n \in T : \A y \in T : n <= y
    <3> HIDE DEF T
    <3>1. Least(T) \in T /\ \A y \in T : Least(T) <= y
      BY <2>1, LeastIs, Zenon
    <3> QED
      BY <3>1, Zenon
  <2>3. n \in 1 .. N /\ n - 1 \in 0 .. N /\ n - 1 \notin T
    BY <1>0, <1>4, <2>2
  <2> QED
    BY <1>5, <2>2, <2>3
<1>7. Fine(N)
  BY <1>0, <1>6
<1>8. \A i \in DOMAIN t.deps : rank[i] < N
  BY <1>0, <1>00
<1> QED
  BY <1>2, <1>7, <1>8, Zenon

(* The order in which iter() visits interfaces has each of them once, and  *)
(* after those that it depends on.                                         *)
THEOREM OrderIs ==
  ASSUME NEW t \in Trees
  PROVE  Good(t, Order(t)) /\ Range(Order(t)) = DOMAIN t.deps
<1>1. Good(t, << >>) /\ DOMAIN t.deps \in SUBSET Interface
  <2>1. << >> \in Seq(Interface) /\ DOMAIN << >> = {}
    OBVIOUS
  <2>2. DOMAIN t.deps \in SUBSET Interface
    BY TreesAssumption
  <2> QED
    BY <2>1, <2>2, Zenon DEF Good
<1>2. Good(t, Order(t)) /\ DOMAIN t.deps \subseteq Range(Order(t))
  <2> DEFINE f == Deps(t)
             S == DOMAIN t.deps
             r == EachOf(f, S, << >>)
  <2>1. Order(t) = r
    BY DEF Order
  <2>2. \A i \in S : Adds(t, f, i)
    BY DepsGood
  <2> HIDE DEF f, S
  <2>3. Good(t, r) /\ S \subseteq Range(r)
    BY <1>1, <2>2, EachGood DEF S
  <2> QED
    BY <2>1, <2>3 DEF S
<1>3. Range(Order(t)) \subseteq DOMAIN t.deps
  BY <1>2 DEF Good, Range
<1> QED
  BY <1>2, <1>3

-----------------------------------------------------------------------------
(***************************************************************************)
(* The invariant.                                                          *)
(***************************************************************************)

Lines == [gen : Gen, do : {"exit", "init"}, tool : Tool, if : Interface]

TypeInv ==
  /\ tree \in [Gen -> Trees \cup {None}]
  /\ exits = [g \in Gen |-> exits[g]] /\ admin = [g \in Gen |-> admin[g]]
  /\ deps \in [Gen -> Seq(Interface)]
  /\ rdeps \in [Gen -> Seq(Interface) \cup {None}]
  /\ gen \in Gen \cup {None, Empty}
  /\ next \in Gen \cup {None} /\ curr \in Gen \cup {None}
  /\ at \in 0 .. 10 /\ pos \in Nat /\ dep \in BOOLEAN
  /\ pipe \in [Pipe -> Seq(Lines)]
  /\ executed \subseteq Lines /\ dead \subseteq Pipe

(* What there is while there is a next generation, while net works on it,  *)
(* and while it does not.                                                  *)
PhaseInv ==
  /\ gen \in Gen => tree[gen] # None
  /\ next \in Gen => tree[next] # None /\ exits[next] = {}
  /\ curr \in Gen => tree[curr] # None
  /\ at # 0 => next \in Gen
  /\ at \in 1 .. 3 => curr \in Gen
  /\ at = 0 => executed = {} /\ dead = {} /\ \A t \in Pipe : pipe[t] = << >>
  /\ \A g \in Gen : tree[g] = None =>
       exits[g] = {} /\ deps[g] = << >> /\ rdeps[g] = None /\ admin[g] = << >>

(* deps has the first interfaces of the order, and all of them once the    *)
(* first iter() is done; rdeps has the reverse.                            *)
Prefix(d, o) == Len(d) <= Len(o) /\ \A k \in 1 .. Len(d) : d[k] = o[k]

FilesInv ==
  /\ \A g \in Gen : tree[g] # None =>
       /\ Prefix(deps[g], Order(tree[g]))
       /\ rdeps[g] # None => rdeps[g] = Reversed(Order(tree[g]))
  /\ at = 4 => pos <= Len(deps[next])
  /\ at \in 5 .. 10 => deps[next] = Order(tree[next])

(* If net finds all interfaces in deps then rdeps was written, or net was  *)
(* killed before that, or there are none.                                  *)
Saved(g) == rdeps[g] # None \/ g \in torn \/ Ifs(g) = {}

SavedInv ==
  /\ gen \in Gen => Saved(gen)
  /\ at \in 8 .. 10 => Saved(next)
  /\ next \in Gen /\ (at = 0 \/ ~dep) /\ deps[next] = Order(tree[next]) => Saved(next)

(* The scripts that net has run, by the order in which it runs them.       *)
ExitAt == [t \in Tool |-> CASE t = "bridge" -> 1 [] t = "ip" -> 2 [] t = "ethtool" -> 3]
InitAt == [t \in Tool |-> CASE t = "bridge" -> 6 [] t = "ip" -> 5 [] t = "ethtool" -> 4]

AtOf(s) == IF s.do = "exit" THEN ExitAt[s.tool] ELSE InitAt[s.tool]

Path(kind) ==
  IF kind = "init" THEN Order(tree[next])
  ELSE IF curr \in Gen /\ curr # next /\ rdeps[curr] # None THEN rdeps[curr]
  ELSE << >>

Exists(s) ==
  IF s.do = "init" THEN s.gen = next /\ <<s.if, s.tool>> \in tree[next].init
  ELSE curr \in Gen /\ s.gen = curr /\ <<s.if, s.tool>> \in exits[curr]

Past(a, k) == at > a \/ (at = a /\ k <= pos)

Ran(s) ==
  /\ at # 0 /\ Exists(s)
  /\ \E k \in DOMAIN Path(s.do) : Path(s.do)[k] = s.if /\ Past(AtOf(s), k)

Before(r, s) ==
  \/ r.do = "exit" /\ s.do = "init"
  \/ r.do = s.do /\ \E j, k \in DOMAIN Path(s.do) :
                       j < k /\ Path(s.do)[j] = r.if /\ Path(s.do)[k] = s.if

(* What net has run was executed, or is in the pipe, or is lost with its   *)
(* process; and it is executed in that order.                              *)
PipeInv ==
  /\ \A s \in executed : Ran(s)
  /\ \A t \in Pipe : \A k \in DOMAIN pipe[t] : pipe[t][k].tool = t /\ Ran(pipe[t][k])
  /\ \A s \in Lines : Ran(s) => \/ s \in executed \/ s.tool \in dead
                                \/ s.tool \in Pipe /\ s \in Range(pipe[s.tool])
  /\ \A s \in executed, r \in Lines :
       Ran(r) /\ r.tool = s.tool /\ Before(r, s) => r \in executed
  /\ \A t \in Pipe : \A j, k \in DOMAIN pipe[t] :
       j < k => Before(pipe[t][j], pipe[t][k])
  /\ \A t \in Pipe : at > InitAt[t] => pipe[t] = << >>

(* "net up" has found that the interface may be set.                       *)
UpInv ==
  /\ up = [at |-> up.at, list |-> up.list, want |-> up.want, gen |-> up.gen]
  /\ up.at # "idle" => gen # None
  /\ up.at = "set" => /\ up.gen \in Gen /\ tree[up.gen] # None
                      /\ Head(up.list) \in DOMAIN admin[up.gen] =>
                           admin[up.gen][Head(up.list)] # "disabled"

IInv == TypeInv /\ PhaseInv /\ FilesInv /\ SavedInv /\ PipeInv /\ UpInv

-----------------------------------------------------------------------------
(***************************************************************************)
(* Types.                                                                  *)
(***************************************************************************)

(* Each tool has its place in both arrays.                                 *)
LEMMA AtIs ==
  /\ \A t \in Tool : /\ ExitAt[t] \in 1 .. 3 /\ Action[ExitAt[t]] = t
                     /\ InitAt[t] \in 4 .. 6 /\ Action[InitAt[t]] = t
  /\ \A a \in 1 .. 3 : Action[a] \in Tool /\ ExitAt[Action[a]] = a
  /\ \A a \in 4 .. 6 : Action[a] \in Tool /\ InitAt[Action[a]] = a
<1>1. /\ ExitAt["bridge"] = 1 /\ ExitAt["ip"] = 2 /\ ExitAt["ethtool"] = 3
      /\ InitAt["bridge"] = 6 /\ InitAt["ip"] = 5 /\ InitAt["ethtool"] = 4
  BY DEF ExitAt, InitAt, Tool
<1>2. /\ Action[1] = "bridge" /\ Action[2] = "ip" /\ Action[3] = "ethtool"
      /\ Action[4] = "ethtool" /\ Action[5] = "ip" /\ Action[6] = "bridge"
  BY DEF Action
<1>3. /\ \A a \in 1 .. 3 : a = 1 \/ a = 2 \/ a = 3
      /\ \A a \in 4 .. 6 : a = 4 \/ a = 5 \/ a = 6
  OBVIOUS
<1>4. {1, 2, 3} \subseteq 1 .. 3 /\ {4, 5, 6} \subseteq 4 .. 6
  OBVIOUS
<1> HIDE DEF ExitAt, InitAt, Action
<1> QED
  BY <1>1, <1>2, <1>3, <1>4 DEF Tool

(* The order of a tree that was prepared.                                  *)
LEMMA OrderType ==
  ASSUME NEW t \in Trees
  PROVE  /\ Order(t) \in Seq(Interface) /\ Len(Order(t)) \in Nat
         /\ DOMAIN Order(t) = 1 .. Len(Order(t))
<1>1. Order(t) \in Seq(Interface)
  BY OrderIs, Zenon DEF Good
<1> HIDE DEF Order
<1> QED
  BY <1>1

(* The next generation has a directory.                                    *)
LEMMA NextTree ==
  ASSUME TypeInv, PhaseInv, next \in Gen
  PROVE  tree[next] \in Trees
<1>1. tree[next] \in Trees \cup {None} /\ tree[next] # None
  BY DEF TypeInv, PhaseInv
<1> QED
  BY <1>1, Zenon

(* What the loops are over.                                                *)
LEMMA ListType ==
  ASSUME TypeInv, PhaseInv, at \in 1 .. 6
  PROVE  List \in Seq(Interface) /\ Len(List) \in Nat /\ DOMAIN List = 1 .. Len(List)
<1>1. List \in Seq(Interface)
  <2>1. CASE at \in 4 .. 6
    <3>1. next \in Gen
      BY <2>1 DEF PhaseInv
    <3>2. Order(tree[next]) \in Seq(Interface)
      BY <3>1, NextTree, OrderType, Zenon
    <3> QED
      BY <2>1, <3>2, Zenon DEF List, Entering
  <2>2. CASE at \in 1 .. 3
    <3>1. curr \in Gen /\ ~ (at \in 4 .. 6)
      BY <2>2 DEF PhaseInv
    <3>2. rdeps[curr] \in Seq(Interface) \cup {None}
      BY <3>1, Zenon DEF TypeInv
    <3>3. << >> \in Seq(Interface)
      OBVIOUS
    <3> QED
      BY <3>1, <3>2, <3>3, Zenon DEF List, Entering
  <2> QED
    BY <2>1, <2>2
<1> HIDE DEF List
<1> QED
  BY <1>1

(* The script of a pass.                                                   *)
LEMMA PassScript ==
  ASSUME TypeInv, PhaseInv, at \in 1 .. 6, pos < Len(List)
  PROVE  /\ pos + 1 \in DOMAIN List /\ List[pos + 1] \in Interface
         /\ at \in 1 .. 3 => Script(curr, "exit", Action[at], List[pos + 1]) \in Lines
         /\ at \in 4 .. 6 => Script(next, "init", Action[at], List[pos + 1]) \in Lines
<1>1. pos \in Nat
  BY DEF TypeInv
<1>2. List \in Seq(Interface) /\ Len(List) \in Nat /\ DOMAIN List = 1 .. Len(List)
  BY ListType, Zenon
<1> HIDE DEF List
<1>3. pos + 1 \in DOMAIN List /\ List[pos + 1] \in Interface
  BY <1>1, <1>2
<1>4. at \in 1 .. 3 => curr \in Gen /\ Action[at] \in Tool
  BY AtIs, Zenon DEF PhaseInv
<1>5. at \in 4 .. 6 => next \in Gen /\ Action[at] \in Tool
  <2>1. at \in 4 .. 6 => at # 0
    OBVIOUS
  <2> QED
    BY <2>1, AtIs, Zenon DEF PhaseInv
<1> QED
  BY <1>3, <1>4, <1>5, Zenon DEF Script, Lines

(* A script that is run is added to its pipe or to what was executed.      *)
LEMMA RunsType ==
  ASSUME TypeInv, NEW s \in Lines, Runs(s)
  PROVE  pipe' \in [Pipe -> Seq(Lines)] /\ executed' \subseteq Lines
<1>1. pipe \in [Pipe -> Seq(Lines)] /\ executed \subseteq Lines
  BY DEF TypeInv
<1>2. CASE s.tool \in Pipe
  <2>1. pipe[s.tool] \in Seq(Lines)
    BY <1>1, <1>2, Zenon
  <2> HIDE DEF Lines
  <2>2. Append(pipe[s.tool], s) \in Seq(Lines)
    BY <2>1
  <2>3. pipe' = [pipe EXCEPT ![s.tool] = Append(pipe[s.tool], s)] /\ executed' = executed
    BY <1>2, Zenon DEF Runs
  <2> QED
    BY <1>1, <2>2, <2>3, Zenon
<1>3. CASE s.tool \notin Pipe
  BY <1>1, <1>3, Zenon DEF Runs
<1> QED
  BY <1>2, <1>3, Zenon

(* The next thing to do.                                                   *)
LEMMA StepType ==
  ASSUME TypeInv, Step
  PROVE  at' \in 0 .. 10 /\ pos' \in Nat
<1>1. at \in 0 .. 10 /\ 0 \in Nat /\ pos' = 0 /\ at' = IF at = 10 THEN 0 ELSE at + 1
  BY DEF TypeInv, Step
<1> QED
  BY <1>1

(* What save_rdeps() writes, line by line.                                 *)
LEMMA ReverseIs ==
  ASSUME NEW s \in Seq(Interface)
  PROVE  /\ Reversed(s) \in Seq(Interface) /\ DOMAIN Reversed(s) = 1 .. Len(s)
         /\ DOMAIN s = 1 .. Len(s) /\ Len(s) \in Nat
         /\ \A k \in 1 .. Len(s) : /\ Len(s) - k + 1 \in 1 .. Len(s)
                                   /\ Reversed(s)[k] = s[Len(s) - k + 1]
                                   /\ Reversed(s)[Len(s) - k + 1] = s[k]
<1> HIDE DEF Interface
<1> QED
  BY DEF Reversed

(* Steps keep the types.                                                   *)
LEMMA TypeStep ==
  ASSUME IInv, [Next]_vars
  PROVE  TypeInv'
<1> USE DEF IInv
<1>a. 0 \in Nat /\ 0 \in 0 .. 10 /\ 1 \in 0 .. 10 /\ 4 \in 0 .. 10
  OBVIOUS
<1>b. << >> \in Seq(Lines)
  OBVIOUS
<1>1. ASSUME NEW g \in Gen, NEW t \in Trees, NEW leaving \in Leaving, Prepare(g, t, leaving)
      PROVE  TypeInv'
  <2>1. tree' = [tree EXCEPT ![g] = t] /\ admin' = [admin EXCEPT ![g] = t.admin] /\ next' = g
    BY <1>1, Zenon DEF Prepare
  <2>2. tree' \in [Gen -> Trees \cup {None}] /\ admin' = [h \in Gen |-> admin'[h]]
    BY <2>1 DEF TypeInv
  <2>3. exits' = [h \in Gen |-> exits'[h]]
    <3>1. CASE exits' = exits
      BY <3>1, Zenon DEF TypeInv
    <3>2. CASE exits' = [exits EXCEPT ![gen] = leaving \cap (Ifs(gen) \X Tool)]
      BY <3>2 DEF TypeInv
    <3> QED
      BY <1>1, <3>1, <3>2, Zenon DEF Prepare
  <2> QED
    BY <1>1, <2>1, <2>2, <2>3, Zenon DEF Prepare, TypeInv, do
<1>2. CASE Start
  <2>1. at' \in 0 .. 10 /\ pos' \in Nat /\ dep' \in BOOLEAN /\ curr' \in Gen \cup {None}
    BY <1>2, <1>a, Zenon DEF Start, TypeInv
  <2> QED
    BY <1>2, <2>1, Zenon DEF Start, TypeInv, dirs
<1>3. CASE Run
  <2>1. at \in 1 .. 3 /\ at \in 1 .. 6 /\ pos < Len(List) /\ pos' \in Nat
    BY <1>3 DEF Run, Pass, Exiting, TypeInv
  <2>2. pipe' \in [Pipe -> Seq(Lines)] /\ executed' \subseteq Lines
    <3>1. CASE UNCHANGED <<pipe, executed>>
      BY <3>1, Zenon DEF TypeInv
    <3>2. CASE Runs(Script(curr, "exit", Action[at], List[pos + 1]))
      BY <2>1, <3>2, PassScript, RunsType, Zenon
    <3> QED
      BY <1>3, <3>1, <3>2, Zenon DEF Run
  <2> QED
    BY <1>3, <2>1, <2>2, Zenon DEF Run, Pass, TypeInv, dirs
<1>4. CASE RunEnd
  <2>1. at' \in 0 .. 10 /\ pos' \in Nat
    BY <1>4, StepType, Zenon DEF RunEnd
  <2> QED
    BY <1>4, <2>1, Zenon DEF RunEnd, Step, TypeInv, dirs
<1>5. CASE Visit
  <2>1. at \in 4 .. 6 /\ at \in 1 .. 6 /\ at # 0 /\ pos < Len(List) /\ pos' \in Nat
    BY <1>5 DEF Visit, Pass, Entering, TypeInv
  <2>2. pipe' \in [Pipe -> Seq(Lines)] /\ executed' \subseteq Lines
    <3>1. CASE UNCHANGED <<pipe, executed>>
      BY <3>1, Zenon DEF TypeInv
    <3>2. CASE Runs(Script(next, "init", Action[at], List[pos + 1]))
      BY <2>1, <3>2, PassScript, RunsType, Zenon
    <3> QED
      BY <1>5, <3>1, <3>2, Zenon DEF Visit
  <2>3. Savedep(List[pos + 1]) /\ List[pos + 1] \in Interface
    <3>1. Savedep(Script(next, "init", Action[at], List[pos + 1]).if)
      BY <1>5, Zenon DEF Visit
    <3>2. Script(next, "init", Action[at], List[pos + 1]).if = List[pos + 1]
      BY Zenon DEF Script
    <3> QED
      BY <2>1, <3>1, <3>2, PassScript, Zenon
  <2>4. deps' \in [Gen -> Seq(Interface)] /\ dep' \in BOOLEAN
    <3>1. CASE UNCHANGED <<deps, dep>>
      BY <3>1, Zenon DEF TypeInv
    <3>2. CASE deps' = [deps EXCEPT ![next] = Append(@, List[pos + 1])] /\ dep' = TRUE
      <4>1. next \in Gen /\ deps \in [Gen -> Seq(Interface)]
        BY <2>1, Zenon DEF PhaseInv, TypeInv
      <4>2. Append(deps[next], List[pos + 1]) \in Seq(Interface)
        <5> HIDE DEF Interface, List
        <5> QED
          BY <2>3, <4>1
      <4> QED
        BY <3>2, <4>1, <4>2, Zenon
    <3> QED
      BY <2>3, <3>1, <3>2, Zenon DEF Savedep
  <2> QED
    BY <1>5, <2>1, <2>2, <2>4, Zenon DEF Visit, Pass, TypeInv, dirs
<1>6. CASE Close
  <2>1. at' \in 0 .. 10 /\ pos' \in Nat
    BY <1>6, StepType, Zenon DEF Close
  <2> QED
    BY <1>6, <2>1, Zenon DEF Close, Step, TypeInv, dirs
<1>7. CASE SaveRdeps
  <2>1. at' \in 0 .. 10 /\ pos' \in Nat
    BY <1>7, StepType, Zenon DEF SaveRdeps
  <2>2. next \in Gen
    <3>1. at # 0
      BY <1>7 DEF SaveRdeps
    <3> QED
      BY <3>1, Zenon DEF PhaseInv
  <2>3. Reversed(deps[next]) \in Seq(Interface)
    BY <2>2, ReverseIs, Zenon DEF TypeInv
  <2>4. rdeps' \in [Gen -> Seq(Interface) \cup {None}]
    BY <1>7, <2>3, Zenon DEF SaveRdeps, TypeInv
  <2> QED
    BY <1>7, <2>1, <2>4, Zenon DEF SaveRdeps, Step, TypeInv, dirs
<1>8. CASE Truncate \/ SaveGen
  <2>1. at' \in 0 .. 10 /\ pos' \in Nat
    BY <1>8, StepType, Zenon DEF Truncate, SaveGen
  <2>2. next \in Gen
    <3>1. at # 0
      BY <1>8 DEF Truncate, SaveGen
    <3> QED
      BY <3>1, Zenon DEF PhaseInv
  <2> QED
    BY <1>8, <2>1, <2>2, Zenon DEF Truncate, SaveGen, Step, TypeInv, dirs
<1>9. CASE RemoveNext
  <2>1. at' \in 0 .. 10 /\ pos' \in Nat
    BY <1>9, StepType, Zenon DEF RemoveNext
  <2> QED
    BY <1>9, <2>1, Zenon DEF RemoveNext, Step, TypeInv, dirs
<1>10. ASSUME NEW t \in Pipe, Execute(t) PROVE TypeInv'
  <2>1. pipe[t] \in Seq(Lines) /\ pipe[t] # << >>
    BY <1>10, Zenon DEF Execute, TypeInv
  <2>2. Head(pipe[t]) \in Lines /\ Tail(pipe[t]) \in Seq(Lines)
    <3> HIDE DEF Lines
    <3> QED
      BY <2>1
  <2> QED
    BY <1>10, <2>2, Zenon DEF Execute, TypeInv, dirs
<1>11. ASSUME NEW t \in Pipe, Fail(t) PROVE TypeInv'
  BY <1>11, <1>b, Zenon DEF Fail, TypeInv, dirs
<1>12. CASE Killed
  BY <1>12, <1>a, <1>b, Zenon DEF Killed, TypeInv, dirs
<1>13. ASSUME NEW a \in Asked, UpStart(a.want, a.names) PROVE TypeInv'
  BY <1>13, Zenon DEF UpStart, TypeInv, dirs, do
<1>14. CASE UpCheck
  BY <1>14, Zenon DEF UpCheck, Up, TypeInv, dirs, do
<1>15. CASE UpSet
  <2>1. admin' = [h \in Gen |-> admin'[h]]
    <3>1. CASE UNCHANGED admin
      BY <3>1, Zenon DEF TypeInv
    <3>2. CASE admin' = [admin EXCEPT ![gen][Head(up.list)] = up.want]
      BY <3>2 DEF TypeInv
    <3> QED
      BY <1>15, <3>1, <3>2, Zenon DEF UpSet
  <2> QED
    BY <1>15, <2>1, Zenon DEF UpSet, Up, TypeInv, dirs, do
<1>16. CASE UpEnd
  BY <1>16, Zenon DEF UpEnd, TypeInv, dirs, do
<1>17. CASE UNCHANGED vars
  BY <1>17, Zenon DEF vars, TypeInv, dirs, do
<1> QED
  BY <1>1, <1>2, <1>3, <1>4, <1>5, <1>6, <1>7, <1>8, <1>9, <1>10, <1>11,
     <1>12, <1>13,
     <1>14, <1>15, <1>16, <1>17, Zenon DEF Next, Do, Broken, Kill

-----------------------------------------------------------------------------
(***************************************************************************)
(* What there is, and the files.                                           *)
(***************************************************************************)

(* Steps keep what there is.                                               *)
LEMMA PhaseStep ==
  ASSUME IInv, [Next]_vars
  PROVE  PhaseInv'
<1> USE DEF IInv
<1>a. None \notin Gen /\ Empty \notin Gen /\ None \notin Trees
  BY NoneAssumption, Zenon
<1>1. ASSUME NEW g \in Gen, NEW t \in Trees, NEW leaving \in Leaving, Prepare(g, t, leaving)
      PROVE  PhaseInv'
  <2>1. /\ tree' = [tree EXCEPT ![g] = t] /\ admin' = [admin EXCEPT ![g] = t.admin]
        /\ next' = g /\ tree[g] = None /\ at = 0
        /\ UNCHANGED <<deps, rdeps, gen, at, pos, curr, pipe, dead, executed>>
    BY <1>1, Zenon DEF Prepare, do, Idle
  <2>2. tree'[g] = t /\ t # None /\ \A h \in Gen : h # g => tree'[h] = tree[h] /\ admin'[h] = admin[h]
    BY <1>a, <2>1, Zenon DEF TypeInv
  <2>3. \A h \in Gen : h # gen => exits'[h] = exits[h]
    BY <1>1 DEF Prepare, TypeInv
  <2>4. /\ gen \in Gen => gen # g /\ tree[gen] # None
        /\ curr \in Gen => curr # g /\ tree[curr] # None
    BY <2>1, Zenon DEF PhaseInv
  <2>5. exits'[g] = {}
    <3>1. g # gen
      BY <2>4, Zenon
    <3> QED
      BY <2>1, <2>3, <3>1, Zenon DEF PhaseInv
  <2>6. ASSUME NEW h \in Gen, tree'[h] = None
        PROVE  /\ exits'[h] = {} /\ deps'[h] = << >> /\ rdeps'[h] = None
               /\ admin'[h] = << >>
    <3>1. h # g /\ tree[h] = None
      BY <2>2, <2>6, Zenon
    <3>2. h # gen
      BY <2>4, <3>1, Zenon
    <3> QED
      BY <2>1, <2>2, <2>3, <3>1, <3>2, Zenon DEF PhaseInv
  <2>7. at' = 0 /\ ~ (at' \in 1 .. 3)
    BY <2>1
  <2> QED
    BY <2>1, <2>2, <2>4, <2>5, <2>6, <2>7, Zenon DEF PhaseInv
<1>2. CASE Start
  <2>1. /\ at = 0 /\ next # None /\ gen # Empty /\ curr' = gen
        /\ at' = (IF gen = None THEN 4 ELSE 1)
        /\ UNCHANGED <<tree, exits, admin, deps, rdeps, gen, next, pipe, dead, executed>>
    BY <1>2, Zenon DEF Start, dirs, Idle
  <2>2. next \in Gen /\ (gen # None => gen \in Gen)
    BY <2>1, Zenon DEF TypeInv
  <2>3. at' # 0 /\ (at' \in 1 .. 3 => gen # None)
    BY <2>1
  <2> QED
    BY <2>1, <2>2, <2>3, Zenon DEF PhaseInv
<1>3. CASE Run
  <2>1. /\ at \in 1 .. 3
        /\ UNCHANGED <<tree, exits, admin, deps, rdeps, gen, next, curr, at>>
    BY <1>3, Zenon DEF Run, Pass, dirs, Exiting
  <2>2. at # 0
    BY <2>1
  <2> QED
    BY <2>1, <2>2, Zenon DEF PhaseInv
<1>4. CASE RunEnd
  <2>1. /\ at \in 1 .. 3 /\ at' = (IF at = 10 THEN 0 ELSE at + 1)
        /\ UNCHANGED <<tree, exits, admin, deps, rdeps, gen, next, curr>>
    BY <1>4, Zenon DEF RunEnd, Step, dirs, Exiting
  <2>2. at # 0 /\ at' # 0
    BY <2>1
  <2> QED
    BY <2>1, <2>2, Zenon DEF PhaseInv
<1>5. CASE Visit
  <2>1. /\ at \in 4 .. 6
        /\ UNCHANGED <<tree, exits, admin, rdeps, gen, next, curr, at>>
        /\ \/ UNCHANGED deps
           \/ \E i : deps' = [deps EXCEPT ![next] = Append(@, i)]
    BY <1>5, Zenon DEF Visit, Pass, dirs, Entering, Savedep
  <2>2. at # 0 /\ ~ (at \in 1 .. 3)
    BY <2>1
  <2>3. next \in Gen /\ tree[next] # None
    BY <2>2, Zenon DEF PhaseInv
  <2>4. \A g \in Gen : g # next => deps'[g] = deps[g]
    BY <2>1, Zenon DEF TypeInv
  <2> QED
    BY <2>1, <2>2, <2>3, <2>4, Zenon DEF PhaseInv
<1>6. CASE Close
  <2>1. /\ at \in 4 .. 6 /\ at' = (IF at = 10 THEN 0 ELSE at + 1)
        /\ UNCHANGED <<tree, exits, admin, deps, rdeps, gen, next, curr>>
    BY <1>6, Zenon DEF Close, Step, dirs, Entering
  <2>2. at # 0 /\ at' # 0 /\ ~ (at' \in 1 .. 3)
    BY <2>1
  <2> QED
    BY <2>1, <2>2, Zenon DEF PhaseInv
<1>7. CASE SaveRdeps
  <2>1. /\ at = 7 /\ at' = (IF at = 10 THEN 0 ELSE at + 1)
        /\ UNCHANGED <<tree, exits, admin, deps, gen, next, curr>>
        /\ \/ UNCHANGED rdeps
           \/ rdeps' = [rdeps EXCEPT ![next] = Reversed(deps[next])]
    BY <1>7, Zenon DEF SaveRdeps, Step, dirs
  <2>2. at # 0 /\ at' # 0 /\ ~ (at' \in 1 .. 3)
    BY <2>1
  <2>3. next \in Gen /\ tree[next] # None
    BY <2>2, Zenon DEF PhaseInv
  <2>4. \A g \in Gen : g # next => rdeps'[g] = rdeps[g]
    BY <2>1, Zenon DEF TypeInv
  <2> QED
    BY <2>1, <2>2, <2>3, <2>4, Zenon DEF PhaseInv
<1>8. CASE Truncate \/ SaveGen
  <2>1. /\ at = 8 \/ at = 9
        /\ at' = (IF at = 10 THEN 0 ELSE at + 1)
        /\ UNCHANGED <<tree, exits, admin, deps, rdeps, next, curr>>
        /\ gen' = Empty \/ gen' = next
    BY <1>8, Zenon DEF Truncate, SaveGen, Step, dirs
  <2>2. at # 0 /\ at' # 0 /\ ~ (at' \in 1 .. 3)
    BY <2>1
  <2> QED
    BY <1>a, <2>1, <2>2, Zenon DEF PhaseInv
<1>9. CASE RemoveNext
  <2>1. /\ at = 10 /\ at' = (IF at = 10 THEN 0 ELSE at + 1) /\ next' = None
        /\ UNCHANGED <<tree, exits, admin, deps, rdeps, gen, curr, pipe>>
        /\ executed' = {} /\ dead' = {}
    BY <1>9, Zenon DEF RemoveNext, Step, dirs
  <2>2. at # 0 /\ at' = 0 /\ ~ (at' \in 1 .. 3)
    BY <2>1
  <2>3. \A t \in Pipe : at > InitAt[t]
    BY <2>1, AtIs DEF Pipe, Tool
  <2>4. \A t \in Pipe : pipe[t] = << >>
    BY <2>3, Zenon DEF PipeInv
  <2> QED
    BY <1>a, <2>1, <2>2, <2>4, Zenon DEF PhaseInv
<1>10. ASSUME NEW t \in Pipe, Execute(t) \/ Fail(t) PROVE PhaseInv'
  <2>1. at # 0 /\ UNCHANGED <<tree, exits, admin, deps, rdeps, gen, next, curr, at>>
    BY <1>10, Zenon DEF Execute, Fail, dirs, Idle
  <2> QED
    BY <2>1, Zenon DEF PhaseInv
<1>11. CASE Killed
  <2>1. /\ at' = 0 /\ executed' = {} /\ dead' = {}
        /\ pipe' = [t \in Pipe |-> << >>]
        /\ UNCHANGED <<tree, exits, admin, deps, rdeps, gen, next, curr>>
    BY <1>11, Zenon DEF Killed, dirs
  <2>2. ~ (at' \in 1 .. 3) /\ \A t \in Pipe : pipe'[t] = << >>
    BY <2>1
  <2> QED
    BY <2>1, <2>2, Zenon DEF PhaseInv
<1>12. CASE UpSet
  <2>1. /\ UNCHANGED <<tree, exits, deps, rdeps, gen, next, curr, at, pipe, dead, executed>>
        /\ up.at = "set" /\ gen # Empty
        /\ \/ UNCHANGED admin
           \/ admin' = [admin EXCEPT ![gen][Head(up.list)] = up.want]
    BY <1>12, Zenon DEF UpSet, Up, dirs, do
  <2>2. gen \in Gen /\ tree[gen] # None
    <3>1. gen # None
      BY <2>1 DEF UpInv
    <3> QED
      BY <2>1, <3>1, Zenon DEF TypeInv, PhaseInv
  <2>3. \A g \in Gen : g # gen => admin'[g] = admin[g]
    BY <2>1 DEF TypeInv
  <2> QED
    BY <2>1, <2>2, <2>3, Zenon DEF PhaseInv
<1>13. CASE \/ \E a \in Asked : UpStart(a.want, a.names)
            \/ UpCheck \/ UpEnd \/ UNCHANGED vars
  <2>1. UNCHANGED <<tree, exits, admin, deps, rdeps, gen, next, curr, at, pipe, dead,
                    executed>>
    BY <1>13, Zenon DEF UpStart, UpCheck, Up, UpEnd, vars, dirs, do
  <2> QED
    BY <2>1, Zenon DEF PhaseInv
<1> QED
  BY <1>1, <1>2, <1>3, <1>4, <1>5, <1>6, <1>7, <1>8, <1>9, <1>10, <1>11,
     <1>12, <1>13,
     Zenon DEF Next, Do, Broken, Kill

(* savedep() for the next interface of the order.                          *)
LEMMA PrefixStep ==
  ASSUME NEW d \in Seq(Interface), NEW o \in Seq(Interface), Prefix(d, o),
         \A j, k \in DOMAIN o : o[j] = o[k] => j = k,
         NEW n \in Nat, n <= Len(d), n < Len(o)
  PROVE  /\ o[n + 1] \in Range(d) => n + 1 <= Len(d)
         /\ o[n + 1] \notin Range(d) => /\ Prefix(Append(d, o[n + 1]), o)
                                        /\ n + 1 <= Len(Append(d, o[n + 1]))
<1> HIDE DEF Interface
<1>0. /\ Len(d) \in Nat /\ Len(o) \in Nat /\ DOMAIN o = 1 .. Len(o)
      /\ DOMAIN d = 1 .. Len(d) /\ Len(d) <= Len(o)
      /\ \A k \in 1 .. Len(d) : d[k] = o[k]
  BY DEF Prefix
<1>1. ASSUME o[n + 1] \in Range(d) PROVE n + 1 <= Len(d)
  <2>1. PICK k \in DOMAIN d : d[k] = o[n + 1]
    BY <1>1 DEF Range
  <2>2. k \in DOMAIN o /\ n + 1 \in DOMAIN o /\ o[k] = o[n + 1]
    BY <1>0, <2>1
  <2>3. k = n + 1
    BY <2>2, Zenon
  <2> QED
    BY <1>0, <2>1, <2>3
<1>2. ASSUME o[n + 1] \notin Range(d)
      PROVE  Prefix(Append(d, o[n + 1]), o) /\ n + 1 <= Len(Append(d, o[n + 1]))
  <2>1. n = Len(d)
    <3>1. SUFFICES ASSUME n # Len(d) PROVE FALSE
      OBVIOUS
    <3>2. n + 1 \in 1 .. Len(d)
      <4>1. Len(d) \in Nat /\ n \in Nat /\ n <= Len(d) /\ n # Len(d)
        BY <1>0, <3>1, Zenon
      <4> DEFINE m == Len(d)
      <4> HIDE DEF m
      <4>2. m \in Nat /\ n \in Nat /\ n <= m /\ n # m => n + 1 \in 1 .. m
        OBVIOUS
      <4> QED
        BY <4>1, <4>2, Zenon DEF m
    <3>3. n + 1 \in DOMAIN d /\ d[n + 1] = o[n + 1]
      BY <1>0, <3>2, Zenon
    <3> QED
      BY <1>2, <3>3, Zenon DEF Range
  <2>2. /\ Len(Append(d, o[n + 1])) = n + 1 /\ Append(d, o[n + 1])[n + 1] = o[n + 1]
        /\ \A k \in 1 .. n : Append(d, o[n + 1])[k] = d[k]
    BY <1>0, <2>1
  <2>3. \A k \in 1 .. n + 1 : k \in 1 .. n \/ k = n + 1
    OBVIOUS
  <2> QED
    BY <1>0, <2>1, <2>2, <2>3 DEF Prefix
<1> QED
  BY <1>1, <1>2

(* A prefix that is as long is the same.                                   *)
LEMMA PrefixAll ==
  ASSUME NEW d \in Seq(Interface), NEW o \in Seq(Interface), Prefix(d, o),
         Len(o) <= Len(d)
  PROVE  d = o
<1> HIDE DEF Interface
<1>1. Len(d) = Len(o) /\ \A k \in 1 .. Len(d) : d[k] = o[k]
  BY DEF Prefix
<1> QED
  BY <1>1

(* Steps keep the files deps and rdeps in the order of dependencies.       *)
LEMMA FilesStep ==
  ASSUME IInv, [Next]_vars
  PROVE  FilesInv'
<1> USE DEF IInv
<1> DEFINE Whole == \A g \in Gen : tree[g] # None =>
              /\ Prefix(deps[g], Order(tree[g]))
              /\ rdeps[g] # None => rdeps[g] = Reversed(Order(tree[g]))
<1>a. Whole
  BY Zenon DEF FilesInv
<1>b. (UNCHANGED <<tree, deps, rdeps>>) => Whole'
  BY <1>a, Zenon
<1>c. Whole' /\ (at' = 4 => pos' <= Len(deps'[next'])) /\
      (at' \in 5 .. 10 => deps'[next'] = Order(tree'[next'])) => FilesInv'
  BY Zenon DEF FilesInv
<1> HIDE DEF Whole
<1>1. ASSUME NEW g \in Gen, NEW t \in Trees, NEW leaving \in Leaving, Prepare(g, t, leaving)
      PROVE  FilesInv'
  <2>1. /\ tree' = [tree EXCEPT ![g] = t] /\ next' = g /\ tree[g] = None /\ at' = 0
        /\ UNCHANGED <<deps, rdeps>>
    BY <1>1, Zenon DEF Prepare, do, Idle
  <2>2. tree'[g] = t /\ \A h \in Gen : h # g => tree'[h] = tree[h]
    BY <2>1, Zenon DEF TypeInv
  <2>3. deps[g] = << >> /\ rdeps[g] = None
    BY <2>1, Zenon DEF PhaseInv
  <2>4. Prefix(<< >>, Order(t))
    <3>1. Order(t) \in Seq(Interface) /\ Len(Order(t)) \in Nat
      BY OrderType, Zenon
    <3> HIDE DEF Order
    <3> QED
      BY <3>1 DEF Prefix
  <2>5. Whole'
    BY <1>a, <2>1, <2>2, <2>3, <2>4, Zenon DEF Whole
  <2>6. at' # 4 /\ ~ (at' \in 5 .. 10)
    BY <2>1
  <2> QED
    BY <1>c, <2>5, <2>6, Zenon
<1>2. CASE Start \/ RunEnd
  <2>1. /\ pos' = 0 /\ UNCHANGED <<tree, deps, rdeps, next>>
        /\ \/ at' = 4 \/ at' = 1
           \/ at \in 1 .. 3 /\ at' = (IF at = 10 THEN 0 ELSE at + 1)
    BY <1>2, Zenon DEF Start, RunEnd, Step, dirs, Exiting
  <2>2. ~ (at' \in 5 .. 10) /\ at' # 0
    BY <2>1
  <2>3. next \in Gen
    <3>1. Start => next # None
      BY Zenon DEF Start
    <3>2. RunEnd => at # 0
      BY DEF RunEnd, Exiting
    <3> QED
      BY <1>2, <3>1, <3>2, Zenon DEF PhaseInv, TypeInv
  <2>4. deps[next] \in Seq(Interface)
    BY <2>3, Zenon DEF TypeInv
  <2>5. 0 <= Len(deps[next])
    <3> HIDE DEF Interface
    <3> QED
      BY <2>4
  <2> QED
    BY <1>b, <1>c, <2>1, <2>2, <2>5, Zenon
<1>3. CASE Run
  <2>1. at \in 1 .. 3 /\ UNCHANGED <<tree, deps, rdeps, next, at>>
    BY <1>3, Zenon DEF Run, Pass, dirs, Exiting
  <2>2. at' # 4 /\ ~ (at' \in 5 .. 10)
    BY <2>1
  <2> QED
    BY <1>b, <1>c, <2>1, <2>2, Zenon
<1>4. CASE Visit
  <2> DEFINE d == deps[next]
             o == Order(tree[next])
             i == o[pos + 1]
  <2>1. /\ at \in 4 .. 6 /\ pos < Len(o) /\ pos' = pos + 1 /\ List = o
        /\ UNCHANGED <<tree, rdeps, next, at>> /\ Savedep(i)
    <3>1. at \in 4 .. 6 /\ List = o
      BY <1>4, Zenon DEF Visit, Entering, List
    <3>2. Savedep(Script(next, "init", Action[at], List[pos + 1]).if)
      BY <1>4, Zenon DEF Visit
    <3>3. Script(next, "init", Action[at], List[pos + 1]).if = i
      BY <3>1, Zenon DEF Script
    <3> QED
      BY <1>4, <3>1, <3>2, <3>3, Zenon DEF Visit, Pass, dirs
  <2>2. next \in Gen /\ tree[next] \in Trees /\ tree[next] # None
    <3>1. at # 0
      BY <2>1
    <3> QED
      BY <3>1, NextTree, Zenon DEF PhaseInv
  <2>3. d \in Seq(Interface) /\ o \in Seq(Interface) /\ Prefix(d, o) /\ pos \in Nat
    BY <2>2, OrderType, Zenon DEF TypeInv, FilesInv
  <2>4. \A j, k \in DOMAIN o : o[j] = o[k] => j = k
    BY <2>2, OrderIs, Zenon DEF Good
  <2>5. CASE at = 4
    <3>0. pos <= Len(d)
      BY <2>5, Zenon DEF FilesInv
    <3>1. /\ i \in Range(d) => pos + 1 <= Len(d)
          /\ i \notin Range(d) => Prefix(Append(d, i), o) /\ pos + 1 <= Len(Append(d, i))
      BY <2>1, <2>3, <2>4, <3>0, PrefixStep, Zenon
    <3> HIDE DEF i, o
    <3>2. Prefix(deps'[next], o) /\ pos' <= Len(deps'[next])
      BY <2>1, <2>2, <2>3, <3>1, Zenon DEF Savedep, TypeInv
    <3>3. \A g \in Gen : g # next => deps'[g] = deps[g]
      BY <2>1, Zenon DEF Savedep, TypeInv
    <3>4. Whole'
      BY <1>a, <2>1, <3>2, <3>3, Zenon DEF Whole, o
    <3>5. at' = 4 /\ ~ (at' \in 5 .. 10)
      BY <2>1, <2>5
    <3> QED
      BY <1>c, <2>1, <3>2, <3>4, <3>5, Zenon
  <2>6. CASE at # 4
    <3>1. at \in 5 .. 10
      BY <2>1, <2>6
    <3>2. d = o
      BY <3>1, Zenon DEF FilesInv
    <3>3. pos + 1 \in DOMAIN o
      <4> HIDE DEF o, Interface
      <4> QED
        BY <2>1, <2>3
    <3>4. i \in Range(d)
      BY <3>2, <3>3 DEF Range
    <3>5. UNCHANGED deps
      BY <2>1, <3>4, Zenon DEF Savedep
    <3> QED
      BY <1>b, <1>c, <2>1, <2>6, <3>2, <3>5, Zenon
  <2> QED
    BY <2>5, <2>6, Zenon
<1>5. CASE Close
  <2> DEFINE d == deps[next]
             o == Order(tree[next])
  <2>1. /\ at \in 4 .. 6 /\ pos = Len(o) /\ at' = (IF at = 10 THEN 0 ELSE at + 1)
        /\ UNCHANGED <<tree, deps, rdeps, next>>
    BY <1>5, Zenon DEF Close, Step, dirs, Entering, List
  <2>2. next \in Gen /\ tree[next] \in Trees /\ tree[next] # None
    <3>1. at # 0
      BY <2>1
    <3> QED
      BY <3>1, NextTree, Zenon DEF PhaseInv
  <2>3. d \in Seq(Interface) /\ o \in Seq(Interface) /\ Prefix(d, o)
    BY <2>2, OrderType, Zenon DEF TypeInv, FilesInv
  <2>4. d = o
    <3>1. CASE at = 4
      BY <2>1, <2>3, <3>1, PrefixAll, Zenon DEF FilesInv
    <3>2. CASE at # 4
      <4>1. at \in 5 .. 10
        BY <2>1, <3>2
      <4> QED
        BY <4>1, Zenon DEF FilesInv
    <3> QED
      BY <3>1, <3>2, Zenon
  <2>5. at' # 4
    BY <2>1
  <2> QED
    BY <1>b, <1>c, <2>1, <2>4, <2>5, Zenon
<1>6. CASE SaveRdeps
  <2>1. /\ at = 7 /\ at' = (IF at = 10 THEN 0 ELSE at + 1)
        /\ UNCHANGED <<tree, deps, next>>
        /\ \/ UNCHANGED rdeps
           \/ rdeps' = [rdeps EXCEPT ![next] = Reversed(deps[next])]
    BY <1>6, Zenon DEF SaveRdeps, Step, dirs
  <2>2. at # 0 /\ at \in 5 .. 10 /\ at' # 4
    BY <2>1
  <2>3. next \in Gen /\ deps[next] = Order(tree[next])
    BY <2>2, Zenon DEF PhaseInv, FilesInv
  <2>4. /\ \A g \in Gen : g # next => rdeps'[g] = rdeps[g]
        /\ rdeps'[next] = rdeps[next] \/ rdeps'[next] = Reversed(Order(tree[next]))
    BY <2>1, <2>3, Zenon DEF TypeInv
  <2>5. Whole'
    BY <1>a, <2>1, <2>4, Zenon DEF Whole
  <2> QED
    BY <1>c, <2>1, <2>2, <2>3, <2>5, Zenon
<1>7. CASE Truncate \/ SaveGen
  <2>1. /\ at = 8 \/ at = 9
        /\ at' = (IF at = 10 THEN 0 ELSE at + 1)
        /\ UNCHANGED <<tree, deps, rdeps, next>>
    BY <1>7, Zenon DEF Truncate, SaveGen, Step, dirs
  <2>2. at \in 5 .. 10 /\ at' # 4
    BY <2>1
  <2>3. deps[next] = Order(tree[next])
    BY <2>2, Zenon DEF FilesInv
  <2> QED
    BY <1>b, <1>c, <2>1, <2>2, <2>3, Zenon
<1>8. CASE RemoveNext \/ Killed
  <2>1. at' = 0 /\ UNCHANGED <<tree, deps, rdeps>>
    <3>1. RemoveNext => at = 10 /\ at' = (IF at = 10 THEN 0 ELSE at + 1)
      BY Zenon DEF RemoveNext, Step
    <3> QED
      BY <1>8, <3>1, Zenon DEF RemoveNext, Step, Killed, dirs
  <2>2. at' # 4 /\ ~ (at' \in 5 .. 10)
    BY <2>1
  <2> QED
    BY <1>b, <1>c, <2>1, <2>2, Zenon
<1>9. CASE \/ \E t \in Pipe : Execute(t) \/ Fail(t)
           \/ \E a \in Asked : UpStart(a.want, a.names)
           \/ UpCheck \/ UpSet \/ UpEnd \/ UNCHANGED vars
  <2>1. UNCHANGED <<tree, deps, rdeps, next, at, pos>>
    BY <1>9, Zenon
       DEF Execute, Fail, UpStart, UpCheck, UpSet, Up, UpEnd, vars, dirs, do
  <2> QED
    BY <1>b, <1>c, <2>1, Zenon DEF FilesInv
<1> QED
  BY <1>1, <1>2, <1>3, <1>4, <1>5, <1>6, <1>7, <1>8, <1>9, Zenon
     DEF Next, Do, Broken, Kill

(* Steps keep the file rdeps where it is needed.                           *)
LEMMA SavedStep ==
  ASSUME IInv, [Next]_vars
  PROVE  SavedInv'
<1> USE DEF IInv
<1>a. None \notin Gen /\ Empty \notin Gen
  BY NoneAssumption, Zenon
<1>b. ASSUME UNCHANGED <<tree, rdeps>>, torn \subseteq torn', NEW g, Saved(g) PROVE Saved(g)'
  BY <1>b, Zenon DEF Saved, Ifs
<1>c. at # 0 => /\ next \in Gen /\ tree[next] \in Trees
                /\ Range(Order(tree[next])) = Ifs(next)
  BY NextTree, OrderIs, Zenon DEF PhaseInv, Ifs
<1>1. ASSUME NEW g \in Gen, NEW t \in Trees, NEW leaving \in Leaving, Prepare(g, t, leaving)
      PROVE  SavedInv'
  <2>1. /\ tree' = [tree EXCEPT ![g] = t] /\ next' = g /\ tree[g] = None /\ at' = 0
        /\ UNCHANGED <<deps, rdeps, gen, torn>>
    BY <1>1, Zenon DEF Prepare, do, Idle
  <2>2. tree'[g] = t /\ \A h \in Gen : h # g => tree'[h] = tree[h]
    BY <2>1, Zenon DEF TypeInv
  <2>3. gen \in Gen => Saved(gen)'
    <3>1. gen \in Gen => gen # g /\ Saved(gen)
      BY <2>1, Zenon DEF PhaseInv, SavedInv
    <3> QED
      BY <2>1, <2>2, <3>1, Zenon DEF Saved, Ifs
  <2>4. deps[g] = Order(t) => Saved(g)'
    <3>1. ASSUME Order(t) = << >> PROVE DOMAIN t.deps = {}
      <4>1. Range(<< >>) = {}
        BY DEF Range
      <4> QED
        BY <3>1, <4>1, OrderIs, Zenon
    <3>2. deps[g] = << >>
      BY <2>1, Zenon DEF PhaseInv
    <3> QED
      BY <2>2, <3>1, <3>2, Zenon DEF Saved, Ifs
  <2>5. ~ (at' \in 8 .. 10)
    BY <2>1
  <2> QED
    BY <2>1, <2>2, <2>3, <2>4, <2>5, Zenon DEF SavedInv
<1>2. CASE Start
  <2>1. /\ at = 0 /\ at' = (IF gen = None THEN 4 ELSE 1)
        /\ UNCHANGED <<tree, deps, rdeps, gen, next, torn>>
    BY <1>2, Zenon DEF Start, dirs, Idle
  <2>2. ~ (at' \in 8 .. 10)
    BY <2>1
  <2> QED
    BY <1>b, <2>1, <2>2, Zenon DEF SavedInv
<1>3. CASE Run \/ RunEnd \/ Visit \/ Close
  <2>1. /\ at \in 1 .. 6 /\ (at' = at \/ at' = IF at = 10 THEN 0 ELSE at + 1)
        /\ UNCHANGED <<tree, rdeps, gen, next, torn>>
        /\ dep' = TRUE \/ UNCHANGED <<dep, deps>>
    <3>1. Exiting \/ Entering => at \in 1 .. 6
      BY DEF Exiting, Entering
    <3> QED
      BY <1>3, <3>1, Zenon
         DEF Run, RunEnd, Visit, Savedep, Close, Pass, Step, dirs
  <2>2. at # 0 /\ at' # 0 /\ ~ (at' \in 8 .. 10)
    BY <2>1
  <2>3. \A g : Saved(g) => Saved(g)'
    BY <1>b, <2>1, Zenon
  <2>4. gen \in Gen => Saved(gen)
    BY Zenon DEF SavedInv
  <2>5. next \in Gen /\ ~dep /\ deps[next] = Order(tree[next]) => Saved(next)
    BY Zenon DEF SavedInv
  <2>6. next' \in Gen /\ ~dep' /\ deps'[next'] = Order(tree'[next']) => Saved(next)'
    <3>1. CASE dep' = TRUE
      BY <3>1
    <3>2. CASE UNCHANGED <<dep, deps>>
      BY <2>1, <2>3, <2>5, <3>2, Zenon
    <3> QED
      BY <2>1, <3>1, <3>2, Zenon
  <2> QED
    BY <2>1, <2>2, <2>3, <2>4, <2>6, Zenon DEF SavedInv
<1>4. CASE SaveRdeps
  <2>1. /\ at = 7 /\ at' = (IF at = 10 THEN 0 ELSE at + 1)
        /\ UNCHANGED <<tree, deps, gen, next, torn, dep>>
        /\ rdeps' = IF dep THEN [rdeps EXCEPT ![next] = Reversed(deps[next])] ELSE rdeps
    BY <1>4, Zenon DEF SaveRdeps, Step, dirs
  <2>2. at # 0 /\ at \in 5 .. 10 /\ at' # 0
    BY <2>1
  <2>3. next \in Gen /\ deps[next] = Order(tree[next])
    BY <2>2, Zenon DEF PhaseInv, FilesInv
  <2>4. Reversed(deps[next]) # None
    <3>1. Reversed(deps[next]) \in Seq(Interface)
      BY <2>3, ReverseIs, Zenon DEF TypeInv
    <3> QED
      BY <3>1, NoneAssumption, Zenon
  <2>5. Saved(next)'
    <3>1. CASE dep
      <4>1. rdeps'[next] = Reversed(deps[next])
        BY <2>1, <2>3, <3>1, Zenon DEF TypeInv
      <4> QED
        BY <2>1, <2>4, <4>1, Zenon DEF Saved
    <3>2. CASE ~dep
      <4>1. Saved(next)
        BY <2>3, <3>2, Zenon DEF SavedInv
      <4> QED
        BY <2>1, <3>2, <4>1, Zenon DEF Saved, Ifs
    <3> QED
      BY <3>1, <3>2
  <2>6. gen \in Gen /\ gen # next => Saved(gen)'
    <3>1. gen \in Gen /\ gen # next => rdeps'[gen] = rdeps[gen] /\ Saved(gen)
      BY <2>1, <2>3, Zenon DEF TypeInv, SavedInv
    <3> QED
      BY <2>1, <3>1, Zenon DEF Saved, Ifs
  <2> QED
    BY <2>1, <2>2, <2>5, <2>6, Zenon DEF SavedInv
<1>5. CASE Truncate \/ SaveGen
  <2>1. /\ at = 8 \/ at = 9
        /\ at' = (IF at = 10 THEN 0 ELSE at + 1)
        /\ UNCHANGED <<tree, deps, rdeps, next, dep, torn>>
        /\ gen' = Empty \/ gen' = next
    BY <1>5, Zenon DEF Truncate, SaveGen, Step, dirs
  <2>2. at \in 8 .. 10
    BY <2>1
  <2>3. Saved(next)'
    BY <1>b, <2>1, <2>2, Zenon DEF SavedInv
  <2> QED
    BY <1>a, <2>1, <2>3, Zenon DEF SavedInv
<1>6. CASE RemoveNext
  <2>1. /\ at = 10 /\ at' = (IF at = 10 THEN 0 ELSE at + 1) /\ next' = None
        /\ UNCHANGED <<tree, rdeps, gen, torn>>
    BY <1>6, Zenon DEF RemoveNext, Step, dirs
  <2>2. ~ (at' \in 8 .. 10)
    BY <2>1
  <2> QED
    BY <1>a, <1>b, <2>1, <2>2, Zenon DEF SavedInv
<1>7. CASE Killed /\ at # 0
  <2>1. /\ at' = 0 /\ UNCHANGED <<tree, deps, rdeps, gen, next>>
        /\ torn' = IF rdeps[next] = None /\ Range(deps[next]) = Ifs(next)
                     THEN torn \cup {next} ELSE torn
    BY <1>7, Zenon DEF Killed, dirs
  <2>2. deps[next] = Order(tree[next]) => Saved(next)'
    BY <1>7, <1>c, <2>1, Zenon DEF Saved
  <2>3. ~ (at' \in 8 .. 10)
    BY <2>1
  <2>4. torn \subseteq torn'
    BY <2>1, Zenon
  <2> QED
    BY <1>b, <2>1, <2>2, <2>3, <2>4, Zenon DEF SavedInv
<1>8. CASE \/ \E t \in Pipe : Execute(t) \/ Fail(t)
           \/ \E a \in Asked : UpStart(a.want, a.names)
           \/ UpCheck \/ UpSet \/ UpEnd \/ UNCHANGED vars
  <2>1. UNCHANGED <<tree, deps, rdeps, gen, next, at, dep, torn>>
    BY <1>8, Zenon
       DEF Execute, Fail, UpStart, UpCheck, UpSet, Up, UpEnd, vars, dirs, do
  <2> QED
    BY <1>b, <2>1, Zenon DEF SavedInv
<1> QED
  BY <1>1, <1>2, <1>3, <1>4, <1>5, <1>6, <1>7, <1>8, Zenon
     DEF Next, Do, Broken, Kill, Idle

-----------------------------------------------------------------------------
(***************************************************************************)
(* "net up" and "net down".                                                *)
(***************************************************************************)

(* Steps keep what "net up" has found.                                     *)
LEMMA UpdStep ==
  ASSUME IInv, [Next]_vars
  PROVE  UpInv'
<1> USE DEF IInv
<1> DEFINE Rec == up = [at |-> up.at, list |-> up.list, want |-> up.want, gen |-> up.gen]
           Set == /\ up.gen \in Gen /\ tree[up.gen] # None
                  /\ Head(up.list) \in DOMAIN admin[up.gen] =>
                       admin[up.gen][Head(up.list)] # "disabled"
<1>a. /\ Rec /\ (up.at # "idle" => gen # None) /\ (up.at = "set" => Set)
      /\ None # Empty /\ None \notin Gen
  BY NoneAssumption, Zenon DEF UpInv
<1>b. Rec' /\ (up'.at # "idle" => gen' # None) /\ (up'.at = "set" => Set') => UpInv'
  BY Zenon DEF UpInv
<1>c. ASSUME UNCHANGED <<up, tree, admin>>, gen' # None \/ UNCHANGED gen PROVE UpInv'
  <2>1. Rec' /\ (up'.at # "idle" => gen' # None) /\ (up'.at = "set" => Set')
    BY <1>a, <1>c, Zenon
  <2> QED
    BY <1>b, <2>1, Zenon
<1> HIDE DEF Set, Rec
<1>1. ASSUME NEW g \in Gen, NEW t \in Trees, NEW leaving \in Leaving, Prepare(g, t, leaving)
      PROVE  UpInv'
  <2>1. /\ tree' = [tree EXCEPT ![g] = t] /\ admin' = [admin EXCEPT ![g] = t.admin]
        /\ tree[g] = None /\ UNCHANGED <<gen, up>>
    BY <1>1, Zenon DEF Prepare
  <2>2. \A h \in Gen : h # g => tree'[h] = tree[h] /\ admin'[h] = admin[h]
    BY <2>1, Zenon DEF TypeInv
  <2>3. Set => up.gen # g /\ Set'
    BY <2>1, <2>2, Zenon DEF Set
  <2>4. Rec'
    BY <1>a, <2>1, Zenon DEF Rec
  <2> QED
    BY <1>a, <1>b, <2>1, <2>3, <2>4, Zenon
<1>2. CASE Truncate \/ SaveGen
  <2>1. UNCHANGED <<up, tree, admin>> /\ (gen' = Empty \/ gen' = next) /\ at # 0
    <3>1. Truncate \/ SaveGen => at # 0
      BY DEF Truncate, SaveGen
    <3> QED
      BY <1>2, <3>1, Zenon DEF Truncate, SaveGen, Step, dirs
  <2>2. gen' # None
    BY <1>a, <2>1, Zenon DEF PhaseInv
  <2> QED
    BY <1>c, <2>1, <2>2, Zenon
<1>3. CASE \/ Start \/ Run \/ RunEnd \/ Visit \/ Close \/ SaveRdeps \/ RemoveNext
           \/ Killed \/ UNCHANGED vars
           \/ \E t \in Pipe : Execute(t) \/ Fail(t)
  <2>1. UNCHANGED <<up, tree, admin, gen>>
    BY <1>3, Zenon
       DEF Start, Run, RunEnd, Visit, Close, SaveRdeps, RemoveNext, Killed,
       Execute, Fail, Pass, Step, vars, dirs
  <2> QED
    BY <1>c, <2>1, Zenon
<1>4. ASSUME NEW a \in Asked, UpStart(a.want, a.names) PROVE UpInv'
  <2>1. /\ gen # None /\ gen' = gen
        /\ up' = [at |-> "check", want |-> a.want, gen |-> gen,
                  list |-> IF a.names = {} THEN Dir(Ifs(gen)) ELSE Dir(a.names)]
    BY <1>4, Zenon DEF UpStart
  <2>2. Rec' /\ up'.at # "set"
    BY <2>1 DEF Rec
  <2> QED
    BY <1>b, <2>1, <2>2, Zenon
<1>5. CASE UpCheck
  <2>1. /\ up.at = "check" /\ gen # Empty
        /\ UNCHANGED <<tree, admin, gen>>
        /\ up' = IF Allowed(Head(up.list)) THEN [up EXCEPT !.at = "set", !.gen = gen]
                 ELSE [up EXCEPT !.list = Tail(@)]
    BY <1>5, Zenon DEF UpCheck, Up, dirs
  <2>2. gen # None
    BY <1>a, <2>1
  <2>3. gen \in Gen /\ tree[gen] # None
    BY <2>1, <2>2, Zenon DEF TypeInv, PhaseInv
  <2>4. CASE Allowed(Head(up.list))
    <3>1. Rec' /\ up'.at = "set" /\ up'.gen = gen /\ up'.list = up.list
      BY <1>a, <2>1, <2>4 DEF Rec
    <3>2. Head(up.list) \in DOMAIN admin[gen] => admin[gen][Head(up.list)] # "disabled"
      BY <2>4, Zenon DEF Allowed, AdminState
    <3>3. Set'
      BY <2>1, <2>3, <3>1, <3>2, Zenon DEF Set
    <3> QED
      BY <1>b, <2>1, <2>2, <3>1, <3>3, Zenon
  <2>5. CASE ~Allowed(Head(up.list))
    <3>1. Rec' /\ up'.at = "check"
      BY <1>a, <2>1, <2>5 DEF Rec
    <3>2. up'.at # "set"
      BY <3>1
    <3> QED
      BY <1>b, <2>1, <2>2, <3>1, <3>2, Zenon
  <2> QED
    BY <2>4, <2>5, Zenon
<1>6. CASE UpSet
  <2>1. /\ up.at = "set" /\ gen' = gen
        /\ up' = [up EXCEPT !.at = "check", !.list = Tail(@)]
    BY <1>6, Zenon DEF UpSet, Up
  <2>2. Rec' /\ up'.at = "check"
    BY <1>a, <2>1 DEF Rec
  <2>3. gen # None /\ up'.at # "set"
    BY <1>a, <2>1, <2>2
  <2> QED
    BY <1>b, <2>1, <2>2, <2>3, Zenon
<1>7. CASE UpEnd
  <2>1. Rec' /\ up'.at = "idle"
    BY <1>7 DEF UpEnd, NoUp, Rec
  <2>2. up'.at # "set"
    BY <2>1
  <2> QED
    BY <1>b, <2>1, <2>2, Zenon
<1> QED
  BY <1>1, <1>2, <1>3, <1>4, <1>5, <1>6, <1>7, Zenon
     DEF Next, Do, Broken, Kill

(* No step enables an interface in the generation that was asked about it. *)
LEMMA DisabledStep ==
  ASSUME IInv, [Next]_vars
  PROVE  [\A g \in Gen : \A i \in DOMAIN admin[g] :
            admin[g][i] = "disabled" /\ admin'[g][i] # "disabled" => up.gen # g]_vars
<1> USE DEF IInv
<1> SUFFICES ASSUME NEW g \in Gen, NEW i \in DOMAIN admin[g], Next,
                    admin[g][i] = "disabled", admin'[g][i] # "disabled", up.gen = g
             PROVE  FALSE
  BY Zenon
<1>1. ASSUME NEW h \in Gen, NEW t \in Trees, NEW leaving \in Leaving, Prepare(h, t, leaving)
      PROVE  FALSE
  <2>1. tree[h] = None /\ admin' = [admin EXCEPT ![h] = t.admin]
    BY <1>1, Zenon DEF Prepare
  <2>2. admin[h] = << >>
    BY <2>1, Zenon DEF PhaseInv
  <2>3. h # g
    BY <2>2
  <2> QED
    BY <2>1, <2>3, Zenon DEF TypeInv
<1>2. CASE UpSet
  <2>1. /\ up.at = "set"
        /\ \/ UNCHANGED admin
           \/ /\ Head(up.list) \in DOMAIN admin[gen]
              /\ admin' = [admin EXCEPT ![gen][Head(up.list)] = up.want]
    BY <1>2, Zenon DEF UpSet, Up
  <2>2. Head(up.list) \in DOMAIN admin[g] => admin[g][Head(up.list)] # "disabled"
    BY <2>1, Zenon DEF UpInv
  <2>3. i # Head(up.list)
    BY <2>2, Zenon
  <2>4. admin'[g][i] = admin[g][i]
    <3> DEFINE h == Head(up.list)
               b == [admin[gen] EXCEPT ![h] = up.want]
    <3>0. admin = [x \in Gen |-> admin[x]]
      BY Zenon DEF TypeInv
    <3>1. CASE admin' = [admin EXCEPT ![gen] = b]
      <4>1. CASE gen = g
        <5>1. admin'[g] = b
          BY <3>0, <3>1, <4>1, Zenon
        <5>2. b[i] = admin[g][i]
          BY <2>3, <4>1, Zenon
        <5> QED
          BY <5>1, <5>2, Zenon
      <4>2. CASE gen # g
        BY <3>0, <3>1, <4>2, Zenon
      <4> QED
        BY <4>1, <4>2, Zenon
    <3>2. CASE UNCHANGED admin
      BY <3>2, Zenon
    <3> QED
      BY <2>1, <3>1, <3>2, Zenon
  <2> QED
    BY <2>4, Zenon
<1>3. CASE UNCHANGED admin
  BY <1>3, Zenon
<1> QED
  BY <1>1, <1>2, <1>3, Zenon
     DEF Next, Do, Broken, Kill, Start, Run, RunEnd, Visit, Close,
     SaveRdeps, Truncate, SaveGen, RemoveNext, Killed, Execute, Fail, Pass, Step, UpStart,
     UpCheck, UpEnd

-----------------------------------------------------------------------------
(***************************************************************************)
(* The order in which net runs scripts.                                    *)
(***************************************************************************)

(* Each loop is over a sequence that has no interface twice.               *)
LEMMA PathType ==
  ASSUME TypeInv, PhaseInv, FilesInv, at # 0, NEW kind \in {"exit", "init"}
  PROVE  /\ Path(kind) \in Seq(Interface) /\ DOMAIN Path(kind) = 1 .. Len(Path(kind))
         /\ Len(Path(kind)) \in Nat
         /\ \A j, k \in DOMAIN Path(kind) : Path(kind)[j] = Path(kind)[k] => j = k
<1> DEFINE Fine(p) == p \in Seq(Interface) /\ \A j, k \in DOMAIN p : p[j] = p[k] => j = k
<1>1. ASSUME NEW t \in Trees PROVE Fine(Order(t)) /\ Fine(Reversed(Order(t)))
  <2> DEFINE o == Order(t)
             r == Reversed(o)
             n == Len(o)
  <2>1. Fine(o)
    BY OrderIs, Zenon DEF Good
  <2> HIDE DEF o
  <2>2. /\ r \in Seq(Interface) /\ DOMAIN r = 1 .. n /\ DOMAIN o = 1 .. n /\ n \in Nat
        /\ \A k \in 1 .. n : n - k + 1 \in 1 .. n /\ r[k] = o[n - k + 1]
    BY <2>1, ReverseIs, Zenon
  <2> HIDE DEF r, n
  <2>3. ASSUME NEW j \in 1 .. n, NEW k \in 1 .. n, r[j] = r[k] PROVE j = k
    <3>1. n - j + 1 = n - k + 1
      BY <2>1, <2>2, <2>3, Zenon
    <3> QED
      BY <2>2, <3>1
  <2> QED
    BY <2>1, <2>2, <2>3, Zenon DEF r, o
<1>2. Fine(<< >>)
  <2>1. << >> \in Seq(Interface) /\ DOMAIN << >> = {}
    OBVIOUS
  <2> QED
    BY <2>1, Zenon
<1>3. Fine(Path(kind))
  <2>1. CASE kind = "init"
    <3>1. tree[next] \in Trees
      BY NextTree, Zenon DEF PhaseInv
    <3> QED
      BY <1>1, <2>1, <3>1, Zenon DEF Path
  <2>2. CASE kind # "init"
    <3>1. CASE curr \in Gen /\ curr # next /\ rdeps[curr] # None
      <4>1. tree[curr] # None
        BY <3>1, Zenon DEF PhaseInv
      <4>2. tree[curr] \in Trees
        BY <3>1, <4>1, Zenon DEF TypeInv
      <4>3. rdeps[curr] = Reversed(Order(tree[curr]))
        BY <3>1, <4>1, Zenon DEF FilesInv
      <4> QED
        BY <1>1, <2>2, <3>1, <4>2, <4>3, Zenon DEF Path
    <3>2. CASE ~ (curr \in Gen /\ curr # next /\ rdeps[curr] # None)
      BY <1>2, <2>2, <3>2, Zenon DEF Path
    <3> QED
      BY <3>1, <3>2, Zenon
  <2> QED
    BY <2>1, <2>2, Zenon
<1> DEFINE p == Path(kind)
<1>4. p \in Seq(Interface)
  BY <1>3, Zenon
<1> HIDE DEF p, Interface
<1>5. DOMAIN p = 1 .. Len(p) /\ Len(p) \in Nat
  BY <1>4
<1> QED
  BY <1>3, <1>4, <1>5, Zenon DEF p

(* A script does not come before itself, nor two before each other.        *)
LEMMA BeforeIs ==
  ASSUME IInv, at # 0, NEW r \in Lines, NEW s \in Lines, Before(r, s), r = s \/ Before(s, r)
  PROVE  FALSE
<1> DEFINE p == Path(s.do)
<1>0. s.do \in {"exit", "init"} /\ r.do \in {"exit", "init"}
  BY Zenon DEF Lines
<1>1. /\ DOMAIN p = 1 .. Len(p) /\ Len(p) \in Nat
      /\ \A j, k \in DOMAIN p : p[j] = p[k] => j = k
  BY <1>0, PathType, Zenon DEF IInv
<1>2. Before(s, r)
  BY Zenon
<1>3. "exit" # "init"
  OBVIOUS
<1>4. r.do = s.do
  BY <1>2, <1>3, Zenon DEF Before
<1>5. ~ (r.do = "exit" /\ s.do = "init") /\ ~ (s.do = "exit" /\ r.do = "init")
  BY <1>3, <1>4, Zenon
<1>6. \E j, k \in DOMAIN p : j < k /\ p[j] = r.if /\ p[k] = s.if
  BY <1>5, Zenon DEF Before
<1>7. \E j, k \in DOMAIN p : j < k /\ p[j] = s.if /\ p[k] = r.if
  BY <1>2, <1>4, <1>5, Zenon DEF Before
<1> HIDE DEF p
<1>8. PICK j, k \in DOMAIN p : j < k /\ p[j] = r.if /\ p[k] = s.if
  BY <1>6, Zenon
<1>9. PICK l, m \in DOMAIN p : l < m /\ p[l] = s.if /\ p[m] = r.if
  BY <1>7, Zenon
<1>10. j = m /\ k = l
  BY <1>1, <1>8, <1>9, Zenon
<1> QED
  BY <1>1, <1>8, <1>9, <1>10

(* The order does not depend on the file rdeps of the next generation.     *)
LEMMA PathSame ==
  ASSUME UNCHANGED <<tree, exits, next, curr>>,
         \A g \in Gen : g # next => rdeps'[g] = rdeps[g]
  PROVE  /\ \A kind : Path(kind)' = Path(kind)
         /\ \A s : Exists(s)' <=> Exists(s)
         /\ \A r, s : Before(r, s)' <=> Before(r, s)
<1>1. ASSUME NEW kind PROVE Path(kind)' = Path(kind)
  BY Zenon DEF Path
<1>2. ASSUME NEW s PROVE Exists(s)' <=> Exists(s)
  BY Zenon DEF Exists
<1>3. ASSUME NEW r, NEW s PROVE Before(r, s)' <=> Before(r, s)
  <2>1. Path(s.do)' = Path(s.do)
    BY <1>1, Zenon
  <2> QED
    BY <2>1, Zenon DEF Before
<1> QED
  BY <1>1, <1>2, <1>3, Zenon

(* If nothing else changes then net has run the same scripts.              *)
LEMMA RanSame ==
  ASSUME UNCHANGED <<tree, exits, rdeps, next, curr, at, pos>>
  PROVE  /\ \A s : Ran(s)' <=> Ran(s)
         /\ \A r, s : Before(r, s)' <=> Before(r, s)
<1>1. \A g \in Gen : g # next => rdeps'[g] = rdeps[g]
  BY Zenon
<1>2. /\ \A kind : Path(kind)' = Path(kind)
      /\ \A s : Exists(s)' <=> Exists(s)
      /\ \A r, s : Before(r, s)' <=> Before(r, s)
  BY <1>1, PathSame, Zenon
<1>3. ASSUME NEW s PROVE Ran(s)' <=> Ran(s)
  <2>1. Path(s.do)' = Path(s.do) /\ (Exists(s)' <=> Exists(s))
    BY <1>2, Zenon
  <2> QED
    BY <2>1, Zenon DEF Ran, Past
<1> QED
  BY <1>2, <1>3, Zenon

(* The loop that runs a script.                                            *)
LEMMA ListPath ==
  ASSUME TypeInv, PhaseInv, NEW s \in Lines, at \in 1 .. 6, AtOf(s) = at
  PROVE  /\ s.tool = Action[at]
         /\ s.do = "exit" => at \in 1 .. 3
         /\ s.do = "init" => at \in 4 .. 6
         /\ DOMAIN Path(s.do) # {} => Path(s.do) = List
<1>0. s.tool \in Tool /\ (s.do = "exit" \/ s.do = "init") /\ "exit" # "init"
  <2>1. s.tool \in Tool /\ (s.do = "exit" \/ s.do = "init")
    BY Zenon DEF Lines
  <2> QED
    BY <2>1
<1>1. CASE s.do = "exit"
  <2>1. at = ExitAt[s.tool]
    BY <1>1, Zenon DEF AtOf
  <2>2. at \in 1 .. 3 /\ s.tool = Action[at]
    <3>1. ExitAt[s.tool] \in 1 .. 3 /\ Action[ExitAt[s.tool]] = s.tool
      BY <1>0, AtIs, Zenon
    <3> QED
      BY <2>1, <3>1, Zenon
  <2>3. ~ (at \in 4 .. 6)
    BY <2>2
  <2>4. ASSUME DOMAIN Path("exit") # {} PROVE Path("exit") = List
    <3>1. DOMAIN << >> = {}
      OBVIOUS
    <3>2. Path("exit") = rdeps[curr] /\ rdeps[curr] # None
      BY <1>0, <2>4, <3>1, Zenon DEF Path
    <3> QED
      BY <2>3, <3>2, Zenon DEF List, Entering
  <2> QED
    BY <1>0, <1>1, <2>2, <2>4, Zenon
<1>2. CASE s.do = "init"
  <2>1. at = InitAt[s.tool]
    BY <1>0, <1>2, Zenon DEF AtOf
  <2>2. at \in 4 .. 6 /\ s.tool = Action[at]
    <3>1. InitAt[s.tool] \in 4 .. 6 /\ Action[InitAt[s.tool]] = s.tool
      BY <1>0, AtIs, Zenon
    <3> QED
      BY <2>1, <3>1, Zenon
  <2> QED
    BY <1>0, <1>2, <2>2, Zenon DEF List, Entering, Path
<1> QED
  BY <1>0, <1>1, <1>2, Zenon

(* When a script is run.                                                   *)
LEMMA AtOfType ==
  ASSUME NEW s \in Lines
  PROVE  /\ AtOf(s) \in 1 .. 6
         /\ s.do = "exit" => AtOf(s) \in 1 .. 3 /\ AtOf(s) = ExitAt[s.tool]
         /\ s.do = "init" => AtOf(s) \in 4 .. 6 /\ AtOf(s) = InitAt[s.tool]
<1>1. s.tool \in Tool /\ (s.do = "exit" \/ s.do = "init")
  BY Zenon DEF Lines
<1>2. ExitAt[s.tool] \in 1 .. 3 /\ InitAt[s.tool] \in 4 .. 6
  BY <1>1, AtIs, Zenon
<1>3. /\ s.do = "exit" => AtOf(s) = ExitAt[s.tool]
      /\ s.do = "init" => AtOf(s) = InitAt[s.tool]
  BY DEF AtOf
<1> HIDE DEF AtOf, ExitAt, InitAt
<1> QED
  BY <1>1, <1>2, <1>3

(* At the end of a loop, and after the loops, net has run the same ones.   *)
LEMMA RanEnd ==
  ASSUME IInv, at \in 1 .. 9, at' = at + 1, pos' = 0, at \in 1 .. 6 => pos = Len(List),
         UNCHANGED <<tree, exits, next, curr>>,
         \A g \in Gen : g # next => rdeps'[g] = rdeps[g]
  PROVE  \A s \in Lines : Ran(s)' <=> Ran(s)
<1> TAKE s \in Lines
<1> DEFINE p == Path(s.do)
           a == AtOf(s)
<1>0. at # 0 /\ at' # 0 /\ pos \in Nat
  BY DEF IInv, TypeInv
<1>1. Path(s.do)' = p /\ (Exists(s)' <=> Exists(s)) /\ a \in 1 .. 6
  BY PathSame, AtOfType, Zenon
<1>2. s.do \in {"exit", "init"}
  BY Zenon DEF Lines
<1>3. DOMAIN p = 1 .. Len(p) /\ Len(p) \in Nat
  BY <1>0, <1>2, PathType, Zenon DEF IInv
<1>4. at = a /\ DOMAIN p # {} => pos = Len(p)
  <2>1. ASSUME at = a, DOMAIN p # {} PROVE pos = Len(p)
    <3>1. at \in 1 .. 6
      BY <1>1, <2>1, Zenon
    <3>2. p = List
      BY <2>1, <3>1, ListPath, Zenon DEF IInv
    <3> QED
      BY <3>1, <3>2, Zenon
  <2> QED
    BY <2>1, Zenon
<1>5. AtOf(s)' = a
  BY Zenon DEF AtOf, ExitAt, InitAt
<1> HIDE DEF p, a
<1>6. ASSUME NEW k \in DOMAIN p PROVE Past(a, k)' <=> Past(a, k)
  <2>1. k \in 1 .. Len(p) /\ (at = a => pos = Len(p))
    BY <1>3, <1>4, Zenon
  <2>2. at = a => k <= pos
    BY <1>3, <2>1
  <2>3. 1 <= k /\ k \in Nat
    BY <1>3, <2>1
  <2>4. ASSUME NEW b \in 1 .. 9, NEW c \in 1 .. 6
        PROVE  b + 1 > c \/ (b + 1 = c /\ k <= 0) <=> b > c \/ b = c
    BY <2>3
  <2>5. Past(a, k)' <=> at > a \/ at = a
    BY <1>1, <2>4, Zenon DEF Past
  <2> QED
    BY <2>2, <2>5, Zenon DEF Past
<1> QED
  BY <1>0, <1>1, <1>5, <1>6, Zenon DEF Ran, p, a

(* A pass of a loop runs the next script, if there is one.                 *)
Turn ==
  IF at \in 1 .. 3 THEN Script(curr, "exit", Action[at], List[pos + 1])
  ELSE Script(next, "init", Action[at], List[pos + 1])

(* The script of a pass, if it exists.                                     *)
LEMMA TurnIs ==
  ASSUME IInv, at \in 1 .. 6, pos < Len(List)
  PROVE  /\ Turn \in Lines /\ AtOf(Turn) = at /\ Turn.tool = Action[at]
         /\ Turn.if = List[pos + 1] /\ pos + 1 \in DOMAIN List
         /\ Exists(Turn) => Path(Turn.do) = List
<1>0. at \in 1 .. 3 \/ (at \in 4 .. 6 /\ ~ (at \in 1 .. 3))
  <2>1. \A b \in 1 .. 6 : b \in 1 .. 3 \/ (b \in 4 .. 6 /\ ~ (b \in 1 .. 3))
    OBVIOUS
  <2> QED
    BY <2>1, Zenon
<1>1. pos + 1 \in DOMAIN List
  BY PassScript, Zenon DEF IInv
<1>2. CASE at \in 1 .. 3
  <2>1. Turn \in Lines /\ Turn = Script(curr, "exit", Action[at], List[pos + 1])
    BY <1>2, PassScript, Zenon DEF IInv, Turn
  <2>2. /\ Turn.do = "exit" /\ Turn.tool = Action[at] /\ Turn.if = List[pos + 1]
        /\ Turn.gen = curr
    BY <2>1, Zenon DEF Script
  <2>3. AtOf(Turn) = at
    <3>1. AtOf(Turn) = ExitAt[Turn.tool]
      BY <2>1, <2>2, AtOfType, Zenon
    <3>2. ExitAt[Action[at]] = at
      BY <1>2, AtIs, Zenon
    <3> QED
      BY <2>2, <3>1, <3>2, Zenon
  <2>4. ASSUME Exists(Turn) PROVE Path("exit") = List
    <3>1. "exit" # "init"
      OBVIOUS
    <3>2. curr \in Gen /\ exits[curr] # {}
      BY <2>2, <2>4, <3>1, Zenon DEF Exists
    <3>3. curr # next
      BY <3>2, Zenon DEF IInv, PhaseInv
    <3>4. ~ (at \in 4 .. 6)
      BY <1>2
    <3>5. rdeps[curr] # None
      <4>1. DOMAIN << >> = {}
        OBVIOUS
      <4>2. rdeps[curr] = None => List = << >>
        BY <3>4, Zenon DEF List, Entering
      <4> QED
        BY <1>1, <4>1, <4>2, Zenon
    <3> QED
      BY <3>1, <3>2, <3>3, <3>4, <3>5, Zenon DEF Path, List, Entering
  <2> QED
    BY <1>1, <2>1, <2>2, <2>3, <2>4, Zenon
<1>3. CASE at \in 4 .. 6 /\ ~ (at \in 1 .. 3)
  <2>1. Turn \in Lines /\ Turn = Script(next, "init", Action[at], List[pos + 1])
    BY <1>3, PassScript, Zenon DEF IInv, Turn
  <2>2. /\ Turn.do = "init" /\ Turn.tool = Action[at] /\ Turn.if = List[pos + 1]
        /\ Turn.gen = next
    BY <2>1, Zenon DEF Script
  <2>3. AtOf(Turn) = at
    <3>1. AtOf(Turn) = InitAt[Turn.tool]
      BY <2>1, <2>2, AtOfType, Zenon
    <3>2. InitAt[Action[at]] = at
      BY <1>3, AtIs, Zenon
    <3> QED
      BY <2>2, <3>1, <3>2, Zenon
  <2>4. Path("init") = List
    BY <1>3, Zenon DEF Path, List, Entering
  <2> QED
    BY <1>1, <2>1, <2>2, <2>3, <2>4, Zenon
<1> QED
  BY <1>0, <1>2, <1>3, Zenon

(* A pass runs that script, after all others of the same tool.             *)
LEMMA RanPass ==
  ASSUME IInv, at \in 1 .. 6, pos < Len(List), pos' = pos + 1,
         UNCHANGED <<tree, exits, rdeps, next, curr, at>>
  PROVE  /\ \A s \in Lines : Ran(s)' <=> Ran(s) \/ (s = Turn /\ Exists(Turn))
         /\ \A s \in Lines : Ran(s) /\ s.tool = Turn.tool /\ Exists(Turn) => Before(s, Turn)
<1>0. at # 0 /\ pos \in Nat
  BY DEF IInv, TypeInv
<1>a. /\ Turn \in Lines /\ AtOf(Turn) = at /\ Turn.tool = Action[at]
      /\ Turn.if = List[pos + 1] /\ pos + 1 \in DOMAIN List
      /\ Exists(Turn) => Path(Turn.do) = List
  BY TurnIs, Zenon
<1>b. \A g \in Gen : g # next => rdeps'[g] = rdeps[g]
  BY Zenon
<1>1. ASSUME NEW s \in Lines
      PROVE  /\ Ran(s)' <=> Ran(s) \/ (s = Turn /\ Exists(Turn))
             /\ Ran(s) /\ s.tool = Turn.tool /\ Exists(Turn) => Before(s, Turn)
  <2> DEFINE p == Path(s.do)
             a == AtOf(s)
  <2>1. Path(s.do)' = p /\ (Exists(s)' <=> Exists(s)) /\ a \in 1 .. 6
    BY <1>b, PathSame, AtOfType, Zenon
  <2>2. s.do \in {"exit", "init"}
    BY Zenon DEF Lines
  <2>3. DOMAIN p = 1 .. Len(p) /\ Len(p) \in Nat
    BY <1>0, <2>2, PathType, Zenon DEF IInv
  <2>4. AtOf(s)' = a
    BY Zenon DEF AtOf, ExitAt, InitAt
  <2>5. ASSUME NEW k \in DOMAIN p
        PROVE  Past(a, k)' <=> Past(a, k) \/ (a = at /\ k = pos + 1)
    <3> HIDE DEF p, a
    <3> QED
      BY <1>0, <2>1, <2>3 DEF Past
  <2>6. ASSUME a = at, pos + 1 \in DOMAIN p, p[pos + 1] = s.if, Exists(s)
        PROVE  s = Turn /\ Exists(Turn)
    <3>1. /\ s.tool = Action[at] /\ p = List
          /\ s.do = "exit" => at \in 1 .. 3
          /\ s.do = "init" => at \in 4 .. 6
      BY <2>6, ListPath, Zenon DEF IInv
    <3>2. "exit" # "init" /\ (at \in 4 .. 6 => ~ (at \in 1 .. 3))
      OBVIOUS
    <3>3. s = [gen |-> s.gen, do |-> s.do, tool |-> s.tool, if |-> s.if]
      BY DEF Lines
    <3>4. s = Turn
      BY <2>2, <2>6, <3>1, <3>2, <3>3, Zenon DEF Turn, Script, Exists
    <3> QED
      BY <2>6, <3>4, Zenon
  <2>7. ASSUME s = Turn, Exists(Turn)
        PROVE  Exists(s) /\ a = at /\ pos + 1 \in DOMAIN p /\ p[pos + 1] = s.if
    BY <1>a, <2>7, Zenon
  <2>8. Ran(s)' <=> Ran(s) \/ (s = Turn /\ Exists(Turn))
    <3>1. Ran(s)' <=> Exists(s) /\ \E k \in DOMAIN p : p[k] = s.if /\ Past(a, k)'
      BY <1>0, <2>1, <2>4, Zenon DEF Ran
    <3>2. Ran(s) <=> Exists(s) /\ \E k \in DOMAIN p : p[k] = s.if /\ Past(a, k)
      BY <1>0, Zenon DEF Ran
    <3> HIDE DEF p, a
    <3> QED
      BY <2>5, <2>6, <2>7, <3>1, <3>2, Zenon
  <2>9. ASSUME Ran(s), s.tool = Turn.tool, Exists(Turn) PROVE Before(s, Turn)
    <3>1. PICK k \in DOMAIN p : p[k] = s.if /\ Past(a, k)
      BY <2>9, Zenon DEF Ran
    <3>2. a <= at /\ k \in 1 .. Len(p)
      BY <2>1, <2>3, <3>1 DEF Past
    <3>3. CASE s.do = Turn.do
      <4>1. a = at
        BY <1>a, <2>9, <3>3 DEF AtOf
      <4>2. k < pos + 1
        BY <1>0, <3>1, <3>2, <4>1 DEF Past
      <4>3. p = List
        BY <1>a, <2>9, <3>3, Zenon
      <4> QED
        BY <1>a, <3>1, <3>3, <4>2, <4>3, Zenon DEF Before
    <3>4. CASE s.do # Turn.do
      <4>1. Turn.do \in {"exit", "init"}
        BY <1>a, Zenon DEF Lines
      <4>2. ~ (s.do = "init" /\ Turn.do = "exit")
        <5>1. s.do = "init" => a \in 4 .. 6
          BY AtOfType, Zenon
        <5>2. Turn.do = "exit" => at \in 1 .. 3
          BY <1>a, AtOfType, Zenon
        <5> HIDE DEF a
        <5> QED
          BY <3>2, <5>1, <5>2
      <4> QED
        BY <2>2, <3>4, <4>1, <4>2, Zenon DEF Before
    <3> QED
      BY <3>3, <3>4, Zenon
  <2> QED
    BY <2>8, <2>9, Zenon
<1> QED
  BY <1>1, Zenon

-----------------------------------------------------------------------------
(***************************************************************************)
(* The pipes.                                                              *)
(***************************************************************************)

(* What a pipe is.                                                         *)
LEMMA PipeIs ==
  ASSUME TypeInv, NEW t \in Pipe
  PROVE  /\ pipe[t] \in Seq(Lines) /\ Len(pipe[t]) \in Nat
         /\ DOMAIN pipe[t] = 1 .. Len(pipe[t])
         /\ \A k \in DOMAIN pipe[t] : pipe[t][k] \in Lines
<1>1. pipe[t] \in Seq(Lines)
  BY Zenon DEF TypeInv
<1> HIDE DEF Lines
<1> QED
  BY <1>1

(* The pipes, if net has run the same scripts.                             *)
LEMMA PipeKept ==
  ASSUME IInv, \A s \in Lines : Ran(s)' <=> Ran(s),
         \A r, s : Before(r, s)' <=> Before(r, s),
         UNCHANGED <<pipe, dead, executed>>,
         \A t \in Pipe : at' > InitAt[t] => pipe[t] = << >>
  PROVE  PipeInv'
<1> USE DEF IInv
<1>1. \A s \in executed : s \in Lines /\ Ran(s)
  BY Zenon DEF TypeInv, PipeInv
<1>2. \A t \in Pipe : \A k \in DOMAIN pipe[t] :
        pipe[t][k] \in Lines /\ pipe[t][k].tool = t /\ Ran(pipe[t][k])
  BY PipeIs, Zenon DEF PipeInv
<1>3. \A s \in executed' : Ran(s)'
  BY <1>1, Zenon
<1>4. \A t \in Pipe : \A k \in DOMAIN pipe[t]' : pipe'[t][k].tool = t /\ Ran(pipe[t][k])'
  BY <1>2, Zenon
<1>5. \A s \in Lines : Ran(s)' => \/ s \in executed' \/ s.tool \in dead'
                                  \/ s.tool \in Pipe /\ s \in Range(pipe[s.tool])'
  BY Zenon DEF PipeInv
<1>6. \A s \in executed', r \in Lines :
        Ran(r)' /\ r.tool = s.tool /\ Before(r, s)' => r \in executed'
  BY Zenon DEF PipeInv
<1>7. \A t \in Pipe : \A j, k \in DOMAIN pipe'[t] :
        j < k => Before(pipe[t][j], pipe[t][k])'
  BY Zenon DEF PipeInv
<1> QED
  BY <1>3, <1>4, <1>5, <1>6, <1>7, Zenon DEF PipeInv, InitAt

(* The pipes, if net has not run any.                                      *)
LEMMA PipeNone ==
  ASSUME \A s \in Lines : ~Ran(s)', executed' = {}, \A t \in Pipe : pipe'[t] = << >>
  PROVE  PipeInv'
<1>1. DOMAIN << >> = {}
  OBVIOUS
<1> QED
  BY <1>1, Zenon DEF PipeInv

(* A script that is run after all others of the tool.                      *)
LEMMA PipeRuns ==
  ASSUME IInv, at # 0, NEW n \in Lines, Runs(n), UNCHANGED <<at, dead>>,
         \A s \in Lines : Ran(s)' <=> Ran(s) \/ s = n,
         \A r, s : Before(r, s)' <=> Before(r, s),
         \A s \in Lines : Ran(s) /\ s.tool = n.tool => Before(s, n),
         ~ (at > InitAt[n.tool])
  PROVE  PipeInv'
<1> USE DEF IInv
<1>1. \A s \in executed : s \in Lines /\ Ran(s)
  BY Zenon DEF TypeInv, PipeInv
<1>2. \A t \in Pipe : \A k \in DOMAIN pipe[t] :
        pipe[t][k] \in Lines /\ pipe[t][k].tool = t /\ Ran(pipe[t][k])
  BY PipeIs, Zenon DEF PipeInv
<1>3. CASE n.tool \in Pipe
  <2> DEFINE t0 == n.tool
             q == pipe[t0]
             m == Len(q)
  <2>1. pipe' = [pipe EXCEPT ![t0] = Append(q, n)] /\ executed' = executed
    BY <1>3, Zenon DEF Runs
  <2>2. pipe'[t0] = Append(q, n) /\ \A t \in Pipe : t # t0 => pipe'[t] = pipe[t]
    BY <1>3, <2>1, Zenon DEF TypeInv
  <2>3. q \in Seq(Lines) /\ m \in Nat /\ DOMAIN q = 1 .. m
    BY <1>3, PipeIs, Zenon
  <2>4. /\ DOMAIN Append(q, n) = 1 .. m + 1 /\ Append(q, n)[m + 1] = n
        /\ \A k \in 1 .. m : Append(q, n)[k] = q[k]
    <3> HIDE DEF Lines, q
    <3> QED
      BY <2>3
  <2>5. /\ \A k \in 1 .. m + 1 : k \in 1 .. m \/ k = m + 1
        /\ \A k \in 1 .. m : k \in 1 .. m + 1
        /\ m + 1 \in 1 .. m + 1
        /\ \A k \in 1 .. m + 1 : ~ (m + 1 < k)
    BY <2>3
  <2> HIDE DEF m
  <2>6. \A s \in executed' : Ran(s)'
    BY <1>1, <2>1, Zenon
  <2>7. ASSUME NEW t \in Pipe, NEW k \in DOMAIN pipe'[t]
        PROVE  pipe'[t][k].tool = t /\ Ran(pipe[t][k])'
    <3>1. CASE t # t0
      <4>1. pipe'[t] = pipe[t]
        BY <2>2, <3>1, Zenon
      <4> QED
        BY <1>2, <2>7, <4>1, Zenon
    <3>2. CASE t = t0 /\ k \in 1 .. m
      <4>1. pipe'[t][k] = q[k] /\ q[k] \in Lines /\ q[k].tool = t /\ Ran(q[k])
        BY <1>2, <2>2, <2>3, <2>4, <3>2, Zenon
      <4> HIDE DEF q
      <4> QED
        BY <4>1, Zenon
    <3>3. CASE t = t0 /\ k = m + 1
      <4>1. pipe'[t][k] = n
        BY <2>2, <2>4, <3>3, Zenon
      <4> QED
        BY <3>3, <4>1, Zenon
    <3> QED
      BY <2>2, <2>4, <2>5, <2>7, <3>1, <3>2, <3>3, Zenon
  <2>8. ASSUME NEW s \in Lines, Ran(s)'
        PROVE  \/ s \in executed' \/ s.tool \in dead'
               \/ s.tool \in Pipe /\ s \in Range(pipe[s.tool])'
    <3>1. CASE s = n
      <4>1. s \in Range(pipe'[s.tool])
        BY <2>2, <2>4, <2>5, <3>1 DEF Range
      <4> QED
        BY <1>3, <3>1, <4>1, Zenon
    <3>2. CASE s # n /\ s.tool \in Pipe /\ s \in Range(pipe[s.tool])
      <4>1. CASE s.tool # t0
        <5>1. pipe'[s.tool] = pipe[s.tool]
          BY <2>2, <3>2, <4>1, Zenon
        <5> QED
          BY <3>2, <5>1, Zenon
      <4>2. CASE s.tool = t0
        <5>1. PICK k \in DOMAIN q : q[k] = s
          BY <3>2, <4>2 DEF Range
        <5>2. k \in DOMAIN pipe'[t0] /\ pipe'[t0][k] = s
          BY <2>2, <2>3, <2>4, <2>5, <5>1, Zenon
        <5>3. s \in Range(pipe'[t0])
          BY <5>2, Zenon DEF Range
        <5> QED
          BY <3>2, <4>2, <5>3, Zenon
      <4> QED
        BY <4>1, <4>2, Zenon
    <3>3. s # n => Ran(s)
      BY <2>8, Zenon
    <3> QED
      BY <2>1, <3>1, <3>2, <3>3, Zenon DEF PipeInv
  <2>9. ASSUME NEW s \in executed', NEW r \in Lines, Ran(r)', r.tool = s.tool, Before(r, s)'
        PROVE  r \in executed'
    <3>1. s \in executed /\ s \in Lines /\ Ran(s) /\ Before(r, s)
      BY <1>1, <2>1, <2>9, Zenon
    <3>2. r # n
      <4>1. SUFFICES ASSUME r = n PROVE FALSE
        BY Zenon
      <4>2. Before(s, r)
        BY <2>9, <3>1, <4>1, Zenon
      <4> QED
        BY <3>1, <4>2, BeforeIs, Zenon
    <3> QED
      BY <2>1, <2>9, <3>1, <3>2, Zenon DEF PipeInv
  <2>10. ASSUME NEW t \in Pipe, NEW j \in DOMAIN pipe'[t], NEW k \in DOMAIN pipe'[t], j < k
         PROVE  Before(pipe[t][j], pipe[t][k])'
    <3>1. CASE t # t0
      <4>1. pipe'[t] = pipe[t]
        BY <2>2, <3>1, Zenon
      <4>2. Before(pipe[t][j], pipe[t][k])
        BY <2>10, <4>1, Zenon DEF PipeInv
      <4> QED
        BY <4>1, <4>2, Zenon
    <3>2. CASE t = t0
      <4>1. j \in 1 .. m + 1 /\ k \in 1 .. m + 1
        BY <2>2, <2>4, <2>10, <3>2, Zenon
      <4>2. j # m + 1
        BY <2>5, <2>10, <4>1, Zenon
      <4>3. j \in 1 .. m /\ j \in DOMAIN q
        BY <2>3, <2>5, <4>1, <4>2, Zenon
      <4>4. pipe'[t][j] = q[j] /\ q[j] \in Lines /\ Ran(q[j]) /\ q[j].tool = t0
        BY <1>2, <1>3, <2>2, <2>4, <3>2, <4>3, Zenon
      <4>5. CASE k = m + 1
        <5>1. pipe'[t][k] = n
          BY <2>2, <2>4, <3>2, <4>5, Zenon
        <5>2. Before(q[j], n)
          BY <4>4, Zenon
        <5> HIDE DEF q
        <5> QED
          BY <4>4, <5>1, <5>2, Zenon
      <4>6. CASE k \in 1 .. m
        <5>1. pipe'[t][k] = q[k] /\ k \in DOMAIN q
          BY <2>2, <2>3, <2>4, <3>2, <4>6, Zenon
        <5>2. Before(q[j], q[k])
          BY <1>3, <2>10, <4>3, <5>1, Zenon DEF PipeInv
        <5> HIDE DEF q
        <5> QED
          BY <4>4, <5>1, <5>2, Zenon
      <4> QED
        BY <2>5, <4>1, <4>5, <4>6, Zenon
    <3> QED
      BY <3>1, <3>2, Zenon
  <2>11. \A t \in Pipe : at' > InitAt[t] => pipe'[t] = << >>
    <3>1. \A t \in Pipe : at > InitAt[t] => t # t0 /\ pipe[t] = << >>
      BY Zenon DEF PipeInv
    <3> QED
      BY <2>2, <3>1, Zenon
  <2> QED
    BY <2>6, <2>7, <2>8, <2>9, <2>10, <2>11, Zenon DEF PipeInv, InitAt
<1>4. CASE n.tool \notin Pipe
  <2>1. executed' = executed \cup {n} /\ pipe' = pipe
    BY <1>4, Zenon DEF Runs
  <2>2. \A s \in executed' : Ran(s)'
    BY <1>1, <2>1, Zenon
  <2>3. \A t \in Pipe : \A k \in DOMAIN pipe'[t] : pipe'[t][k].tool = t /\ Ran(pipe[t][k])'
    BY <1>2, <2>1, Zenon
  <2>4. \A s \in Lines : Ran(s)' => \/ s \in executed' \/ s.tool \in dead'
                                    \/ s.tool \in Pipe /\ s \in Range(pipe[s.tool])'
    BY <2>1, Zenon DEF PipeInv
  <2>5. ASSUME NEW s \in executed', NEW r \in Lines, Ran(r)', r.tool = s.tool, Before(r, s)'
        PROVE  r \in executed'
    <3>1. CASE r = n
      BY <2>1, <3>1, Zenon
    <3>2. CASE r # n /\ s \in executed
      BY <2>1, <2>5, <3>2, Zenon DEF PipeInv
    <3>3. CASE r # n /\ s = n
      <4>1. Ran(r) /\ r.tool \notin Pipe /\ r.tool \notin dead
        BY <1>4, <2>5, <3>3, Zenon DEF TypeInv
      <4> QED
        BY <2>1, <4>1, Zenon DEF PipeInv
    <3> QED
      BY <2>1, <3>1, <3>2, <3>3, Zenon
  <2>6. \A t \in Pipe : \A j, k \in DOMAIN pipe'[t] : j < k => Before(pipe[t][j], pipe[t][k])'
    BY <2>1, Zenon DEF PipeInv
  <2>7. \A t \in Pipe : at' > InitAt[t] => pipe'[t] = << >>
    BY <2>1, Zenon DEF PipeInv
  <2> QED
    BY <2>2, <2>3, <2>4, <2>5, <2>6, <2>7, Zenon DEF PipeInv, InitAt
<1> QED
  BY <1>3, <1>4, Zenon

(* A process takes the line that comes before all others.                  *)
LEMMA PipeExecute ==
  ASSUME IInv, NEW t0 \in Pipe, Execute(t0)
  PROVE  PipeInv'
<1> USE DEF IInv
<1> DEFINE q == pipe[t0]
           h == Head(q)
           m == Len(q)
<1>0. /\ at # 0 /\ t0 \notin dead /\ q # << >> /\ executed' = executed \cup {h}
      /\ pipe' = [pipe EXCEPT ![t0] = Tail(q)] /\ UNCHANGED <<at, dead>>
      /\ UNCHANGED <<tree, exits, rdeps, next, curr, at, pos>>
  BY Zenon DEF Execute, Idle, dirs
<1>a. /\ \A s : Ran(s)' <=> Ran(s)
      /\ \A r, s : Before(r, s)' <=> Before(r, s)
  BY <1>0, RanSame, Zenon
<1>1. \A s \in executed : s \in Lines /\ Ran(s)
  BY Zenon DEF TypeInv, PipeInv
<1>2. \A t \in Pipe : \A k \in DOMAIN pipe[t] :
        pipe[t][k] \in Lines /\ pipe[t][k].tool = t /\ Ran(pipe[t][k])
  BY PipeIs, Zenon DEF PipeInv
<1>3. pipe'[t0] = Tail(q) /\ \A t \in Pipe : t # t0 => pipe'[t] = pipe[t]
  BY <1>0, Zenon DEF TypeInv
<1>4. q \in Seq(Lines) /\ m \in Nat /\ DOMAIN q = 1 .. m
  BY PipeIs, Zenon
<1>5. /\ h = q[1] /\ 1 \in DOMAIN q
      /\ \A k \in DOMAIN Tail(q) : k + 1 \in DOMAIN q /\ Tail(q)[k] = q[k + 1]
  <2> HIDE DEF Lines, q
  <2> QED
    BY <1>0, <1>4
<1>6. ASSUME NEW k \in DOMAIN q, k # 1
      PROVE  1 < k /\ k - 1 \in DOMAIN Tail(q) /\ Tail(q)[k - 1] = q[k]
  <2> HIDE DEF Lines, q
  <2>1. DOMAIN Tail(q) = 1 .. m - 1
    BY <1>0, <1>4
  <2>2. 1 < k /\ k - 1 \in 1 .. m - 1 /\ (k - 1) + 1 = k
    <3> HIDE DEF m
    <3> QED
      BY <1>4, <1>6
  <2>3. Tail(q)[k - 1] = q[(k - 1) + 1]
    BY <1>5, <2>1, <2>2, Zenon
  <2> QED
    BY <2>1, <2>2, <2>3, Zenon
<1>7. h \in Lines /\ h.tool = t0 /\ Ran(h)
  BY <1>2, <1>5, Zenon
<1> HIDE DEF h, m
<1>8. \A s \in executed' : Ran(s)'
  BY <1>0, <1>1, <1>7, <1>a, Zenon
<1>9. ASSUME NEW t \in Pipe, NEW k \in DOMAIN pipe'[t]
      PROVE  pipe'[t][k].tool = t /\ Ran(pipe[t][k])'
  <2>1. CASE t # t0
    <3>1. pipe'[t] = pipe[t]
      BY <1>3, <2>1, Zenon
    <3> QED
      BY <1>2, <1>9, <1>a, <3>1, Zenon
  <2>2. CASE t = t0
    <3>1. k + 1 \in DOMAIN q /\ pipe'[t][k] = q[k + 1]
      BY <1>3, <1>5, <1>9, <2>2, Zenon
    <3>2. q[k + 1].tool = t0 /\ Ran(q[k + 1])
      BY <1>2, <3>1, Zenon
    <3> HIDE DEF q
    <3> QED
      BY <1>a, <2>2, <3>1, <3>2, Zenon
  <2> QED
    BY <2>1, <2>2, Zenon
<1>10. ASSUME NEW s \in Lines, Ran(s)'
       PROVE  \/ s \in executed' \/ s.tool \in dead'
              \/ s.tool \in Pipe /\ s \in Range(pipe[s.tool])'
  <2>1. CASE s.tool \in Pipe /\ s \in Range(pipe[s.tool])
    <3>1. CASE s.tool # t0
      <4>1. pipe'[s.tool] = pipe[s.tool]
        BY <1>3, <2>1, <3>1, Zenon
      <4> QED
        BY <2>1, <4>1, Zenon
    <3>2. CASE s.tool = t0
      <4>1. PICK k \in DOMAIN q : q[k] = s
        BY <2>1, <3>2 DEF Range
      <4>2. CASE k = 1
        BY <1>0, <1>5, <4>1, <4>2, Zenon
      <4>3. CASE k # 1
        <5>1. k - 1 \in DOMAIN pipe'[t0] /\ pipe'[t0][k - 1] = s
          BY <1>3, <1>6, <4>1, <4>3, Zenon
        <5>2. s \in Range(pipe'[t0])
          BY <5>1, Zenon DEF Range
        <5> QED
          BY <3>2, <5>2, Zenon
      <4> QED
        BY <4>2, <4>3, Zenon
    <3> QED
      BY <3>1, <3>2, Zenon
  <2> QED
    BY <1>0, <1>10, <1>a, <2>1, Zenon DEF PipeInv
<1>11. ASSUME NEW s \in executed', NEW r \in Lines, Ran(r)', r.tool = s.tool, Before(r, s)'
       PROVE  r \in executed'
  <2>1. Ran(r) /\ Before(r, s)
    BY <1>11, <1>a, Zenon
  <2>2. CASE s \in executed
    BY <1>0, <1>11, <2>1, <2>2, Zenon DEF PipeInv
  <2>3. CASE s = h
    <3>1. r \in executed \/ r \in Range(q)
      <4>1. r.tool = t0
        BY <1>7, <1>11, <2>3, Zenon
      <4> QED
        BY <1>0, <2>1, <4>1, Zenon DEF PipeInv
    <3>2. ASSUME r \in Range(q) PROVE r = h
      <4>1. PICK k \in DOMAIN q : q[k] = r
        BY <3>2 DEF Range
      <4>2. SUFFICES ASSUME k # 1 PROVE FALSE
        BY <1>5, <4>1, Zenon
      <4>3. Before(h, r)
        BY <1>5, <1>6, <4>1, <4>2, Zenon DEF PipeInv
      <4> QED
        BY <1>0, <1>7, <2>1, <2>3, <4>3, BeforeIs, Zenon
    <3> QED
      BY <1>0, <3>1, <3>2, Zenon
  <2> QED
    BY <1>0, <2>2, <2>3, Zenon
<1>12. ASSUME NEW t \in Pipe, NEW j \in DOMAIN pipe'[t], NEW k \in DOMAIN pipe'[t], j < k
       PROVE  Before(pipe[t][j], pipe[t][k])'
  <2>1. CASE t # t0
    <3>1. pipe'[t] = pipe[t]
      BY <1>3, <2>1, Zenon
    <3>2. Before(pipe[t][j], pipe[t][k])
      BY <1>12, <3>1, Zenon DEF PipeInv
    <3> QED
      BY <1>a, <3>1, <3>2, Zenon
  <2>2. CASE t = t0
    <3>1. /\ j + 1 \in DOMAIN q /\ pipe'[t][j] = q[j + 1]
          /\ k + 1 \in DOMAIN q /\ pipe'[t][k] = q[k + 1]
      BY <1>3, <1>5, <1>12, <2>2, Zenon
    <3>2. j + 1 < k + 1
      <4>1. DOMAIN Tail(q) = 1 .. Len(Tail(q)) /\ Len(Tail(q)) \in Nat
        <5> HIDE DEF Lines, q
        <5> QED
          BY <1>0, <1>4
      <4>2. j \in 1 .. Len(Tail(q)) /\ k \in 1 .. Len(Tail(q))
        BY <1>3, <1>12, <2>2, <4>1, Zenon
      <4> QED
        BY <1>12, <4>1, <4>2
    <3>3. Before(q[j + 1], q[k + 1])
      BY <3>1, <3>2, Zenon DEF PipeInv
    <3> HIDE DEF q
    <3> QED
      BY <1>a, <3>1, <3>3, Zenon
  <2> QED
    BY <2>1, <2>2, Zenon
<1>13. \A t \in Pipe : at' > InitAt[t] => pipe'[t] = << >>
  <2>1. \A t \in Pipe : at > InitAt[t] => t # t0 /\ pipe[t] = << >>
    BY <1>0, Zenon DEF PipeInv
  <2> QED
    BY <1>0, <1>3, <2>1, Zenon
<1> QED
  BY <1>8, <1>9, <1>10, <1>11, <1>12, <1>13, Zenon DEF PipeInv, InitAt

(* A process stops.                                                        *)
LEMMA PipeFail ==
  ASSUME IInv, NEW t0 \in Pipe, Fail(t0)
  PROVE  PipeInv'
<1> USE DEF IInv
<1>0. /\ pipe' = [pipe EXCEPT ![t0] = << >>] /\ dead' = dead \cup {t0}
      /\ UNCHANGED <<tree, exits, rdeps, next, curr, at, pos>> /\ executed' = executed
  BY Zenon DEF Fail, Idle, dirs
<1>a. /\ \A s : Ran(s)' <=> Ran(s)
      /\ \A r, s : Before(r, s)' <=> Before(r, s)
  BY <1>0, RanSame, Zenon
<1>1. pipe'[t0] = << >> /\ \A t \in Pipe : t # t0 => pipe'[t] = pipe[t]
  BY <1>0, Zenon DEF TypeInv
<1>b. DOMAIN << >> = {}
  OBVIOUS
<1>2. \A s \in executed' : Ran(s)'
  BY <1>0, <1>a, Zenon DEF PipeInv
<1>3. ASSUME NEW t \in Pipe, NEW k \in DOMAIN pipe'[t]
      PROVE  pipe'[t][k].tool = t /\ Ran(pipe[t][k])'
  <2>1. pipe'[t] = pipe[t]
    BY <1>1, <1>3, <1>b, Zenon
  <2>2. pipe[t][k].tool = t /\ Ran(pipe[t][k])
    BY <1>3, <2>1, Zenon DEF PipeInv
  <2> QED
    BY <1>a, <2>1, <2>2, Zenon
<1>4. ASSUME NEW s \in Lines, Ran(s)'
      PROVE  \/ s \in executed' \/ s.tool \in dead'
             \/ s.tool \in Pipe /\ s \in Range(pipe[s.tool])'
  <2>1. CASE s.tool = t0
    BY <1>0, <2>1, Zenon
  <2>2. CASE s.tool # t0
    <3>1. s.tool \in Pipe => pipe'[s.tool] = pipe[s.tool]
      BY <1>1, <2>2, Zenon
    <3> QED
      BY <1>0, <1>4, <1>a, <3>1, Zenon DEF PipeInv
  <2> QED
    BY <2>1, <2>2, Zenon
<1>5. \A s \in executed', r \in Lines :
        Ran(r)' /\ r.tool = s.tool /\ Before(r, s)' => r \in executed'
  BY <1>0, <1>a, Zenon DEF PipeInv
<1>6. ASSUME NEW t \in Pipe, NEW j \in DOMAIN pipe'[t], NEW k \in DOMAIN pipe'[t], j < k
      PROVE  Before(pipe[t][j], pipe[t][k])'
  <2>1. pipe'[t] = pipe[t]
    BY <1>1, <1>6, <1>b, Zenon
  <2>2. Before(pipe[t][j], pipe[t][k])
    BY <1>6, <2>1, Zenon DEF PipeInv
  <2> QED
    BY <1>a, <2>1, <2>2, Zenon
<1>7. \A t \in Pipe : at' > InitAt[t] => pipe'[t] = << >>
  BY <1>0, <1>1, Zenon DEF PipeInv
<1> QED
  BY <1>2, <1>3, <1>4, <1>5, <1>6, <1>7, Zenon DEF PipeInv, InitAt

(* Steps keep the order of scripts, and lose none without a failure.       *)
LEMMA PipeStep ==
  ASSUME IInv, [Next]_vars
  PROVE  PipeInv'
<1> USE DEF IInv
<1>a. \A t \in Pipe : t \in Tool /\ InitAt[t] \in 4 .. 6 /\ Action[InitAt[t]] = t
  <2>1. Pipe \subseteq Tool
    BY Zenon DEF Pipe, Tool
  <2> QED
    BY <2>1, AtIs, Zenon
<1>b. at' = 0 => \A s \in Lines : ~Ran(s)'
  BY Zenon DEF Ran
<1>c. \A t \in Pipe : at > InitAt[t] => pipe[t] = << >>
  BY Zenon DEF PipeInv
<1> HIDE DEF InitAt
<1>1. ASSUME NEW g \in Gen, NEW t \in Trees, NEW leaving \in Leaving, Prepare(g, t, leaving)
      PROVE  PipeInv'
  <2>1. at = 0 /\ UNCHANGED <<at, pipe, executed>>
    BY <1>1, Zenon DEF Prepare, do, Idle
  <2>2. executed' = {} /\ \A u \in Pipe : pipe'[u] = << >>
    BY <2>1, Zenon DEF PhaseInv
  <2> QED
    BY <1>b, <2>1, <2>2, PipeNone, Zenon
<1>2. CASE Start
  <2>1. /\ at = 0 /\ next # None /\ curr' = gen /\ at' = (IF gen = None THEN 4 ELSE 1)
        /\ pos' = 0 /\ UNCHANGED <<tree, exits, rdeps, next, pipe, executed>>
    BY <1>2, Zenon DEF Start, dirs, Idle
  <2>2. executed' = {} /\ \A u \in Pipe : pipe'[u] = << >>
    BY <2>1, Zenon DEF PhaseInv
  <2>3. None \notin Gen /\ "exit" # "init" /\ DOMAIN << >> = {}
    BY NoneAssumption
  <2>4. ASSUME NEW s \in Lines, Ran(s)' PROVE FALSE
    <3> DEFINE p == Path(s.do)'
               a == AtOf(s)
    <3>1. AtOf(s)' = a
      BY Zenon DEF AtOf, ExitAt, InitAt
    <3>2. PICK k \in DOMAIN p : Past(a, k)'
      BY <2>4, <3>1, Zenon DEF Ran
    <3>3. s.do \in {"exit", "init"}
      BY Zenon DEF Lines
    <3>4. /\ a \in 1 .. 6 /\ (s.do = "exit" => a \in 1 .. 3)
          /\ (s.do = "init" => a \in 4 .. 6)
      BY AtOfType, Zenon
    <3> HIDE DEF a
    <3>5. k <= 0
      <4>1. CASE at' = 1
        BY <2>1, <3>2, <3>4, <4>1 DEF Past
      <4>2. CASE at' = 4 /\ s.do = "init"
        BY <2>1, <3>2, <3>4, <4>2 DEF Past
      <4>3. CASE at' = 4 /\ gen = None /\ s.do = "exit"
        <5>1. curr' \notin Gen
          BY <2>1, <2>3, <4>3, Zenon
        <5>2. p = << >>
          BY <2>3, <4>3, <5>1, Zenon DEF Path
        <5> QED
          BY <2>3, <3>2, <5>2, Zenon
      <4> QED
        BY <2>1, <3>3, <4>1, <4>2, <4>3, Zenon
    <3>6. p \in Seq(Interface)
      <4>1. next \in Gen /\ << >> \in Seq(Interface)
        BY <2>1 DEF TypeInv
      <4>2. Order(tree[next]) \in Seq(Interface)
        BY <4>1, NextTree, OrderType, Zenon
      <4>3. curr' \in Gen /\ rdeps[curr'] # None => rdeps[curr'] \in Seq(Interface)
        BY Zenon DEF TypeInv
      <4> QED
        BY <2>1, <4>1, <4>2, <4>3, Zenon DEF Path
    <3> HIDE DEF p, Interface
    <3>7. k \in 1 .. Len(p)
      BY <3>2, <3>6
    <3> QED
      BY <3>5, <3>7
  <2> QED
    BY <2>2, <2>4, PipeNone, Zenon
<1>3. CASE Run \/ Visit
  <2>1. /\ at \in 1 .. 6 /\ pos < Len(List) /\ pos' = pos + 1
        /\ UNCHANGED <<tree, exits, rdeps, next, curr, at>> /\ UNCHANGED dead
    <3>1. Exiting \/ Entering => at \in 1 .. 6
      BY DEF Exiting, Entering
    <3> QED
      BY <1>3, <3>1, Zenon DEF Run, Visit, Pass, dirs
  <2>2. at # 0 /\ \A g \in Gen : g # next => rdeps'[g] = rdeps[g]
    BY <2>1
  <2>3. /\ \A s \in Lines : Ran(s)' <=> Ran(s) \/ (s = Turn /\ Exists(Turn))
        /\ \A s \in Lines : Ran(s) /\ s.tool = Turn.tool /\ Exists(Turn) => Before(s, Turn)
    BY <2>1, RanPass, Zenon
  <2>4. \A r, s : Before(r, s)' <=> Before(r, s)
    BY <2>1, <2>2, PathSame, Zenon
  <2>5. Turn \in Lines /\ Turn.tool = Action[at]
    BY <2>1, TurnIs, Zenon
  <2>6. IF Exists(Turn) THEN Runs(Turn) ELSE UNCHANGED <<pipe, executed>>
    <3>0. "exit" # "init"
      OBVIOUS
    <3>1. CASE Run
      <4> DEFINE s == Script(curr, "exit", Action[at], List[pos + 1])
      <4>1. at \in 1 .. 3
        BY <3>1, Zenon DEF Run, Exiting
      <4>2. Turn = s /\ curr \in Gen
        BY <4>1, Zenon DEF Turn, PhaseInv
      <4>3. s.do = "exit" /\ s.gen = curr
        BY Zenon DEF Script
      <4>4. Exists(Turn) <=> <<s.if, s.tool>> \in exits[curr]
        BY <3>0, <4>2, <4>3, Zenon DEF Exists
      <4>5. IF <<s.if, s.tool>> \in exits[curr] THEN Runs(s) ELSE UNCHANGED <<pipe, executed>>
        BY <3>1, Zenon DEF Run
      <4> HIDE DEF s
      <4> QED
        BY <4>2, <4>4, <4>5, Zenon
    <3>2. CASE Visit
      <4> DEFINE s == Script(next, "init", Action[at], List[pos + 1])
      <4>1. at \in 4 .. 6
        BY <3>2, Zenon DEF Visit, Entering
      <4>2. ~ (at \in 1 .. 3)
        BY <4>1
      <4>3. Turn = s
        BY <4>2, Zenon DEF Turn
      <4>4. s.do = "init" /\ s.gen = next
        BY Zenon DEF Script
      <4>5. Exists(Turn) <=> <<s.if, s.tool>> \in tree[next].init
        BY <4>3, <4>4, Zenon DEF Exists
      <4>6. IF <<s.if, s.tool>> \in tree[next].init THEN Runs(s)
            ELSE UNCHANGED <<pipe, executed>>
        BY <3>2, Zenon DEF Visit
      <4> HIDE DEF s
      <4> QED
        BY <4>3, <4>5, <4>6, Zenon
    <3> QED
      BY <1>3, <3>1, <3>2, Zenon
  <2> HIDE DEF Turn
  <2>7. CASE Exists(Turn)
    <3>1. ~ (at > InitAt[Turn.tool])
      <4>1. at \in 4 .. 6 => InitAt[Action[at]] = at
        BY AtIs, Zenon
      <4>2. at \in 1 .. 3 => InitAt[Action[at]] \in 4 .. 6
        BY AtIs, Zenon
      <4>3. ~ (at > InitAt[Action[at]])
        <5> HIDE DEF Action
        <5> QED
          BY <2>1, <4>1, <4>2
      <4> QED
        BY <2>5, <4>3, Zenon
    <3>2. Runs(Turn)
      BY <2>6, <2>7, Zenon
    <3>3. \A s \in Lines : Ran(s)' <=> Ran(s) \/ s = Turn
      BY <2>3, <2>7, Zenon
    <3>4. \A s \in Lines : Ran(s) /\ s.tool = Turn.tool => Before(s, Turn)
      BY <2>3, <2>7, Zenon
    <3>5. UNCHANGED <<at, dead>>
      BY <2>1, Zenon
    <3> DEFINE n == Turn
    <3>6. n \in Lines
      BY <2>5, Zenon
    <3> QED
      BY <2>2, <2>4, <3>1, <3>2, <3>3, <3>4, <3>5, <3>6, PipeRuns, Zenon
  <2>8. CASE ~Exists(Turn)
    <3>1. UNCHANGED <<pipe, dead, executed>>
      BY <2>1, <2>6, <2>8, Zenon
    <3>2. \A s \in Lines : Ran(s)' <=> Ran(s)
      BY <2>3, <2>8, Zenon
    <3>3. \A t \in Pipe : at' > InitAt[t] => pipe[t] = << >>
      BY <1>c, <2>1, Zenon
    <3> QED
      BY <2>4, <3>1, <3>2, <3>3, PipeKept, Zenon
  <2> QED
    BY <2>7, <2>8, Zenon
<1>4. CASE RunEnd \/ Close \/ SaveRdeps \/ Truncate \/ SaveGen
  <2>1. /\ at' = (IF at = 10 THEN 0 ELSE at + 1) /\ pos' = 0
        /\ UNCHANGED <<tree, exits, next, curr>> /\ UNCHANGED <<pipe, dead, executed>>
    BY <1>4, Zenon
       DEF RunEnd, Close, SaveRdeps, Truncate, SaveGen, Step, dirs
  <2>2. at \in 1 .. 9 /\ (at \in 1 .. 6 => RunEnd \/ Close) /\ (RunEnd => at \in 1 .. 3)
    <3>1. /\ RunEnd => at \in 1 .. 3
          /\ Close => at \in 4 .. 6
          /\ SaveRdeps \/ Truncate \/ SaveGen => at = 7 \/ at = 8 \/ at = 9
      BY Zenon
         DEF RunEnd, Close, SaveRdeps, Truncate, SaveGen, Exiting, Entering
    <3>2. /\ \A b \in 1 .. 3 : b \in 1 .. 9
          /\ \A b \in 4 .. 6 : b \in 1 .. 9
          /\ \A b : b = 7 \/ b = 8 \/ b = 9 => b \in 1 .. 9 /\ ~ (b \in 1 .. 6)
      OBVIOUS
    <3> QED
      BY <1>4, <3>1, <3>2, Zenon
  <2>3. at' = at + 1 /\ at # 0
    BY <2>1, <2>2
  <2>4. at \in 1 .. 6 => pos = Len(List)
    BY <2>2, Zenon DEF RunEnd, Close
  <2>5. \A g \in Gen : g # next => rdeps'[g] = rdeps[g]
    <3>1. rdeps' = rdeps \/ rdeps' = [rdeps EXCEPT ![next] = Reversed(deps[next])]
      BY <1>4, Zenon DEF RunEnd, Close, SaveRdeps, Truncate, SaveGen
    <3> QED
      BY <3>1, Zenon DEF TypeInv
  <2>6. \A s \in Lines : Ran(s)' <=> Ran(s)
    BY <2>1, <2>2, <2>3, <2>4, <2>5, RanEnd, Zenon
  <2>7. \A r, s : Before(r, s)' <=> Before(r, s)
    BY <2>1, <2>5, PathSame, Zenon
  <2>8. ASSUME NEW t \in Pipe, at' > InitAt[t] PROVE pipe[t] = << >>
    <3>1. InitAt[t] \in 4 .. 6 /\ Action[InitAt[t]] = t
      BY <1>a, Zenon
    <3>2. at > InitAt[t] \/ at = InitAt[t]
      BY <2>2, <2>3, <2>8, <3>1
    <3>3. CASE at = InitAt[t]
      <4>1. Action[at] = t
        BY <3>1, <3>3, Zenon
      <4>2. at \in 1 .. 6 /\ ~ (at \in 1 .. 3)
        BY <3>1, <3>3
      <4>3. Close
        BY <2>2, <4>2, Zenon
      <4> QED
        BY <4>1, <4>3, Zenon DEF Close
    <3> QED
      BY <1>c, <3>2, <3>3, Zenon
  <2> QED
    BY <2>1, <2>6, <2>7, <2>8, PipeKept, Zenon
<1>5. CASE RemoveNext
  <2>1. /\ at = 10 /\ at' = (IF at = 10 THEN 0 ELSE at + 1)
        /\ executed' = {} /\ pipe' = pipe
    BY <1>5, Zenon DEF RemoveNext, Step
  <2>2. at' = 0 /\ \A t \in Pipe : at > InitAt[t]
    BY <1>a, <2>1
  <2>3. \A t \in Pipe : pipe'[t] = << >>
    BY <1>c, <2>1, <2>2, Zenon
  <2> QED
    BY <1>b, <2>1, <2>2, <2>3, PipeNone, Zenon
<1>6. CASE Killed
  <2>1. at' = 0 /\ executed' = {} /\ pipe' = [t \in Pipe |-> << >>]
    BY <1>6, Zenon DEF Killed
  <2>2. \A t \in Pipe : pipe'[t] = << >>
    BY <2>1, Zenon
  <2> QED
    BY <1>b, <2>1, <2>2, PipeNone, Zenon
<1>7. ASSUME NEW t \in Pipe, Execute(t) \/ Fail(t) PROVE PipeInv'
  BY <1>7, PipeExecute, PipeFail, Zenon
<1>8. CASE \/ \E a \in Asked : UpStart(a.want, a.names)
           \/ UpCheck \/ UpSet \/ UpEnd \/ UNCHANGED vars
  <2>1. /\ UNCHANGED <<tree, exits, rdeps, next, curr, at, pos>>
        /\ UNCHANGED <<pipe, dead, executed>>
    BY <1>8, Zenon DEF UpStart, UpCheck, UpSet, Up, UpEnd, vars, dirs, do
  <2>2. /\ \A s : Ran(s)' <=> Ran(s)
        /\ \A r, s : Before(r, s)' <=> Before(r, s)
    BY <2>1, RanSame, Zenon
  <2>3. \A t \in Pipe : at' > InitAt[t] => pipe[t] = << >>
    BY <1>c, <2>1, Zenon
  <2> QED
    BY <2>1, <2>2, <2>3, PipeKept, Zenon
<1> QED
  BY <1>1, <1>2, <1>3, <1>4, <1>5, <1>6, <1>7, <1>8, Zenon
     DEF Next, Do, Broken, Kill

-----------------------------------------------------------------------------
(***************************************************************************)
(* The theorems.                                                           *)
(***************************************************************************)

(* The invariant holds initially.                                          *)
LEMMA InitInv ==
  ASSUME Init
  PROVE  IInv
<1>a. None \notin Gen /\ Empty \notin Gen /\ None # Empty
  BY NoneAssumption, Zenon
<1>b. /\ 0 \in Nat /\ 0 \in 0 .. 10 /\ ~ (0 \in 1 .. 3) /\ 0 # 4 /\ ~ (0 \in 5 .. 10)
      /\ ~ (0 \in 8 .. 10)
  OBVIOUS
<1>c. << >> \in Seq(Lines) /\ << >> \in Seq(Interface) /\ DOMAIN << >> = {}
  OBVIOUS
<1>1. TypeInv
  BY <1>a, <1>b, <1>c, Zenon DEF Init, TypeInv
<1>2. PhaseInv
  BY <1>a, <1>b, <1>c, Zenon DEF Init, PhaseInv
<1>3. FilesInv
  BY <1>b, Zenon DEF Init, FilesInv
<1>4. SavedInv
  BY <1>a, <1>b, Zenon DEF Init, SavedInv
<1>5. PipeInv
  BY <1>c, Zenon DEF Init, PipeInv, Ran
<1>6. UpInv
  BY DEF Init, UpInv, NoUp
<1> QED
  BY <1>1, <1>2, <1>3, <1>4, <1>5, <1>6 DEF IInv

(* Steps keep the invariant.                                               *)
LEMMA NextInv ==
  ASSUME IInv, [Next]_vars
  PROVE  IInv'
BY TypeStep, PhaseStep, FilesStep, SavedStep, PipeStep, UpdStep DEF IInv

(* The invariant: what net has run, it has run in the order of its loops;  *)
(* each line was executed, or is in a pipe, or was lost with its process;  *)
(* the files deps and rdeps have the order of dependencies.                *)
THEOREM Inductive == Spec => []IInv
<1>1. Init => IInv
  BY InitInv
<1>2. IInv /\ [Next]_vars => IInv'
  BY NextInv
<1> QED
  BY <1>1, <1>2, PTL DEF Spec

(* What the reverse of the order is.                                       *)
LEMMA RdepsIs ==
  ASSUME NEW t \in Trees
  PROVE  LET r == Reversed(Order(t)) IN
         /\ r \in Seq(Interface) /\ Range(r) = DOMAIN t.deps
         /\ DOMAIN r = 1 .. Len(Order(t)) /\ Len(Order(t)) \in Nat
         /\ \A j, k \in DOMAIN r :
              /\ r[j] = r[k] => j = k
              /\ r[k] \in t.deps[r[j]] => j < k
<1> DEFINE o == Order(t)
           r == Reversed(o)
           n == Len(o)
<1>1. Good(t, o) /\ Range(o) = DOMAIN t.deps
  BY OrderIs, Zenon
<1> HIDE DEF o
<1>2. /\ o \in Seq(Interface) /\ \A j, k \in DOMAIN o : o[j] = o[k] => j = k
      /\ \A k \in DOMAIN o : \A i \in t.deps[o[k]] : \E j \in DOMAIN o : j < k /\ o[j] = i
  BY <1>1, Zenon DEF Good
<1>3. /\ r \in Seq(Interface) /\ DOMAIN r = 1 .. n /\ DOMAIN o = 1 .. n /\ n \in Nat
      /\ \A k \in 1 .. n : /\ n - k + 1 \in 1 .. n
                           /\ r[k] = o[n - k + 1] /\ r[n - k + 1] = o[k]
  BY <1>2, ReverseIs, Zenon
<1> HIDE DEF r, n
<1>4. Range(r) = Range(o)
  <2>1. ASSUME NEW x PROVE (\E k \in DOMAIN r : r[k] = x) <=> (\E k \in DOMAIN o : o[k] = x)
    <3>1. ASSUME NEW k \in DOMAIN r
          PROVE  /\ n - k + 1 \in DOMAIN o /\ o[n - k + 1] = r[k]
                 /\ n - k + 1 \in DOMAIN r /\ r[n - k + 1] = o[k] /\ k \in DOMAIN o
      BY <1>3, <3>1, Zenon
    <3>2. \A k \in DOMAIN r : (\E l \in DOMAIN o : o[l] = r[k]) /\ \E l \in DOMAIN r : r[l] = o[k]
      BY <3>1, Zenon
    <3>3. DOMAIN o = DOMAIN r
      BY <1>3, Zenon
    <3> QED
      BY <3>2, <3>3, Zenon
  <2>2. ASSUME NEW x
        PROVE  /\ x \in Range(r) <=> \E k \in DOMAIN r : r[k] = x
               /\ x \in Range(o) <=> \E k \in DOMAIN o : o[k] = x
    BY DEF Range
  <2>3. \A x : x \in Range(r) <=> x \in Range(o)
    BY <2>1, <2>2, Zenon
  <2> QED
    BY <2>3, Zenon
<1>5. ASSUME NEW j \in DOMAIN r, NEW k \in DOMAIN r
      PROVE  (r[j] = r[k] => j = k) /\ (r[k] \in t.deps[r[j]] => j < k)
  <2> DEFINE a == n - j + 1
             b == n - k + 1
  <2>1. a \in DOMAIN o /\ b \in DOMAIN o /\ r[j] = o[a] /\ r[k] = o[b]
    BY <1>3, <1>5, Zenon
  <2>2. j \in 1 .. n /\ k \in 1 .. n
    BY <1>3, <1>5, Zenon
  <2>3. ASSUME r[j] = r[k] PROVE j = k
    <3>1. a = b
      BY <1>2, <2>1, <2>3, Zenon
    <3> QED
      BY <1>3, <2>2, <3>1
  <2>4. ASSUME r[k] \in t.deps[r[j]] PROVE j < k
    <3> HIDE DEF a, b
    <3>1. PICK i \in DOMAIN o : i < a /\ o[i] = o[b]
      BY <1>2, <2>1, <2>4, Zenon
    <3>2. i = b
      BY <1>2, <2>1, <3>1, Zenon
    <3> QED
      BY <1>3, <2>2, <3>1, <3>2 DEF a, b
  <2> QED
    BY <2>3, <2>4, Zenon
<1> QED
  BY <1>1, <1>3, <1>4, <1>5, Zenon DEF o, r, n

(* The same for the file rdeps.                                            *)
LEMMA RdepsFile ==
  ASSUME IInv, NEW g \in Gen, rdeps[g] # None
  PROVE  /\ tree[g] \in Trees /\ rdeps[g] = Reversed(Order(tree[g]))
         /\ Range(rdeps[g]) = Ifs(g)
         /\ \E n \in Nat : DOMAIN rdeps[g] = 1 .. n
         /\ \A j, k \in DOMAIN rdeps[g] :
              /\ rdeps[g][j] = rdeps[g][k] => j = k
              /\ rdeps[g][k] \in Below(g, rdeps[g][j]) => j < k
<1>1. tree[g] # None
  BY Zenon DEF IInv, PhaseInv
<1>2. tree[g] \in Trees
  BY <1>1, Zenon DEF IInv, TypeInv
<1>3. rdeps[g] = Reversed(Order(tree[g]))
  BY <1>1, Zenon DEF IInv, FilesInv
<1>4. /\ Range(rdeps[g]) = DOMAIN tree[g].deps
      /\ \E n \in Nat : DOMAIN rdeps[g] = 1 .. n
      /\ \A j, k \in DOMAIN rdeps[g] :
           /\ rdeps[g][j] = rdeps[g][k] => j = k
           /\ rdeps[g][k] \in tree[g].deps[rdeps[g][j]] => j < k
  <2> DEFINE t == tree[g]
             r == Reversed(Order(t))
  <2>1. /\ Range(r) = DOMAIN t.deps
        /\ DOMAIN r = 1 .. Len(Order(t)) /\ Len(Order(t)) \in Nat
        /\ \A j, k \in DOMAIN r :
             /\ r[j] = r[k] => j = k
             /\ r[k] \in t.deps[r[j]] => j < k
    BY <1>2, RdepsIs, Zenon
  <2>2. rdeps[g] = r
    BY <1>3, Zenon
  <2> HIDE DEF r
  <2>3. \E n \in Nat : DOMAIN r = 1 .. n
    BY <2>1, Zenon
  <2>4. ASSUME NEW j \in DOMAIN r, NEW k \in DOMAIN r
        PROVE  (r[j] = r[k] => j = k) /\ (r[k] \in t.deps[r[j]] => j < k)
    BY <2>1, <2>4, Zenon
  <2> QED
    BY <2>1, <2>2, <2>3, <2>4
<1> QED
  BY <1>2, <1>3, <1>4, Zenon DEF Ifs, Below

(* The file rdeps has all interfaces once, each before those that it       *)
(* depends on, for every directory without cycles, and it is there for the *)
(* current generation, except if net was killed before it was written:     *)
(* save_rdeps() and the flag of savedep().                                 *)
THEOREM RdepsSavedCorrect == Spec => []RdepsSaved
<1>1. IInv => RdepsSaved
  <2> SUFFICES ASSUME IInv PROVE RdepsSaved
    OBVIOUS
  <2>1. gen \in Gen => Saved(gen)
    BY Zenon DEF IInv, SavedInv
  <2>2. ASSUME NEW g \in Gen, rdeps[g] # None
        PROVE  /\ Range(rdeps[g]) = Ifs(g)
               /\ \A j, k \in DOMAIN rdeps[g] :
                    /\ rdeps[g][j] = rdeps[g][k] => j = k
                    /\ rdeps[g][k] \in Below(g, rdeps[g][j]) => j < k
    BY <2>2, RdepsFile, Zenon
  <2> QED
    BY <2>1, <2>2, Zenon DEF RdepsSaved, Saved
<1> QED
  BY <1>1, Inductive, PTL

(* The scripts that were executed.                                         *)
LEMMA ExecutedIs ==
  ASSUME IInv, NEW s \in executed
  PROVE  /\ s \in Lines /\ Ran(s) /\ at # 0 /\ at \in 1 .. 10
         /\ next \in Gen /\ tree[next] \in Trees
<1>1. s \in Lines /\ Ran(s)
  BY Zenon DEF IInv, TypeInv, PipeInv
<1>2. at # 0
  BY <1>1, Zenon DEF Ran
<1>3. at \in 1 .. 10
  BY <1>2 DEF IInv, TypeInv
<1>4. next \in Gen /\ tree[next] \in Trees
  BY <1>2, NextTree, Zenon DEF IInv, PhaseInv
<1> QED
  BY <1>1, <1>2, <1>3, <1>4, Zenon

(* The script of another interface of the same kind, which comes before.   *)
LEMMA OtherRan ==
  ASSUME IInv, NEW s \in executed, NEW j \in Interface,
         Exists([s EXCEPT !.if = j]),
         NEW k \in DOMAIN Path(s.do), Path(s.do)[k] = s.if, Past(AtOf(s), k),
         NEW m \in DOMAIN Path(s.do), Path(s.do)[m] = j, m < k
  PROVE  [s EXCEPT !.if = j] \in executed
<1> DEFINE o == [s EXCEPT !.if = j]
<1>1. s \in Lines /\ at # 0 /\ at \in 1 .. 10
  BY ExecutedIs, Zenon
<1>2. o \in Lines /\ o.do = s.do /\ o.tool = s.tool /\ o.gen = s.gen /\ o.if = j
  <2>1. o = [gen |-> s.gen, do |-> s.do, tool |-> s.tool, if |-> j]
    BY <1>1 DEF Lines
  <2>2. s.gen \in Gen /\ s.do \in {"exit", "init"} /\ s.tool \in Tool
    BY <1>1, Zenon DEF Lines
  <2> HIDE DEF o
  <2> QED
    BY <2>1, <2>2, Zenon DEF Lines
<1>3. Exists(o)
  BY Zenon
<1> HIDE DEF o
<1>4. AtOf(o) = AtOf(s)
  BY <1>2, Zenon DEF AtOf
<1>5. Past(AtOf(s), m)
  <2>1. s.do \in {"exit", "init"}
    BY <1>1, Zenon DEF Lines
  <2>2. DOMAIN Path(s.do) = 1 .. Len(Path(s.do)) /\ Len(Path(s.do)) \in Nat
    BY <1>1, <2>1, PathType, Zenon DEF IInv
  <2>3. m \in Nat /\ k \in Nat /\ m < k /\ pos \in Nat
    <3> HIDE DEF Path
    <3> QED
      BY <2>2 DEF IInv, TypeInv
  <2>4. k <= pos => m <= pos
    BY <2>3
  <2> QED
    BY <2>4, Zenon DEF Past
<1>6. Ran(o)
  BY <1>1, <1>2, <1>3, <1>4, <1>5, Zenon DEF Ran
<1>7. Before(o, s)
  BY <1>2, Zenon DEF Before
<1>8. o \in executed
  BY <1>2, <1>6, <1>7, Zenon DEF IInv, PipeInv
<1> QED
  BY <1>8, Zenon DEF o

(* Init scripts are executed after those of the interfaces it depends on,  *)
(* exit scripts after those of the interfaces that depend on it, by each   *)
(* tool: the order of deps() and of the file rdeps, and of the lines in a  *)
(* pipe, whatever fails and wherever net was killed before.                *)
THEOREM InOrderCorrect == Spec => []InOrder
<1>1. IInv => InOrder
  <2> SUFFICES ASSUME IInv, NEW s \in executed, NEW j \in Ifs(s.gen)
               PROVE  /\ s.do = "init" /\ j \in Below(s.gen, s.if)
                           /\ <<j, s.tool>> \in tree[s.gen].init
                           => [s EXCEPT !.if = j] \in executed
                      /\ s.do = "exit" /\ s.if \in Below(s.gen, j)
                           /\ <<j, s.tool>> \in exits[s.gen]
                           => [s EXCEPT !.if = j] \in executed
    BY Zenon DEF InOrder
  <2> DEFINE o == [s EXCEPT !.if = j]
  <2>1. s \in Lines /\ Ran(s) /\ next \in Gen /\ tree[next] \in Trees
    BY ExecutedIs, Zenon
  <2>2. o.do = s.do /\ o.tool = s.tool /\ o.gen = s.gen /\ o.if = j /\ "exit" # "init"
    <3>1. o = [gen |-> s.gen, do |-> s.do, tool |-> s.tool, if |-> j]
      BY <2>1 DEF Lines
    <3> HIDE DEF o
    <3> QED
      BY <3>1
  <2>3. PICK k \in DOMAIN Path(s.do) : Path(s.do)[k] = s.if /\ Past(AtOf(s), k)
    BY <2>1, Zenon DEF Ran
  <2>4. ASSUME s.do = "init", j \in Below(s.gen, s.if), <<j, s.tool>> \in tree[s.gen].init
        PROVE  o \in executed
    <3>1. s.gen = next /\ Path(s.do) = Order(tree[next])
      BY <2>1, <2>4, Zenon DEF Ran, Exists, Path
    <3>2. Exists(o)
      BY <2>2, <2>4, <3>1, Zenon DEF Exists
    <3>3. j \in Interface
      <4>1. Ifs(next) \subseteq Interface
        BY <2>1, TreesAssumption, Zenon DEF Ifs
      <4> QED
        BY <3>1, <4>1, Zenon
    <3>4. \E m \in DOMAIN Path(s.do) : m < k /\ Path(s.do)[m] = j
      <4>1. Good(tree[next], Order(tree[next]))
        BY <2>1, OrderIs, Zenon
      <4>2. j \in tree[next].deps[Order(tree[next])[k]]
        BY <2>3, <2>4, <3>1, Zenon DEF Below
      <4> DEFINE p == Order(tree[next])
      <4>3. k \in DOMAIN p /\ Path(s.do) = p
        BY <2>3, <3>1, Zenon
      <4> HIDE DEF p
      <4>4. \A i \in tree[next].deps[p[k]] : \E m \in DOMAIN p : m < k /\ p[m] = i
        BY <4>1, <4>3, Zenon DEF Good, p
      <4> QED
        BY <4>2, <4>3, <4>4, Zenon DEF p
    <3> QED
      BY <2>3, <3>2, <3>3, <3>4, OtherRan, Zenon
  <2>5. ASSUME s.do = "exit", s.if \in Below(s.gen, j), <<j, s.tool>> \in exits[s.gen]
        PROVE  o \in executed
    <3>1. s.gen = curr /\ curr \in Gen
      BY <2>1, <2>2, <2>5, Zenon DEF Ran, Exists
    <3>2. Exists(o)
      BY <2>2, <2>5, <3>1, Zenon DEF Exists
    <3>3. Path(s.do) = rdeps[curr] /\ rdeps[curr] # None
      <4>1. DOMAIN << >> = {} /\ s.do # "init"
        BY <2>5
      <4>2. Path(s.do) # << >>
        BY <2>3, <4>1, Zenon
      <4> QED
        BY <4>1, <4>2, Zenon DEF Path
    <3>4. /\ tree[curr] \in Trees /\ Range(rdeps[curr]) = Ifs(curr)
          /\ \A a, b \in DOMAIN rdeps[curr] :
               rdeps[curr][b] \in Below(curr, rdeps[curr][a]) => a < b
      BY <3>1, <3>3, RdepsFile, Zenon
    <3>5. j \in Interface
      <4>1. Ifs(curr) \subseteq Interface
        BY <3>4, TreesAssumption, Zenon DEF Ifs
      <4> QED
        BY <3>1, <4>1, Zenon
    <3>6. \E m \in DOMAIN rdeps[curr] : rdeps[curr][m] = j
      <4>1. j \in Range(rdeps[curr])
        BY <3>1, <3>4, Zenon
      <4> QED
        BY <4>1 DEF Range
    <3>7. \E m \in DOMAIN Path(s.do) : m < k /\ Path(s.do)[m] = j
      BY <2>3, <2>5, <3>1, <3>3, <3>4, <3>6, Zenon
    <3> QED
      BY <2>3, <3>2, <3>5, <3>7, OtherRan, Zenon
  <2> QED
    BY <2>4, <2>5, Zenon
<1> QED
  BY <1>1, Inductive, PTL

(* Each tool executes the exit scripts before the init scripts: a          *)
(* deactivated generation is done with before activate() starts the same   *)
(* tool, and a pipe keeps the order.                                       *)
THEOREM ExitsFirstCorrect == Spec => []ExitsFirst
<1>1. IInv => ExitsFirst
  <2> SUFFICES ASSUME IInv, NEW s \in executed, s.do = "init", curr # None,
                      NEW i \in Ifs(curr), rdeps[curr] # None, <<i, s.tool>> \in exits[curr]
               PROVE  Script(curr, "exit", s.tool, i) \in executed
    BY Zenon DEF ExitsFirst
  <2> DEFINE e == Script(curr, "exit", s.tool, i)
  <2>1. s \in Lines /\ Ran(s) /\ at # 0 /\ at \in 1 .. 10
    BY ExecutedIs, Zenon
  <2>2. curr \in Gen /\ curr # next
    BY <2>1, Zenon DEF IInv, TypeInv, PhaseInv
  <2>3. tree[curr] \in Trees /\ Range(rdeps[curr]) = Ifs(curr)
    BY <2>2, RdepsFile, Zenon
  <2>4. e.do = "exit" /\ e.gen = curr /\ e.tool = s.tool /\ e.if = i /\ "exit" # "init"
    <3>1. e.do = "exit" /\ e.gen = curr /\ e.tool = s.tool /\ e.if = i
      BY Zenon DEF Script
    <3> HIDE DEF e
    <3> QED
      BY <3>1
  <2>5. e \in Lines
    <3>1. i \in Interface
      BY <2>3, TreesAssumption, Zenon DEF Ifs
    <3>2. s.tool \in Tool
      BY <2>1, Zenon DEF Lines
    <3> QED
      BY <2>2, <3>1, <3>2, Zenon DEF Script, Lines
  <2> HIDE DEF e
  <2>6. \A k : Past(AtOf(e), k)
    <3>1. AtOf(s) \in 4 .. 6 /\ AtOf(e) \in 1 .. 3
      BY <2>1, <2>4, <2>5, AtOfType, Zenon
    <3>2. at > AtOf(s) \/ at = AtOf(s)
      BY <2>1, Zenon DEF Ran, Past
    <3>3. at > AtOf(e)
      <4> HIDE DEF AtOf
      <4> QED
        BY <2>1, <3>1, <3>2
    <3> QED
      BY <3>3, Zenon DEF Past
  <2>7. Exists(e)
    BY <2>2, <2>4, Zenon DEF Exists
  <2>8. \E k \in DOMAIN Path(e.do) : Path(e.do)[k] = e.if
    <3>1. \E k \in DOMAIN rdeps[curr] : rdeps[curr][k] = i
      BY <2>3 DEF Range
    <3> QED
      BY <2>2, <2>4, <3>1, Zenon DEF Path
  <2>9. Ran(e) /\ Before(e, s)
    BY <2>1, <2>4, <2>6, <2>7, <2>8, Zenon DEF Ran, Before
  <2> QED
    BY <2>4, <2>5, <2>9, Zenon DEF IInv, PipeInv, e
<1> QED
  BY <1>1, Inductive, PTL

(* All init scripts have been executed before the file gen is touched,     *)
(* except for those of a tool that has stopped: activate_next() closes the *)
(* pipes, and waits for the processes, before save_gen().                  *)
THEOREM ConfirmedCorrect == Spec => []Confirmed
<1>1. IInv => Confirmed
  <2> SUFFICES ASSUME IInv, at \in 8 .. 10, NEW i \in Ifs(next), NEW t \in Tool \ dead,
                      <<i, t>> \in tree[next].init
               PROVE  Script(next, "init", t, i) \in executed
    BY Zenon DEF Confirmed
  <2> DEFINE n == Script(next, "init", t, i)
  <2>1. at # 0
    OBVIOUS
  <2>2. next \in Gen /\ tree[next] \in Trees
    BY <2>1, NextTree, Zenon DEF IInv, PhaseInv
  <2>3. n.do = "init" /\ n.gen = next /\ n.tool = t /\ n.if = i
    BY Zenon DEF Script
  <2>4. n \in Lines
    <3>1. i \in Interface
      BY <2>2, TreesAssumption, Zenon DEF Ifs
    <3> QED
      BY <2>2, <3>1, Zenon DEF Script, Lines
  <2> HIDE DEF n
  <2>5. \A k : Past(AtOf(n), k)
    <3>1. AtOf(n) \in 1 .. 6
      BY <2>4, AtOfType, Zenon
    <3>2. at > AtOf(n)
      <4> HIDE DEF AtOf
      <4> QED
        BY <3>1
    <3> QED
      BY <3>2, Zenon DEF Past
  <2>6. Exists(n)
    BY <2>3, Zenon DEF Exists
  <2>7. \E k \in DOMAIN Path(n.do) : Path(n.do)[k] = n.if
    <3>1. i \in Range(Order(tree[next]))
      BY <2>2, OrderIs, Zenon DEF Ifs
    <3> DEFINE o == Order(tree[next])
    <3> HIDE DEF o
    <3>2. \E k \in DOMAIN o : o[k] = i
      BY <3>1 DEF Range, o
    <3> QED
      BY <2>3, <3>2, Zenon DEF Path, o
  <2>8. Ran(n)
    BY <2>1, <2>5, <2>6, <2>7, Zenon DEF Ran
  <2>9. t \in Pipe => Range(pipe[t]) = {}
    <3>1. InitAt[t] \in 4 .. 6
      BY AtIs, Zenon
    <3>2. at > InitAt[t]
      BY <3>1
    <3>3. t \in Pipe => pipe[t] = << >>
      BY <3>2, Zenon DEF IInv, PipeInv
    <3>4. Range(<< >>) = {}
      BY DEF Range
    <3> QED
      BY <3>3, <3>4, Zenon
  <2>10. n \in executed
    BY <2>3, <2>4, <2>8, <2>9, Zenon DEF IInv, PipeInv
  <2> QED
    BY <2>10, Zenon DEF n
<1> QED
  BY <1>1, Inductive, PTL

(* An interface stays disabled while "net up" or "net down" works on the   *)
(* same generation: ifupdown() asks for each interface before it sets it.  *)
THEOREM DisabledKeptCorrect == Spec => DisabledKept
<1>1. IInv /\ [Next]_vars =>
        [\A g \in Gen : \A i \in DOMAIN admin[g] :
           admin[g][i] = "disabled" /\ admin'[g][i] # "disabled" => up.gen # g]_vars
  BY DisabledStep, Zenon
<1> QED
  BY <1>1, Inductive, PTL DEF Spec, DisabledKept
=============================================================================

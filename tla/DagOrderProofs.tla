--------------------------- MODULE DagOrderProofs ---------------------------
(***************************************************************************)
(* Proofs about DagOrder, for any set of nodes, any graph and any number   *)
(* of killed processes.                                                    *)
(*                                                                         *)
(* BottomUpValid is not inductive: it says nothing of the walk that is     *)
(* under way.  Walk is what find maintains for every directory it has      *)
(* open: an entry it has finished with is printed, or is the directory it  *)
(* is in at the moment.  Ordered is what has been printed so far.  Files   *)
(* is the protocol between the processes: top-down-order is created only   *)
(* when bottom-up-order is complete, and from then on nothing rewrites it. *)
(***************************************************************************)
EXTENDS DagOrder, SequenceTheorems, TLAPS

Ordered(s) ==
  /\ IsInjective(s)
  /\ \A i \in 1 .. Len(s) : \A m \in deps[s[i]] :
       \E j \in 1 .. i - 1 : s[j] = m

Walk ==
  pc = "find" =>
    /\ bottomUp.there
    /\ ~ topDown.there
    /\ Len(todo) = Len(path) + 1
    /\ \A i \in 1 .. Len(path) : \A m \in deps[path[i]] :
         \/ m \in todo[i + 1]
         \/ m \in ToSet(bottomUp.seq)
         \/ i < Len(path) /\ path[i + 1] = m
    /\ \A n \in Node :
         \/ n \in todo[1]
         \/ n \in ToSet(bottomUp.seq)
         \/ path # << >> /\ path[1] = n

Files ==
  /\ pc \in {"sed", "return"} => bottomUp.there /\ topDown.there
  /\ topDown.there =>
       /\ bottomUp.there
       /\ ToSet(bottomUp.seq) = Node
       /\ topDown.seq = << >> \/ topDown.seq = Reverse(bottomUp.seq)
  /\ ~ topDown.there => topDown.seq = << >>

IInv == TypeOK /\ Ordered(bottomUp.seq) /\ Walk /\ Files

-----------------------------------------------------------------------------
(* What awk adds to its output: the node, unless it is there already.      *)
LEMMA UnseenProperties ==
  ASSUME NEW s \in Seq(Node), NEW n \in Node
  PROVE  /\ Unseen(s, n) \in Seq(Node)
         /\ ToSet(Unseen(s, n)) = ToSet(s) \cup {n}
<1>1. CASE n \in ToSet(s)
  BY <1>1, Zenon DEF Unseen
<1>2. CASE n \notin ToSet(s)
  <2> DEFINE t == Append(s, n)
  <2>1. /\ t \in Seq(Node)
        /\ Len(t) = Len(s) + 1
        /\ \A i \in 1 .. Len(s) : t[i] = s[i]
        /\ t[Len(s) + 1] = n
    OBVIOUS
  <2>2. DOMAIN t = 1 .. Len(s) + 1 /\ DOMAIN s = 1 .. Len(s) /\ Len(s) \in Nat
    BY <2>1
  <2>3. ToSet(t) = ToSet(s) \cup {n}
    <3> HIDE DEF t
    <3>1. ASSUME NEW x \in ToSet(t) PROVE x \in ToSet(s) \cup {n}
      <4>1. PICK i \in 1 .. Len(s) + 1 : x = t[i]
        BY <3>1, <2>2, Zenon DEF ToSet
      <4>2. CASE i = Len(s) + 1
        BY <4>1, <4>2, <2>1
      <4>3. CASE i \in 1 .. Len(s)
        BY <4>1, <4>3, <2>1, <2>2 DEF ToSet
      <4>4. QED
        BY <4>2, <4>3, <2>2
    <3>2. ASSUME NEW x \in ToSet(s) PROVE x \in ToSet(t)
      <4>1. PICK i \in 1 .. Len(s) : x = s[i]
        BY <3>2, <2>2, Zenon DEF ToSet
      <4>2. i \in 1 .. Len(s) + 1 /\ x = t[i]
        BY <4>1, <2>1, <2>2
      <4>3. QED
        BY <4>2, <2>2, Zenon DEF ToSet
    <3>3. n \in ToSet(t)
      <4>1. Len(s) + 1 \in 1 .. Len(s) + 1
        BY <2>2
      <4>2. QED
        BY <4>1, <2>1, <2>2 DEF ToSet
    <3>4. QED
      BY <3>1, <3>2, <3>3, Zenon
  <2>4. QED
    BY <1>2, <2>1, <2>3, Zenon DEF Unseen
<1>3. QED
  BY <1>1, <1>2, Zenon

(* Printing a node whose dependees are all printed keeps the order valid.  *)
LEMMA UnseenOrdered ==
  ASSUME TypeOK, NEW s \in Seq(Node), NEW n \in Node,
         Ordered(s), deps[n] \subseteq ToSet(s)
  PROVE  Ordered(Unseen(s, n))
<1>1. CASE n \in ToSet(s)
  BY <1>1, Zenon DEF Unseen
<1>2. CASE n \notin ToSet(s)
  <2> DEFINE t == Append(s, n)
  <2>1. /\ t \in Seq(Node)
        /\ Len(t) = Len(s) + 1
        /\ \A i \in 1 .. Len(s) : t[i] = s[i]
        /\ t[Len(s) + 1] = n
        /\ Len(s) \in Nat
    OBVIOUS
  <2>2. DOMAIN t = 1 .. Len(s) + 1 /\ DOMAIN s = 1 .. Len(s)
    BY <2>1
  <2> HIDE DEF t
  <2>3. \A i \in 1 .. Len(s) : s[i] # n
    BY <1>2, <2>2, Zenon DEF ToSet
  <2>4. IsInjective(t)
    <3>1. \A a, b \in 1 .. Len(s) : s[a] = s[b] => a = b
      BY <2>2, Zenon DEF Ordered, IsInjective
    <3>2. QED
      BY <3>1, <2>1, <2>2, <2>3 DEF IsInjective
  <2>5. ASSUME NEW i \in 1 .. Len(t), NEW m \in deps[t[i]]
        PROVE  \E j \in 1 .. i - 1 : t[j] = m
    <3>1. CASE i \in 1 .. Len(s)
      <4>1. m \in deps[s[i]]
        BY <2>1, <2>5, <3>1, Zenon
      <4>2. PICK j \in 1 .. i - 1 : s[j] = m
        BY <4>1, <3>1, Zenon DEF Ordered
      <4>3. t[j] = m
        BY <4>2, <3>1, <2>1
      <4>4. QED
        BY <4>3, Zenon
    <3>2. CASE i = Len(s) + 1
      <4>1. m \in ToSet(s)
        BY <2>1, <2>5, <3>2
      <4>2. PICK j \in 1 .. Len(s) : s[j] = m
        BY <4>1, <2>2, Zenon DEF ToSet
      <4>3. j \in 1 .. i - 1 /\ t[j] = m
        BY <4>2, <3>2, <2>1
      <4>4. QED
        BY <4>3, Zenon
    <3>3. QED
      BY <3>1, <3>2, <2>1
  <2>6. Unseen(s, n) = t
    BY <1>2, Zenon DEF Unseen, t
  <2>7. QED
    BY <2>4, <2>5, <2>6 DEF Ordered
<1>3. QED
  BY <1>1, <1>2, Zenon

(* The reverse of a bottom-up order is a top-down order.                   *)
LEMMA ReverseIsTopDown ==
  ASSUME TypeOK, NEW s \in Seq(Node), IsBottomUp(s)
  PROVE  IsTopDown(Reverse(s))
<1> DEFINE r == Reverse(s)
           L == Len(s)
<1>1. /\ L \in Nat
      /\ DOMAIN s = 1 .. L
      /\ DOMAIN r = 1 .. L
      /\ \A i \in 1 .. L : r[i] = s[L - i + 1] /\ L - i + 1 \in 1 .. L
      /\ \A i \in 1 .. L : s[i] = r[L - i + 1]
  BY DEF Reverse
<1> HIDE DEF r, L
<1>2. ToSet(r) = Node
  <2>1. ToSet(s) = Node
    BY Zenon DEF IsBottomUp
  <2>2. ASSUME NEW x \in ToSet(r) PROVE x \in ToSet(s)
    <3>1. PICK i \in 1 .. L : x = r[i]
      BY <2>2, <1>1 DEF ToSet
    <3>2. x = s[L - i + 1] /\ L - i + 1 \in 1 .. L
      BY <3>1, <1>1, Zenon
    <3>3. QED
      BY <3>2, <1>1 DEF ToSet
  <2>3. ASSUME NEW x \in ToSet(s) PROVE x \in ToSet(r)
    <3>1. PICK i \in 1 .. L : x = s[i]
      BY <2>3, <1>1 DEF ToSet
    <3>2. x = r[L - i + 1] /\ L - i + 1 \in 1 .. L
      BY <3>1, <1>1, Zenon
    <3>3. QED
      BY <3>2, <1>1, Zenon DEF ToSet
  <2>4. QED
    BY <2>1, <2>2, <2>3, Zenon
<1>3. \A a, b \in 1 .. L : s[a] = s[b] => a = b
  BY <1>1, Zenon DEF IsBottomUp, IsInjective
<1>4. IsInjective(r)
  BY <1>1, <1>3 DEF IsInjective
<1>5. ASSUME NEW i \in 1 .. L, NEW n \in Node, r[i] \in deps[n]
      PROVE  \E j \in 1 .. i - 1 : r[j] = n
  <2>1. PICK k \in 1 .. L : s[k] = n
    BY <1>1, Zenon DEF IsBottomUp, ToSet
  <2>2. PICK l \in 1 .. k - 1 : s[l] = r[i]
    BY <1>5, <2>1, <1>1 DEF IsBottomUp
  <2>3. l = L - i + 1
    BY <2>2, <1>1, <1>3
  <2>4. L - k + 1 \in 1 .. i - 1 /\ r[L - k + 1] = n
    BY <2>1, <2>2, <2>3, <1>1
  <2>5. QED
    BY <2>4, Zenon
<1>6. QED
  BY <1>1, <1>2, <1>4, <1>5, Zenon DEF IsTopDown, r

(* What IInv says of a complete bottom-up-order.                           *)
LEMMA CompleteIsBottomUp ==
  ASSUME IInv, ToSet(bottomUp.seq) = Node
  PROVE  IsBottomUp(bottomUp.seq)
<1>1. bottomUp.seq \in Seq(Node)
  BY Zenon DEF IInv, TypeOK
<1>2. DOMAIN bottomUp.seq = 1 .. Len(bottomUp.seq)
  BY <1>1
<1>3. QED
  BY <1>2, Zenon DEF IInv, Ordered, IsBottomUp

-----------------------------------------------------------------------------
(* find closes the innermost directory.                                    *)
LEMMA FrontProperties ==
  ASSUME NEW S, NEW s \in Seq(S), s # << >>
  PROVE  /\ Front(s) \in Seq(S)
         /\ Len(Front(s)) = Len(s) - 1
         /\ \A i \in 1 .. Len(s) - 1 : Front(s)[i] = s[i]
<1>0. Len(s) \in Nat /\ Len(s) # 0
  BY EmptySeq, Zenon
<1>1. Len(s) \in Nat /\ Len(s) > 0 /\ \A i \in 1 .. Len(s) : s[i] \in S
  BY <1>0
<1>2. \A i \in 1 .. Len(s) - 1 : s[i] \in S
  BY <1>1
<1>3. /\ SubSeq(s, 1, Len(s) - 1) \in Seq(S)
      /\ Len(SubSeq(s, 1, Len(s) - 1)) =
           IF 1 <= Len(s) - 1 THEN Len(s) - 1 - 1 + 1 ELSE 0
      /\ \A i \in 1 .. Len(s) - 1 - 1 + 1 :
           SubSeq(s, 1, Len(s) - 1)[i] = s[1 + i - 1]
  <2> DEFINE k == Len(s) - 1
  <2>1. k \in Int /\ 1 \in Int
    BY <1>1
  <2> HIDE DEF k
  <2>2. \A i \in 1 .. k : s[i] \in S
    BY <1>2, Zenon DEF k
  <2>3. QED
    BY <2>1, <2>2, SubSeqProperties DEF k
<1>4. Len(SubSeq(s, 1, Len(s) - 1)) = Len(s) - 1
  <2> DEFINE q == SubSeq(s, 1, Len(s) - 1)
  <2>1. Len(q) = IF 1 <= Len(s) - 1 THEN Len(s) - 1 - 1 + 1 ELSE 0
    BY <1>3, Zenon
  <2> HIDE DEF q
  <2>2. Len(s) = 1 => Len(q) = Len(s) - 1
    BY <2>1
  <2>3. Len(s) > 1 => Len(q) = Len(s) - 1
    BY <2>1, <1>1
  <2>4. Len(s) = 1 \/ Len(s) > 1
    <3> DEFINE l == Len(s)
    <3>1. l \in Nat /\ l # 0
      BY <1>0, Zenon
    <3> HIDE DEF l
    <3>2. l = 1 \/ l > 1
      BY <3>1
    <3>3. QED
      BY <3>2, Zenon DEF l
  <2>5. Len(q) = Len(s) - 1
    BY <2>2, <2>3, <2>4
  <2>6. QED
    BY <2>5, Zenon DEF q
<1>5. \A i \in 1 .. Len(s) - 1 : SubSeq(s, 1, Len(s) - 1)[i] = s[i]
  <2> TAKE i \in 1 .. Len(s) - 1
  <2>1. i \in 1 .. Len(s) - 1 - 1 + 1 /\ 1 + i - 1 = i
    BY <1>1
  <2>2. SubSeq(s, 1, Len(s) - 1)[i] = s[1 + i - 1]
    BY <2>1, <1>3
  <2>3. QED
    BY <2>1, <2>2, Zenon
<1>6. QED
  BY <1>3, <1>4, <1>5 DEF Front

(* find opens a directory: the entry leaves the list it was on, and is the *)
(* directory find is in.                                                   *)
LEMMA DescendStep ==
  ASSUME IInv, NEW n \in Node, Descend(n)
  PROVE  IInv'
<1> USE DEF Descend
<1>1. /\ path \in Seq(Node) /\ todo \in Seq(SUBSET Node)
      /\ Len(path) \in Nat /\ Len(todo) = Len(path) + 1
      /\ deps \in [Node -> SUBSET Node]
  BY DEF IInv, TypeOK, Walk, DepGraph
<1> DEFINE L == Len(path)
           old == [todo EXCEPT ![L + 1] = @ \ {n}]
<1>2. /\ Last(todo) = todo[L + 1]
      /\ old \in Seq(SUBSET Node) /\ Len(old) = L + 1
      /\ old[L + 1] = todo[L + 1] \ {n}
      /\ \A i \in 1 .. L : old[i] = todo[i]
  BY <1>1, ExceptSeq DEF Last
<1>3. /\ path' \in Seq(Node) /\ Len(path') = L + 1
      /\ path'[L + 1] = n
      /\ \A i \in 1 .. L : path'[i] = path[i]
  BY <1>1
<1>4. todo' = Append(old, deps[n])
  BY <1>1, Zenon
<1> HIDE DEF old
<1>5. /\ todo' \in Seq(SUBSET Node) /\ Len(todo') = L + 2
      /\ todo'[L + 2] = deps[n]
      /\ \A i \in 1 .. L + 1 : todo'[i] = old[i]
  BY <1>1, <1>2, <1>4
<1>6. TypeOK'
  BY <1>3, <1>5, Zenon DEF IInv, TypeOK, DepGraph
<1>7. Ordered(bottomUp.seq)' /\ Files'
  BY Zenon DEF IInv, Ordered, Files
<1>8. Walk'
  <2>1. bottomUp.there' /\ ~ topDown.there' /\ Len(todo') = Len(path') + 1
    BY <1>1, <1>3, <1>5 DEF IInv, Walk
  <2>2. ASSUME NEW i \in 1 .. L + 1, NEW m \in deps[path'[i]]
        PROVE  \/ m \in todo'[i + 1]
               \/ m \in ToSet(bottomUp.seq)
               \/ i < L + 1 /\ path'[i + 1] = m
    <3>1. CASE i = L + 1
      BY <2>2, <3>1, <1>1, <1>3, <1>5
    <3>2. CASE i = L
      <4>1. i \in 1 .. L /\ m \in deps[path[i]]
        BY <2>2, <3>2, <1>1, <1>3
      <4>2. m \in todo[L + 1] \/ m \in ToSet(bottomUp.seq)
        BY <4>1, <3>2, <1>1 DEF IInv, Walk
      <4>3. QED
        BY <4>2, <3>2, <1>1, <1>2, <1>3, <1>5
    <3>3. CASE i \in 1 .. L - 1
      <4>1. i \in 1 .. L /\ i + 1 \in 1 .. L /\ m \in deps[path[i]]
        BY <2>2, <3>3, <1>1, <1>3
      <4>2. \/ m \in todo[i + 1]
            \/ m \in ToSet(bottomUp.seq)
            \/ path[i + 1] = m
        BY <4>1, Zenon DEF IInv, Walk
      <4>3. todo'[i + 1] = todo[i + 1] /\ path'[i + 1] = path[i + 1]
        BY <4>1, <1>1, <1>2, <1>3, <1>5
      <4>4. QED
        BY <4>2, <4>3, <3>3, <1>1
    <3>4. QED
      BY <3>1, <3>2, <3>3, <1>1
  <2>3. ASSUME NEW k \in Node
        PROVE  \/ k \in todo'[1]
               \/ k \in ToSet(bottomUp.seq)
               \/ path' # << >> /\ path'[1] = k
    <3>1. \/ k \in todo[1]
          \/ k \in ToSet(bottomUp.seq)
          \/ path # << >> /\ path[1] = k
      BY Zenon DEF IInv, Walk
    <3>2. path' # << >>
      BY <1>1, <1>3
    <3>3. CASE L = 0
      BY <3>1, <3>2, <3>3, <1>1, <1>2, <1>3, <1>5
    <3>4. CASE L > 0
      <4>1. todo'[1] = todo[1] /\ path'[1] = path[1]
        BY <3>4, <1>1, <1>2, <1>3, <1>5
      <4>2. QED
        BY <4>1, <3>1, <3>2, Zenon
    <3>5. QED
      BY <3>3, <3>4, <1>1
  <2>4. UNCHANGED <<deps, bottomUp, topDown>>
    OBVIOUS
  <2>5. QED
    BY <2>1, <2>2, <2>3, <2>4, <1>3 DEF Walk
<1>9. QED
  BY <1>6, <1>7, <1>8 DEF IInv

(* find leaves a directory: everything below it has been printed, and it   *)
(* is printed itself.                                                      *)
LEMMA AscendStep ==
  ASSUME IInv, Ascend
  PROVE  IInv'
<1> USE DEF Ascend
<1> DEFINE L == Len(path)
           out == bottomUp.seq
           n == path[L]
<1>1. /\ path \in Seq(Node) /\ todo \in Seq(SUBSET Node)
      /\ L \in Nat /\ L > 0 /\ Len(todo) = L + 1
      /\ deps \in [Node -> SUBSET Node]
      /\ out \in Seq(Node)
      /\ n \in Node
  BY DEF IInv, TypeOK, Walk, DepGraph
<1>2. Last(path) = n /\ Last(todo) = todo[L + 1] /\ todo[L + 1] = {}
  BY <1>1, Zenon DEF Last
<1>3. /\ path' \in Seq(Node) /\ Len(path') = L - 1
      /\ \A i \in 1 .. L - 1 : path'[i] = path[i]
  BY <1>1, FrontProperties, Zenon
<1>4. /\ todo' \in Seq(SUBSET Node) /\ Len(todo') = L
      /\ \A i \in 1 .. L : todo'[i] = todo[i]
  <2>1. todo # << >> /\ todo' = Front(todo) /\ Len(todo) - 1 = L
    BY <1>1
  <2>2. QED
    BY <2>1, <1>1, FrontProperties, ZenonT(30)
<1>5. /\ bottomUp'.there /\ bottomUp'.seq = Unseen(out, n)
      /\ bottomUp' = File(Unseen(out, n))
  BY <1>2, Zenon DEF File
<1>u. UNCHANGED <<deps, topDown, pc, kills>> /\ pc = "find"
  OBVIOUS
<1> HIDE DEF Ascend, n, out, L
<1>6. /\ bottomUp'.seq \in Seq(Node)
      /\ ToSet(bottomUp'.seq) = ToSet(out) \cup {n}
  BY <1>1, <1>5, UnseenProperties, Zenon
<1>7. deps[n] \subseteq ToSet(out)
  BY <1>1, <1>2, <1>u DEF IInv, Walk, n, out, L
<1>8. TypeOK'
  BY <1>3, <1>4, <1>5, <1>6, <1>u, Zenon DEF IInv, TypeOK, DepGraph, File
<1>9. Ordered(bottomUp.seq)'
  <2>1. TypeOK /\ Ordered(out)
    BY Zenon DEF IInv, out
  <2>2. Ordered(Unseen(out, n))
    BY <2>1, <1>1, <1>7, UnseenOrdered
  <2>3. Ordered(bottomUp'.seq)
    BY <2>2, <1>5
  <2>4. QED
    BY <2>3, <1>u, Zenon DEF Ordered
<1>10. Files'
  BY <1>u, Zenon DEF IInv, Files, Walk
<1>11. Walk'
  <2>1. ASSUME NEW i \in 1 .. L - 1, NEW m \in deps[path'[i]]
        PROVE  \/ m \in todo'[i + 1]
               \/ m \in ToSet(bottomUp'.seq)
               \/ i < L - 1 /\ path'[i + 1] = m
    <3>1. i \in 1 .. L /\ m \in deps[path[i]]
      BY <2>1, <1>1, <1>3, <1>u
    <3>2. \/ m \in todo[i + 1]
          \/ m \in ToSet(out)
          \/ path[i + 1] = m
      BY <3>1, <1>u DEF IInv, Walk, out, L
    <3>3. todo'[i + 1] = todo[i + 1]
      BY <1>1, <1>4
    <3>4. CASE i = L - 1
      BY <3>2, <3>3, <3>4, <1>1, <1>6 DEF n
    <3>5. CASE i < L - 1
      <4>1. path'[i + 1] = path[i + 1]
        BY <3>5, <1>1, <1>3
      <4>2. QED
        BY <4>1, <3>2, <3>3, <3>5, <1>6
    <3>6. QED
      BY <3>4, <3>5, <1>1
  <2>2. ASSUME NEW k \in Node
        PROVE  \/ k \in todo'[1]
               \/ k \in ToSet(bottomUp'.seq)
               \/ path' # << >> /\ path'[1] = k
    <3>1. k \in todo[1] \/ k \in ToSet(out) \/ path[1] = k
      BY <1>u, Zenon DEF IInv, Walk, out
    <3>2. todo'[1] = todo[1]
      BY <1>1, <1>4
    <3>3. CASE L = 1
      BY <3>1, <3>2, <3>3, <1>6, Zenon DEF n
    <3>4. CASE L > 1
      <4>1. path'[1] = path[1] /\ path' # << >>
        BY <3>4, <1>1, <1>3
      <4>2. QED
        BY <4>1, <3>1, <3>2, <1>6
    <3>5. QED
      BY <3>3, <3>4, <1>1
  <2>3. bottomUp'.there /\ ~ topDown'.there /\ Len(todo') = Len(path') + 1
    BY <1>1, <1>3, <1>4, <1>5, <1>u DEF IInv, Walk
  <2>4. QED
    BY <2>1, <2>2, <2>3, <1>3, <1>u DEF Walk
<1>12. QED
  BY <1>8, <1>9, <1>10, <1>11, Zenon DEF IInv

-----------------------------------------------------------------------------
(* The inductive invariant holds in every reachable state.                 *)
LEMMA Inductive == Spec => []IInv
<1>1. Init => IInv
  <2> SUFFICES ASSUME Init PROVE IInv
    OBVIOUS
  <2>1. << >> \in Seq(Node) /\ << >> \in Seq(SUBSET Node) /\ Len(<< >>) = 0
    BY EmptySeq, Zenon
  <2>2. TypeOK
    BY <2>1, MaxKillsAssumption DEF Init, TypeOK, NoFile
  <2>3. Ordered(bottomUp.seq)
    BY <2>1 DEF Init, NoFile, Ordered, IsInjective
  <2>4. Walk /\ Files
    BY Zenon DEF Init, NoFile, Walk, Files
  <2>5. QED
    BY <2>2, <2>3, <2>4 DEF IInv
<1>2. IInv /\ [Next]_vars => IInv'
  <2> SUFFICES ASSUME IInv, [Next]_vars PROVE IInv'
    OBVIOUS
  <2>0. << >> \in Seq(Node) /\ << >> \in Seq(SUBSET Node) /\ Len(<< >>) = 0
    BY EmptySeq, Zenon
  <2>1. CASE Cached
    BY <2>1 DEF Cached, IInv, TypeOK, Ordered, Walk, Files
  <2>2. CASE StartFind
    <3> USE <2>2 DEF StartFind
    <3>1. << Node >> \in Seq(SUBSET Node) /\ Len(<< Node >>) = 1
      OBVIOUS
    <3>2. TypeOK'
      BY <2>0, <3>1 DEF IInv, TypeOK, File
    <3>3. Ordered(bottomUp.seq)'
      BY <2>0 DEF File, Ordered, IsInjective
    <3>4. Files' /\ Walk'
      BY <2>0, <3>1 DEF IInv, Files, Walk, File
    <3>5. QED
      BY <3>2, <3>3, <3>4, Zenon DEF IInv
  <2>3. ASSUME NEW n \in Node, Descend(n) PROVE IInv'
    BY <2>3, DescendStep, Zenon
  <2>4. CASE Ascend
    BY <2>4, AscendStep, Zenon
  <2>5. CASE StartSed
    <3> USE <2>5 DEF StartSed
    <3>1. ToSet(bottomUp.seq) = Node
      <4>1. bottomUp.seq \in Seq(Node)
        BY Zenon DEF IInv, TypeOK
      <4>2. ToSet(bottomUp.seq) \subseteq Node
        BY <4>1 DEF ToSet
      <4>3. QED
        BY <4>2, Zenon DEF IInv, Walk
    <3>2. TypeOK'
      BY <2>0, Zenon DEF IInv, TypeOK, File
    <3>3. Ordered(bottomUp.seq)'
      BY DEF IInv, Ordered
    <3>4. Files' /\ Walk'
      BY <3>1, Zenon DEF IInv, Files, Walk, File
    <3>5. QED
      BY <3>2, <3>3, <3>4, Zenon DEF IInv
  <2>6. CASE EndSed
    <3> USE <2>6 DEF EndSed
    <3>1. Reverse(bottomUp.seq) \in Seq(Node)
      <4>1. bottomUp.seq \in Seq(Node)
        BY Zenon DEF IInv, TypeOK
      <4>2. QED
        BY <4>1 DEF Reverse
    <3>2. TypeOK'
      BY <3>1, Zenon DEF IInv, TypeOK, File
    <3>3. Ordered(bottomUp.seq)'
      BY DEF IInv, Ordered
    <3>4. Files' /\ Walk'
      BY Zenon DEF IInv, Files, Walk, File
    <3>5. QED
      BY <3>2, <3>3, <3>4, Zenon DEF IInv
  <2>7. CASE NextAction
    BY <2>7 DEF NextAction, IInv, TypeOK, Ordered, Walk, Files
  <2>8. CASE Kill
    <3>1. TypeOK'
      BY <2>0, <2>8, MaxKillsAssumption DEF Kill, IInv, TypeOK
    <3>2. Ordered(bottomUp.seq)' /\ Walk' /\ Files'
      BY <2>8, Zenon DEF Kill, IInv, Ordered, Walk, Files
    <3>3. QED
      BY <3>1, <3>2 DEF IInv
  <2>9. CASE UNCHANGED vars
    <3>1. UNCHANGED <<deps, bottomUp, topDown, path, todo, pc, kills>>
      BY <2>9, Zenon DEF vars
    <3>2. TypeOK'
      BY <3>1 DEF IInv, TypeOK
    <3>3. Ordered(bottomUp.seq)'
      BY <3>1 DEF IInv, Ordered
    <3>4. Walk' /\ Files'
      BY <3>1, Zenon DEF IInv, Walk, Files
    <3>5. QED
      BY <3>2, <3>3, <3>4, Zenon DEF IInv
  <2>10. QED
    BY <2>1, <2>2, <2>3, <2>4, <2>5, <2>6, <2>7, <2>8, <2>9 DEF Next
<1>3. QED
  BY <1>1, <1>2, PTL DEF Spec

(* Type correctness of generate_order()'s state.                           *)
THEOREM TypeCorrect == Spec => []TypeOK
<1>1. IInv => TypeOK
  BY Zenon DEF IInv
<1>2. QED
  BY <1>1, Inductive, PTL

(* Whenever generate_order() returns, bottom-up-order lists every node of  *)
(* the generation once, each after all the nodes it depends on, whatever   *)
(* the graph and whichever processes were killed on the way.               *)
THEOREM BottomUpCorrect == Spec => []BottomUpValid
<1>1. IInv => BottomUpValid
  BY CompleteIsBottomUp, Zenon DEF IInv, Files, BottomUpValid
<1>2. QED
  BY <1>1, Inductive, PTL

(* Whenever generate_order() returns and top-down-order is not the empty   *)
(* file of a killed sed, it lists every node once, each after all the      *)
(* nodes that depend on it.                                                *)
THEOREM TopDownCorrect == Spec => []TopDownValid
<1>1. IInv => TopDownValid
  <2> SUFFICES ASSUME IInv, pc = "return", topDown.seq # << >>
               PROVE  IsTopDown(topDown.seq)
    BY Zenon DEF TopDownValid
  <2>1. /\ ToSet(bottomUp.seq) = Node
        /\ topDown.seq = Reverse(bottomUp.seq)
    BY Zenon DEF IInv, Files
  <2>2. IsBottomUp(bottomUp.seq)
    BY <2>1, CompleteIsBottomUp, Zenon
  <2>3. TypeOK /\ bottomUp.seq \in Seq(Node)
    BY Zenon DEF IInv, TypeOK
  <2>4. QED
    BY <2>1, <2>2, <2>3, ReverseIsTopDown, Zenon
<1>2. QED
  BY <1>1, Inductive, PTL

(* Once both files are complete nothing rewrites them.                     *)
THEOREM OrderIsStable == Spec => OrderStable
<1>1. IInv /\ [Next]_vars =>
        [topDown.seq # << >> => UNCHANGED <<bottomUp, topDown>>]_vars
  <2> SUFFICES ASSUME IInv, Next, topDown.seq # << >>
               PROVE  UNCHANGED <<bottomUp, topDown>>
    OBVIOUS
  <2>1. topDown.there /\ bottomUp.there
    BY Zenon DEF IInv, Files
  <2>2. pc # "find"
    BY <2>1, Zenon DEF IInv, Walk
  <2>3. CASE EndSed
    <3>1. topDown.seq = Reverse(bottomUp.seq)
      BY <2>1, Zenon DEF IInv, Files
    <3>2. topDown = File(topDown.seq)
      BY <2>1, Zenon DEF IInv, TypeOK, File
    <3>3. QED
      BY <2>3, <3>1, <3>2, Zenon DEF EndSed
  <2>4. CASE ~ EndSed
    BY <2>1, <2>2, <2>4, Zenon
       DEF Next, Cached, StartFind, Descend, Ascend, StartSed, NextAction, Kill
  <2>5. QED
    BY <2>3, <2>4, Zenon
<1>2. QED
  BY <1>1, Inductive, PTL DEF Spec, OrderStable
=============================================================================

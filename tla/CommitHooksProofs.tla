-------------------------- MODULE CommitHooksProofs --------------------------
(***************************************************************************)
(* Proofs of the safety properties of CommitHooks, for any subscriptions   *)
(* and modules, and any number of changesets and crashes, if the clients   *)
(* wait for each other.                                                    *)
(***************************************************************************)
EXTENDS CommitHooks, FiniteSetTheorems, TLAPS

Active(s) == phase[s] # "none"

(* What sysrepo keeps about a changeset.                                   *)
Book ==
  \A s \in Session :
    /\ primary[s] \subseteq subs[s]
    /\ hook[s] \subseteq subs[s]
    /\ Active(s) <=> subs[s] # {}

(* A hook has been called only after the callbacks of its module.          *)
Turns ==
  \A s \in Session : phase[s] \in {"change", "done"} =>
    \A x \in subs[s] \ hook[s] : InTurn(s, x)

(* At most one changeset is under way, and num_changes counts the hooks    *)
(* that it has called with CHANGE, respectively has to call with DONE.     *)
Counted ==
  /\ \A s, t \in Session : Active(s) /\ Active(t) => s = t
  /\ Quiet => num_changes = 0
  /\ \A s \in Session :
       /\ phase[s] = "change" => num_changes = Cardinality(subs[s] \ hook[s])
       /\ phase[s] = "done" => num_changes = Cardinality(hook[s])
       /\ phase[s] = "abort" /\ hook[s] = {} => num_changes = 0

(* Some changeset is stored, and its last hook is still to come.           *)
Pending == \E s \in Session : phase[s] = "done" /\ hook[s] # {}

(* Activations lag behind by the changeset whose last hook is to come.     *)
Balanced ==
  /\ crashes = 0 => stored = IF Pending THEN activated + 1 ELSE activated
  /\ booted /\ ~ missed /\ stale => Pending

IInv ==
  /\ TypeOK
  /\ Book
  /\ Turns
  /\ Serial => Counted /\ Balanced

-----------------------------------------------------------------------------
(* The subscriptions are finitely many.                                    *)
LEMMA FiniteSubs ==
  ASSUME NEW T \in SUBSET Sub
  PROVE  /\ IsFiniteSet(T)
         /\ Cardinality(T) \in Nat
         /\ Cardinality(T) = 0 <=> T = {}
  BY SubAssumption, FS_Subset, FS_CardinalityType, FS_EmptySet, Zenon

(* A hook that is called is one less to call.                              *)
LEMMA OneLess ==
  ASSUME NEW T \in SUBSET Sub, NEW x \in T
  PROVE  /\ Cardinality(T \ {x}) = Cardinality(T) - 1
         /\ Cardinality(T) >= 1
<1>1. IsFiniteSet(T) /\ Cardinality(T) \in Nat /\ Cardinality(T) # 0
  BY FiniteSubs, Zenon
<1>2. Cardinality(T \ {x}) = Cardinality(T) - 1
  BY <1>1, FS_RemoveElement, Zenon
<1> QED
  BY <1>1, <1>2

(* A hook that is called is one more of those that have been called.       *)
LEMMA OneMore ==
  ASSUME NEW S \in SUBSET Sub, NEW T \in SUBSET S, NEW x \in T
  PROVE  Cardinality(S \ (T \ {x})) = Cardinality(S \ T) + 1
<1>1. S \ (T \ {x}) = (S \ T) \cup {x} /\ x \notin S \ T
  OBVIOUS
<1>2. IsFiniteSet(S \ T)
  BY FiniteSubs, Zenon
<1> QED
  BY <1>1, <1>2, FS_AddElement, Zenon

(* Every step keeps the types, and the count from falling below zero.      *)
LEMMA TypeStep ==
  IInv /\ [Next]_vars => TypeOK'
<1> SUFFICES ASSUME IInv, [Next]_vars PROVE TypeOK'
  OBVIOUS
<1>1. ASSUME NEW s \in Session, Store(s) PROVE TypeOK'
  BY <1>1, HookBoundsAssumption DEF IInv, TypeOK, Store, progress, count
<1>2. ASSUME NEW s \in Session, End(s) PROVE TypeOK'
  BY <1>2, HookBoundsAssumption, Zenon DEF IInv, TypeOK, End, progress, count
<1>3. ASSUME NEW s \in Session, NEW x \in Sub, Primary(s, x) PROVE TypeOK'
  BY <1>3, HookBoundsAssumption, Zenon
  DEF IInv, TypeOK, Primary, progress, count
<1>4. ASSUME NEW s \in Session, NEW x \in Sub, Refuse(s, x) PROVE TypeOK'
  BY <1>4, HookBoundsAssumption, Zenon
  DEF IInv, TypeOK, Refuse, progress, count
<1>5. ASSUME NEW s \in Session, NEW x \in Sub, HookChange(s, x) PROVE TypeOK'
  BY <1>5, HookBoundsAssumption DEF IInv, TypeOK, HookChange, Hook,
     progress, count
<1>6. ASSUME NEW s \in Session, NEW x \in Sub, HookAbort(s, x) PROVE TypeOK'
  BY <1>6, HookBoundsAssumption DEF IInv, TypeOK, HookAbort, Hook,
     progress, count
<1>7. ASSUME NEW s \in Session, NEW x \in Sub, HookDone(s, x) PROVE TypeOK'
  <2>1. Serial => num_changes >= 1
    BY <1>7, OneLess, Zenon DEF IInv, TypeOK, Counted, HookDone, Hook
  <2> QED
    BY <1>7, <2>1 DEF IInv, TypeOK, HookDone, Hook
<1>8. ASSUME NEW s \in Session, NEW x \in Sub, NEW fails \in BOOLEAN,
             HookActivate(s, x, fails)
      PROVE  TypeOK'
  BY <1>8, HookBoundsAssumption DEF IInv, TypeOK, HookActivate, Hook,
     progress, count
<1>9. ASSUME NEW s \in Session, NEW x \in SUBSET Sub,
             Begin(s, x)
      PROVE  TypeOK'
  BY <1>9, HookBoundsAssumption DEF IInv, TypeOK, Begin, Unlocked,
     progress, count
<1>10. CASE Runlevel
  BY <1>10, HookBoundsAssumption, Zenon DEF IInv, TypeOK, Runlevel, progress,
     count
<1>11. CASE Crash
  BY <1>11, HookBoundsAssumption DEF IInv, TypeOK, Crash, progress, count
<1>12. CASE UNCHANGED vars
  BY <1>12, HookBoundsAssumption, Zenon DEF IInv, TypeOK, vars, progress, count
<1> QED
  BY <1>1, <1>2, <1>3, <1>4, <1>5, <1>6, <1>7, <1>8, <1>9, <1>10, <1>11,
     <1>12, Zenon DEF Next, Deliver

(* Every step keeps the order between callbacks and hooks.                 *)
LEMMA BookStep ==
  IInv /\ [Next]_vars => (Book /\ Turns)'
<1> SUFFICES ASSUME IInv, [Next]_vars PROVE (Book /\ Turns)'
  OBVIOUS
<1>1. ASSUME NEW s \in Session, Store(s) PROVE (Book /\ Turns)'
  BY <1>1 DEF IInv, TypeOK, Book, Turns, Active, InTurn, Store, progress,
     count
<1>2. ASSUME NEW s \in Session, End(s) PROVE (Book /\ Turns)'
  BY <1>2, Zenon DEF IInv, TypeOK, Book, Turns, Active, InTurn, End, progress,
     count
<1>3. ASSUME NEW s \in Session, NEW x \in Sub,
             Primary(s, x)
      PROVE  (Book /\ Turns)'
  BY <1>3 DEF IInv, TypeOK, Book, Turns, Active, InTurn, Primary, progress,
     count
<1>4. ASSUME NEW s \in Session, NEW x \in Sub,
             Refuse(s, x)
      PROVE  (Book /\ Turns)'
  BY <1>4 DEF IInv, TypeOK, Book, Turns, Active, InTurn, Refuse, progress,
     count
<1>5. ASSUME NEW s \in Session, NEW x \in Sub,
             HookChange(s, x)
      PROVE  (Book /\ Turns)'
  BY <1>5 DEF IInv, TypeOK, Book, Turns, Active, InTurn, HookChange, Hook,
     progress, count
<1>6. ASSUME NEW s \in Session, NEW x \in Sub,
             HookAbort(s, x)
      PROVE  (Book /\ Turns)'
  BY <1>6, Zenon
  DEF IInv, TypeOK, Book, Turns, Active, InTurn, HookAbort, Hook,
     progress, count
<1>7. ASSUME NEW s \in Session, NEW x \in Sub,
             HookDone(s, x)
      PROVE  (Book /\ Turns)'
  BY <1>7 DEF IInv, TypeOK, Book, Turns, Active, InTurn, HookDone, Hook,
     progress, count
<1>8. ASSUME NEW s \in Session, NEW x \in Sub, NEW fails \in BOOLEAN,
             HookActivate(s, x, fails)
      PROVE  (Book /\ Turns)'
  BY <1>8 DEF IInv, TypeOK, Book, Turns, Active, InTurn, HookActivate,
     Hook, progress, count
<1>9. ASSUME NEW s \in Session, NEW x \in SUBSET Sub,
             Begin(s, x)
      PROVE  (Book /\ Turns)'
  BY <1>9 DEF IInv, TypeOK, Book, Turns, Active, InTurn, Begin, Unlocked,
     progress, count
<1>10. CASE Runlevel
  BY <1>10, Zenon DEF IInv, TypeOK, Book, Turns, Active, InTurn, Runlevel,
     progress, count
<1>11. CASE Crash
  BY <1>11, Zenon
  DEF IInv, TypeOK, Book, Turns, Active, InTurn, Crash, progress,
     count
<1>12. CASE UNCHANGED vars
  BY <1>12, Zenon
  DEF IInv, TypeOK, Book, Turns, Active, InTurn, vars, progress,
     count
<1> QED
  BY <1>1, <1>2, <1>3, <1>4, <1>5, <1>6, <1>7, <1>8, <1>9, <1>10, <1>11,
     <1>12, Zenon DEF Next, Deliver

(* Every step keeps the count, if clients wait for each other.             *)
LEMMA CountStep ==
  IInv /\ Serial /\ [Next]_vars => Counted'
<1> SUFFICES ASSUME IInv, Serial, [Next]_vars PROVE Counted'
  OBVIOUS
<1>1. ASSUME NEW s \in Session, Store(s) PROVE Counted'
  BY <1>1, FiniteSubs, OneLess, OneMore DEF IInv, TypeOK, Book, Counted,
     Active, Quiet, Store, progress, count
<1>2. ASSUME NEW s \in Session, End(s) PROVE Counted'
  BY <1>2, FiniteSubs, OneLess, OneMore, Zenon DEF IInv, TypeOK, Book, Counted,
     Active, Quiet, End, progress, count
<1>3. ASSUME NEW s \in Session, NEW x \in Sub, Primary(s, x) PROVE Counted'
  BY <1>3, FiniteSubs, OneLess, OneMore, Zenon DEF IInv, TypeOK, Book, Counted,
     Active, Quiet, Primary, progress, count
<1>4. ASSUME NEW s \in Session, NEW x \in Sub, Refuse(s, x) PROVE Counted'
  BY <1>4, FiniteSubs, OneLess, OneMore, ZenonT(40)
  DEF IInv, TypeOK, Book, Counted,
     Active, Quiet, Refuse, progress, count
<1>5. ASSUME NEW s \in Session, NEW x \in Sub, HookChange(s, x) PROVE Counted'
  <2>1. /\ phase' = phase /\ subs' = subs /\ phase[s] = "change"
        /\ hook'[s] = hook[s] \ {x} /\ x \in hook[s]
        /\ \A t \in Session \ {s} : hook'[t] = hook[t]
    BY <1>5, Zenon DEF IInv, TypeOK, HookChange, Hook
  <2>2. /\ hook[s] \in SUBSET subs[s] /\ subs[s] \in SUBSET Sub
        /\ hook[s] \in SUBSET Sub
    BY Zenon DEF IInv, TypeOK, Book
  <2>3. num_changes' = Cardinality(subs[s] \ hook'[s])
    <3>1. num_changes = Cardinality(subs[s] \ hook[s])
      BY <2>1, Zenon DEF IInv, Counted
    <3>2. num_changes' = num_changes + 1
      BY <1>5, Zenon DEF HookChange
    <3>3. Cardinality(subs[s] \ (hook[s] \ {x})) =
            Cardinality(subs[s] \ hook[s]) + 1
      BY <2>1, <2>2, OneMore, ZenonT(40)
    <3> QED
      BY <2>1, <3>1, <3>2, <3>3, Zenon
  <2>4. \A t \in Session : Active(t) => t = s
    BY <2>1, Zenon DEF IInv, Counted, Active
  <2> QED
    BY <2>1, <2>3, <2>4, Zenon DEF IInv, Counted, Active, Quiet
<1>6. ASSUME NEW s \in Session, NEW x \in Sub, HookAbort(s, x) PROVE Counted'
  BY <1>6, FiniteSubs, OneLess, OneMore, Zenon DEF IInv, TypeOK, Book, Counted,
     Active, Quiet, HookAbort, Hook, progress, count
<1>7. ASSUME NEW s \in Session, NEW x \in Sub, HookDone(s, x) PROVE Counted'
  <2>1. /\ phase' = phase /\ subs' = subs /\ phase[s] = "done"
        /\ hook'[s] = hook[s] \ {x} /\ x \in hook[s]
        /\ \A t \in Session \ {s} : hook'[t] = hook[t]
    BY <1>7, Zenon DEF IInv, TypeOK, HookDone, Hook
  <2>2. /\ hook[s] \in SUBSET subs[s] /\ subs[s] \in SUBSET Sub
        /\ hook[s] \in SUBSET Sub
    BY DEF IInv, TypeOK, Book
  <2>3. num_changes' = Cardinality(hook'[s])
    BY <1>7, <2>1, <2>2, OneLess, Zenon DEF IInv, Counted, HookDone
  <2>4. \A t \in Session : Active(t) => t = s
    BY <2>1, Zenon DEF IInv, Counted, Active
  <2> QED
    BY <2>1, <2>3, <2>4, Zenon DEF IInv, Counted, Active, Quiet
<1>8. ASSUME NEW s \in Session, NEW x \in Sub, NEW fails \in BOOLEAN,
             HookActivate(s, x, fails)
      PROVE  Counted'
  <2>1. /\ phase' = phase /\ subs' = subs /\ phase[s] = "done"
        /\ hook'[s] = hook[s] \ {x} /\ x \in hook[s]
        /\ \A t \in Session \ {s} : hook'[t] = hook[t]
    BY <1>8, Zenon DEF IInv, TypeOK, HookActivate, Hook
  <2>2. /\ hook[s] \in SUBSET subs[s] /\ subs[s] \in SUBSET Sub
        /\ hook[s] \in SUBSET Sub
    BY Zenon DEF IInv, TypeOK, Book
  <2>3. num_changes' = Cardinality(hook'[s])
    BY <1>8, <2>1, <2>2, OneLess, Zenon DEF IInv, Counted, HookActivate
  <2>4. \A t \in Session : Active(t) => t = s
    BY <2>1, Zenon DEF IInv, Counted, Active
  <2> QED
    BY <2>1, <2>3, <2>4, Zenon DEF IInv, Counted, Active, Quiet
<1>9. ASSUME NEW s \in Session, NEW x \in SUBSET Sub,
             Begin(s, x)
      PROVE  Counted'
  BY <1>9, FiniteSubs, OneLess, OneMore DEF IInv, TypeOK, Book, Counted,
     Active, Quiet, Begin, Unlocked, progress, count
<1>10. CASE Runlevel
  BY <1>10, FiniteSubs, OneLess, OneMore, Zenon
  DEF IInv, TypeOK, Book, Counted,
     Active, Quiet, Runlevel, progress, count
<1>11. CASE Crash
  BY <1>11, FiniteSubs, OneLess, OneMore, Zenon
  DEF IInv, TypeOK, Book, Counted,
     Active, Quiet, Crash, progress, count
<1>12. CASE UNCHANGED vars
  BY <1>12, FiniteSubs, OneLess, OneMore, Zenon
  DEF IInv, TypeOK, Book, Counted,
     Active, Quiet, vars, progress, count
<1> QED
  BY <1>1, <1>2, <1>3, <1>4, <1>5, <1>6, <1>7, <1>8, <1>9, <1>10, <1>11,
     <1>12, Zenon DEF Next, Deliver

(* Every step keeps activations in balance with stored changesets.         *)
LEMMA BalanceStep ==
  IInv /\ Serial /\ [Next]_vars => Balanced'
<1> SUFFICES ASSUME IInv, Serial, [Next]_vars PROVE Balanced'
  OBVIOUS
<1>1. ASSUME NEW s \in Session, Store(s) PROVE Balanced'
  BY <1>1, FiniteSubs, OneLess DEF IInv, TypeOK, Book, Turns, Counted,
     Balanced, Pending, Active, Quiet, InTurn, Store, progress, count
<1>2. ASSUME NEW s \in Session, End(s) PROVE Balanced'
  BY <1>2, FiniteSubs, OneLess, Zenon DEF IInv, TypeOK, Book, Turns, Counted,
     Balanced, Pending, Active, Quiet, InTurn, End, progress, count
<1>3. ASSUME NEW s \in Session, NEW x \in Sub, Primary(s, x) PROVE Balanced'
  BY <1>3, FiniteSubs, OneLess, Zenon DEF IInv, TypeOK, Book, Turns, Counted,
     Balanced, Pending, Active, Quiet, InTurn, Primary, progress, count
<1>4. ASSUME NEW s \in Session, NEW x \in Sub, Refuse(s, x) PROVE Balanced'
  BY <1>4, FiniteSubs, OneLess, Zenon DEF IInv, TypeOK, Book, Turns, Counted,
     Balanced, Pending, Active, Quiet, InTurn, Refuse, progress, count
<1>5. ASSUME NEW s \in Session, NEW x \in Sub,
             HookChange(s, x)
      PROVE  Balanced'
  BY <1>5, FiniteSubs, OneLess, Zenon DEF IInv, TypeOK, Book, Turns, Counted,
     Balanced, Pending, Active, Quiet, InTurn, HookChange, Hook, progress,
     count
<1>6. ASSUME NEW s \in Session, NEW x \in Sub, HookAbort(s, x) PROVE Balanced'
  BY <1>6, FiniteSubs, OneLess, Zenon DEF IInv, TypeOK, Book, Turns, Counted,
     Balanced, Pending, Active, Quiet, InTurn, HookAbort, Hook, progress,
     count
<1>7. ASSUME NEW s \in Session, NEW x \in Sub, HookDone(s, x) PROVE Balanced'
  <2>1. /\ phase' = phase /\ phase[s] = "done" /\ booted' = booted
        /\ stored' = stored /\ crashes' = crashes
        /\ hook'[s] = hook[s] \ {x} /\ x \in hook[s]
        /\ \A t \in Session \ {s} : hook'[t] = hook[t]
    BY <1>7, Zenon DEF IInv, TypeOK, HookDone, Hook
  <2>2. hook[s] \in SUBSET Sub /\ hook'[s] \in SUBSET Sub
    BY <2>1, Zenon DEF IInv, TypeOK
  <2>3. num_changes' = Cardinality(hook'[s])
    BY <1>7, <2>1, <2>2, OneLess, ZenonT(40) DEF IInv, Counted, HookDone
  <2>4. hook'[s] # {}
    BY <1>7, <2>2, <2>3, FiniteSubs, Zenon DEF HookDone
  <2>5. \A t \in Session : phase[t] = "done" => t = s
    BY <2>1, Zenon DEF IInv, Counted, Active
  <2>6. Pending /\ Pending'
    BY <2>1, <2>4, <2>5, Zenon DEF Pending
  <2> QED
    BY <1>7, <2>1, <2>6, Zenon DEF IInv, TypeOK, Balanced, HookDone
<1>8. ASSUME NEW s \in Session, NEW x \in Sub, NEW fails \in BOOLEAN,
             HookActivate(s, x, fails)
      PROVE  Balanced'
  <2>1. /\ phase' = phase /\ phase[s] = "done" /\ booted' = booted
        /\ stored' = stored /\ crashes' = crashes
        /\ hook'[s] = hook[s] \ {x} /\ x \in hook[s]
        /\ \A t \in Session \ {s} : hook'[t] = hook[t]
    BY <1>8, Zenon DEF IInv, TypeOK, HookActivate, Hook
  <2>2. hook[s] \in SUBSET Sub /\ hook'[s] \in SUBSET Sub
    BY <2>1, Zenon DEF IInv, TypeOK
  <2>3. num_changes' = Cardinality(hook'[s])
    BY <1>8, <2>1, <2>2, OneLess, ZenonT(40) DEF IInv, Counted, HookActivate
  <2>4. hook'[s] = {}
    BY <1>8, <2>2, <2>3, FiniteSubs, Zenon DEF HookActivate
  <2>5. \A t \in Session : phase[t] = "done" => t = s
    BY <2>1, Zenon DEF IInv, Counted, Active
  <2>6. Pending /\ ~ Pending'
    BY <2>1, <2>4, <2>5, Zenon DEF Pending
  <2> QED
    BY <1>8, <2>1, <2>6, Zenon DEF IInv, TypeOK, Balanced, HookActivate
<1>9. ASSUME NEW s \in Session, NEW x \in SUBSET Sub,
             Begin(s, x)
      PROVE  Balanced'
  BY <1>9, FiniteSubs, OneLess, Zenon DEF IInv, TypeOK, Book, Turns, Counted,
     Balanced, Pending, Active, Quiet, InTurn, Begin, Unlocked, progress,
     count
<1>10. CASE Runlevel
  BY <1>10, FiniteSubs, OneLess, Zenon DEF IInv, TypeOK, Book, Turns, Counted,
     Balanced, Pending, Active, Quiet, InTurn, Runlevel, progress, count
<1>11. CASE Crash
  BY <1>11, FiniteSubs, OneLess DEF IInv, TypeOK, Book, Turns, Counted,
     Balanced, Pending, Active, Quiet, InTurn, Crash, progress, count
<1>12. CASE UNCHANGED vars
  BY <1>12, FiniteSubs, OneLess, Zenon DEF IInv, TypeOK, Book, Turns, Counted,
     Balanced, Pending, Active, Quiet, InTurn, vars, progress, count
<1> QED
  BY <1>1, <1>2, <1>3, <1>4, <1>5, <1>6, <1>7, <1>8, <1>9, <1>10, <1>11,
     <1>12 DEF Next, Deliver

-----------------------------------------------------------------------------
(* The inductive invariant holds in every state.                           *)
LEMMA Invariance == Spec => []IInv
<1>1. Init => IInv
  <2> SUFFICES ASSUME Init PROVE IInv
    OBVIOUS
  <2>1. TypeOK
    <3>1. booted \in BOOLEAN /\ stale \in BOOLEAN /\ missed \in BOOLEAN
      BY Zenon DEF Init
    <3>2. /\ num_changes = 0 /\ begun = 0 /\ stored = 0 /\ activated = 0
          /\ crashes \in 0 .. MaxCrashes
      BY HookBoundsAssumption DEF Init
    <3>3. /\ phase \in [Session -> {"none", "change", "done", "abort"}]
          /\ subs \in [Session -> SUBSET Sub]
          /\ primary \in [Session -> SUBSET Sub]
          /\ hook \in [Session -> SUBSET Sub]
      BY Zenon DEF Init
    <3> QED
      BY <3>1, <3>2, <3>3 DEF TypeOK
  <2>2. Book /\ Turns
    BY Zenon DEF Init, Book, Turns, Active
  <2>3. Counted
    BY Zenon DEF Init, Counted, Active, Quiet
  <2>4. Balanced
    BY Zenon DEF Init, Balanced, Pending
  <2> QED
    BY <2>1, <2>2, <2>3, <2>4, Zenon DEF IInv
<1>2. IInv /\ [Next]_vars => IInv'
  BY TypeStep, BookStep, CountStep, BalanceStep, Zenon DEF IInv
<1> QED
  BY <1>1, <1>2, PTL DEF Spec

(* The state is well typed, and num_changes never falls below zero when    *)
(* clients wait for each other.                                            *)
THEOREM TypeCorrect == Spec => []TypeOK
<1>1. IInv => TypeOK
  BY Zenon DEF IInv
<1> QED
  BY <1>1, Invariance, PTL

(* If clients wait for each other, core_post_hook() finds the last         *)
(* callback of every stored changeset once, and none for those that are    *)
(* refused.                                                                *)
THEOREM OnceCorrect == Spec /\ []Serial => []OncePerChangeset
<1>1. IInv /\ Serial => OncePerChangeset
  BY Zenon DEF IInv, TypeOK, Balanced, Pending, OncePerChangeset, Quiet
<1> QED
  BY <1>1, Invariance, PTL

(* If clients wait for each other, no change of the services is left       *)
(* without a reload once the changesets are through.                       *)
THEOREM NothingStaleCorrect == Spec /\ []Serial => []NothingStale
<1>1. IInv /\ Serial => NothingStale
  BY Zenon DEF IInv, TypeOK, Balanced, Pending, NothingStale, Quiet
<1> QED
  BY <1>1, Invariance, PTL

(* If clients wait for each other, the reload comes after all callbacks of *)
(* the changeset.                                                          *)
THEOREM ReloadsLastCorrect == Spec /\ []Serial => ReloadsLast
<1>1. IInv /\ Serial /\ [Next]_vars =>
        [activated' # activated =>
           \A s \in Session : phase[s] = "done" => primary[s] = {}]_vars
  <2> SUFFICES ASSUME IInv, Serial, Next, activated' # activated,
                      NEW t \in Session, phase[t] = "done"
               PROVE  primary[t] = {}
    BY Zenon DEF vars
  <2>1. PICK s \in Session, x \in Sub, fails \in BOOLEAN :
          HookActivate(s, x, fails)
    BY DEF Next, Deliver, Store, End, Primary, Refuse, HookChange, HookAbort,
       HookDone, Begin, Runlevel, Crash, count
  <2>2. /\ phase[s] = "done" /\ x \in hook[s] /\ InTurn(s, x)
        /\ num_changes' = num_changes - 1 /\ num_changes' = 0
    BY <2>1, Zenon DEF HookActivate, Hook
  <2>3. t = s
    BY <2>2, Zenon DEF IInv, Counted, Active
  <2>4. Cardinality(hook[s] \ {x}) = 0
    BY <2>2, OneLess, Zenon DEF IInv, TypeOK, Counted
  <2>5. hook[s] = {x}
    BY <2>2, <2>4, FiniteSubs DEF IInv, TypeOK
  <2>6. \A y \in primary[s] : y \in subs[s] /\ (y = x \/ InTurn(s, y))
    BY <2>2, <2>5, Zenon DEF IInv, TypeOK, Book, Turns
  <2> QED
    BY <2>2, <2>3, <2>6, Zenon DEF InTurn
<1> QED
  BY <1>1, Invariance, PTL DEF Spec, ReloadsLast

=============================================================================

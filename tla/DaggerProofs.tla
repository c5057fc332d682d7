---------------------------- MODULE DaggerProofs ----------------------------
(***************************************************************************)
(* Proofs of the safety properties of Dagger, for any set of interfaces    *)
(* and any number of changes and crashes.                                  *)
(***************************************************************************)
EXTENDS Dagger, TLAPS

(* A change holds "next" and confd has its generation numbers.             *)
Held == cb \in {"claimed", "gen", "prepared"}

(* dagger evolve runs.                                                     *)
Evolving == sh \in {"check", "exit", "init"}

(* How the callback, the script and the two files relate.                  *)
Phase ==
  /\ cb # "idle" \/ sh # "none" =>
       /\ next # Absent
       /\ holder \in Txn
       /\ current + 2 <= holder
  /\ cb = "claim" \/ Held => next = Empty /\ sh = "none" /\ holder = txn
  /\ Held => mem.current = current /\ mem.next = current + 1
  /\ cb \in {"undo", "abort", "fallback"} => sh \in {"mv", "rm"}
  /\ cb = "evolve" => Evolving
  /\ sh # "none" => next = current + 1
  /\ current + 1 <= txn
  /\ holder <= txn

(* The generations that exist, and what those that do not can contain.     *)
Dirs ==
  /\ current # None => current \in dir
  /\ \A g \in dir : g <= current + 1
  /\ next = Absent \/ cb = "claim" \/ sh = "rm" => current + 1 \notin dir
  /\ Held \/ Evolving \/ sh = "mv" => current + 1 \in dir
  /\ \A g \in exitOrder : g <= current
  /\ \A g \in Gen : g \notin exitOrder => exit[g] = NoScripts
  /\ \A g \in Gen : g \notin dir => init[g] = NoScripts /\ dag[g] = {}

(* Who has written the scripts, and for which nodes.                       *)
Writers ==
  /\ Held \/ Evolving =>
       /\ current # None =>
            \A n \in ActNode : exit[current][n] \in {NoScript, holder}
       /\ \A n \in ActNode : init[current + 1][n] \in {NoScript, holder}
  /\ \A g \in Gen : init[g][Post] = NoScript
  /\ \A g \in Gen : \A n \in Node : init[g][n] # NoScript => n \in dag[g]
  /\ Held /\ current # None => current \in exitOrder
  /\ cb = "claimed" => init[current + 1] = NoScripts
  /\ cb \in {"gen", "prepared"} => conf \subseteq dag[current + 1]

(* The setup of node n in generation g has been executed.                  *)
SetUp(g, n) ==
  \E r \in ran : r.action = "init" /\ r.node = n /\ r.writer = init[g][n]

(* What has been executed and what is left.                                *)
Runs ==
  /\ OwnScripts
  /\ CurrentApplied
  /\ sh = "exit" => current # None /\ todo \subseteq Scripted(current, exit)
  /\ sh = "init" => todo \subseteq Scripted(next, init)
  /\ sh = "init" => \A n \in Scripted(next, init) :
                      n \in todo \/ SetUp(next, n)

IInv == TypeOK /\ Phase /\ Dirs /\ Writers /\ Runs

-----------------------------------------------------------------------------
(* The interfaces that the current generation knows.                       *)
Known == IF current = None THEN {} ELSE dag[current]

(* Interface n is torn down by the exit action, set up by the init action. *)
TornDown(n) == current # None /\ exit[current][n] # NoScript
IsSetUp(n) == init[current + 1][n] # NoScript

(* The scripts, with those that are still to be written, lead from the     *)
(* interfaces s to the configuration.                                      *)
Planned(s) ==
  /\ \A n \in conf \ s : n \in diff \/ IsSetUp(n)
  /\ \A n \in s \ conf : n \in diff \/ TornDown(n)
  /\ \A n \in conf : TornDown(n) => IsSetUp(n)
  /\ \A n \in Node : IsSetUp(n) => n \in conf

(* Holds as long as no script has failed and confd has not crashed.        *)
Setup ==
  /\ Evolving => cb = "evolve"
  /\ cb # "evolve" => up = running /\ running \subseteq Known
  /\ cb \in {"claim", "claimed"} =>
       (running \ conf) \cup (conf \ running) \subseteq diff
  /\ cb = "claimed" => \A n \in Node : ~ TornDown(n)
  /\ cb \in {"gen", "prepared"} => Planned(running)
  /\ cb = "prepared" => diff = {}
  /\ cb = "evolve" =>
       /\ running = conf /\ diff = {}
       /\ conf \subseteq dag[current + 1]
       /\ sh = "check" => up \subseteq Known /\ Planned(up)
       /\ sh = "exit" => /\ \A n \in conf \ up : IsSetUp(n)
                         /\ \A n \in up \ conf : n \in todo
                         /\ \A n \in todo \cap conf : IsSetUp(n)
                         /\ \A n \in Node : IsSetUp(n) => n \in conf
       /\ sh = "init" => /\ up \subseteq conf
                         /\ conf \ up \subseteq todo
                         /\ todo \subseteq conf

SetupInv == ~ failures /\ crashes = 0 => Setup

USE BoundsAssumption, PostAssumption
USE DEF Absent, Empty, None, Gen, Txn, ActNode, NoScript

(* The cleared struct dagger is one.                                       *)
LEMMA ClearedType == Cleared \in [current : {None} \cup Gen, next : Gen]
  BY DEF Cleared

(* What writing exit scripts does to them.                                 *)
LEMMA WriteExitProperties ==
  ASSUME TypeOK, NEW s \in SUBSET ActNode, WriteExit(s), txn \in Txn
  PROVE  /\ exit' \in [Gen -> [ActNode -> {NoScript} \cup Txn]]
         /\ s # {} => mem.current \in Gen
         /\ \A g \in Gen : g # mem.current => exit'[g] = exit[g]
         /\ \A g \in Gen, n \in ActNode :
              exit'[g][n] = IF g = mem.current /\ n \in s THEN txn
                            ELSE exit[g][n]
<1>1. CASE s = {}
  BY <1>1, Zenon DEF WriteExit, TypeOK
<1>2. CASE s # {}
  <2>1. mem.current \in Gen
    BY <1>2 DEF WriteExit, TypeOK
  <2> DEFINE row == [n \in ActNode |-> IF n \in s THEN txn
                                       ELSE exit[mem.current][n]]
  <2>2. row \in [ActNode -> {NoScript} \cup Txn]
    BY <2>1 DEF TypeOK
  <2>3. exit' = [exit EXCEPT ![mem.current] = row]
    BY <1>2, Zenon DEF WriteExit
  <2>4. exit' \in [Gen -> [ActNode -> {NoScript} \cup Txn]]
    <3> HIDE DEF row
    <3> QED
      BY <2>1, <2>2, <2>3, Zenon DEF TypeOK
  <2>5. \A g \in Gen : exit'[g] = IF g = mem.current THEN row ELSE exit[g]
    <3> HIDE DEF row
    <3> QED
      BY <2>1, <2>3, Zenon DEF TypeOK
  <2>6. \A n \in ActNode : row[n] = IF n \in s THEN txn
                                    ELSE exit[mem.current][n]
    OBVIOUS
  <2>7. \A g \in Gen, n \in ActNode :
          exit'[g][n] = IF g = mem.current /\ n \in s THEN txn
                        ELSE exit[g][n]
    <3> HIDE DEF row
    <3> QED
      BY <2>1, <2>5, <2>6, Zenon
  <2> QED
    BY <2>1, <2>4, <2>5, <2>7, Zenon
<1> QED
  BY <1>1, <1>2, Zenon

(* Exit scripts belong to the nodes of the action.                         *)
LEMMA ExitScriptsType ==
  ASSUME NEW n \in Node
  PROVE  ExitScripts(n) \subseteq SUBSET ActNode
  BY Zenon DEF ExitScripts

(* Every step of confd and of the script keeps the types.                  *)
LEMMA TypeStep == IInv /\ [Next]_vars => TypeOK'
<1> SUFFICES ASSUME IInv, [Next]_vars PROVE TypeOK'
  OBVIOUS
<1>1. CASE ClaimBusy
  <2>1. mem' \in [current : {None} \cup Gen, next : Gen]
    BY <1>1, ClearedType, Zenon DEF ClaimBusy
  <2>2. txn' \in 0 .. MaxTxn
    BY <1>1 DEF IInv, TypeOK, ClaimBusy
  <2>3. UNCHANGED <<sysrepo, files, cb, script, up, ran, failures, holder,
                    crashes>>
    BY <1>1, Zenon DEF ClaimBusy
  <2> QED
    BY <2>1, <2>2, <2>3, ZenonT(30)
    DEF IInv, TypeOK, sysrepo, files, script, book
<1>2. ASSUME NEW c \in SUBSET Node, NEW m \in SUBSET (c \cap running),
             ClaimNext(c, m)
      PROVE  TypeOK'
  <2>1. mem' \in [current : {None} \cup Gen, next : Gen]
    BY <1>2, ClearedType, Zenon DEF ClaimNext
  <2>2. txn' \in 0 .. MaxTxn /\ holder' \in 0 .. MaxTxn
    BY <1>2 DEF IInv, TypeOK, ClaimNext
  <2>3. conf' \subseteq Node /\ diff' \subseteq Node
    BY <1>2, Zenon DEF IInv, TypeOK, ClaimNext, Changed
  <2>4. next' = Empty /\ cb' = "claim"
    BY <1>2, Zenon DEF ClaimNext
  <2>5. UNCHANGED <<running, current, dir, dag, exitOrder, init, exit, script,
                    up, ran, failures, crashes>>
    BY <1>2, Zenon DEF ClaimNext
  <2> QED
    BY <2>1, <2>2, <2>3, <2>4, <2>5, Zenon
    DEF IInv, TypeOK, sysrepo, files, script, book
<1>3. CASE ClaimFails
  <2>1. current + 1 \in Gen
    BY <1>3 DEF IInv, TypeOK, Phase, ClaimFails
  <2>2. mem' \in [current : {None} \cup Gen, next : Gen]
    BY <1>3, <2>1 DEF IInv, TypeOK, ClaimFails
  <2>3. exitOrder' \subseteq Gen
    BY <1>3, Zenon DEF IInv, TypeOK, ClaimFails, LinkExitOrder
  <2> QED
    BY <1>3, <2>2, <2>3, Zenon
    DEF IInv, TypeOK, ClaimFails, sysrepo, files, script, book
<1>4. CASE ClaimDirs
  <2>1. current + 1 \in Gen
    BY <1>4 DEF IInv, TypeOK, Phase, ClaimDirs
  <2>2. mem' \in [current : {None} \cup Gen, next : Gen]
    BY <1>4, <2>1, Zenon DEF IInv, TypeOK, ClaimDirs
  <2>3. exitOrder' \subseteq Gen
    BY <1>4, Zenon DEF IInv, TypeOK, ClaimDirs, LinkExitOrder
  <2> QED
    BY <1>4, <2>1, <2>2, <2>3, Zenon
    DEF IInv, TypeOK, ClaimDirs, sysrepo, files, script, book
<1>5. CASE NetdagInit
  BY <1>5, Zenon DEF IInv, TypeOK, Phase, Dirs, Held, Evolving, NetdagInit,
    sysrepo, files, script, book
<1>6. CASE Accept
  BY <1>6, Zenon
  DEF IInv, TypeOK, Phase, Dirs, Held, Evolving, Accept, sysrepo,
    files, script, book
<1>7. ASSUME NEW n \in Node, GenIfaceDel(n) PROVE TypeOK'
  <2>1. txn \in Txn
    BY <1>7, Zenon DEF IInv, Phase, Held, GenIfaceDel
  <2>2. exit' \in [Gen -> [ActNode -> {NoScript} \cup Txn]]
    BY <1>7, <2>1, WriteExitProperties, Zenon DEF IInv, GenIfaceDel
  <2> QED
    BY <1>7, <2>2, Zenon
    DEF IInv, TypeOK, GenIfaceDel, sysrepo, files, script, book
<1>8. ASSUME NEW n \in Node, NEW s \in ExitScripts(n), GenIface(n, s)
      PROVE  TypeOK'
  <2>1. txn \in Txn
    BY <1>8, Zenon DEF IInv, Phase, Held, GenIface
  <2>2. exit' \in [Gen -> [ActNode -> {NoScript} \cup Txn]]
    BY <1>8, <2>1, ExitScriptsType, WriteExitProperties, Zenon
    DEF IInv, GenIface
  <2>3. init' \in [Gen -> [ActNode -> {NoScript} \cup Txn]]
    BY <1>8, <2>1, Zenon DEF IInv, TypeOK, GenIface
  <2> QED
    BY <1>8, <2>2, <2>3, Zenon
    DEF IInv, TypeOK, GenIface, sysrepo, files, script, book
<1>9. ASSUME NEW n \in Node, NEW s \in ExitScripts(n), GenFails(n, s)
      PROVE  TypeOK'
  <2>1. txn \in Txn
    BY <1>9, Zenon DEF IInv, Phase, Held, GenFails
  <2>2. exit' \in [Gen -> [ActNode -> {NoScript} \cup Txn]]
    BY <1>9, <2>1, ExitScriptsType, WriteExitProperties, Zenon
    DEF IInv, GenFails
  <2> QED
    BY <1>9, <2>2, Zenon
    DEF IInv, TypeOK, GenFails, Start, sysrepo, files, script, book
<1>10. CASE Done
  BY <1>10, Zenon DEF IInv, TypeOK, Phase, Dirs, Held, Evolving, Done, Start,
    sysrepo, files, script, book
<1>11. CASE Abort
  BY <1>11, Zenon DEF IInv, TypeOK, Phase, Dirs, Held, Evolving, Abort, Start,
    sysrepo, files, script, book
<1>12. CASE EvolveCheck
  BY <1>12, ZenonT(30)
  DEF IInv, TypeOK, Phase, Dirs, Held, Evolving, EvolveCheck,
    EvolveFails, CurrentExists, NextExists, Scripted, sysrepo, files,
    script, book
<1>13. CASE ExitEnd
  BY <1>13, Zenon
  DEF IInv, TypeOK, Phase, Dirs, Held, Evolving, ExitEnd, Scripted,
    sysrepo, files, script, book
<1>14. CASE NodeFails
  BY <1>14, Zenon DEF IInv, TypeOK, Phase, Dirs, Held, Evolving, NodeFails,
    EvolveFails, sysrepo, files, script, book
<1>15. CASE Rename
  BY <1>15, Zenon DEF IInv, TypeOK, Phase, Dirs, Held, Evolving, Rename, Ends,
    sysrepo, files, script, book
<1>16. ASSUME NEW n \in ActNode, ExitNode(n) PROVE TypeOK'
  <2> DEFINE r == Executed("exit", exit[current][n], n)
  <2>1. holder \in Txn /\ exit[current][n] \in Txn
    BY <1>16 DEF IInv, TypeOK, Phase, Runs, Scripted, ExitNode
  <2>2. r \in [by : Txn, action : {"exit", "init"}, 
               writer : Txn, node : ActNode]
    BY <2>1, Zenon DEF Executed
  <2>3. ran' = ran \cup {r}
    BY <1>16, Zenon DEF ExitNode
  <2> HIDE DEF r
  <2> QED
    BY <1>16, <2>2, <2>3, ZenonT(30)
    DEF IInv, TypeOK, ExitNode, sysrepo, files, script, book
<1>17. ASSUME NEW n \in ActNode, InitNode(n) PROVE TypeOK'
  <2> DEFINE r == Executed("init", init[next][n], n)
  <2>1. next \in Gen
    BY <1>17 DEF IInv, TypeOK, Phase, InitNode
  <2>2. holder \in Txn /\ init[next][n] \in Txn /\ n \in Node
    BY <1>17, <2>1 DEF IInv, TypeOK, Phase, Writers, Runs, Scripted, InitNode
  <2>3. r \in [by : Txn, action : {"exit", "init"}, 
               writer : Txn, node : ActNode]
    BY <2>2, Zenon DEF Executed
  <2>4. ran' = ran \cup {r}
    BY <1>17, Zenon DEF InitNode
  <2> HIDE DEF r
  <2> QED
    BY <1>17, <2>2, <2>3, <2>4, ZenonT(30)
    DEF IInv, TypeOK, InitNode, sysrepo, files, script, book
<1>18. CASE AbandonMove
  <2>1. next \in Gen
    BY <1>18 DEF IInv, TypeOK, Phase, AbandonMove
  <2>2. NoScripts \in [ActNode -> {NoScript} \cup Txn]
    BY Zenon DEF NoScripts
  <2>3. /\ init' = init \/ init' = [init EXCEPT ![next] = NoScripts]
        /\ exit' = exit \/ exit' = [exit EXCEPT ![next] = NoScripts]
    BY <1>18, Zenon DEF AbandonMove
  <2>4. init' \in [Gen -> [ActNode -> {NoScript} \cup Txn]]
    <3>1. init \in [Gen -> [ActNode -> {NoScript} \cup Txn]]
      BY Zenon DEF IInv, TypeOK
    <3> QED
      BY <3>1, <2>1, <2>2, <2>3, Zenon
  <2>5. exit' \in [Gen -> [ActNode -> {NoScript} \cup Txn]]
    <3>1. exit \in [Gen -> [ActNode -> {NoScript} \cup Txn]]
      BY Zenon DEF IInv, TypeOK
    <3> QED
      BY <3>1, <2>1, <2>2, <2>3, Zenon
  <2> QED
    BY <1>18, <2>1, <2>4, <2>5, Zenon
    DEF IInv, TypeOK, AbandonMove, Ends, sysrepo, files, script, book
<1>19. CASE AbandonRemove
  BY <1>19, Zenon DEF IInv, TypeOK, Phase, Dirs, Held, Evolving, AbandonRemove,
    Ends, sysrepo, files, script, book
<1>20. ASSUME NEW kill \in BOOLEAN, NEW stored \in BOOLEAN, Crash(kill, stored)
      PROVE  TypeOK'
  <2>1. mem' \in [current : {None} \cup Gen, next : Gen]
    BY <1>20, ClearedType, Zenon DEF Crash
  <2>2. crashes' \in 0 .. MaxCrashes
    BY <1>20 DEF IInv, TypeOK, Crash
  <2>3. running' \subseteq Node /\ cb' = "idle"
    BY <1>20, Zenon DEF IInv, TypeOK, Crash
  <2>4. sh' \in {sh, "none"} /\ todo' \subseteq todo
    BY <1>20, Zenon DEF Crash, script
  <2>5. UNCHANGED <<conf, diff, files, up, ran, failures, txn, holder>>
    BY <1>20, Zenon DEF Crash
  <2> QED
    BY <2>1, <2>2, <2>3, <2>4, <2>5, Zenon
    DEF IInv, TypeOK, sysrepo, files, script, book
<1>21. CASE UNCHANGED vars
  BY <1>21, ZenonT(30)
  DEF IInv, TypeOK, Phase, Dirs, Held, Evolving, vars, sysrepo,
    files, script, book
<1> QED
  BY <1>1, <1>2, <1>3, <1>4, <1>5, <1>6, <1>7, <1>8, <1>9, <1>10, <1>11,
     <1>12, <1>13, <1>14, <1>15, <1>16, <1>17, <1>18, <1>19, <1>20,
     <1>21, Zenon
  DEF Next, Claim, Prepare, PrepareFails, Execute

(* Every step keeps callback, script and the two files in agreement.       *)
LEMMA PhaseStep == IInv /\ [Next]_vars => Phase'
<1> SUFFICES ASSUME IInv, [Next]_vars PROVE Phase'
  OBVIOUS
<1>1. CASE ClaimBusy
  BY <1>1 DEF IInv, TypeOK, Phase, Dirs, Held, Evolving, ClaimBusy, Cleared,
    sysrepo, files, script, book
<1>2. ASSUME NEW c \in SUBSET Node, NEW m \in SUBSET (c \cap running),
             ClaimNext(c, m)
      PROVE  Phase'
  BY <1>2 DEF IInv, TypeOK, Phase, Dirs, Held, Evolving, ClaimNext, Changed,
    Cleared, sysrepo, files, script, book
<1>3. CASE ClaimFails
  BY <1>3, Zenon DEF IInv, TypeOK, Phase, Dirs, Held, Evolving, ClaimFails,
    ExitLinkFree, InitLinkFree, LinkExitOrder, sysrepo, files, script, book
<1>4. CASE ClaimDirs
  BY <1>4, Zenon DEF IInv, TypeOK, Phase, Dirs, Held, Evolving, ClaimDirs,
    ExitLinkFree, InitLinkFree, LinkExitOrder, sysrepo, files, script, book
<1>5. CASE NetdagInit
  BY <1>5, Zenon DEF IInv, TypeOK, Phase, Dirs, Held, Evolving, NetdagInit,
    sysrepo, files, script, book
<1>6. CASE Accept
  BY <1>6, Zenon
  DEF IInv, TypeOK, Phase, Dirs, Held, Evolving, Accept, sysrepo,
    files, script, book
<1>7. ASSUME NEW n \in Node, GenIfaceDel(n) PROVE Phase'
  BY <1>7, Zenon DEF IInv, TypeOK, Phase, Dirs, Held, Evolving, GenIfaceDel,
    WriteExit, sysrepo, files, script, book
<1>8. ASSUME NEW n \in Node, NEW s \in ExitScripts(n), GenIface(n, s)
      PROVE  Phase'
  BY <1>8, Zenon DEF IInv, TypeOK, Phase, Dirs, Held, Evolving, GenIface,
    WriteExit, ExitScripts, sysrepo, files, script, book
<1>9. ASSUME NEW n \in Node, NEW s \in ExitScripts(n), GenFails(n, s)
      PROVE  Phase'
  BY <1>9 DEF IInv, TypeOK, Phase, Dirs, Held, Evolving, GenFails,
    WriteExit, ExitScripts, Start, sysrepo, files, script, book
<1>10. CASE Done
  BY <1>10 DEF IInv, TypeOK, Phase, Dirs, Held, Evolving, Done, Start,
    sysrepo, files, script, book
<1>11. CASE Abort
  BY <1>11 DEF IInv, TypeOK, Phase, Dirs, Held, Evolving, Abort, Start,
    sysrepo, files, script, book
<1>12. CASE EvolveCheck
  BY <1>12, Zenon DEF IInv, TypeOK, Phase, Dirs, Held, Evolving, EvolveCheck,
    EvolveFails, CurrentExists, NextExists, Scripted, sysrepo, files,
    script, book
<1>13. CASE ExitEnd
  BY <1>13, Zenon
  DEF IInv, TypeOK, Phase, Dirs, Held, Evolving, ExitEnd, Scripted,
    sysrepo, files, script, book
<1>14. CASE NodeFails
  BY <1>14, Zenon DEF IInv, TypeOK, Phase, Dirs, Held, Evolving, NodeFails,
    EvolveFails, sysrepo, files, script, book
<1>15. CASE Rename
  BY <1>15 DEF IInv, TypeOK, Phase, Dirs, Held, Evolving, Rename, Ends,
    sysrepo, files, script, book
<1>16. ASSUME NEW n \in ActNode, ExitNode(n) PROVE Phase'
  BY <1>16, Zenon DEF IInv, TypeOK, Phase, Dirs, Held, Evolving, ExitNode,
    Executed, sysrepo, files, script, book
<1>17. ASSUME NEW n \in ActNode, InitNode(n) PROVE Phase'
  BY <1>17, Zenon DEF IInv, TypeOK, Phase, Dirs, Held, Evolving, InitNode,
    Executed, sysrepo, files, script, book
<1>18. CASE AbandonMove
  BY <1>18, Zenon
  DEF IInv, TypeOK, Phase, Dirs, Held, Evolving, AbandonMove, Ends,
    NextExists, sysrepo, files, script, book
<1>19. CASE AbandonRemove
  BY <1>19, Zenon DEF IInv, TypeOK, Phase, Dirs, Held, Evolving, AbandonRemove,
    Ends, sysrepo, files, script, book
<1>20. ASSUME NEW kill \in BOOLEAN, NEW stored \in BOOLEAN, Crash(kill, stored)
      PROVE  Phase'
  BY <1>20, Zenon
  DEF IInv, TypeOK, Phase, Dirs, Held, Evolving, Crash, Cleared,
    sysrepo, files, script, book
<1>21. CASE UNCHANGED vars
  BY <1>21, Zenon DEF IInv, TypeOK, Phase, Dirs, Held, Evolving, vars, sysrepo,
    files, script, book
<1> QED
  BY <1>1, <1>2, <1>3, <1>4, <1>5, <1>6, <1>7, <1>8, <1>9, <1>10, <1>11,
     <1>12, <1>13, <1>14, <1>15, <1>16, <1>17, <1>18, <1>19, <1>20, <1>21
  DEF Next, Claim, Prepare, PrepareFails, Execute

(* Every step keeps the generation directories in order.                   *)
LEMMA DirsStep == IInv /\ [Next]_vars => Dirs'
<1> SUFFICES ASSUME IInv, [Next]_vars PROVE Dirs'
  OBVIOUS
<1>1. CASE ClaimBusy
  BY <1>1, Zenon
  DEF IInv, TypeOK, Phase, Dirs, Held, Evolving, ClaimBusy, Cleared,
    sysrepo, files, script, book
<1>2. ASSUME NEW c \in SUBSET Node, NEW m \in SUBSET (c \cap running),
             ClaimNext(c, m)
      PROVE  Dirs'
  BY <1>2, Zenon
  DEF IInv, TypeOK, Phase, Dirs, Held, Evolving, ClaimNext, Changed,
    Cleared, sysrepo, files, script, book
<1>3. CASE ClaimFails
  BY <1>3, ZenonT(30)
  DEF IInv, TypeOK, Phase, Dirs, Held, Evolving, ClaimFails,
    ExitLinkFree, InitLinkFree, LinkExitOrder, sysrepo, files, script, book
<1>4. CASE ClaimDirs
  BY <1>4 DEF IInv, TypeOK, Phase, Dirs, Held, Evolving, ClaimDirs,
    ExitLinkFree, InitLinkFree, LinkExitOrder, sysrepo, files, script, book
<1>5. CASE NetdagInit
  BY <1>5 DEF IInv, TypeOK, Phase, Dirs, Held, Evolving, NetdagInit,
    sysrepo, files, script, book
<1>6. CASE Accept
  BY <1>6, Zenon
  DEF IInv, TypeOK, Phase, Dirs, Held, Evolving, Accept, sysrepo,
    files, script, book
<1>7. ASSUME NEW n \in Node, GenIfaceDel(n) PROVE Dirs'
  <2>1. txn \in Txn /\ Held
    BY <1>7, Zenon DEF IInv, Phase, Held, GenIfaceDel
  <2>2. \A g \in Gen : g # mem.current => exit'[g] = exit[g]
    BY <1>7, <2>1, WriteExitProperties, Zenon DEF IInv, GenIfaceDel
  <2>3. \A g \in Gen : g \notin exitOrder => exit'[g] = NoScripts
    BY <2>1, <2>2 DEF IInv, TypeOK, Phase, Dirs, Writers
  <2> QED
    BY <1>7, <2>1, <2>3, Zenon
    DEF IInv, TypeOK, Phase, Dirs, Held, Evolving, GenIfaceDel, sysrepo,
        files, script, book
<1>8. ASSUME NEW n \in Node, NEW s \in ExitScripts(n), GenIface(n, s)
      PROVE  Dirs'
  <2>1. txn \in Txn /\ Held
    BY <1>8, Zenon DEF IInv, Phase, Held, GenIface
  <2>2. \A g \in Gen : g # mem.current => exit'[g] = exit[g]
    BY <1>8, <2>1, ExitScriptsType, WriteExitProperties, Zenon
    DEF IInv, GenIface
  <2>3. \A g \in Gen : g \notin exitOrder => exit'[g] = NoScripts
    BY <2>1, <2>2 DEF IInv, TypeOK, Phase, Dirs, Writers
  <2> QED
    BY <1>8, <2>1, <2>3
    DEF IInv, TypeOK, Phase, Dirs, Held, Evolving, GenIface, sysrepo,
        files, script, book
<1>9. ASSUME NEW n \in Node, NEW s \in ExitScripts(n), GenFails(n, s)
      PROVE  Dirs'
  <2>1. txn \in Txn /\ Held
    BY <1>9, Zenon DEF IInv, Phase, Held, GenFails
  <2>2. \A g \in Gen : g # mem.current => exit'[g] = exit[g]
    BY <1>9, <2>1, ExitScriptsType, WriteExitProperties, Zenon
    DEF IInv, GenFails
  <2>3. \A g \in Gen : g \notin exitOrder => exit'[g] = NoScripts
    BY <2>1, <2>2 DEF IInv, TypeOK, Phase, Dirs, Writers
  <2> QED
    BY <1>9, <2>1, <2>3
    DEF IInv, TypeOK, Phase, Dirs, Held, Evolving, GenFails, Start,
        sysrepo, files, script, book
<1>10. CASE Done
  BY <1>10 DEF IInv, TypeOK, Phase, Dirs, Held, Evolving, Done, Start,
    sysrepo, files, script, book
<1>11. CASE Abort
  BY <1>11 DEF IInv, TypeOK, Phase, Dirs, Held, Evolving, Abort, Start,
    sysrepo, files, script, book
<1>12. CASE EvolveCheck
  BY <1>12, Zenon DEF IInv, TypeOK, Phase, Dirs, Held, Evolving, EvolveCheck,
    EvolveFails, CurrentExists, NextExists, Scripted, sysrepo, files,
    script, book
<1>13. CASE ExitEnd
  BY <1>13, Zenon
  DEF IInv, TypeOK, Phase, Dirs, Held, Evolving, ExitEnd, Scripted,
    sysrepo, files, script, book
<1>14. CASE NodeFails
  BY <1>14, Zenon DEF IInv, TypeOK, Phase, Dirs, Held, Evolving, NodeFails,
    EvolveFails, sysrepo, files, script, book
<1>15. CASE Rename
  BY <1>15 DEF IInv, TypeOK, Phase, Dirs, Held, Evolving, Rename, Ends,
    sysrepo, files, script, book
<1>16. ASSUME NEW n \in ActNode, ExitNode(n) PROVE Dirs'
  BY <1>16, Zenon DEF IInv, TypeOK, Phase, Dirs, Held, Evolving, ExitNode,
    Executed, sysrepo, files, script, book
<1>17. ASSUME NEW n \in ActNode, InitNode(n) PROVE Dirs'
  BY <1>17, Zenon DEF IInv, TypeOK, Phase, Dirs, Held, Evolving, InitNode,
    Executed, sysrepo, files, script, book
<1>18. CASE AbandonMove
  <2>1. next = current + 1 /\ next \in dir /\ next \in Gen
    BY <1>18, Zenon DEF IInv, TypeOK, Phase, Dirs, AbandonMove
  <2>2. /\ dir' = dir \ {next} /\ exitOrder' = exitOrder \ {next}
        /\ sh' = "rm" /\ UNCHANGED <<cb, next, current>>
    BY <1>18, <2>1, Zenon DEF AbandonMove, NextExists
  <2>3. \A g \in Gen : /\ exit'[g] = IF g = next THEN NoScripts ELSE exit[g]
                       /\ init'[g] = IF g = next THEN NoScripts ELSE init[g]
                       /\ dag'[g] = IF g = next THEN {} ELSE dag[g]
    BY <1>18, <2>1, Zenon DEF IInv, TypeOK, AbandonMove, NextExists
  <2>4. ~ Held /\ cb # "claim"
    BY <1>18, Zenon DEF IInv, Phase, Held, AbandonMove
  <2> QED
    BY <2>1, <2>2, <2>3, <2>4 DEF IInv, TypeOK, Dirs, Held, Evolving
<1>19. CASE AbandonRemove
  BY <1>19, Zenon DEF IInv, TypeOK, Phase, Dirs, Held, Evolving, AbandonRemove,
    Ends, sysrepo, files, script, book
<1>20. ASSUME NEW kill \in BOOLEAN, NEW stored \in BOOLEAN, Crash(kill, stored)
      PROVE  Dirs'
  BY <1>20, Zenon
  DEF IInv, TypeOK, Phase, Dirs, Held, Evolving, Crash, Cleared,
    sysrepo, files, script, book
<1>21. CASE UNCHANGED vars
  BY <1>21, Zenon DEF IInv, TypeOK, Phase, Dirs, Held, Evolving, vars, sysrepo,
    files, script, book
<1> QED
  BY <1>1, <1>2, <1>3, <1>4, <1>5, <1>6, <1>7, <1>8, <1>9, <1>10, <1>11,
     <1>12, <1>13, <1>14, <1>15, <1>16, <1>17, <1>18, <1>19, <1>20, <1>21
  DEF Next, Claim, Prepare, PrepareFails, Execute

(* Every step keeps the scripts of a change apart from those of others.    *)
LEMMA WritersStep == IInv /\ [Next]_vars => Writers'
<1> SUFFICES ASSUME IInv, [Next]_vars PROVE Writers'
  OBVIOUS
<1>1. CASE ClaimBusy
  BY <1>1, Zenon
  DEF IInv, TypeOK, Phase, Dirs, Held, Evolving, Writers, ClaimBusy,
    Cleared, sysrepo, files, script, book
<1>2. ASSUME NEW c \in SUBSET Node, NEW m \in SUBSET (c \cap running),
             ClaimNext(c, m)
      PROVE  Writers'
  BY <1>2, Zenon
  DEF IInv, TypeOK, Phase, Dirs, Held, Evolving, Writers, ClaimNext,
    Changed, Cleared, sysrepo, files, script, book
<1>3. CASE ClaimFails
  BY <1>3, Zenon DEF IInv, TypeOK, Phase, Dirs, Held, Evolving, Writers,
    ClaimFails, ExitLinkFree, InitLinkFree, LinkExitOrder, sysrepo, files,
    script, book
<1>4. CASE ClaimDirs
  BY <1>4 DEF IInv, TypeOK, Phase, Dirs, Held, Evolving, Writers, ClaimDirs,
    ExitLinkFree, InitLinkFree, LinkExitOrder, sysrepo, files, script, book
<1>5. CASE NetdagInit
  BY <1>5 DEF IInv, TypeOK, Phase, Dirs, Held, Evolving, Writers,
    NetdagInit, sysrepo, files, script, book
<1>6. CASE Accept
  BY <1>6, Zenon
  DEF IInv, TypeOK, Phase, Dirs, Held, Evolving, Writers, Accept,
    sysrepo, files, script, book
<1>7. ASSUME NEW n \in Node, GenIfaceDel(n) PROVE Writers'
  BY <1>7 DEF IInv, TypeOK, Phase, Dirs, Held, Evolving, Writers,
    GenIfaceDel, WriteExit, sysrepo, files, script, book
<1>8. ASSUME NEW n \in Node, NEW s \in ExitScripts(n), GenIface(n, s)
      PROVE  Writers'
  BY <1>8 DEF IInv, TypeOK, Phase, Dirs, Held, Evolving, Writers, GenIface,
    WriteExit, ExitScripts, sysrepo, files, script, book
<1>9. ASSUME NEW n \in Node, NEW s \in ExitScripts(n), GenFails(n, s)
      PROVE  Writers'
  BY <1>9, Zenon
  DEF IInv, TypeOK, Phase, Dirs, Held, Evolving, Writers, GenFails,
    WriteExit, ExitScripts, Start, sysrepo, files, script, book
<1>10. CASE Done
  BY <1>10, Zenon DEF IInv, TypeOK, Phase, Dirs, Held, Evolving, Writers, Done,
    Start, sysrepo, files, script, book
<1>11. CASE Abort
  BY <1>11, Zenon
  DEF IInv, TypeOK, Phase, Dirs, Held, Evolving, Writers, Abort,
    Start, sysrepo, files, script, book
<1>12. CASE EvolveCheck
  BY <1>12, Zenon DEF IInv, TypeOK, Phase, Dirs, Held, Evolving, Writers,
    EvolveCheck, EvolveFails, CurrentExists, NextExists, Scripted, sysrepo,
    files, script, book
<1>13. CASE ExitEnd
  BY <1>13, Zenon
  DEF IInv, TypeOK, Phase, Dirs, Held, Evolving, Writers, ExitEnd,
    Scripted, sysrepo, files, script, book
<1>14. CASE NodeFails
  BY <1>14, Zenon DEF IInv, TypeOK, Phase, Dirs, Held, Evolving, Writers,
    NodeFails, EvolveFails, sysrepo, files, script, book
<1>15. CASE Rename
  BY <1>15, Zenon
  DEF IInv, TypeOK, Phase, Dirs, Held, Evolving, Writers, Rename,
    Ends, sysrepo, files, script, book
<1>16. ASSUME NEW n \in ActNode, ExitNode(n) PROVE Writers'
  BY <1>16, Zenon
  DEF IInv, TypeOK, Phase, Dirs, Held, Evolving, Writers, ExitNode,
    Executed, sysrepo, files, script, book
<1>17. ASSUME NEW n \in ActNode, InitNode(n) PROVE Writers'
  BY <1>17, Zenon
  DEF IInv, TypeOK, Phase, Dirs, Held, Evolving, Writers, InitNode,
    Executed, sysrepo, files, script, book
<1>18. CASE AbandonMove
  <2>1. next = current + 1 /\ next \in dir /\ next \in Gen
    BY <1>18 DEF IInv, TypeOK, Phase, Dirs, AbandonMove
  <2>2. sh' = "rm" /\ UNCHANGED <<cb, current>>
    BY <1>18, <2>1, Zenon DEF AbandonMove, NextExists
  <2>3. \A g \in Gen : /\ init'[g] = IF g = next THEN NoScripts ELSE init[g]
                       /\ dag'[g] = IF g = next THEN {} ELSE dag[g]
    BY <1>18, <2>1, Zenon DEF IInv, TypeOK, AbandonMove, NextExists
  <2>4. ~ Held'
    BY <1>18, <2>2, Zenon DEF IInv, Phase, Held, AbandonMove
  <2>5. \A n \in ActNode : NoScripts[n] = NoScript
    BY Zenon DEF NoScripts
  <2> QED
    BY <2>2, <2>3, <2>4, <2>5, Zenon DEF IInv, TypeOK, Writers, Held, Evolving
<1>19. CASE AbandonRemove
  BY <1>19, Zenon DEF IInv, TypeOK, Phase, Dirs, Held, Evolving, Writers,
    AbandonRemove, Ends, sysrepo, files, script, book
<1>20. ASSUME NEW kill \in BOOLEAN, NEW stored \in BOOLEAN, Crash(kill, stored)
      PROVE  Writers'
  BY <1>20, Zenon
  DEF IInv, TypeOK, Phase, Dirs, Held, Evolving, Writers, Crash,
    Cleared, sysrepo, files, script, book
<1>21. CASE UNCHANGED vars
  BY <1>21 DEF IInv, TypeOK, Phase, Dirs, Held, Evolving, Writers, vars,
    sysrepo, files, script, book
<1> QED
  BY <1>1, <1>2, <1>3, <1>4, <1>5, <1>6, <1>7, <1>8, <1>9, <1>10, <1>11,
     <1>12, <1>13, <1>14, <1>15, <1>16, <1>17, <1>18, <1>19, <1>20, <1>21
  DEF Next, Claim, Prepare, PrepareFails, Execute

(* Steps outside the two actions execute nothing.                          *)
LEMMA RunsOutside ==
  ASSUME IInv, sh' \notin {"exit", "init"}, UNCHANGED <<ran, current>>,
         current # None => init'[current] = init[current]
  PROVE  Runs'
<1>1. OwnScripts'
  BY Zenon DEF IInv, Runs, OwnScripts
<1>2. CurrentApplied'
  BY DEF IInv, Runs, CurrentApplied
<1> QED
  BY <1>1, <1>2, Zenon DEF Runs

(* Neither do steps that leave the scripts, and what is left to do, alone. *)
LEMMA RunsUnchanged ==
  ASSUME IInv, UNCHANGED <<ran, files, script>> PROVE Runs'
<1>1. OwnScripts'
  BY Zenon DEF IInv, Runs, OwnScripts
<1>2. CurrentApplied'
  BY Zenon DEF IInv, Runs, CurrentApplied, files
<1>3. /\ Scripted(current, exit)' = Scripted(current, exit)
      /\ Scripted(next, init)' = Scripted(next, init)
  BY Zenon DEF Scripted, files
<1>4. \A n \in ActNode : SetUp(next, n)' <=> SetUp(next, n)
  BY Zenon DEF SetUp, files
<1>5. sh = "init" => Scripted(next, init) \subseteq ActNode
  BY DEF IInv, TypeOK, Phase, Scripted
<1> QED
  BY <1>1, <1>2, <1>3, <1>4, <1>5, Zenon DEF IInv, Runs, files, script

(* Every step keeps account of what has been executed.                     *)
LEMMA RunsStep == IInv /\ [Next]_vars => Runs'
<1> SUFFICES ASSUME IInv, [Next]_vars PROVE Runs'
  OBVIOUS
<1>1. CASE ClaimBusy
  BY <1>1, RunsUnchanged, Zenon DEF ClaimBusy
<1>2. ASSUME NEW c \in SUBSET Node, NEW m \in SUBSET (c \cap running),
             ClaimNext(c, m)
      PROVE  Runs'
  <2>1. sh = "none"
    BY <1>2, Zenon DEF ClaimNext, IInv, TypeOK, Phase
  <2> QED
    BY <1>2, <2>1, RunsOutside, Zenon DEF ClaimNext, script
<1>3. CASE ClaimFails
  <2>1. sh = "none"
    BY <1>3, Zenon DEF ClaimFails, IInv, Phase
  <2> QED
    BY <1>3, <2>1, RunsOutside, Zenon DEF ClaimFails, script
<1>4. CASE ClaimDirs
  <2>1. sh = "none"
    BY <1>4, Zenon DEF ClaimDirs, IInv, Phase
  <2> QED
    BY <1>4, <2>1, RunsOutside, Zenon DEF ClaimDirs, script
<1>5. CASE NetdagInit
  <2>1. sh = "none"
    BY <1>5, Zenon DEF NetdagInit, IInv, Phase, Held
  <2> QED
    BY <1>5, <2>1, RunsOutside, Zenon DEF NetdagInit, script
<1>6. CASE Accept
  BY <1>6, RunsUnchanged, Zenon DEF Accept
<1>7. ASSUME NEW n \in Node, GenIfaceDel(n) PROVE Runs'
  <2>1. sh = "none"
    BY <1>7, Zenon DEF GenIfaceDel, IInv, Phase, Held
  <2> QED
    BY <1>7, <2>1, RunsOutside, Zenon DEF GenIfaceDel, script
<1>8. ASSUME NEW n \in Node, NEW s \in ExitScripts(n), GenIface(n, s)
      PROVE  Runs'
  <2>1. /\ cb = "gen" /\ init' = [init EXCEPT ![mem.next][n] = txn]
        /\ UNCHANGED <<ran, current, sh>>
    BY <1>8, Zenon DEF GenIface, script
  <2>2. sh = "none" /\ mem.next = current + 1
    BY <2>1, Zenon DEF IInv, Phase, Held
  <2>3. current # None => init'[current] = init[current]
    BY <2>1, <2>2 DEF IInv, TypeOK
  <2> QED
    BY <2>1, <2>2, <2>3, RunsOutside, Zenon
<1>9. ASSUME NEW n \in Node, NEW s \in ExitScripts(n), GenFails(n, s)
      PROVE  Runs'
  BY <1>9, RunsOutside, Zenon DEF GenFails, Start
<1>10. CASE Done
  BY <1>10, RunsOutside, Zenon DEF Done, Start
<1>11. CASE Abort
  BY <1>11, RunsOutside, Zenon DEF Abort, Start
<1>12. CASE EvolveCheck
  <2>1. CurrentExists /\ NextExists
    BY <1>12, Zenon
    DEF EvolveCheck, IInv, Phase, Dirs, Evolving, CurrentExists,
      NextExists
  <2>2. /\ current = None => sh' = "init" /\ todo' = Scripted(next, init)
        /\ current # None => sh' = "exit" /\ todo' = Scripted(current, exit)
        /\ UNCHANGED <<ran, files>>
    BY <1>12, <2>1, Zenon DEF EvolveCheck
  <2>3. OwnScripts' /\ CurrentApplied'
    BY <2>2, Zenon DEF IInv, Runs, OwnScripts, CurrentApplied, files
  <2>4. /\ Scripted(current, exit)' = Scripted(current, exit)
        /\ Scripted(next, init)' = Scripted(next, init)
    BY <2>2, Zenon DEF Scripted, files
  <2> QED
    BY <2>2, <2>3, <2>4, Zenon DEF Runs, files
<1>13. CASE ExitEnd
  <2>1. /\ sh' = "init" /\ todo' = Scripted(next, init)
        /\ UNCHANGED <<ran, files>>
    BY <1>13, Zenon DEF ExitEnd
  <2>2. OwnScripts' /\ CurrentApplied'
    BY <2>1, Zenon DEF IInv, Runs, OwnScripts, CurrentApplied, files
  <2>3. Scripted(next, init)' = Scripted(next, init)
    BY <2>1, Zenon DEF Scripted, files
  <2> QED
    BY <2>1, <2>2, <2>3, Zenon DEF Runs, files
<1>14. CASE NodeFails
  <2>1. UNCHANGED <<ran, current, init>>
    BY <1>14, Zenon DEF NodeFails, files
  <2>2. sh' \notin {"exit", "init"}
    BY <1>14, Zenon DEF NodeFails, EvolveFails
  <2> QED
    BY <2>1, <2>2, RunsOutside, Zenon
<1>15. CASE Rename
  BY <1>15, ZenonT(30)
  DEF IInv, TypeOK, Phase, Dirs, Held, Evolving, Writers, Runs,
    OwnScripts, CurrentApplied, SetUp, Scripted, Rename, Ends, sysrepo,
    files, script, book
<1>16. ASSUME NEW n \in ActNode, ExitNode(n) PROVE Runs'
  <2> DEFINE r == Executed("exit", exit[current][n], n)
  <2>1. /\ r.action = "exit" /\ r.by = holder
        /\ r.writer = exit[current][n]
    BY Zenon DEF Executed
  <2>2. ran' = ran \cup {r}
    BY <1>16 DEF ExitNode
  <2>3. /\ sh = "exit" /\ n \in todo /\ todo' = todo \ {n}
        /\ UNCHANGED <<files, sh>>
    BY <1>16, Zenon DEF ExitNode
  <2> HIDE DEF r
  <2>4. current # None /\ exit[current][n] # NoScript
    BY <2>3, Zenon DEF IInv, Runs, Scripted
  <2>5. r.writer = r.by
    BY <2>1, <2>3, <2>4, Zenon DEF IInv, Writers, Evolving
  <2>6. OwnScripts'
    BY <2>2, <2>5, Zenon DEF IInv, Runs, OwnScripts
  <2>7. CurrentApplied'
    BY <2>2, <2>3, Zenon DEF IInv, Runs, CurrentApplied, files
  <2>8. Scripted(current, exit)' = Scripted(current, exit)
    BY <2>3, Zenon DEF Scripted, files
  <2> QED
    BY <2>3, <2>6, <2>7, <2>8, Zenon DEF IInv, Runs, files
<1>17. ASSUME NEW n \in ActNode, InitNode(n) PROVE Runs'
  <2> DEFINE r == Executed("init", init[next][n], n)
  <2>1. /\ r.action = "init" /\ r.node = n
        /\ r.by = holder /\ r.writer = init[next][n]
    BY Zenon DEF Executed
  <2>2. ran' = ran \cup {r}
    BY <1>17 DEF InitNode
  <2>3. /\ sh = "init" /\ n \in todo /\ todo' = todo \ {n}
        /\ UNCHANGED <<next, current, dag, init, sh>>
    BY <1>17, Zenon DEF InitNode, files
  <2> HIDE DEF r
  <2>4. r.writer = r.by
    BY <2>1, <2>3 DEF IInv, TypeOK, Phase, Writers, Runs, Scripted, Evolving
  <2>5. OwnScripts'
    BY <2>2, <2>4 DEF IInv, Runs, OwnScripts
  <2>6. CurrentApplied'
    BY <2>2, <2>3, Zenon DEF IInv, Runs, CurrentApplied
  <2>7. \A x \in ActNode : SetUp(next, x) => SetUp(next, x)'
    BY <2>2, <2>3, Zenon DEF SetUp
  <2>8. SetUp(next, n)'
    BY <2>1, <2>2, <2>3, Zenon DEF SetUp
  <2>9. Scripted(next, init)' = Scripted(next, init)
    BY <2>3, Zenon DEF Scripted
  <2>10. Scripted(next, init) \subseteq ActNode
    BY <2>3 DEF IInv, TypeOK, Phase, Scripted
  <2>11. (\A x \in Scripted(next, init) : x \in todo \/ SetUp(next, x))'
    BY <2>3, <2>7, <2>8, <2>9, <2>10, Zenon DEF IInv, Runs
  <2> QED
    BY <2>3, <2>5, <2>6, <2>9, <2>11, Zenon DEF IInv, Runs
<1>18. CASE AbandonMove
  <2>1. /\ UNCHANGED <<ran, current>>
        /\ init' = init \/ init' = [init EXCEPT ![next] = NoScripts]
    BY <1>18, Zenon DEF AbandonMove
  <2>2. sh' \notin {"exit", "init"}
    BY <1>18, Zenon DEF AbandonMove, Ends
  <2>3. next = current + 1
    BY <1>18, Zenon DEF AbandonMove, IInv, Phase
  <2>4. current # None => init'[current] = init[current]
    BY <2>1, <2>3 DEF IInv, TypeOK
  <2> QED
    BY <2>1, <2>2, <2>4, RunsOutside, Zenon
<1>19. CASE AbandonRemove
  BY <1>19, RunsOutside, Zenon DEF AbandonRemove, Ends
<1>20. ASSUME NEW kill \in BOOLEAN, NEW stored \in BOOLEAN, Crash(kill, stored)
      PROVE  Runs'
  <2>1. UNCHANGED <<ran, files>>
    BY <1>20, Zenon DEF Crash
  <2>2. CASE kill
    <3>1. sh' = "none"
      BY <1>20, <2>2, Zenon DEF Crash
    <3> QED
      BY <2>1, <3>1, RunsOutside, Zenon DEF files
  <2>3. CASE ~ kill
    <3>1. UNCHANGED script
      BY <1>20, <2>3, Zenon DEF Crash
    <3> QED
      BY <2>1, <3>1, RunsUnchanged, Zenon
  <2> QED
    BY <2>2, <2>3, Zenon
<1>21. CASE UNCHANGED vars
  BY <1>21, RunsUnchanged, Zenon DEF vars
<1> QED
  BY <1>1, <1>2, <1>3, <1>4, <1>5, <1>6, <1>7, <1>8, <1>9, <1>10, <1>11,
     <1>12, <1>13, <1>14, <1>15, <1>16, <1>17, <1>18, <1>19, <1>20, <1>21
  DEF Next, Claim, Prepare, PrepareFails, Execute

(* The nodes that the init action visits are those that it sets up.        *)
LEMMA InitScripted ==
  ASSUME IInv, Evolving PROVE Scripted(next, init) = {n \in Node : IsSetUp(n)}
<1>1. next = current + 1 /\ next \in Gen
  BY DEF IInv, TypeOK, Phase, Evolving
<1>2. Scripted(next, init) \subseteq Node
  BY <1>1, Zenon DEF IInv, TypeOK, Writers, Scripted
<1>3. \A n \in Node : n \in Scripted(next, init) <=> IsSetUp(n)
  BY <1>1, Zenon DEF IInv, Writers, Scripted, IsSetUp
<1> QED
  BY <1>2, <1>3, Zenon

(* Every step keeps the plan that leads to the running datastore.          *)
LEMMA SetupStep ==
  IInv /\ SetupInv /\ [Next]_vars => SetupInv'
<1> SUFFICES ASSUME IInv, SetupInv, [Next]_vars, ~ failures', crashes' = 0
             PROVE  Setup'
  BY Zenon DEF SetupInv
<1>1. CASE ClaimBusy
  <2>1. UNCHANGED <<sysrepo, files, cb, script, up, failures, crashes>>
    BY <1>1, Zenon DEF ClaimBusy
  <2> QED
    BY <2>1, Zenon
    DEF SetupInv, Setup, Planned, Known, TornDown, IsSetUp, Evolving,
      sysrepo, files, script
<1>2. ASSUME NEW c \in SUBSET Node, NEW m \in SUBSET (c \cap running),
             ClaimNext(c, m)
      PROVE  Setup'
  <2>1. /\ cb = "idle" /\ cb' = "claim"
        /\ conf' = c /\ diff' = Changed(c, m)
        /\ UNCHANGED <<running, current, dag, sh, up, failures, crashes>>
    BY <1>2, Zenon DEF ClaimNext, script
  <2>2. Setup
    BY <2>1, Zenon DEF SetupInv
  <2>3. (running \ c) \cup (c \ running) \subseteq diff'
    BY <2>1, Zenon DEF Changed
  <2>4. Known' = Known
    BY <2>1, Zenon DEF Known
  <2>5. ~ Evolving
    BY <2>1, <2>2, Zenon DEF Setup
  <2> QED
    BY <2>1, <2>2, <2>3, <2>4, <2>5, Zenon DEF Setup, Evolving
<1>3. CASE ClaimFails
  <2>1. /\ cb = "claim" /\ cb' = "idle"
        /\ UNCHANGED <<running, current, dag, sh, up, failures, crashes>>
    BY <1>3, Zenon DEF ClaimFails, sysrepo, script, book
  <2>2. Setup /\ sh = "none"
    BY <2>1, Zenon DEF SetupInv, IInv, Phase
  <2>3. Known' = Known
    BY <2>1, Zenon DEF Known
  <2> QED
    BY <2>1, <2>2, <2>3, Zenon DEF Setup, Evolving
<1>4. CASE ClaimDirs
  <2>1. /\ cb = "claim" /\ cb' = "claimed" /\ ExitLinkFree
        /\ UNCHANGED <<running, conf, diff, current, dag, exit, sh, up,
                       failures, crashes>>
    BY <1>4, Zenon DEF ClaimDirs, sysrepo, script, book
  <2>2. Setup /\ sh = "none"
    BY <2>1, Zenon DEF SetupInv, IInv, Phase
  <2>3. Known' = Known
    BY <2>1, Zenon DEF Known
  <2>4. current # None => exit[current] = NoScripts
    BY <2>1, Zenon DEF ExitLinkFree, IInv, TypeOK, Dirs
  <2>5. \A n \in Node : ~ TornDown(n)'
    BY <2>1, <2>4, Zenon DEF TornDown, NoScripts
  <2> QED
    BY <2>1, <2>2, <2>3, <2>5, Zenon DEF Setup, Evolving
<1>5. CASE NetdagInit
  <2>1. /\ cb = "claimed" /\ cb' = "gen"
        /\ dag' = [dag EXCEPT ![mem.next] = conf \cup diff]
        /\ UNCHANGED <<running, conf, diff, current, init, exit, sh, up,
                       failures, crashes>>
    BY <1>5, Zenon DEF NetdagInit, sysrepo, script, book
  <2>2. Setup /\ sh = "none" /\ mem.next = current + 1
    BY <2>1, Zenon DEF SetupInv, IInv, Phase, Held
  <2>3. Known' = Known
    BY <2>1, <2>2 DEF IInv, TypeOK, Known
  <2>4. \A n \in Node : ~ IsSetUp(n)'
    BY <2>1, Zenon DEF IInv, Writers, IsSetUp, NoScripts
  <2>5. \A n \in Node : ~ TornDown(n)'
    BY <2>1, <2>2, Zenon DEF Setup, TornDown
  <2>6. conf \subseteq Node
    BY Zenon DEF IInv, TypeOK
  <2>7. Planned(running)'
    BY <2>1, <2>2, <2>4, <2>5, <2>6, Zenon DEF Setup, Planned
  <2> QED
    BY <2>1, <2>2, <2>3, <2>7, Zenon DEF Setup, Evolving
<1>6. CASE Accept
  <2>1. /\ cb = "gen" /\ cb' = "prepared" /\ diff = {}
        /\ UNCHANGED <<sysrepo, files, sh, up, failures, crashes>>
    BY <1>6, Zenon DEF Accept, script, book
  <2>2. Setup /\ sh = "none"
    BY <2>1, Zenon DEF SetupInv, IInv, Phase, Held
  <2>3. Known' = Known /\ Planned(running)'
    BY <2>1, <2>2, Zenon
    DEF Setup, Known, Planned, TornDown, IsSetUp, sysrepo, files
  <2> QED
    BY <2>1, <2>2, <2>3, Zenon DEF Setup, Evolving, sysrepo
<1>7. ASSUME NEW n \in Node, GenIfaceDel(n) PROVE Setup'
  <2>1. /\ cb = "gen" /\ n \in diff \ conf /\ WriteExit({n})
        /\ diff' = diff \ {n}
        /\ UNCHANGED <<running, conf, current, dag, init, cb, sh, up,
                       failures, crashes>>
    BY <1>7, Zenon DEF GenIfaceDel, script, book
  <2>2. Setup /\ sh = "none" /\ mem.current = current /\ txn \in Txn
    BY <2>1, Zenon DEF SetupInv, IInv, Phase, Held
  <2>3. /\ current \in Gen
        /\ \A x \in Node : exit'[current][x] = IF x = n THEN txn
                                               ELSE exit[current][x]
    BY <2>1, <2>2, WriteExitProperties DEF IInv
  <2>4. \A x \in Node : TornDown(x)' <=> x = n \/ TornDown(x)
    BY <2>1, <2>2, <2>3 DEF TornDown
  <2>5. \A x \in Node : IsSetUp(x)' <=> IsSetUp(x)
    BY <2>1, Zenon DEF IsSetUp
  <2>6. conf \subseteq Node /\ running \subseteq Node
    BY Zenon DEF IInv, TypeOK
  <2>7. Planned(running)'
    BY <2>1, <2>2, <2>4, <2>5, <2>6, Zenon DEF Setup, Planned
  <2>8. Known' = Known
    BY <2>1, Zenon DEF Known
  <2> QED
    BY <2>1, <2>2, <2>7, <2>8, Zenon DEF Setup, Evolving
<1>8. ASSUME NEW n \in Node, NEW s \in ExitScripts(n), GenIface(n, s)
      PROVE  Setup'
  <2>1. /\ cb = "gen" /\ n \in diff \cap conf /\ WriteExit(s)
        /\ init' = [init EXCEPT ![mem.next][n] = txn]
        /\ diff' = diff \ {n}
        /\ UNCHANGED <<running, conf, current, dag, cb, sh, up, failures,
                       crashes>>
    BY <1>8, Zenon DEF GenIface, script, book
  <2>2. /\ Setup /\ sh = "none" /\ txn \in Txn
        /\ mem.current = current /\ mem.next = current + 1
    BY <2>1, Zenon DEF SetupInv, IInv, Phase, Held
  <2>3. s \in SUBSET ActNode /\ s \cap Node \subseteq {n}
    BY Zenon DEF ExitScripts
  <2>4. /\ s # {} => current \in Gen
        /\ \A g \in Gen, x \in ActNode :
             exit'[g][x] = IF g = current /\ x \in s THEN txn
                           ELSE exit[g][x]
    BY <2>1, <2>2, <2>3, WriteExitProperties DEF IInv
  <2>5. \A x \in Node : x # n => (TornDown(x)' <=> TornDown(x))
    BY <2>1, <2>3, <2>4 DEF IInv, TypeOK, TornDown
  <2>6. current + 1 \in Gen
    BY <2>2, Zenon DEF IInv, TypeOK
  <2>7. \A x \in Node : IsSetUp(x)' <=> x = n \/ IsSetUp(x)
    BY <2>1, <2>2, <2>6 DEF IInv, TypeOK, IsSetUp
  <2>8. conf \subseteq Node /\ running \subseteq Node
    BY Zenon DEF IInv, TypeOK
  <2>9. Planned(running)'
    BY <2>1, <2>2, <2>5, <2>7, <2>8, Zenon DEF Setup, Planned
  <2>10. Known' = Known
    BY <2>1, Zenon DEF Known
  <2> QED
    BY <2>1, <2>2, <2>9, <2>10, Zenon DEF Setup, Evolving
<1>9. ASSUME NEW n \in Node, NEW s \in ExitScripts(n), GenFails(n, s)
      PROVE  Setup'
  <2>1. /\ cb \in {"claimed", "gen"} /\ cb' = "undo" /\ sh' = "mv"
        /\ UNCHANGED <<running, current, dag, up, failures, crashes>>
    BY <1>9, Zenon DEF GenFails, Start, sysrepo, book
  <2>2. Setup
    BY <2>1, Zenon DEF SetupInv
  <2>3. Known' = Known
    BY <2>1, Zenon DEF Known
  <2> QED
    BY <2>1, <2>2, <2>3, Zenon DEF Setup, Evolving
<1>10. CASE Done
  <2>1. /\ cb = "prepared" /\ cb' = "evolve" /\ sh' = "check"
        /\ running' = conf
        /\ UNCHANGED <<conf, diff, current, dag, init, exit, up, failures,
                       crashes>>
    BY <1>10, Zenon DEF Done, Start, book
  <2>2. Setup
    BY <2>1, Zenon DEF SetupInv
  <2>3. conf \subseteq dag[current + 1]
    BY <2>1, Zenon DEF IInv, Writers
  <2>4. up = running /\ up \subseteq Known /\ Planned(up) /\ diff = {}
    BY <2>1, <2>2, Zenon DEF Setup
  <2>5. Known' = Known /\ Planned(up)'
    BY <2>1, <2>4, Zenon DEF Known, Planned, TornDown, IsSetUp
  <2> QED
    BY <2>1, <2>3, <2>4, <2>5, Zenon DEF Setup, Evolving
<1>11. CASE Abort
  <2>1. /\ cb = "prepared" /\ cb' = "abort" /\ sh' = "mv"
        /\ UNCHANGED <<running, current, dag, up, failures, crashes>>
    BY <1>11, Zenon DEF Abort, Start, sysrepo, book
  <2>2. Setup
    BY <2>1, Zenon DEF SetupInv
  <2>3. Known' = Known
    BY <2>1, Zenon DEF Known
  <2> QED
    BY <2>1, <2>2, <2>3, Zenon DEF Setup, Evolving
<1>12. CASE EvolveCheck
  <2>1. sh = "check" /\ CurrentExists /\ NextExists
    BY <1>12, Zenon
    DEF EvolveCheck, IInv, Phase, Dirs, Evolving, CurrentExists,
      NextExists
  <2>2. /\ current = None => sh' = "init" /\ todo' = Scripted(next, init)
        /\ current # None => sh' = "exit" /\ todo' = Scripted(current, exit)
        /\ UNCHANGED <<sysrepo, files, cb, up, failures, crashes>>
    BY <1>12, <2>1, Zenon DEF EvolveCheck, book
  <2>3. Setup
    BY <2>2, Zenon DEF SetupInv
  <2>4. Evolving /\ cb = "evolve"
    BY <2>1, <2>3, Zenon DEF Setup, Evolving
  <2>5. /\ running = conf /\ diff = {} /\ conf \subseteq dag[current + 1]
        /\ up \subseteq Known /\ Planned(up)
    BY <2>1, <2>3, <2>4, Zenon DEF Setup
  <2>6. conf \subseteq Node /\ up \subseteq Node
    BY Zenon DEF IInv, TypeOK
  <2>7. \A n \in Node : IsSetUp(n)' <=> IsSetUp(n)
    BY <2>2, Zenon DEF IsSetUp, files
  <2>8. CASE current = None
    <3>1. up = {}
      BY <2>5, <2>8, Zenon DEF Known
    <3>2. todo' = conf
      BY <2>2, <2>4, <2>5, <2>6, <2>8, <3>1, InitScripted, Zenon DEF Planned
    <3> QED
      BY <2>2, <2>4, <2>5, <2>8, <3>1, <3>2, Zenon DEF Setup, sysrepo, files
  <2>9. CASE current # None
    <3>1. \A n \in up : n \in todo' <=> TornDown(n)
      BY <2>2, <2>5, <2>9, Zenon DEF Known, Scripted, TornDown
    <3>2. \A n \in todo' \cap conf : TornDown(n)
      BY <2>2, <2>9, Zenon DEF Scripted, TornDown
    <3>3. /\ \A n \in conf \ up : IsSetUp(n)
          /\ \A n \in up \ conf : n \in todo'
          /\ \A n \in todo' \cap conf : IsSetUp(n)
          /\ \A n \in Node : IsSetUp(n) => n \in conf
      BY <2>5, <3>1, <3>2, Zenon DEF Planned
    <3> QED
      BY <2>2, <2>4, <2>5, <2>6, <2>7, <2>9, <3>3, Zenon
      DEF Setup, sysrepo, files
  <2> QED
    BY <2>8, <2>9, Zenon
<1>13. CASE ExitEnd
  <2>1. /\ sh = "exit" /\ todo = {}
        /\ sh' = "init" /\ todo' = Scripted(next, init)
        /\ UNCHANGED <<sysrepo, files, cb, up, failures, crashes>>
    BY <1>13, Zenon DEF ExitEnd, book
  <2>2. Setup
    BY <2>1, Zenon DEF SetupInv
  <2>3. Evolving /\ cb = "evolve"
    BY <2>1, <2>2, Zenon DEF Setup, Evolving
  <2>4. /\ running = conf /\ diff = {} /\ conf \subseteq dag[current + 1]
        /\ \A n \in conf \ up : IsSetUp(n)
        /\ up \subseteq conf
        /\ \A n \in Node : IsSetUp(n) => n \in conf
    BY <2>1, <2>2, <2>3, Zenon DEF Setup
  <2>5. conf \subseteq Node
    BY DEF IInv, TypeOK
  <2>6. conf \ up \subseteq todo' /\ todo' \subseteq conf
    BY <2>1, <2>3, <2>4, <2>5, InitScripted, Zenon
  <2> QED
    BY <2>1, <2>3, <2>4, <2>6, Zenon DEF Setup, sysrepo, files
<1>14. CASE NodeFails
  BY <1>14, Zenon DEF NodeFails
<1>15. CASE Rename
  <2>1. /\ sh = "init" /\ todo = {} /\ sh' = "none" /\ current' = next
        /\ cb = "evolve" => cb' = "idle"
        /\ UNCHANGED <<running, conf, diff, dag, up, failures, crashes>>
    BY <1>15, Zenon DEF Rename, Ends, sysrepo, book
  <2>2. Setup
    BY <2>1, Zenon DEF SetupInv
  <2>3. cb = "evolve" /\ next = current + 1 /\ next # None
    BY <2>1, <2>2 DEF IInv, TypeOK, Phase, Setup, Evolving
  <2>4. up = running /\ running \subseteq dag[next]
    BY <2>1, <2>2, <2>3, Zenon DEF Setup
  <2> QED
    BY <2>1, <2>3, <2>4, Zenon DEF Setup, Known, Evolving
<1>16. ASSUME NEW n \in ActNode, ExitNode(n) PROVE Setup'
  <2>1. /\ sh = "exit" /\ n \in todo
        /\ up' = up \ {n} /\ todo' = todo \ {n}
        /\ UNCHANGED <<sysrepo, files, cb, sh, failures, crashes>>
    BY <1>16, Zenon DEF ExitNode, book
  <2>2. Setup
    BY <2>1, Zenon DEF SetupInv
  <2>3. cb = "evolve"
    BY <2>1, <2>2, Zenon DEF Setup, Evolving
  <2>4. /\ running = conf /\ diff = {} /\ conf \subseteq dag[current + 1]
        /\ \A x \in conf \ up : IsSetUp(x)
        /\ \A x \in up \ conf : x \in todo
        /\ \A x \in todo \cap conf : IsSetUp(x)
        /\ \A x \in Node : IsSetUp(x) => x \in conf
    BY <2>1, <2>2, <2>3, Zenon DEF Setup
  <2>5. \A x \in Node : IsSetUp(x)' <=> IsSetUp(x)
    BY <2>1, Zenon DEF IsSetUp, files
  <2>6. conf \subseteq Node
    BY Zenon DEF IInv, TypeOK
  <2>7. /\ \A x \in conf \ up' : IsSetUp(x)'
        /\ \A x \in up' \ conf : x \in todo'
        /\ \A x \in todo' \cap conf : IsSetUp(x)'
        /\ \A x \in Node : IsSetUp(x)' => x \in conf
    BY <2>1, <2>4, <2>5, <2>6, Zenon
  <2> QED
    BY <2>1, <2>3, <2>4, <2>7, Zenon DEF Setup, sysrepo, files
<1>17. ASSUME NEW n \in ActNode, InitNode(n) PROVE Setup'
  <2>1. /\ sh = "init" /\ n \in todo
        /\ up' = up \cup {n} /\ todo' = todo \ {n}
        /\ UNCHANGED <<sysrepo, files, cb, sh, failures, crashes>>
    BY <1>17, Zenon DEF InitNode, book
  <2>2. Setup
    BY <2>1, Zenon DEF SetupInv
  <2>3. cb = "evolve"
    BY <2>1, <2>2, Zenon DEF Setup, Evolving
  <2>4. /\ running = conf /\ diff = {} /\ conf \subseteq dag[current + 1]
        /\ up \subseteq conf /\ conf \ up \subseteq todo /\ todo \subseteq conf
    BY <2>1, <2>2, <2>3, Zenon DEF Setup
  <2>5. /\ up' \subseteq conf
        /\ conf \ up' \subseteq todo' /\ todo' \subseteq conf
    BY <2>1, <2>4, Zenon
  <2> QED
    BY <2>1, <2>3, <2>4, <2>5, Zenon DEF Setup, sysrepo, files
<1>18. CASE AbandonMove
  <2>1. /\ sh = "mv" /\ sh' \in {"none", "rm"}
        /\ cb' \in {cb, "idle"}
        /\ dag' = dag \/ dag' = [dag EXCEPT ![next] = {}]
        /\ UNCHANGED <<running, current, up, failures, crashes>>
    BY <1>18, Zenon DEF AbandonMove, Ends, sysrepo, book
  <2>2. Setup /\ next = current + 1 /\ cb \notin {"claim", "evolve"} /\ ~ Held
    BY <2>1, Zenon DEF SetupInv, IInv, Phase, Held, Evolving
  <2>3. Known' = Known
    BY <2>1, <2>2 DEF IInv, TypeOK, Known
  <2> QED
    BY <2>1, <2>2, <2>3, Zenon DEF Setup, Held, Evolving
<1>19. CASE AbandonRemove
  <2>1. /\ sh = "rm" /\ sh' = "none"
        /\ cb' \in {cb, "idle"}
        /\ UNCHANGED <<running, current, dag, up, failures, crashes>>
    BY <1>19, Zenon DEF AbandonRemove, Ends, sysrepo, book
  <2>2. Setup /\ cb \notin {"claim", "evolve"} /\ ~ Held
    BY <2>1, Zenon DEF SetupInv, IInv, Phase, Held, Evolving
  <2>3. Known' = Known
    BY <2>1, Zenon DEF Known
  <2> QED
    BY <2>1, <2>2, <2>3, Zenon DEF Setup, Held, Evolving
<1>20. ASSUME NEW kill \in BOOLEAN, NEW stored \in BOOLEAN, Crash(kill, stored)
      PROVE  Setup'
  BY <1>20 DEF IInv, TypeOK, Crash
<1>21. CASE UNCHANGED vars
  <2>1. UNCHANGED <<sysrepo, files, cb, script, up, failures, crashes>>
    BY <1>21, Zenon DEF vars, book
  <2> QED
    BY <2>1 DEF SetupInv, Setup, Planned, Known, TornDown, IsSetUp, Evolving,
      sysrepo, files, script
<1> QED
  BY <1>1, <1>2, <1>3, <1>4, <1>5, <1>6, <1>7, <1>8, <1>9, <1>10, <1>11,
     <1>12, <1>13, <1>14, <1>15, <1>16, <1>17, <1>18, <1>19, <1>20,
     <1>21, Zenon
  DEF Next, Claim, Prepare, PrepareFails, Execute

-----------------------------------------------------------------------------
(* The inductive invariant holds in every state.                           *)
LEMMA Invariance == Spec => [](IInv /\ SetupInv)
<1>1. Init => IInv /\ SetupInv
  <2> SUFFICES ASSUME Init PROVE IInv /\ SetupInv
    OBVIOUS
  <2>1. NoScripts \in [ActNode -> {NoScript} \cup Txn]
    BY Zenon DEF NoScripts
  <2>2. mem \in [current : {None} \cup Gen, next : Gen]
    BY ClearedType, Zenon DEF Init
  <2>3. /\ init \in [Gen -> [ActNode -> {NoScript} \cup Txn]]
        /\ exit \in [Gen -> [ActNode -> {NoScript} \cup Txn]]
        /\ dag \in [Gen -> SUBSET Node]
    BY <2>1, Zenon DEF Init
  <2>4. TypeOK
    <3>1. /\ running \subseteq Node /\ conf \subseteq Node
          /\ diff \subseteq Node /\ dir \subseteq Gen
          /\ exitOrder \subseteq Gen /\ todo \subseteq ActNode
          /\ up \subseteq Node
      BY Zenon DEF Init
    <3>2. /\ next \in {Absent, Empty} \cup Gen /\ current \in {None} \cup Gen
          /\ txn \in 0 .. MaxTxn /\ holder \in 0 .. MaxTxn
          /\ crashes \in 0 .. MaxCrashes
      BY DEF Init
    <3>3. ran = {} /\ failures \in BOOLEAN /\ cb = "idle" /\ sh = "none"
      BY Zenon DEF Init
    <3> QED
      BY <2>2, <2>3, <3>1, <3>2, <3>3, Zenon DEF TypeOK
  <2>5. Phase /\ Dirs
    BY DEF Init, Phase, Dirs, Held, Evolving
  <2>6. Writers /\ Runs
    BY Zenon
    DEF Init, Writers, Runs, Held, Evolving, OwnScripts, CurrentApplied,
       NoScripts
  <2>7. SetupInv
    BY Zenon DEF Init, SetupInv, Setup, Evolving
  <2> QED
    BY <2>4, <2>5, <2>6, <2>7, Zenon DEF IInv
<1>2. IInv /\ SetupInv /\ [Next]_vars => (IInv /\ SetupInv)'
  BY TypeStep, PhaseStep, DirsStep, WritersStep, RunsStep, SetupStep, Zenon
  DEF IInv
<1> QED
  BY <1>1, <1>2, PTL DEF Spec

(* The state of the files, of confd and of the script is well typed,       *)
(* whatever changes are made and whenever confd crashes.                   *)
THEOREM TypeCorrect == Spec => []TypeOK
<1>1. IInv => TypeOK
  BY Zenon DEF IInv
<1> QED
  BY <1>1, Invariance, PTL

(* Outside of dagger evolve the interfaces that are set up are those of    *)
(* the running datastore, as long as no script failed and confd did not    *)
(* crash.                                                                  *)
THEOREM AgreementCorrect == Spec => []Agreement
<1>1. SetupInv => Agreement
  BY Zenon DEF SetupInv, Setup, Agreement
<1> QED
  BY <1>1, Invariance, PTL

(* dagger evolve executes only scripts of the change it applies.           *)
THEOREM OwnScriptsCorrect == Spec => []OwnScripts
<1>1. IInv => OwnScripts
  BY Zenon DEF IInv, Runs
<1> QED
  BY <1>1, Invariance, PTL

(* The setup of every interface of the generation in "current" was         *)
(* executed.                                                               *)
THEOREM CurrentAppliedCorrect == Spec => []CurrentApplied
<1>1. IInv => CurrentApplied
  BY Zenon DEF IInv, Runs
<1> QED
  BY <1>1, Invariance, PTL

(* No dagger script runs while a change is claimed or prepared.            *)
THEOREM ExclusiveCorrect == Spec => []Exclusive
<1>1. IInv => Exclusive
  BY Zenon DEF IInv, Phase, Held, Exclusive
<1> QED
  BY <1>1, Invariance, PTL

(* Generations follow each other by one, each to one that exists and is    *)
(* applied completely.                                                     *)
THEOREM GenStepCorrect == Spec => GenStep
<1>1. IInv /\ [Next]_vars => [current' # current =>
                              /\ current' = current + 1
                              /\ current' \in dir
                              /\ next' = Absent
                              /\ sh = "init" /\ todo = {}]_vars
  <2> SUFFICES ASSUME IInv, Next, current' # current
               PROVE  /\ current' = current + 1
                      /\ current' \in dir
                      /\ next' = Absent
                      /\ sh = "init" /\ todo = {}
    BY Zenon DEF vars
  <2>1. Rename
    BY Zenon
    DEF Next, Claim, Prepare, PrepareFails, Execute, ClaimBusy, ClaimNext,
       ClaimFails, ClaimDirs, NetdagInit, Accept, GenIfaceDel, GenIface,
       GenFails, Done, Abort, EvolveCheck, ExitEnd, NodeFails, ExitNode,
       InitNode, AbandonMove, AbandonRemove, Crash, files
  <2> QED
    BY <2>1, Zenon DEF Rename, IInv, Phase, Dirs, Evolving
<1> QED
  BY <1>1, Invariance, PTL DEF Spec, GenStep

=============================================================================

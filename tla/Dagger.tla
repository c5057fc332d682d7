------------------------------- MODULE Dagger -------------------------------
(***************************************************************************)
(* Generations of network configuration: confd's ifchange() callback, the  *)
(* dagger library it calls (dagger.c) and the /sbin/dagger script.         *)
(*                                                                         *)
(* A change of the interfaces is a transaction.  On sysrepo's CHANGE event *)
(* confd claims the next generation by creating the file "next", writes    *)
(* one script per interface, the teardown into the exit action of the      *)
(* current generation and the setup into the init action of the next one,  *)
(* and answers.  On DONE it evolves: the script runs the exit action of    *)
(* the current generation, then the init action of the next, and renames   *)
(* "next" to "current".  On ABORT, and whenever something fails, the next  *)
(* generation is abandoned.                                                *)
(*                                                                         *)
(* The state of the files survives confd: Crash is the death and restart   *)
(* of the daemon at any point, with a script that it had started running   *)
(* on without it, or dying with it.                                        *)
(*                                                                         *)
(* The scripts' text is abstracted to who wrote them (the transaction) and *)
(* for which node; the order among the nodes of one action is the subject  *)
(* of DagOrder, and here any order.                                        *)
(***************************************************************************)
EXTENDS Integers, FiniteSets

CONSTANTS Node,        \* interface names
          Post,        \* the pseudo node "@post"
          MaxTxn,      \* bound on the number of CHANGE events
          MaxCrashes   \* bound on the number of crashes of confd

ASSUME PostAssumption == Post \notin Node
ASSUME BoundsAssumption == MaxTxn \in Nat /\ MaxCrashes \in Nat

(* Contents of the file "next", if not the number of a generation.         *)
Absent == -2
Empty  == -1

(* There is no file "current": d->current = -1.                            *)
None == -1

Gen == 0 .. MaxTxn
Txn == 1 .. MaxTxn
ActNode == Node \cup {Post}

(* The action has no script for the node.                                  *)
NoScript == 0
NoScripts == [n \in ActNode |-> NoScript]

VARIABLES
  \* sysrepo
  running,    \* the interfaces of the running datastore
  conf,       \* the interfaces of the configuration being committed
  diff,       \* interfaces of the change that ifchange() has not treated yet
  \* files below /run/net
  next,       \* contents of the file "next"
  current,    \* contents of the file "current"
  dir,        \* the generation directories
  dag,        \* dag[g]: the nodes below <g>/dag
  exitOrder,  \* generations with a link <g>/action/exit/order
  init,       \* init[g][n]: writer of the scripts in <g>/action/init/<n>
  exit,       \* exit[g][n]: writer of the scripts in <g>/action/exit/<n>
  \* confd
  mem,        \* struct dagger: the generation numbers of the claim
  cb,         \* where ifchange() is
  \* the dagger script
  sh,         \* where it is
  todo,       \* nodes with scripts that its action has still to visit
  \* the network, and bookkeeping
  up,         \* interfaces that are set up
  txn,        \* number of CHANGE events so far
  holder,     \* the transaction that created the file "next" last
  ran,        \* scripts that have been executed, and for which transaction
  failures,   \* a script has failed
  crashes     \* number of crashes so far

sysrepo == <<running, conf, diff>>
files == <<next, current, dir, dag, exitOrder, init, exit>>
script == <<sh, todo>>
book == <<txn, holder, crashes>>
vars == <<sysrepo, files, mem, cb, script, up, ran, failures, book>>

(* memset() in dagger_claim(), and the static struct confd at start.       *)
Cleared == [current |-> 0, next |-> 0]

Init ==
  /\ running = {} /\ conf = {} /\ diff = {}
  /\ next = Absent /\ current = None
  /\ dir = {} /\ exitOrder = {}
  /\ dag = [g \in Gen |-> {}]
  /\ init = [g \in Gen |-> NoScripts]
  /\ exit = [g \in Gen |-> NoScripts]
  /\ mem = Cleared
  /\ cb = "idle"
  /\ sh = "none" /\ todo = {}
  /\ up = {}
  /\ txn = 0 /\ holder = 0 /\ crashes = 0
  /\ ran = {}
  /\ failures = FALSE

-----------------------------------------------------------------------------
(***************************************************************************)
(* SR_EV_CHANGE: claim the next generation, and write its scripts.         *)
(***************************************************************************)

(* The interfaces that a change to configuration c touches, if it also     *)
(* modifies the interfaces m.                                              *)
Changed(c, m) == (running \ c) \cup (c \ running) \cup m

(* dagger_claim(): "next" exists already.                                  *)
ClaimBusy ==
  /\ cb = "idle"
  /\ txn < MaxTxn
  /\ next # Absent
  /\ mem' = Cleared
  /\ txn' = txn + 1
  /\ UNCHANGED <<sysrepo, files, cb, script, up, ran, failures, holder,
                 crashes>>

(* Mutant of ClaimNext: fopen() with "w" instead of "wx".                  *)
ClaimNextShared(c, m) ==
  /\ cb = "idle"
  /\ txn < MaxTxn
  /\ Changed(c, m) # {}
  /\ conf' = c
  /\ diff' = Changed(c, m)
  /\ next' = Empty
  /\ mem' = Cleared
  /\ txn' = txn + 1
  /\ holder' = txn + 1
  /\ cb' = "claim"
  /\ UNCHANGED <<running, current, dir, dag, exitOrder, init, exit, script,
                 up, ran, failures, crashes>>

(* dagger_claim(): "next" is created, exclusively.  It remains empty for   *)
(* now: the number is only written when the stream is closed.              *)
ClaimNext(c, m) ==
  /\ cb = "idle"
  /\ txn < MaxTxn
  /\ next = Absent
  /\ Changed(c, m) # {}
  /\ conf' = c
  /\ diff' = Changed(c, m)
  /\ next' = Empty
  /\ mem' = Cleared
  /\ txn' = txn + 1
  /\ holder' = txn + 1
  /\ cb' = "claim"
  /\ UNCHANGED <<running, current, dir, dag, exitOrder, init, exit, script,
                 up, ran, failures, crashes>>

(* Mutant of ExitLinkFree: ln -sf.                                         *)
ExitLinkForced == TRUE

(* ln -s fails if there is a link already: the one to the exit order in    *)
(* the current generation, or the one to the init order in the next.       *)
ExitLinkFree == current = None \/ current \notin exitOrder
InitLinkFree == current + 1 \notin dir

(* The exit action of the current generation has its link.                 *)
LinkExitOrder ==
  exitOrder' = IF current = None THEN exitOrder
               ELSE exitOrder \cup {current}

(* dagger_claim(): a link exists.  ifchange() returns the error as it is   *)
(* and abandons nothing: "next" stays.                                     *)
ClaimFails ==
  /\ cb = "claim"
  /\ ~ (ExitLinkFree /\ InitLinkFree)
  /\ LinkExitOrder
  /\ mem' = [current |-> current,
             next |-> IF ExitLinkFree THEN current + 1 ELSE 0]
  /\ cb' = "idle"
  /\ UNCHANGED <<sysrepo, next, current, dir, dag, init, exit, script, up,
                 ran, failures, book>>

(* dagger_claim(): the directories of the two actions, with their links.   *)
ClaimDirs ==
  /\ cb = "claim"
  /\ ExitLinkFree
  /\ InitLinkFree
  /\ LinkExitOrder
  /\ mem' = [current |-> current, next |-> current + 1]
  /\ dir' = dir \cup {current + 1}
  /\ cb' = "claimed"
  /\ UNCHANGED <<sysrepo, next, current, dag, init, exit, script, up, ran,
                 failures, book>>

(* Mutant of NetdagInit: nodes only for the interfaces that change.        *)
NetdagInitChanged ==
  /\ cb = "claimed"
  /\ dag' = [dag EXCEPT ![mem.next] = diff]
  /\ cb' = "gen"
  /\ UNCHANGED <<sysrepo, next, current, dir, exitOrder, init, exit, mem,
                 script, up, ran, failures, book>>

(* netdag_init(): a node for every interface that is configured, and for   *)
(* every one that changes.                                                 *)
NetdagInit ==
  /\ cb = "claimed"
  /\ dag' = [dag EXCEPT ![mem.next] = conf \cup diff]
  /\ cb' = "gen"
  /\ UNCHANGED <<sysrepo, next, current, dir, exitOrder, init, exit, mem,
                 script, up, ran, failures, book>>

(* dagger_fopen_current(): scripts for the nodes s in the exit action of   *)
(* the current generation, which must exist.                               *)
WriteExit(s) ==
  /\ s # {} => mem.current >= 0
  /\ exit' = IF s = {} THEN exit
             ELSE [exit EXCEPT ![mem.current] =
                     [n \in ActNode |-> IF n \in s THEN txn ELSE @[n]]]

(* The exit scripts of a modified interface n: none, one to delete it, one *)
(* that disables a service, to which belongs a reload in the end.          *)
ExitScripts(n) == {{}, {n}, {n, Post}}

(* netdag_gen_iface(), a deleted interface.                                *)
GenIfaceDel(n) ==
  /\ cb = "gen"
  /\ n \in diff \ conf
  /\ WriteExit({n})
  /\ diff' = diff \ {n}
  /\ UNCHANGED <<running, conf, next, current, dir, dag, exitOrder, init,
                 mem, cb, script, up, ran, failures, book>>

(* netdag_gen_iface(), an interface that is created or modified.           *)
GenIface(n, s) ==
  /\ cb = "gen"
  /\ n \in diff \cap conf
  /\ s \in ExitScripts(n)
  /\ WriteExit(s)
  /\ init' = [init EXCEPT ![mem.next][n] = txn]
  /\ diff' = diff \ {n}
  /\ UNCHANGED <<running, conf, next, current, dir, dag, exitOrder, mem, cb,
                 script, up, ran, failures, book>>

(* All scripts are written, and ifchange() accepts the change.             *)
Accept ==
  /\ cb = "gen"
  /\ diff = {}
  /\ cb' = "prepared"
  /\ UNCHANGED <<sysrepo, files, mem, script, up, ran, failures, book>>

(* dagger_abandon(), dagger_evolve(): the number is written to "next", and *)
(* the script started.                                                     *)
Start(step) ==
  /\ next' = mem.next
  /\ sh' = step
  /\ todo' = {}

(* The data cannot be read, or some interface cannot be treated, perhaps   *)
(* after exit scripts s for it have been written: abandon.                 *)
GenFails(n, s) ==
  /\ \/ cb = "claimed" /\ s = {}
     \/ cb = "gen"
  /\ n \in diff
  /\ s \in ExitScripts(n)
  /\ WriteExit(s)
  /\ Start("mv")
  /\ cb' = "undo"
  /\ UNCHANGED <<sysrepo, current, dir, dag, exitOrder, init, mem, up, ran,
                 failures, book>>

-----------------------------------------------------------------------------
(***************************************************************************)
(* SR_EV_DONE and SR_EV_ABORT.                                             *)
(***************************************************************************)

(* The change is committed: the running datastore has it.  Evolve.         *)
Done ==
  /\ cb = "prepared"
  /\ running' = conf
  /\ Start("check")
  /\ cb' = "evolve"
  /\ UNCHANGED <<conf, diff, current, dir, dag, exitOrder, init, exit, mem,
                 up, ran, failures, book>>

(* Another subscriber refuses the change.  Abandon.                        *)
Abort ==
  /\ cb = "prepared"
  /\ Start("mv")
  /\ cb' = "abort"
  /\ UNCHANGED <<sysrepo, current, dir, dag, exitOrder, init, exit, mem, up,
                 ran, failures, book>>

-----------------------------------------------------------------------------
(***************************************************************************)
(* The dagger script.  When it ends, so does the system() of ifchange(),   *)
(* if that is still waiting for it.                                        *)
(***************************************************************************)

Ends ==
  /\ sh' = "none"
  /\ todo' = {}
  /\ cb' = IF cb \in {"undo", "abort", "evolve", "fallback"}
            THEN "idle" ELSE cb

(* Mutant of EvolveFails: dagger_evolve(), without the "or abandon".       *)
EvolveOnly ==
  /\ todo' = {}
  /\ sh' = "none"
  /\ cb' = "idle"

(* dagger_evolve_or_abandon(): after a failed evolve, confd abandons.      *)
EvolveFails ==
  /\ todo' = {}
  /\ IF cb = "evolve"
       THEN sh' = "mv" /\ cb' = "fallback"
       ELSE sh' = "none" /\ UNCHANGED cb

(* The nodes of generation g for which the action has scripts.             *)
Scripted(g, action) ==
  {n \in dag[g] \cup {Post} : action[g][n] # NoScript}

(* do_evolve(): both generations must exist; the exit action of the        *)
(* current one comes first.                                                *)
CurrentExists == current = None \/ current \in dir
NextExists == next \in dir

EvolveCheck ==
  /\ sh = "check"
  /\ IF ~ (CurrentExists /\ NextExists) THEN EvolveFails
     ELSE /\ IF current = None
               THEN sh' = "init" /\ todo' = Scripted(next, init)
               ELSE sh' = "exit" /\ todo' = Scripted(current, exit)
          /\ UNCHANGED cb
  /\ UNCHANGED <<sysrepo, files, mem, up, ran, failures, book>>

(* A script of the action for node n is executed.                          *)
Executed(action, writer, n) ==
  [by |-> holder, action |-> action, writer |-> writer, node |-> n]

(* action_exec exit: the scripts of a node.  @post comes last.             *)
ExitNode(n) ==
  /\ sh = "exit"
  /\ n \in todo
  /\ n = Post => todo = {Post}
  /\ ran' = ran \cup {Executed("exit", exit[current][n], n)}
  /\ up' = up \ {n}
  /\ todo' = todo \ {n}
  /\ UNCHANGED <<sysrepo, files, mem, cb, sh, failures, book>>

(* The exit action is complete, and the init action begins.                *)
ExitEnd ==
  /\ sh = "exit"
  /\ todo = {}
  /\ sh' = "init"
  /\ todo' = Scripted(next, init)
  /\ UNCHANGED <<sysrepo, files, mem, cb, up, ran, failures, book>>

(* action_exec init: the scripts of a node.                                *)
InitNode(n) ==
  /\ sh = "init"
  /\ n \in todo
  /\ ran' = ran \cup {Executed("init", init[next][n], n)}
  /\ up' = up \cup {n}
  /\ todo' = todo \ {n}
  /\ UNCHANGED <<sysrepo, files, mem, cb, sh, failures, book>>

(* Mutant of NodeFails: the exit code of a script is not looked at.        *)
NodeIgnored ==
  /\ sh \in {"exit", "init"}
  /\ \E n \in todo : todo' = todo \ {n}
  /\ failures' = TRUE
  /\ UNCHANGED <<sysrepo, files, mem, cb, sh, up, ran, book>>

(* A script of either action fails.                                        *)
NodeFails ==
  /\ sh \in {"exit", "init"}
  /\ todo # {}
  /\ EvolveFails
  /\ failures' = TRUE
  /\ UNCHANGED <<sysrepo, files, mem, up, ran, book>>

(* mv next current                                                         *)
Rename ==
  /\ sh = "init"
  /\ todo = {}
  /\ current' = next
  /\ next' = Absent
  /\ Ends
  /\ UNCHANGED <<sysrepo, dir, dag, exitOrder, init, exit, mem, up, ran,
                 failures, book>>

(* do_abandon(): the next generation is moved out of the way.              *)
AbandonMove ==
  /\ sh = "mv"
  /\ IF ~ NextExists
       THEN Ends /\ UNCHANGED <<dir, dag, init, exit, exitOrder>>
       ELSE /\ dir' = dir \ {next}
            /\ dag' = [dag EXCEPT ![next] = {}]
            /\ init' = [init EXCEPT ![next] = NoScripts]
            /\ exit' = [exit EXCEPT ![next] = NoScripts]
            /\ exitOrder' = exitOrder \ {next}
            /\ sh' = "rm"
            /\ UNCHANGED <<cb, todo>>
  /\ UNCHANGED <<sysrepo, next, current, mem, up, ran, failures, book>>

(* rm next                                                                 *)
AbandonRemove ==
  /\ sh = "rm"
  /\ next' = Absent
  /\ Ends
  /\ UNCHANGED <<sysrepo, current, dir, dag, exitOrder, init, exit, mem, up,
                 ran, failures, book>>

-----------------------------------------------------------------------------
(***************************************************************************)
(* confd dies, at any point of an event, and is started anew.  Its memory  *)
(* is lost; a script that it had started either dies as well (kill) or     *)
(* runs on.  If the change had been accepted, the datastore may have been  *)
(* written (stored) without the DONE event being handled.                  *)
(***************************************************************************)
Crash(kill, stored) ==
  /\ crashes < MaxCrashes
  /\ cb # "idle"
  /\ stored => cb = "prepared"
  /\ crashes' = crashes + 1
  /\ cb' = "idle"
  /\ mem' = Cleared
  /\ running' = IF stored THEN conf ELSE running
  /\ IF kill THEN sh' = "none" /\ todo' = {} ELSE UNCHANGED script
  /\ UNCHANGED <<conf, diff, files, up, ran, failures, txn, holder>>

-----------------------------------------------------------------------------
Claim == ClaimBusy \/ \E c \in SUBSET Node : \E m \in SUBSET (c \cap running) :
                        ClaimNext(c, m)

Prepare ==
  \/ ClaimFails \/ ClaimDirs \/ NetdagInit \/ Accept
  \/ \E n \in Node : \/ GenIfaceDel(n)
                     \/ \E s \in ExitScripts(n) : GenIface(n, s)

PrepareFails == \E n \in Node : \E s \in ExitScripts(n) : GenFails(n, s)

Execute ==
  \/ EvolveCheck \/ ExitEnd \/ NodeFails \/ Rename
  \/ \E n \in ActNode : ExitNode(n) \/ InitNode(n)
  \/ AbandonMove \/ AbandonRemove

Next ==
  \/ Claim \/ Prepare \/ PrepareFails
  \/ Done \/ Abort
  \/ Execute
  \/ \E kill, stored \in BOOLEAN : Crash(kill, stored)

(* ifchange() goes on with an event it has begun, sysrepo follows an       *)
(* accepted change with one of DONE and ABORT, and the script goes on,     *)
(* since each command it runs ends.  Nobody has to change anything.        *)
Fairness ==
  /\ WF_vars(Prepare \/ PrepareFails)
  /\ WF_vars(Done \/ Abort)
  /\ WF_vars(Execute)

Spec == Init /\ [][Next]_vars /\ Fairness

-----------------------------------------------------------------------------
(***************************************************************************)
(* Properties.                                                             *)
(***************************************************************************)

(* Every variable has its type.                                            *)
TypeOK ==
  /\ running \subseteq Node /\ conf \subseteq Node /\ diff \subseteq Node
  /\ next \in {Absent, Empty} \cup Gen
  /\ current \in {None} \cup Gen
  /\ dir \subseteq Gen /\ exitOrder \subseteq Gen
  /\ dag \in [Gen -> SUBSET Node]
  /\ init \in [Gen -> [ActNode -> {NoScript} \cup Txn]]
  /\ exit \in [Gen -> [ActNode -> {NoScript} \cup Txn]]
  /\ mem \in [current : {None} \cup Gen, next : Gen]
  /\ cb \in {"idle", "claim", "claimed", "gen", "prepared",
             "undo", "abort", "evolve", "fallback"}
  /\ sh \in {"none", "check", "exit", "init", "mv", "rm"}
  /\ todo \subseteq ActNode
  /\ up \subseteq Node
  /\ txn \in 0 .. MaxTxn /\ holder \in 0 .. MaxTxn
  /\ ran \subseteq [by : Txn, action : {"exit", "init"},
                    writer : Txn, node : ActNode]
  /\ failures \in BOOLEAN
  /\ crashes \in 0 .. MaxCrashes

(* The interfaces that are set up are those of the running datastore,      *)
(* except while dagger evolve runs, as long as no script failed and confd  *)
(* did not crash: a change that is refused, abandoned or aborted touches   *)
(* nothing, and one that is committed tears down and sets up the right     *)
(* interfaces, those that it does not mention included.                    *)
Agreement ==
  ~ failures /\ crashes = 0 /\ cb # "evolve" => up = running

(* dagger evolve executes only scripts of the change that it applies: none *)
(* that an abandoned change has left in the exit action of the current     *)
(* generation, and none of an earlier one.                                 *)
OwnScripts == \A r \in ran : r.writer = r.by

(* The generation in "current" was applied completely: the setup of every  *)
(* interface in it has been executed.                                      *)
CurrentApplied ==
  current # None =>
    \A n \in Node : init[current][n] # NoScript =>
      \E r \in ran : /\ r.action = "init" /\ r.node = n
                     /\ r.writer = init[current][n]

(* While a change is claimed or prepared no dagger script is running, not  *)
(* even one that a crashed confd has left behind.                          *)
Exclusive == cb \in {"claim", "claimed", "gen", "prepared"} => sh = "none"

(* Generations follow each other by one, to a generation that exists, with *)
(* the teardown of the old and the setup of the new behind them.           *)
GenStep ==
  [][current' # current => /\ current' = current + 1
                           /\ current' \in dir
                           /\ next' = Absent
                           /\ sh = "init" /\ todo = {}]_vars

(* A prepared or failed change gives "next" back, unless confd crashes.    *)
Released ==
  cb \in {"undo", "prepared"} ~> (next = Absent \/ crashes > 0)

-----------------------------------------------------------------------------
(***************************************************************************)
(* What the repository says and the code does not do.                      *)
(***************************************************************************)

(* "Transaction already in progress" (dagger.c): if "next" exists, some    *)
(* change is in progress: between its CHANGE and the end of its DONE or    *)
(* ABORT.                                                                  *)
InProgress == next # Absent => cb # "idle" \/ sh # "none" \/ crashes > 0

=============================================================================

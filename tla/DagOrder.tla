------------------------------ MODULE DagOrder ------------------------------
(***************************************************************************)
(* generate_order() of /sbin/dagger: the order in which the nodes of one   *)
(* generation are visited.                                                 *)
(*                                                                         *)
(* A generation keeps its graph as a directory tree: dag/<node>/ for every *)
(* node, and a link dag/<node>/<dependee> -> ../<dependee> for every       *)
(* dependency.  The script lists it with                                   *)
(*                                                                         *)
(*    find -L dag -depth -mindepth 1 -exec basename {} \; | awk !seen      *)
(*                                                                         *)
(* into bottom-up-order and writes the reverse into top-down-order.  The   *)
(* walk is modelled as find performs it, one directory entry at a time:    *)
(* the entries of a directory come in no particular order (readdir), and a *)
(* directory is printed after everything below it (-depth).  A node that   *)
(* several others depend on is walked and printed again every time it is   *)
(* met; awk drops the repetitions.                                         *)
(*                                                                         *)
(* The two files outlive the process that writes them: a later action of   *)
(* the same generation finds them and returns at once.  Kill is the death  *)
(* of the process at any point of its work.                                *)
(***************************************************************************)
EXTENDS Integers, Sequences, FiniteSets, SequencesExt

CONSTANTS Node,      \* the nodes of the generation (interface names)
          MaxKills   \* bound on the number of killed processes

ASSUME MaxKillsAssumption == MaxKills \in Nat

VARIABLES
  deps,      \* deps[n]: the entries of dag/n, the nodes n depends on
  bottomUp,  \* bottom-up-order: [there, seq]
  topDown,   \* top-down-order:  [there, seq]
  path,      \* find: the nodes whose directories are open, outermost first
  todo,      \* find: todo[i] is what is left to list at depth i - 1
  pc,        \* where the process is
  kills      \* number of processes killed so far

vars == <<deps, bottomUp, topDown, path, todo, pc, kills>>

NoFile == [there |-> FALSE, seq |-> << >>]
File(s) == [there |-> TRUE, seq |-> s]

(* No node depends on itself through others: the nodes can be ranked.      *)
Acyclic(d) ==
  \E rank \in [Node -> 1 .. Cardinality(Node)] :
    \A n \in Node : \A m \in d[n] : rank[m] < rank[n]

DepGraph == [Node -> SUBSET Node]

Init ==
  /\ deps \in {d \in DepGraph : Acyclic(d)}
  /\ bottomUp = NoFile
  /\ topDown = NoFile
  /\ path = << >>
  /\ todo = << >>
  /\ pc = "start"
  /\ kills = 0

(***************************************************************************)
(* The process.                                                            *)
(***************************************************************************)

(* [ -f bottom-up-order ] && [ -f top-down-order ] && return               *)
Cached ==
  /\ pc = "start"
  /\ bottomUp.there
  /\ topDown.there
  /\ pc' = "return"
  /\ UNCHANGED <<deps, bottomUp, topDown, path, todo, kills>>

(* Otherwise the pipeline is started, and its redirection truncates        *)
(* bottom-up-order.                                                        *)
StartFind ==
  /\ pc = "start"
  /\ ~ (bottomUp.there /\ topDown.there)
  /\ bottomUp' = File(<< >>)
  /\ path' = << >>
  /\ todo' = << Node >>
  /\ pc' = "find"
  /\ UNCHANGED <<deps, topDown, kills>>

(* awk '!seen[$0]++'                                                       *)
Unseen(s, n) == IF n \in ToSet(s) THEN s ELSE Append(s, n)

(* Mutant of Descend: find without -depth prints a directory first.        *)
DescendPrinting(n) ==
  /\ pc = "find"
  /\ n \in Last(todo)
  /\ bottomUp' = File(Unseen(bottomUp.seq, n))
  /\ path' = Append(path, n)
  /\ todo' = Append([todo EXCEPT ![Len(todo)] = @ \ {n}], deps[n])
  /\ UNCHANGED <<deps, topDown, pc, kills>>

(* find opens the directory behind the next entry.                         *)
Descend(n) ==
  /\ pc = "find"
  /\ n \in Last(todo)
  /\ path' = Append(path, n)
  /\ todo' = Append([todo EXCEPT ![Len(todo)] = @ \ {n}], deps[n])
  /\ UNCHANGED <<deps, bottomUp, topDown, pc, kills>>

(* Everything below the innermost directory has been listed: print it.     *)
Ascend ==
  /\ pc = "find"
  /\ path # << >>
  /\ Last(todo) = {}
  /\ bottomUp' = File(Unseen(bottomUp.seq, Last(path)))
  /\ path' = Front(path)
  /\ todo' = Front(todo)
  /\ UNCHANGED <<deps, topDown, pc, kills>>

(* Mutant of StartSed: top-down-order is never written.                    *)
StartOver ==
  /\ pc = "find"
  /\ path = << >>
  /\ todo[1] = {}
  /\ todo' = << >>
  /\ pc' = "start"
  /\ UNCHANGED <<deps, bottomUp, topDown, path, kills>>

(* The walk is over; the redirection of sed truncates top-down-order.      *)
StartSed ==
  /\ pc = "find"
  /\ path = << >>
  /\ todo[1] = {}
  /\ topDown' = File(<< >>)
  /\ todo' = << >>
  /\ pc' = "sed"
  /\ UNCHANGED <<deps, bottomUp, path, kills>>

(* Mutant of EndSed: a copy instead of the reverse.                        *)
EndCopy ==
  /\ pc = "sed"
  /\ topDown' = File(bottomUp.seq)
  /\ pc' = "return"
  /\ UNCHANGED <<deps, bottomUp, path, todo, kills>>

(* sed '1!G;h;$!d' prints the reverse once it has read the last line.      *)
EndSed ==
  /\ pc = "sed"
  /\ topDown' = File(Reverse(bottomUp.seq))
  /\ pc' = "return"
  /\ UNCHANGED <<deps, bottomUp, path, todo, kills>>

(* Another action of the same generation is executed later on.             *)
NextAction ==
  /\ pc = "return"
  /\ pc' = "start"
  /\ UNCHANGED <<deps, bottomUp, topDown, path, todo, kills>>

(* The process is killed; the files stay as they are.                      *)
Kill ==
  /\ pc \in {"find", "sed"}
  /\ kills < MaxKills
  /\ path' = << >>
  /\ todo' = << >>
  /\ pc' = "start"
  /\ kills' = kills + 1
  /\ UNCHANGED <<deps, bottomUp, topDown>>

Next ==
  \/ Cached
  \/ StartFind
  \/ \E n \in Node : Descend(n)
  \/ Ascend
  \/ StartSed
  \/ EndSed
  \/ NextAction
  \/ Kill

(* The process runs until it returns; being killed is never owed.          *)
Fairness ==
  WF_vars(Cached \/ StartFind \/ (\E n \in Node : Descend(n)) \/ Ascend
          \/ StartSed \/ EndSed)

Spec == Init /\ [][Next]_vars /\ Fairness

-----------------------------------------------------------------------------
(***************************************************************************)
(* Properties.                                                             *)
(***************************************************************************)

(* Every variable has its type: the order files list nodes.                *)
TypeOK ==
  /\ deps \in DepGraph
  /\ bottomUp \in [there : BOOLEAN, seq : Seq(Node)]
  /\ topDown \in [there : BOOLEAN, seq : Seq(Node)]
  /\ path \in Seq(Node)
  /\ todo \in Seq(SUBSET Node)
  /\ pc \in {"start", "find", "sed", "return"}
  /\ kills \in 0 .. MaxKills

(* s lists every node once, and a node only after all that it depends on.  *)
IsBottomUp(s) ==
  /\ ToSet(s) = Node
  /\ IsInjective(s)
  /\ \A i \in DOMAIN s : \A m \in deps[s[i]] : \E j \in 1 .. i - 1 : s[j] = m

(* s lists every node once, and a node only after all that depend on it.   *)
IsTopDown(s) ==
  /\ ToSet(s) = Node
  /\ IsInjective(s)
  /\ \A i \in DOMAIN s : \A n \in Node :
       s[i] \in deps[n] => \E j \in 1 .. i - 1 : s[j] = n

(* Whenever generate_order() returns, whether it has walked the graph or   *)
(* found the files of an earlier process, killed or not, bottom-up-order   *)
(* lists all nodes, dependees first: the init action depends on it.        *)
BottomUpValid == pc = "return" => IsBottomUp(bottomUp.seq)

(* Unless a process was killed while sed was writing, top-down-order lists *)
(* all nodes, dependers first: "The reverse is a valid top-down order".    *)
(* The exit action depends on it.  A process killed in find is harmless.   *)
TopDownValid ==
  pc = "return" /\ topDown.seq # << >> => IsTopDown(topDown.seq)

(* Once sed has written the reverse, both files are final: every later     *)
(* action of the generation, run by whatever process, visits the nodes in  *)
(* the same order.                                                         *)
OrderStable ==
  [][topDown.seq # << >> => UNCHANGED <<bottomUp, topDown>>]_vars

(* generate_order() always returns: the walk of an acyclic graph ends.     *)
Returns == pc = "start" ~> pc = "return"

=============================================================================

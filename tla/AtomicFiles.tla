---------------------------- MODULE AtomicFiles ----------------------------
(***************************************************************************)
(* What the staged files of ietf-system.c promise to everyone who reads    *)
(* them: a file shows the text of the stored configuration or still that   *)
(* of an earlier one, changes from one to the other in one step, and is    *)
(* never missing in between.  Only a crash may lose a file, and one at most.*)
(***************************************************************************)
EXTENDS Naturals

CONSTANTS File,        \* the files below /etc
          Config,      \* configurations
          Text(_, _),  \* Text(f, c): what file f says for configuration c
          Initial,     \* Initial[f]: what it says at first
          Missing      \* there is no such file

VARIABLES stored,      \* the configuration stored last
          shown,       \* shown[f]: what a reader of file f finds
          crashes      \* number of crashes

vars == <<stored, shown, crashes>>

(* A changeset is stored; the files do not change with it.                 *)
Store == stored' \in Config /\ UNCHANGED <<shown, crashes>>

(* A file gets the text of the stored configuration.                       *)
Show(f) ==
  /\ shown' = [shown EXCEPT ![f] = Text(f, stored)]
  /\ UNCHANGED <<stored, crashes>>

Crash ==
  /\ crashes' = crashes + 1
  /\ \/ UNCHANGED shown
     \/ \E f \in File : shown' = [shown EXCEPT ![f] = Missing]
  /\ UNCHANGED stored

Init == stored \in Config /\ shown = Initial /\ crashes = 0

Next == Store \/ Crash \/ \E f \in File : Show(f)

Spec == Init /\ [][Next]_vars

=============================================================================

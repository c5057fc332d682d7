------------------------------ MODULE MCDagger ------------------------------
(***************************************************************************)
(* Two interfaces; three changes, so that a change follows one that was    *)
(* abandoned on top of one that was applied; one crash.                    *)
(***************************************************************************)
EXTENDS Dagger
=============================================================================

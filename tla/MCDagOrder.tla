----------------------------- MODULE MCDagOrder -----------------------------
(* DagOrder on four interfaces: every acyclic graph on them.               *)
EXTENDS DagOrder
=============================================================================

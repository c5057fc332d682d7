---------------------------- MODULE MCLateChanges ----------------------------
(* An instance of LateChanges for TLC: two users with valid names and one  *)
(* without, two passwords, two interfaces.                                 *)
EXTENDS LateChanges

CONSTANTS h1, h2, k1

MCUser == {<<"alpha">>, <<"_", "digit">>, <<"digit">>}
MCSetup ==
  [u \in MCUser |->
     {[password |-> h1, keys |-> {k1}]} \cup
     IF u # <<"alpha">> THEN {}
     ELSE {[password |-> h2, keys |-> {}], [password |-> None, keys |-> {}]}]
=============================================================================

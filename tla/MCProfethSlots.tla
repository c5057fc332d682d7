--------------------------- MODULE MCProfethSlots ---------------------------
(* An instance of ProfethSlots for TLC.                                    *)
EXTENDS ProfethSlots, TLC

With(m, ids) == [module |-> m, sub |-> ids]

(* Slot 1 is below the number of subslots and slot 3 is not.  There are    *)
(* modules with one and with two submodules, modules that differ in their  *)
(* submodules only, and one that is not known.                             *)
First ==
  {<< >>, 1 :> With("DIO", <<"dio">>), 1 :> With("DIO", <<"dio", "di">>),
   1 :> With("DIO", 2 :> "echo"), 1 :> With("odd", <<"odd">>)}
Second ==
  {<< >>, 3 :> With("echo", <<"echo">>), 3 :> With("echo", <<"odd">>),
   3 :> With("DO", <<"do">>)}

MCExpected == {a @@ b : a \in First, b \in Second} \ {<< >>}

(* Slot 3, whose module stays while its submodule is replaced.             *)
SameModule == {3 :> With("echo", <<"echo">>), 3 :> With("echo", <<"odd">>)}
=============================================================================

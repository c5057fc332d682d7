------------------------------ MODULE MCNetTool ------------------------------
(* An instance of NetTool for TLC.                                         *)
EXTENDS NetTool, TLC

MCNames == <<"a", "b", "c">>

(* c on top of b on top of a; a and b below c, and b below a; no           *)
(* dependencies, and no c; nothing.                                        *)
Chain == ("a" :> {} @@ "b" :> {"a"} @@ "c" :> {"b"})
Shared == ("a" :> {"b"} @@ "b" :> {} @@ "c" :> {"a", "b"})
Flat == ("a" :> {} @@ "b" :> {})

Tree(d, scripts, disabled) ==
  [deps |-> d, init |-> scripts,
   admin |-> [i \in DOMAIN d |-> IF i \in disabled THEN "disabled" ELSE "none"]]

MCTrees ==
  {Tree(Chain, {<<"a", "ip">>, <<"b", "ip">>, <<"c", "bridge">>, <<"b", "bridge">>}, {"a"}),
   Tree(Shared, {<<"a", "ip">>, <<"b", "ip">>, <<"c", "ip">>, <<"c", "ethtool">>}, {}),
   Tree(Flat, {<<"a", "bridge">>, <<"b", "ethtool">>}, {"a", "b"}),
   Tree(<< >>, {}, {})}

MCLeaving ==
  {{}, {<<"a", "ip">>, <<"b", "ip">>, <<"a", "bridge">>, <<"c", "bridge">>,
        <<"b", "ethtool">>}}

MCAsked == {[want |-> "up", names |-> {}], [want |-> "down", names |-> {"a"}]}
=============================================================================

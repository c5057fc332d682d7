--------------------------- MODULE MCSystemFiles ---------------------------
(* Instances of SystemFiles for TLC.                                       *)
EXTENDS SystemFiles

(* Configurations that differ from each other in one part and in several;  *)
(* one takes the timezone away.                                            *)
First ==
  [clock |-> "UTC", ntp |-> [enabled |-> "true", servers |-> {"s1"}],
   dns |-> [timeout |-> 3, attempts |-> 4]]

MCConfig ==
  {Default, First,
   [First EXCEPT !.clock = "CET", !.dns.timeout = 5],
   [First EXCEPT !.clock = "CET", !.ntp.enabled = "false"],
   [First EXCEPT !.clock = NoZone, !.ntp.servers = {}]}
=============================================================================

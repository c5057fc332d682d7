---------------------------- MODULE MCCommitHooks ----------------------------
(***************************************************************************)
(* The three modules of confd, one of them with two of its subscriptions.  *)
(***************************************************************************)
EXTENDS CommitHooks, TLC

CONSTANTS interfaces, clock, ntp, client,
          ietf_interfaces, ietf_system, infix_dhcp_client

MCSub == {interfaces, clock, ntp, client}
MCModuleOf ==
  interfaces :> ietf_interfaces @@ clock :> ietf_system @@ ntp :> ietf_system
    @@ client :> infix_dhcp_client
=============================================================================

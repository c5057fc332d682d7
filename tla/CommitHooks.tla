----------------------------- MODULE CommitHooks -----------------------------
(***************************************************************************)
(* When the services are reloaded: register_change() of core.h and         *)
(* core_post_hook() of core.c.                                             *)
(*                                                                         *)
(* confd registers each of its callbacks with sysrepo together with a      *)
(* passive hook of lower priority for the same part of the same module.    *)
(* The hooks count: up on CHANGE, down on DONE.  The one that gets to zero *)
(* takes itself for the last callback of the changeset and has the init    *)
(* daemon reload its services, unless the system is still booting, where a *)
(* change of runlevel follows that does the same.                          *)
(*                                                                         *)
(* sysrepo is modelled as confd uses it.  A changeset goes to the          *)
(* subscribers of what it changes, in each module in the order of their    *)
(* priorities, first with CHANGE.  If one of them refuses it, those that   *)
(* were called before get ABORT; if none does the data is stored, and all  *)
(* get DONE, which cannot be refused.  Changesets of different sessions    *)
(* that have no module in common may be under way at the same time; their  *)
(* events reach confd one at a time, in its one event thread.              *)
(***************************************************************************)
EXTENDS Integers, FiniteSets

CONSTANTS
  Session,     \* clients of sysrepo
  Sub,         \* the subscriptions made by register_change()
  ModuleOf,    \* ModuleOf[x]: the YANG module of subscription x
  Serial,      \* clients wait for each other
  MaxCommits,  \* bound on the number of changesets
  MaxCrashes   \* bound on the number of crashes of confd

ASSUME SubAssumption == IsFiniteSet(Sub)
ASSUME HookBoundsAssumption ==
  MaxCommits \in Nat /\ MaxCrashes \in Nat /\ Serial \in BOOLEAN

VARIABLES
  phase,        \* phase[s]: the event the changeset of session s has got to
  subs,         \* subs[s]: the subscriptions it concerns
  primary,      \* primary[s]: callbacks still to be called with the event
  hook,         \* hook[s]: hooks still to be called with the event
  num_changes,  \* of core_post_hook()
  booted,       \* there is a runlevel
  stale,        \* services have changed since the last reload
  begun,        \* number of changesets begun
  stored,       \* number of changesets stored
  activated,    \* number of times that a hook found itself to be the last
  missed,       \* a reload failed, or a crash lost it, and none since worked
  crashes       \* number of crashes

progress == <<phase, subs, primary, hook>>
count == <<begun, stored, activated, crashes>>
vars == <<progress, num_changes, booted, stale, missed, count>>

Init ==
  /\ phase = [s \in Session |-> "none"]
  /\ subs = [s \in Session |-> {}]
  /\ primary = [s \in Session |-> {}]
  /\ hook = [s \in Session |-> {}]
  /\ num_changes = 0
  /\ booted = FALSE
  /\ stale = FALSE
  /\ begun = 0 /\ stored = 0 /\ activated = 0 /\ crashes = 0
  /\ missed = FALSE

-----------------------------------------------------------------------------
(***************************************************************************)
(* sysrepo.                                                                *)
(***************************************************************************)

Modules(x) == {ModuleOf[y] : y \in x}

(* The changesets that are under way have locked their modules.            *)
Unlocked(s, x) ==
  \A t \in Session \ {s} :
    phase[t] # "none" => ~ Serial /\ Modules(x) \cap Modules(subs[t]) = {}

(* Mutant of InTurn: hooks are registered with the priority of callbacks.  *)
Unordered(s, x) == TRUE

(* The callbacks of a module have a higher priority than its hooks.        *)
InTurn(s, x) == \A y \in primary[s] : ModuleOf[y] # ModuleOf[x]

(* A client applies a changeset that concerns the subscriptions x.         *)
Begin(s, x) ==
  /\ phase[s] = "none"
  /\ x # {}
  /\ begun < MaxCommits
  /\ Unlocked(s, x)
  /\ phase' = [phase EXCEPT ![s] = "change"]
  /\ subs' = [subs EXCEPT ![s] = x]
  /\ primary' = [primary EXCEPT ![s] = x]
  /\ hook' = [hook EXCEPT ![s] = x]
  /\ begun' = begun + 1
  /\ UNCHANGED <<num_changes, booted, stale, missed, stored, activated,
                 crashes>>

(* All have accepted.                                                      *)
Store(s) ==
  /\ phase[s] = "change"
  /\ primary[s] = {} /\ hook[s] = {}
  /\ phase' = [phase EXCEPT ![s] = "done"]
  /\ primary' = [primary EXCEPT ![s] = subs[s]]
  /\ hook' = [hook EXCEPT ![s] = subs[s]]
  /\ stored' = stored + 1
  /\ UNCHANGED <<subs, num_changes, booted, stale, missed, begun, activated,
                 crashes>>

(* All have been told.                                                     *)
End(s) ==
  /\ phase[s] \in {"done", "abort"}
  /\ primary[s] = {} /\ hook[s] = {}
  /\ phase' = [phase EXCEPT ![s] = "none"]
  /\ subs' = [subs EXCEPT ![s] = {}]
  /\ UNCHANGED <<primary, hook, num_changes, booted, stale, missed, count>>

-----------------------------------------------------------------------------
(***************************************************************************)
(* The callbacks.                                                          *)
(***************************************************************************)

(* A callback accepts the change, acts on DONE, or undoes on ABORT what it *)
(* has prepared.  On DONE it enables, disables or touches services.        *)
Primary(s, x) ==
  /\ phase[s] # "none"
  /\ x \in primary[s]
  /\ primary' = [primary EXCEPT ![s] = @ \ {x}]
  /\ stale' = (stale \/ phase[s] = "done")
  /\ UNCHANGED <<phase, subs, hook, num_changes, booted, missed, count>>

(* A callback refuses the change: ABORT for those called before it.        *)
Refuse(s, x) ==
  /\ phase[s] = "change"
  /\ x \in primary[s]
  /\ phase' = [phase EXCEPT ![s] = "abort"]
  /\ primary' = [primary EXCEPT ![s] = subs[s] \ @]
  /\ hook' = [hook EXCEPT ![s] = subs[s] \ @]
  /\ UNCHANGED <<subs, num_changes, booted, stale, missed, count>>

-----------------------------------------------------------------------------
(***************************************************************************)
(* core_post_hook().                                                       *)
(***************************************************************************)

Hook(s, x, event) ==
  /\ phase[s] = event
  /\ x \in hook[s]
  /\ InTurn(s, x)
  /\ hook' = [hook EXCEPT ![s] = @ \ {x}]
  /\ UNCHANGED <<phase, subs, primary, booted, begun, stored, crashes>>

(* SR_EV_CHANGE: one more.                                                 *)
HookChange(s, x) ==
  /\ Hook(s, x, "change")
  /\ num_changes' = num_changes + 1
  /\ UNCHANGED <<stale, activated, missed>>

(* Mutant of HookAbort: the count is not reset.                            *)
HookAbortKeeps(s, x) ==
  /\ Hook(s, x, "abort")
  /\ UNCHANGED <<num_changes, stale, activated, missed>>

(* SR_EV_ABORT: from the start.                                            *)
HookAbort(s, x) ==
  /\ Hook(s, x, "abort")
  /\ num_changes' = 0
  /\ UNCHANGED <<stale, activated, missed>>

(* SR_EV_DONE: one less, and not the last one.                             *)
HookDone(s, x) ==
  /\ Hook(s, x, "done")
  /\ num_changes' = num_changes - 1
  /\ num_changes' # 0
  /\ UNCHANGED <<stale, activated, missed>>

(* Mutant of HookActivate: the services are not reloaded.                  *)
HookSilent(s, x, fails) ==
  /\ Hook(s, x, "done")
  /\ num_changes' = num_changes - 1
  /\ num_changes' = 0
  /\ activated' = activated + 1
  /\ ~ fails
  /\ UNCHANGED <<stale, missed>>

(* Mutant of HookActivate: reload in bootstrap, and only there.            *)
HookInverted(s, x, fails) ==
  /\ Hook(s, x, "done")
  /\ num_changes' = num_changes - 1
  /\ num_changes' = 0
  /\ activated' = activated + 1
  /\ fails => ~ booted
  /\ stale' = (stale /\ (fails \/ booted))
  /\ missed' = IF booted THEN missed ELSE fails

(* The last one: reload, which may fail, unless there is no runlevel yet.  *)
HookActivate(s, x, fails) ==
  /\ Hook(s, x, "done")
  /\ num_changes' = num_changes - 1
  /\ num_changes' = 0
  /\ activated' = activated + 1
  /\ fails => booted
  /\ stale' = (stale /\ (fails \/ ~ booted))
  /\ missed' = IF booted THEN fails ELSE missed

-----------------------------------------------------------------------------
(* The init daemon leaves bootstrap, with an implicit reload.              *)
Runlevel ==
  /\ ~ booted
  /\ booted' = TRUE
  /\ stale' = FALSE
  /\ UNCHANGED <<progress, num_changes, missed, count>>

(* confd dies while changesets are under way, and is started anew: their   *)
(* events are lost, and its static variables.                              *)
Crash ==
  /\ crashes < MaxCrashes
  /\ \E s \in Session : phase[s] # "none"
  /\ phase' = [s \in Session |-> "none"]
  /\ subs' = [s \in Session |-> {}]
  /\ primary' = [s \in Session |-> {}]
  /\ hook' = [s \in Session |-> {}]
  /\ num_changes' = 0
  /\ crashes' = crashes + 1
  /\ missed' = (missed \/ stale)
  /\ UNCHANGED <<booted, stale, begun, stored, activated>>

Deliver(s) ==
  \/ Store(s) \/ End(s)
  \/ \E x \in Sub : \/ Primary(s, x) \/ Refuse(s, x)
                    \/ HookChange(s, x) \/ HookAbort(s, x) \/ HookDone(s, x)
                    \/ \E fails \in BOOLEAN : HookActivate(s, x, fails)

Next ==
  \/ \E s \in Session : Deliver(s) \/ \E x \in SUBSET Sub : Begin(s, x)
  \/ Runlevel
  \/ Crash

(* sysrepo delivers the events of a changeset, and the system boots.       *)
Fairness == (\A s \in Session : WF_vars(Deliver(s))) /\ WF_vars(Runlevel)

Spec == Init /\ [][Next]_vars /\ Fairness

-----------------------------------------------------------------------------
(***************************************************************************)
(* Properties.                                                             *)
(***************************************************************************)

(* Every variable has its type; the counter never falls below zero when    *)
(* clients wait for each other.                                            *)
TypeOK ==
  /\ phase \in [Session -> {"none", "change", "done", "abort"}]
  /\ subs \in [Session -> SUBSET Sub]
  /\ primary \in [Session -> SUBSET Sub]
  /\ hook \in [Session -> SUBSET Sub]
  /\ num_changes \in Int
  /\ Serial => num_changes >= 0
  /\ booted \in BOOLEAN /\ stale \in BOOLEAN /\ missed \in BOOLEAN
  /\ begun \in Nat /\ stored \in Nat /\ activated \in Nat
  /\ crashes \in 0 .. MaxCrashes

Quiet == \A s \in Session : phase[s] = "none"

(* "To figure out, per changeset, which of the callbacks is the last one": *)
(* when no changeset is under way exactly one hook call has found itself   *)
(* to be the last for every changeset that was stored, and none for those  *)
(* that were refused.                                                      *)
OncePerChangeset == Quiet /\ crashes = 0 => activated = stored

(* When the system runs and no changeset is under way, the services have   *)
(* been reloaded since they were changed, unless the reload itself failed  *)
(* or confd crashed before it; the next changeset makes up for that.       *)
NothingStale == Quiet /\ booted /\ ~ missed => ~ stale

(* The last hook is the last: when it reloads, all the callbacks of every  *)
(* stored changeset have done their part.                                  *)
ReloadsLast ==
  [][activated' # activated =>
       \A s \in Session : phase[s] = "done" => primary[s] = {}]_vars

(* A changeset that is stored is activated in the end, by its own hook or, *)
(* while booting, by the change of runlevel, unless something fails.       *)
Activated ==
  \A s \in Session : phase[s] = "done" ~> (booted /\ ~ stale) \/ missed

=============================================================================

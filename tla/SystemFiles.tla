----------------------------- MODULE SystemFiles -----------------------------
(***************************************************************************)
(* The files that confd writes for the system's clock, NTP client and DNS  *)
(* resolver: change_clock(), change_ntp() and change_dns() of              *)
(* ietf-system.c.                                                          *)
(*                                                                         *)
(* Each of the three stages a file <name>+ on CHANGE.  On ABORT it removes *)
(* the staged file.  On DONE it takes a staged file as the sign that the   *)
(* change "passed validation in previous event", keeps the installed file  *)
(* as <name>- and renames the staged one.  The clock has two such files,   *)
(* of which the second is a link and follows the first.                    *)
(*                                                                         *)
(* The three callbacks belong to one YANG module, so that sysrepo has one  *)
(* changeset under way at a time.  What they do with files and services is *)
(* a sequence of operations, and confd may die between any two of them.    *)
(***************************************************************************)
EXTENDS Naturals, Sequences

CONSTANTS
  Config,      \* the configurations that clients apply, and the first one
  NoFile,      \* the file does not exist
  Shipped,     \* the text that a file has in the root file system
  MaxCommits,  \* bound on the number of changesets
  MaxCrashes   \* bound on the number of crashes of confd

(* There is no timezone in the configuration; no ntp container.            *)
NoZone == "no zone"
NoNtp == [enabled |-> "unset", servers |-> {}]

(* The empty configuration, with the defaults of the YANG model.           *)
Default ==
  [clock |-> NoZone, ntp |-> NoNtp, dns |-> [timeout |-> 5, attempts |-> 2]]

ASSUME ConfigAssumption == Default \in Config
ASSUME FilesBoundsAssumption == MaxCommits \in Nat /\ MaxCrashes \in Nat

Sub == {"clock", "ntp", "dns"}
File == {"timezone", "localtime", "chrony", "resolv"}

VARIABLES
  running,   \* the running datastore
  new,       \* the configuration of the changeset
  phase,     \* the event that the changeset has got to
  subs,      \* the callbacks it concerns
  pending,   \* those still to be called with the event
  ops,       \* what is left to do of the callback under way
  conf,      \* conf[f]: the installed file
  next,      \* next[f]: the staged file, <name>+
  prev,      \* prev[f]: the file before, <name>-
  chronyd,   \* the service is enabled
  boot,      \* how far the system has come up
  resolver,  \* the resolv.conf.head that resolvconf has read last
  stored,    \* the configurations that have been stored
  torn,      \* callbacks whose DONE was lost in a crash, and none since
  commits,   \* number of changesets
  crashes    \* number of crashes

event == <<running, new, phase, subs, stored, commits>>
files == <<conf, next, prev>>
vars == <<event, pending, ops, files, chronyd, boot, resolver, torn, crashes>>

(***************************************************************************)
(* The text of the files.                                                  *)
(***************************************************************************)

(* change_dns(): the number of attempts is read into the timeout.          *)
Resolv(dns) == [timeout |-> dns.attempts, attempts |-> 0]

Text(f, c) ==
  CASE f \in {"timezone", "localtime"} -> c.clock
    [] f = "chrony" -> c.ntp.servers
    [] f = "resolv" -> Resolv(c.dns)

(* A file that has a text is there.                                        *)
ASSUME TextAssumption == \A f \in File, c \in Config : Text(f, c) # NoFile

FilesOf(x) ==
  CASE x = "clock" -> {"timezone", "localtime"}
    [] x = "ntp" -> {"chrony"}
    [] x = "dns" -> {"resolv"}

(* The parts of the configuration that a change to c concerns.             *)
Diff(c) == {x \in Sub : c[x] # running[x]}

Init ==
  /\ running = Default
  /\ new = running
  /\ phase = "none" /\ subs = {} /\ pending = {} /\ ops = << >>
  /\ conf = [f \in File |-> Shipped]
  /\ next = [f \in File |-> NoFile]
  /\ prev = [f \in File |-> NoFile]
  /\ chronyd = FALSE
  /\ boot = "booting"
  /\ resolver = Shipped
  /\ stored = {} /\ torn = {}
  /\ commits = 0 /\ crashes = 0

-----------------------------------------------------------------------------
(***************************************************************************)
(* sysrepo.                                                                *)
(***************************************************************************)

(* A client applies a changeset.                                           *)
Begin(c) ==
  /\ phase = "none"
  /\ commits < MaxCommits
  /\ Diff(c) # {}
  /\ new' = c
  /\ phase' = "change"
  /\ subs' = Diff(c) /\ pending' = Diff(c)
  /\ commits' = commits + 1
  /\ UNCHANGED <<running, stored, ops, files, chronyd, boot, resolver, torn,
                 crashes>>

(* All have accepted.                                                      *)
Store ==
  /\ phase = "change"
  /\ pending = {} /\ ops = << >>
  /\ running' = new
  /\ stored' = stored \cup {new}
  /\ phase' = "done"
  /\ pending' = subs
  /\ UNCHANGED <<new, subs, commits, ops, files, chronyd, boot, resolver,
                 torn, crashes>>

(* The changeset is refused; those called before get ABORT.                *)
Refused(called) ==
  /\ phase' = "abort"
  /\ pending' = called
  /\ UNCHANGED <<running, new, subs, stored, commits>>

(* Another subscriber refuses it.                                          *)
Refuse ==
  /\ phase = "change"
  /\ ops = << >>
  /\ Refused(subs \ pending)
  /\ UNCHANGED <<ops, files, chronyd, boot, resolver, torn, crashes>>

(* All have been told.                                                     *)
End ==
  /\ phase \in {"done", "abort"}
  /\ pending = {} /\ ops = << >>
  /\ phase' = "none"
  /\ UNCHANGED <<running, new, subs, stored, commits, pending, ops, files,
                 chronyd, boot, resolver, torn, crashes>>

-----------------------------------------------------------------------------
(***************************************************************************)
(* The callbacks.  They are called one at a time.                          *)
(***************************************************************************)

Op(do, f) == [do |-> do, file |-> f]

(* Mutant of Swap: NEXT is renamed before CONF is.                         *)
SwapLate(f) == <<Op("drop", f), Op("install", f), Op("backup", f)>>

(* remove(PREV), rename(CONF, PREV), rename(NEXT, CONF)                    *)
Swap(f) == <<Op("drop", f), Op("backup", f), Op("install", f)>>

Call(x, ev) ==
  /\ phase = ev
  /\ ops = << >>
  /\ x \in pending
  /\ pending' = pending \ {x}
  /\ UNCHANGED <<event, chronyd, boot, resolver, crashes>>

(* The one file whose staging decides on DONE.                             *)
Main(x) == CASE x = "clock" -> "timezone"
             [] x = "ntp" -> "chrony"
             [] x = "dns" -> "resolv"

(* Mutant of Staging: the resolver's file is written in place.             *)
StagingInPlace(x) ==
  CASE x = "clock" -> <<Op("remove", "localtime"), Op("stage", "localtime"),
                        Op("stage", "timezone")>>
    [] x = "ntp" -> <<Op("stage", "chrony")>>
    [] x = "dns" -> <<Op("stage", "resolv")>> \o Swap("resolv")

(* SR_EV_CHANGE: stage.  The clock needs a timezone.                       *)
Staging(x) ==
  CASE x = "clock" -> <<Op("remove", "localtime"), Op("stage", "localtime"),
                        Op("stage", "timezone")>>
    [] x = "ntp" -> <<Op("stage", "chrony")>>
    [] x = "dns" -> <<Op("stage", "resolv")>>

Change(x) ==
  /\ Call(x, "change")
  /\ x = "clock" => new.clock # NoZone
  /\ ops' = Staging(x)
  /\ UNCHANGED <<files, torn>>

(* SR_EV_CHANGE: refuse.  There is no timezone, or the servers cannot be   *)
(* read or are not valid, in which case a staged file is removed.          *)
ChangeFails(x) ==
  /\ phase = "change"
  /\ ops = << >>
  /\ x \in pending
  /\ x = "clock" => new.clock = NoZone
  /\ next' = IF x = "clock" THEN next ELSE [next EXCEPT ![Main(x)] = NoFile]
  /\ Refused(subs \ pending)
  /\ UNCHANGED <<ops, conf, prev, chronyd, boot, resolver, torn, crashes>>

(* SR_EV_ABORT: remove the staged file; the link of the clock stays.       *)
Abort(x) ==
  /\ Call(x, "abort")
  /\ next' = [next EXCEPT ![Main(x)] = NoFile]
  /\ UNCHANGED <<ops, conf, prev, torn>>

(* Mutant of Installing: the link of the clock is forgotten.               *)
InstallingZoneOnly(x) ==
  CASE x = "clock" -> Swap("timezone")
    [] x = "ntp" -> Swap("chrony") \o <<Op("service", "chrony")>>
    [] x = "dns" -> Swap("resolv") \o <<Op("condition", "resolv")>>

(* SR_EV_DONE: nothing, unless a file is staged.                           *)
Installing(x) ==
  CASE x = "clock" -> Swap("timezone") \o Swap("localtime")
    [] x = "ntp" -> Swap("chrony") \o <<Op("service", "chrony")>>
    [] x = "dns" -> Swap("resolv") \o <<Op("condition", "resolv")>>

Done(x) ==
  /\ Call(x, "done")
  /\ ops' = IF next[Main(x)] = NoFile THEN << >> ELSE Installing(x)
  /\ torn' = torn \ {x}
  /\ UNCHANGED files

-----------------------------------------------------------------------------
(***************************************************************************)
(* The operations.                                                         *)
(***************************************************************************)

Do(do, f) ==
  /\ ops # << >>
  /\ Head(ops) = Op(do, f)
  /\ UNCHANGED <<event, pending, boot, torn, crashes>>

Remove(f) ==
  /\ Do("remove", f)
  /\ ops' = Tail(ops)
  /\ next' = [next EXCEPT ![f] = NoFile]
  /\ UNCHANGED <<conf, prev, chronyd, resolver>>

(* The text is written, whatever the file had before.                      *)
Stage(f) ==
  /\ Do("stage", f)
  /\ ops' = Tail(ops)
  /\ next' = [next EXCEPT ![f] = Text(f, new)]
  /\ UNCHANGED <<conf, prev, chronyd, resolver>>

Drop(f) ==
  /\ Do("drop", f)
  /\ ops' = Tail(ops)
  /\ prev' = [prev EXCEPT ![f] = NoFile]
  /\ UNCHANGED <<conf, next, chronyd, resolver>>

(* Neither rename does anything if there is no such file.                  *)
Backup(f) ==
  /\ Do("backup", f)
  /\ ops' = Tail(ops)
  /\ IF conf[f] = NoFile THEN UNCHANGED <<conf, prev>>
     ELSE /\ prev' = [prev EXCEPT ![f] = conf[f]]
          /\ conf' = [conf EXCEPT ![f] = NoFile]
  /\ UNCHANGED <<next, chronyd, resolver>>

Install(f) ==
  /\ Do("install", f)
  /\ ops' = Tail(ops)
  /\ IF next[f] = NoFile THEN UNCHANGED <<conf, next>>
     ELSE /\ conf' = [conf EXCEPT ![f] = next[f]]
          /\ next' = [next EXCEPT ![f] = NoFile]
  /\ UNCHANGED <<prev, chronyd, resolver>>

(* initctl disable chronyd, or touch and enable.                           *)
Service ==
  /\ Do("service", "chrony")
  /\ ops' = Tail(ops)
  /\ chronyd' = (running.ntp.enabled # "true")
  /\ UNCHANGED <<files, resolver>>

(* Mutant of Condition: the result of initctl is taken the wrong way.      *)
ConditionInverted ==
  /\ Do("condition", "resolv")
  /\ ops' = IF boot # "booting" THEN Tail(ops)
            ELSE <<Op("resolvconf", "resolv")>>
  /\ UNCHANGED <<files, chronyd, resolver>>

(* initctl cond get hook/sys/up: in bootstrap resolvconf is not called.    *)
Condition ==
  /\ Do("condition", "resolv")
  /\ ops' = IF boot = "booting" THEN Tail(ops)
            ELSE <<Op("resolvconf", "resolv")>>
  /\ UNCHANGED <<files, chronyd, resolver>>

Resolvconf ==
  /\ Do("resolvconf", "resolv")
  /\ ops' = Tail(ops)
  /\ resolver' = conf["resolv"]
  /\ UNCHANGED <<files, chronyd>>

-----------------------------------------------------------------------------
(* Finit, as change_dns() relies on it: the condition hook/sys/up comes     *)
(* first, and the task that calls resolvconf at the end of bootstrap later.*)
SysUp ==
  /\ boot = "booting"
  /\ boot' = "up"
  /\ UNCHANGED <<event, pending, ops, files, chronyd, resolver, torn,
                 crashes>>

BootResolvconf ==
  /\ boot = "up"
  /\ boot' = "settled"
  /\ resolver' = conf["resolv"]
  /\ UNCHANGED <<event, pending, ops, files, chronyd, torn, crashes>>

(* The callback whose DONE is under way.                                   *)
Busy == {x \in Sub : ops # << >> /\ Head(ops).file \in FilesOf(x)}

(* confd dies and is started anew.                                         *)
Crash ==
  /\ crashes < MaxCrashes
  /\ phase # "none"
  /\ crashes' = crashes + 1
  /\ phase' = "none"
  /\ pending' = {}
  /\ ops' = << >>
  /\ torn' = IF phase = "done" THEN torn \cup pending \cup Busy ELSE torn
  /\ UNCHANGED <<running, new, subs, stored, commits, files, chronyd, boot,
                 resolver>>

Callback == \E x \in Sub : Change(x) \/ ChangeFails(x) \/ Abort(x) \/ Done(x)

Operation ==
  \/ \E f \in File : Remove(f) \/ Stage(f) \/ Drop(f) \/ Backup(f) \/ Install(f)
  \/ Service \/ Condition \/ Resolvconf

Next ==
  \/ \E c \in Config : Begin(c)
  \/ Store \/ Refuse \/ End
  \/ Callback \/ Operation
  \/ SysUp \/ BootResolvconf
  \/ Crash

(* sysrepo delivers its events, confd goes on with what it does, and the   *)
(* system comes up.                                                        *)
Fairness ==
  /\ WF_vars(Store \/ End \/ Callback \/ Operation)
  /\ WF_vars(SysUp \/ BootResolvconf)

Spec == Init /\ [][Next]_vars /\ Fairness

-----------------------------------------------------------------------------
(***************************************************************************)
(* Properties.                                                             *)
(***************************************************************************)

(* No text of a changeset that was refused, or lost in a crash before it   *)
(* was stored, is ever installed, however many staged files are left over. *)
OnlyStored ==
  \A f \in File :
    {conf[f], prev[f]} \subseteq
      {NoFile, Shipped} \cup {Text(f, c) : c \in stored}

(* When no changeset is under way the files say what is configured, if the *)
(* DONE of the last change of that part was not lost in a crash.  In       *)
(* particular the two files of the clock agree, and a later change makes   *)
(* up for what a crash has left.                                           *)
Installed ==
  phase = "none" =>
    \A x \in Sub \ torn : \A f \in FilesOf(x) :
      \/ conf[f] = Text(f, running)
      \/ conf[f] = Shipped /\ \A c \in stored : c[x] = Default[x]

(* "Another resolvconf will soon take your call": what change_dns() leaves *)
(* to the end of bootstrap is done, and resolvconf always gets to read the *)
(* installed file, unless confd crashes before calling it.                 *)
Resolves == []<>(resolver = conf["resolv"] \/ crashes > 0)

(* A reader of a file, other than in the instant between two renames.      *)
Shown(f) ==
  IF conf[f] = NoFile /\ ops # << >> /\ Head(ops) = Op("install", f)
    THEN next[f] ELSE conf[f]

Atomic == INSTANCE AtomicFiles
            WITH Initial <- [f \in File |-> Shipped],
                 Missing <- NoFile,
                 stored <- running,
                 shown <- [f \in File |-> Shown(f)]

(* The three renames amount to one atomic replacement of the old text by   *)
(* that of the stored configuration.  A crash costs at most one file, the  *)
(* one between its two renames, and the next change of it brings it back.  *)
Replaces == Atomic!Spec

-----------------------------------------------------------------------------
(***************************************************************************)
(* What the YANG models say and the code does not do.                      *)
(***************************************************************************)

(* "Enables the NTP client unless the 'enabled' leaf (which defaults to    *)
(* 'true') is set to 'false'", and "The amount of time the resolver will   *)
(* wait for a response": after a change of both, the client is enabled as  *)
(* configured and resolv.conf.head has the configured timeout.             *)
AsDescribed ==
  phase = "none" /\ crashes = 0 /\ Shipped \notin {conf["chrony"], conf["resolv"]} =>
    /\ chronyd = (running.ntp.enabled = "true")
    /\ conf["resolv"].timeout = running.dns.timeout

=============================================================================

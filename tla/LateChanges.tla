----------------------------- MODULE LateChanges -----------------------------
(***************************************************************************)
(* The callbacks of confd that act once a changeset has been stored:       *)
(* change_auth() and change_hostname() of ietf-system.c, which share one   *)
(* Augeas tree, and client_change() of infix-dhcp.c.                       *)
(*                                                                         *)
(* sysrepo calls them with DONE, and takes no notice of what they return:  *)
(* whatever they fail to do is never tried again.  They work on state that *)
(* outlives them (accounts, files, services) and only look at what the     *)
(* changeset has changed, so that each of them relies on all changesets    *)
(* before having been carried out.  Faults are modelled as failing calls   *)
(* and as restarts of confd, at any step.                                  *)
(***************************************************************************)
EXTENDS Integers, Sequences, FiniteSets

CONSTANTS
  User,        \* names of users: sequences of kinds of characters
  Password,    \* password hashes
  Setup,       \* Setup[u]: what may be configured for u: [password, keys]
  Iface,       \* interfaces
  ClientId,    \* what may be configured for a DHCP client that is enabled
  Host,        \* host names
  Default,     \* the host name of a system that has none configured
  None,        \* no password, no host name
  Absent,      \* no such user, no such DHCP client
  Off,         \* a DHCP client that is configured, but not enabled
  Locked,      \* the password "!", which nobody can give
  MaxCommits,  \* bound on the number of changesets
  MaxFaults    \* bound on the number of faults

ASSUME LateBoundsAssumption ==
  MaxCommits \in Nat /\ MaxFaults \in Nat /\ Default \notin Host

ASSUME LateSetupAssumption ==
  /\ Locked # None
  /\ \A u \in User : \A s \in Setup[u] : s.password \in Password \cup {None}

File == {"shadow", "hostname", "hosts"}

VARIABLES
  running,    \* the running configuration
  was,        \* what it was before the changeset
  at,         \* how far the callbacks have got
  todo,       \* what remains to be done there
  accounts,   \* the accounts of the system: /etc/passwd
  files,      \* the contents of the files that Augeas knows
  tree,       \* what Augeas takes them to be
  dirty,      \* the files it will write when asked to save
  keyfile,    \* keyfile[u]: the keys in the file of user u, {} if none
  hostname,   \* of the kernel
  service,    \* the DHCP clients that are enabled, with their client id
  left,       \* users of whom a change was not carried out
  strayed,    \* interfaces whose DHCP client was not told of a change
  authok,     \* the last change_auth() got to its end
  hostok,     \* the last change_hostname() got to its end
  commits,
  faults

config == <<running, was>>
augeas == <<files, tree, dirty>>
history == <<left, strayed, authok, hostok>>
vars == <<config, at, todo, accounts, augeas, keyfile, hostname, service,
          history, commits, faults>>

-----------------------------------------------------------------------------
(***************************************************************************)
(* Configurations, and what has changed from one to another.               *)
(***************************************************************************)

Users ==
  {f \in [User -> (UNION {Setup[u] : u \in User}) \cup {Absent}] :
     \A u \in User : f[u] \in Setup[u] \cup {Absent}}
Clienteles == [Iface -> ClientId \cup {Absent, Off}]

Config ==
  [user : Users, host : Host \cup {None}, dhcp : BOOLEAN, client : Clienteles]

Configured(c) == {u \in User : c.user[u] # Absent}
PasswordOf(c, u) == IF c.user[u] = Absent THEN None ELSE c.user[u].password

UserDiff(b, c) == {u \in User : (b.user[u] = Absent) # (c.user[u] = Absent)}
PasswordDiff(b, c) == {u \in User : PasswordOf(b, u) # PasswordOf(c, u)}
ClientDiff(b, c) == {i \in Iface : b.client[i] # c.client[i]}

IsValidUsername(u) ==
  /\ u[1] \in {"alpha", "_"}
  /\ \A n \in 2..Len(u) : u[n] \in {"alpha", "digit", "_", "-", "."}

(* The name that is to be set.                                             *)
Name(c) == IF c.host = None THEN Default ELSE c.host

Init ==
  /\ running = [user |-> [u \in User |-> Absent], host |-> None,
                dhcp |-> TRUE, client |-> [i \in Iface |-> Absent]]
  /\ was = running
  /\ at = "idle" /\ todo = {}
  /\ accounts = {}
  /\ files = [shadow |-> [u \in User |-> None], hostname |-> Default,
              hosts |-> Default]
  /\ tree = files /\ dirty = {}
  /\ keyfile = [u \in User |-> {}]
  /\ hostname = Default
  /\ service = [i \in Iface |-> Absent]
  /\ left = {} /\ strayed = {} /\ authok = TRUE /\ hostok = TRUE
  /\ commits = 0 /\ faults = 0

(* A call works, or fails for reasons of its own.                          *)
Call(works) == works \/ faults < MaxFaults
Count(works) == faults' = IF works THEN faults ELSE faults + 1

(* sysrepo goes on to the next callback the changeset concerns.            *)
Return(from) ==
  IF from = "auth" /\ was.host # running.host
  THEN at' = "host" /\ todo' = {} /\ UNCHANGED config
  ELSE at' = "idle" /\ todo' = {} /\ was' = running /\ UNCHANGED running

-----------------------------------------------------------------------------
(***************************************************************************)
(* Changesets.  One that changes both modules is like two: the callbacks   *)
(* have nothing in common.                                                 *)
(***************************************************************************)

(* change_auth_check(), on CHANGE, refuses names that are not valid.       *)
ChangeAuthCheck(b, c) == \A u \in UserDiff(b, c) : IsValidUsername(u)

CommitSystem(c) ==
  /\ at = "idle" /\ commits < MaxCommits
  /\ c # running
  /\ ChangeAuthCheck(running, c)
  /\ running' = c /\ was' = running
  /\ commits' = commits + 1
  /\ IF c.user # running.user
     THEN /\ at' = "users" /\ todo' = UserDiff(running, c)
          /\ authok' = TRUE
     ELSE at' = "host" /\ todo' = {} /\ UNCHANGED authok
  /\ hostok' = (hostok \/ c.host # running.host)
  /\ UNCHANGED <<accounts, augeas, keyfile, hostname, service, left, strayed,
                 faults>>

CommitDhcp(c) ==
  /\ at = "idle" /\ commits < MaxCommits
  /\ c # running
  /\ running' = c /\ was' = running
  /\ commits' = commits + 1
  /\ at' = "clients" /\ todo' = ClientDiff(running, c)
  /\ strayed' = IF c.dhcp = running.dhcp THEN strayed
                ELSE strayed \cup (Iface \ ClientDiff(running, c))
  /\ UNCHANGED <<accounts, augeas, keyfile, hostname, service, left, authok,
                 hostok, faults>>

-----------------------------------------------------------------------------
(***************************************************************************)
(* change_auth_done().                                                     *)
(***************************************************************************)

Gives(u, password) == [files EXCEPT !.shadow[u] = password]

(* adduser, which refuses a name that is there already.  The password is   *)
(* locked.                                                                 *)
AddNewUser(u, works) ==
  LET ok == works /\ u \notin accounts IN
  /\ accounts' = IF ok THEN accounts \cup {u} ELSE accounts
  /\ files' = IF ok THEN Gives(u, Locked) ELSE files
  /\ UNCHANGED keyfile

(* The keys, then deluser.                                                 *)
DelUser(u, works) ==
  LET ok == works /\ u \in accounts IN
  /\ keyfile' = [keyfile EXCEPT ![u] = {}]
  /\ accounts' = accounts \ (IF ok THEN {u} ELSE {})
  /\ files' = IF ok THEN Gives(u, None) ELSE files

(* An error ends change_auth_done() where it stands.                       *)
AbandonAuth ==
  /\ left' = left \cup (IF at = "users" THEN todo ELSE {})
                  \cup PasswordDiff(was, running)
  /\ authok' = FALSE
  /\ Return("auth")

(* A user has been created or deleted: handle_sr_user_update().            *)
HandleUserUpdate(u, works) ==
  /\ at = "users" /\ u \in todo /\ Call(works)
  /\ IF running.user[u] = Absent THEN DelUser(u, works)
     ELSE AddNewUser(u, works)
  /\ IF works /\ (running.user[u] = Absent <=> u \in accounts)
     THEN /\ todo' = todo \ {u} /\ left' = left \ {u}
          /\ UNCHANGED <<config, at, authok>>
     ELSE AbandonAuth
  /\ Count(works)
  /\ UNCHANGED <<tree, dirty, hostname, service, strayed, hostok, commits>>

(* Mutant of AugLoad: the tree is taken to be up to date.                  *)
AugLoadNot(works) ==
  /\ at = "users" /\ todo = {} /\ Call(works)
  /\ IF works
     THEN /\ at' = "passwords" /\ todo' = PasswordDiff(was, running)
          /\ UNCHANGED <<config, left, authok>>
     ELSE AbandonAuth
  /\ Count(works)
  /\ UNCHANGED <<accounts, files, tree, dirty, keyfile, hostname, service,
                 strayed, hostok, commits>>

(* aug_load() forgets what has not been saved.                             *)
AugLoad(works) ==
  /\ at = "users" /\ todo = {} /\ Call(works)
  /\ IF works
     THEN /\ tree' = files /\ dirty' = {}
          /\ at' = "passwords" /\ todo' = PasswordDiff(was, running)
          /\ UNCHANGED <<config, left, authok>>
     ELSE AbandonAuth /\ UNCHANGED <<tree, dirty>>
  /\ Count(works)
  /\ UNCHANGED <<accounts, files, keyfile, hostname, service, strayed, hostok,
                 commits>>

(* aug_set().  A value that is there already is no change.                 *)
SetShadow(u, v) ==
  /\ tree' = [tree EXCEPT !.shadow[u] = v]
  /\ dirty' = IF tree.shadow[u] = v THEN dirty ELSE dirty \cup {"shadow"}

(* Mutant of PasswordSet: a password that is removed is left as it is.     *)
PasswordSetOnly(u) ==
  IF PasswordOf(running, u) = None THEN UNCHANGED <<tree, dirty>>
  ELSE SetShadow(u, PasswordOf(running, u))

(* The new password; "!" for one that is removed.                          *)
PasswordSet(u) ==
  SetShadow(u, IF PasswordOf(running, u) = None THEN Locked
               ELSE PasswordOf(running, u))

(* A password has been changed: handle_sr_passwd_update().                 *)
HandlePasswdUpdate(u, works) ==
  /\ at = "passwords" /\ u \in todo /\ Call(works)
  /\ ~ works => u \in accounts
  /\ IF u \notin accounts \/ ~ works THEN UNCHANGED <<tree, dirty>>
     ELSE PasswordSet(u)
  /\ IF works
     THEN /\ todo' = todo \ {u}
          /\ left' = IF u \in accounts THEN left \ {u} ELSE left
          /\ UNCHANGED <<config, at, authok>>
     ELSE AbandonAuth
  /\ Count(works)
  /\ UNCHANGED <<accounts, files, keyfile, hostname, service, strayed, hostok,
                 commits>>

(* aug_save() is about to write what is dirty.                             *)
PasswordsDone ==
  /\ at = "passwords" /\ todo = {}
  /\ at' = "authsave" /\ todo' = dirty
  /\ UNCHANGED <<config, accounts, augeas, keyfile, hostname, service,
                 history, commits, faults>>

(* A file is written, whatever has become of it since it was read.         *)
Written(f) ==
  /\ files' = [files EXCEPT ![f] = tree[f]]
  /\ dirty' = dirty \ {f}
  /\ UNCHANGED tree

(* change_auth_done() takes an error for one, change_hostname() does not.  *)
AugSave(f, works) ==
  /\ at \in {"authsave", "hostsave"} /\ f \in todo /\ Call(works)
  /\ IF works
     THEN /\ Written(f) /\ todo' = todo \ {f}
          /\ UNCHANGED <<config, at, history>>
     ELSE /\ UNCHANGED augeas
          /\ IF at = "authsave" THEN AbandonAuth /\ UNCHANGED hostok
             ELSE /\ hostok' = FALSE /\ Return("host")
                  /\ UNCHANGED <<left, authok>>
          /\ UNCHANGED strayed
  /\ Count(works)
  /\ UNCHANGED <<accounts, keyfile, hostname, service, commits>>

Saved ==
  /\ at \in {"authsave", "hostsave"} /\ todo = {}
  /\ IF at = "authsave"
     THEN at' = "keys" /\ todo' = Configured(running) /\ UNCHANGED config
     ELSE Return("host")
  /\ UNCHANGED <<accounts, augeas, keyfile, hostname, service, history,
                 commits, faults>>

(* Mutant of GenerateAuthKeys: users without keys are passed over.         *)
GenerateAuthKeysAdds(u, works) ==
  /\ at = "keys" /\ u \in todo /\ Call(works)
  /\ keyfile' = IF works /\ running.user[u].keys # {}
                THEN [keyfile EXCEPT ![u] = running.user[u].keys]
                ELSE keyfile
  /\ todo' = todo \ {u}
  /\ authok' = (authok /\ works)
  /\ Count(works)
  /\ UNCHANGED <<config, at, accounts, augeas, hostname, service, left,
                 strayed, hostok, commits>>

(* The keys of every user, changed or not: generate_auth_keys().           *)
GenerateAuthKeys(u, works) ==
  /\ at = "keys" /\ u \in todo /\ Call(works)
  /\ ~ works => running.user[u].keys # {}
  /\ keyfile' = IF works THEN [keyfile EXCEPT ![u] = running.user[u].keys]
                ELSE keyfile
  /\ todo' = todo \ {u}
  /\ authok' = (authok /\ works)
  /\ Count(works)
  /\ UNCHANGED <<config, at, accounts, augeas, hostname, service, left,
                 strayed, hostok, commits>>

AuthDone ==
  /\ at = "keys" /\ todo = {}
  /\ Return("auth")
  /\ UNCHANGED <<accounts, augeas, keyfile, hostname, service, history,
                 commits, faults>>

-----------------------------------------------------------------------------
(***************************************************************************)
(* change_hostname().                                                      *)
(***************************************************************************)

(* Mutant of Rename: the former name is read when it has been replaced.    *)
RenameLate(nm, n) ==
  LET new == IF n < 2 THEN tree ELSE [tree EXCEPT !.hostname = nm]
  IN /\ hostname' = IF n < 1 THEN hostname ELSE nm
     /\ tree' = new
     /\ dirty' = dirty \cup {f \in File : new[f] # tree[f]}

(* Of its three calls (sethostname(), and aug_set() of the name and of the *)
(* entry in /etc/hosts that has the former name) the first n are made.     *)
Rename(nm, n) ==
  LET renamed == [tree EXCEPT !.hostname = nm]
      entry == tree.hosts = tree.hostname
      new == IF n < 2 THEN tree
             ELSE IF n < 3 \/ ~ entry THEN renamed
             ELSE [renamed EXCEPT !.hosts = nm]
  IN /\ hostname' = IF n < 1 THEN hostname ELSE nm
     /\ tree' = new
     /\ dirty' = dirty \cup {f \in File : new[f] # tree[f]}

ChangeHostname(n) ==
  /\ at = "host" /\ Call(n = 3)
  /\ Rename(Name(running), n)
  /\ IF n = 3
     THEN /\ at' = "hostsave" /\ todo' = dirty'
          /\ UNCHANGED <<config, hostok>>
     ELSE hostok' = FALSE /\ Return("host")
  /\ Count(n = 3)
  /\ UNCHANGED <<accounts, files, keyfile, service, left, strayed, authok,
                 commits>>

-----------------------------------------------------------------------------
(***************************************************************************)
(* client_change().                                                        *)
(***************************************************************************)

(* Mutant of Wanted: the switch for all interfaces is not looked at.       *)
WantedEach(c, i) ==
  IF c.client[i] \in ClientId THEN c.client[i] ELSE Absent

(* The service file of an interface, which is enabled, or is deleted.      *)
Wanted(c, i) ==
  IF c.dhcp /\ c.client[i] \in ClientId THEN c.client[i] ELSE Absent

(* Errors are logged, and the loop goes on.                                *)
ClientChange(i, works) ==
  /\ at = "clients" /\ i \in todo /\ Call(works)
  /\ todo' = todo \ {i}
  /\ service' = IF works THEN [service EXCEPT ![i] = Wanted(running, i)]
                ELSE service
  /\ strayed' = IF works THEN strayed \ {i} ELSE strayed \cup {i}
  /\ Count(works)
  /\ UNCHANGED <<config, at, accounts, augeas, keyfile, hostname, left, authok,
                 hostok, commits>>

ClientsDone ==
  /\ at = "clients" /\ todo = {}
  /\ Return("clients")
  /\ UNCHANGED <<accounts, augeas, keyfile, hostname, service, history,
                 commits, faults>>

-----------------------------------------------------------------------------
(* sysrepo does not hand out the changes, or the data, that a callback     *)
(* asks for at the start of what it has to go through.                     *)
NoData ==
  /\ faults < MaxFaults
  /\ \/ /\ \/ at = "users" /\ todo = UserDiff(was, running)
           \/ at = "passwords" /\ todo = PasswordDiff(was, running)
        /\ AbandonAuth /\ UNCHANGED strayed
     \/ /\ at = "keys" /\ todo = Configured(running)
        /\ authok' = FALSE /\ Return("auth") /\ UNCHANGED <<left, strayed>>
     \/ /\ at = "clients" /\ todo = ClientDiff(was, running)
        /\ strayed' = strayed \cup todo
        /\ Return("clients") /\ UNCHANGED <<left, authok>>
  /\ faults' = faults + 1
  /\ UNCHANGED <<accounts, augeas, keyfile, hostname, service, hostok, commits>>

(* confd is restarted.  The changeset is stored, and nobody will call the  *)
(* callbacks for it again.                                                 *)
Restart ==
  /\ at # "idle" /\ faults < MaxFaults
  /\ at' = "idle" /\ todo' = {} /\ was' = running
  /\ tree' = files /\ dirty' = {}
  /\ left' = IF at \in {"users", "passwords", "authsave"}
             THEN left \cup (IF at = "users" THEN todo ELSE {})
                       \cup PasswordDiff(was, running)
             ELSE left
  /\ authok' = (authok /\ at \in {"host", "hostsave", "clients"})
  /\ hostok' = (hostok /\ was.host = running.host)
  /\ strayed' = IF at = "clients" THEN strayed \cup todo ELSE strayed
  /\ faults' = faults + 1
  /\ UNCHANGED <<running, accounts, files, keyfile, hostname, service,
                 commits>>

Next ==
  \/ \E users \in Users, host \in Host \cup {None} :
       CommitSystem([running EXCEPT !.user = users, !.host = host])
  \/ \E enabled \in BOOLEAN, clients \in Clienteles :
       CommitDhcp([running EXCEPT !.dhcp = enabled, !.client = clients])
  \/ \E u \in User, works \in BOOLEAN :
       \/ HandleUserUpdate(u, works)
       \/ HandlePasswdUpdate(u, works)
       \/ GenerateAuthKeys(u, works)
  \/ \E works \in BOOLEAN :
       \/ AugLoad(works)
       \/ \E f \in File : AugSave(f, works)
       \/ \E i \in Iface : ClientChange(i, works)
  \/ PasswordsDone \/ Saved \/ AuthDone
  \/ \E n \in 0..3 : ChangeHostname(n)
  \/ ClientsDone \/ NoData
  \/ Restart

Spec == Init /\ [][Next]_vars

-----------------------------------------------------------------------------
(***************************************************************************)
(* Properties.                                                             *)
(***************************************************************************)

Shadow == [User -> Password \cup {None, Locked}]
Names == Host \cup {Default}
KeySets == {{}} \cup {s.keys : s \in UNION {Setup[u] : u \in User}}

(* The variables have their types.  In particular Augeas and the files     *)
(* have a host name and, for every user, a password, "!" or nothing, and a *)
(* file of keys has what was configured for someone, or is not there.      *)
TypeOK ==
  /\ running \in Config /\ was \in Config
  /\ at \in {"idle", "users", "passwords", "authsave", "keys", "host",
             "hostsave", "clients"}
  /\ todo \subseteq User \cup File \cup Iface
  /\ accounts \subseteq User
  /\ files \in [shadow : Shadow, hostname : Names, hosts : Names]
  /\ tree \in [shadow : Shadow, hostname : Names, hosts : Names]
  /\ dirty \subseteq File
  /\ keyfile \in [User -> KeySets]
  /\ hostname \in Names
  /\ service \in [Iface -> ClientId \cup {Absent}]
  /\ left \subseteq User /\ strayed \subseteq Iface
  /\ authok \in BOOLEAN /\ hostok \in BOOLEAN
  /\ commits \in 0..MaxCommits /\ faults \in 0..MaxFaults

(* What the shadow file should have for a user.                            *)
Due(u) ==
  IF running.user[u] = Absent THEN None
  ELSE IF running.user[u].password = None THEN Locked
  ELSE running.user[u].password

(* When no changeset is being carried out, the accounts are those of the   *)
(* configuration, with its passwords, but for the users of whom a change   *)
(* was cut short.  An error on one user does not reach users that are not  *)
(* in the same changeset (change_auth_done() stops at the first error).    *)
(* No account has a name that begins with a digit or a hyphen.             *)
Accounts ==
  at = "idle" /\ faults <= 1 =>
    \A u \in User \ left :
      /\ u \in accounts => u[1] \notin {"digit", "-"}
      /\ u \in accounts <=> u \in Configured(running)
      /\ files.shadow[u] = Due(u)

(* One fault never leaves a password for an account that is gone, or takes *)
(* the one of an account that is there: change_hostname() may save what    *)
(* change_auth() has left in the tree, and still it never brings a deleted *)
(* user back (aug_load() comes before any change to the tree).             *)
NoGhost ==
  faults <= 1 => \A u \in User : files.shadow[u] # None <=> u \in accounts

(* Each change_auth() that gets to its end makes good what earlier ones    *)
(* left undone about keys: every configured user has the keys that are     *)
(* configured (generate_auth_keys() goes through all of them), and the     *)
(* others have none, unless their removal was cut short.                   *)
Keys ==
  at = "idle" /\ authok =>
    /\ \A u \in Configured(running) : keyfile[u] = running.user[u].keys
    /\ \A u \in User \ (Configured(running) \cup left) : keyfile[u] = {}

(* After a change_hostname() that got to its end the kernel and            *)
(* /etc/hostname have the configured name, whatever failed before; and     *)
(* /etc/hosts has it too as long as nothing has ever failed.               *)
Named ==
  at = "idle" /\ hostok =>
    /\ hostname = Name(running) /\ files.hostname = Name(running)
    /\ faults = 0 => files.hosts = Name(running)

(* An interface has a DHCP client with the configured id if and only if    *)
(* both switches are on, but for the interfaces that client_change() was   *)
(* not shown since the switch for all of them was changed, or for which it *)
(* failed.                                                                 *)
Clients ==
  at = "idle" =>
    \A i \in Iface \ strayed :
      service[i] = IF running.dhcp /\ running.client[i] \in ClientId
                   THEN running.client[i] ELSE Absent
=============================================================================

-------------------------- MODULE LateChangesProofs --------------------------
(***************************************************************************)
(* Proofs about LateChanges, for any users, interfaces and configurations, *)
(* and any number of changesets and faults: the types, DHCP clients and    *)
(* the host name, then change_auth(): keys, accounts and passwords.        *)
(***************************************************************************)
EXTENDS LateChanges, TLAPS

(* What is left to be done at each point, and what is known there.         *)
Phase ==
  /\ at = "idle" => todo = {} /\ was = running
  /\ at = "users" => todo \subseteq UserDiff(was, running)
  /\ at = "passwords" => todo \subseteq PasswordDiff(was, running)
  /\ at \in {"authsave", "hostsave"} => todo = dirty
  /\ at = "keys" => todo \subseteq Configured(running)
  /\ at = "clients" => todo \subseteq Iface /\ was.host = running.host
  /\ at \in {"host", "hostsave"} => was.host # running.host

IInv ==
  /\ TypeOK
  /\ Phase

-----------------------------------------------------------------------------
(* The differences between two configurations are sets of users and        *)
(* interfaces.                                                             *)
LEMMA DiffTypes ==
  ASSUME NEW b, NEW c
  PROVE  /\ UserDiff(b, c) \subseteq User
         /\ PasswordDiff(b, c) \subseteq User
         /\ ClientDiff(b, c) \subseteq Iface
         /\ Configured(c) \subseteq User
  BY Zenon DEF UserDiff, PasswordDiff, ClientDiff, Configured

(* The passwords of a configuration.                                       *)
LEMMA PasswordType ==
  ASSUME NEW c \in Config, NEW u \in User
  PROVE  /\ PasswordOf(c, u) \in Password \cup {None}
         /\ c.user[u] # Absent => c.user[u] \in Setup[u]
<1>1. c.user[u] \in Setup[u] \cup {Absent}
  BY Zenon DEF Config, Users
<1> QED
  BY <1>1, LateSetupAssumption, Zenon DEF PasswordOf

(* Back to sysrepo.                                                        *)
LEMMA ReturnStep ==
  ASSUME TypeOK, NEW from, Return(from)
  PROVE  /\ running' = running /\ was' \in Config
         /\ at' \in {"host", "idle"} /\ todo' = {}
         /\ at' = "host" => was' = was /\ was.host # running.host
         /\ at' = "idle" => was' = running
         /\ from # "auth" => at' = "idle"
         /\ at' = "idle" /\ from = "auth" => was.host = running.host
  BY Zenon DEF TypeOK, Return, config

(* The number of faults is one.                                            *)
LEMMA FaultsType ==
  ASSUME TypeOK
  PROVE  faults \in 0..MaxFaults /\ faults + 1 # 0
<1>1. faults \in 0..MaxFaults
  BY Zenon DEF TypeOK
<1> QED
  BY <1>1, LateBoundsAssumption

(* The count of faults stays within its bound.                             *)
LEMMA CountStep ==
  ASSUME TypeOK, NEW works \in BOOLEAN, Call(works), Count(works)
  PROVE  /\ faults' \in 0..MaxFaults
         /\ faults' = IF works THEN faults ELSE faults + 1
  BY FaultsType, LateBoundsAssumption DEF Call, Count

(* Every step keeps the types.                                             *)
LEMMA TypeStep == IInv /\ [Next]_vars => TypeOK'
<1> SUFFICES ASSUME IInv, [Next]_vars PROVE TypeOK'
  OBVIOUS
<1> USE LateBoundsAssumption
<1>1. ASSUME NEW users \in Users, NEW host \in Host \cup {None},
             CommitSystem([running EXCEPT !.user = users, !.host = host])
      PROVE  TypeOK'
  <2> DEFINE c == [running EXCEPT !.user = users, !.host = host]
  <2>1. c \in Config
    BY Zenon DEF IInv, TypeOK, Config
  <2> HIDE DEF c
  <2>2. /\ running' = c /\ was' = running
        /\ at' \in {"users", "host"} /\ todo' \in {{}, UserDiff(running, c)}
        /\ commits' \in 0 .. MaxCommits
    BY <1>1 DEF CommitSystem, c, IInv, TypeOK
  <2>3. authok' \in BOOLEAN /\ hostok' \in BOOLEAN
    BY <1>1, Zenon DEF CommitSystem, IInv, TypeOK
  <2>4. UNCHANGED <<accounts, augeas, keyfile, hostname, service, left, strayed,
                    faults>>
    BY <1>1, Zenon DEF CommitSystem
  <2> QED
    BY <2>1, <2>2, <2>3, <2>4, DiffTypes, Zenon DEF IInv, TypeOK, augeas
<1>2. ASSUME NEW enabled \in BOOLEAN, NEW clients \in Clienteles,
             CommitDhcp([running EXCEPT !.dhcp = enabled, !.client = clients])
      PROVE  TypeOK'
  <2> DEFINE c == [running EXCEPT !.dhcp = enabled, !.client = clients]
  <2>1. c \in Config
    BY Zenon DEF IInv, TypeOK, Config
  <2> HIDE DEF c
  <2>2. /\ running' = c /\ was' = running
        /\ at' = "clients" /\ todo' = ClientDiff(running, c)
        /\ commits' \in 0 .. MaxCommits
        /\ strayed' \subseteq Iface
    BY <1>2 DEF CommitDhcp, c, IInv, TypeOK
  <2>3. UNCHANGED <<accounts, augeas, keyfile, hostname, service, left, authok,
                    hostok, faults>>
    BY <1>2, Zenon DEF CommitDhcp
  <2> QED
    BY <2>1, <2>2, <2>3, DiffTypes, Zenon DEF IInv, TypeOK, augeas
<1>3. ASSUME NEW u \in User, NEW works \in BOOLEAN, HandleUserUpdate(u, works)
      PROVE  TypeOK'
  <2>1. faults' \in 0..MaxFaults
    BY <1>3, CountStep, Zenon DEF HandleUserUpdate, IInv
  <2>2. /\ accounts' \subseteq User
        /\ files' \in [shadow : Shadow, hostname : Names, hosts : Names]
        /\ keyfile' \in [User -> KeySets]
    BY <1>3
       DEF HandleUserUpdate, AddNewUser, DelUser, Gives, IInv, TypeOK,
       Shadow,
       KeySets
  <2>3. /\ running' = running /\ was' \in Config
        /\ at' \in {at, "host", "idle"} /\ todo' \subseteq todo
        /\ left' \subseteq User
    BY <1>3, ReturnStep, DiffTypes, Zenon
       DEF HandleUserUpdate, AbandonAuth, config, IInv,
       TypeOK, Phase
  <2>4. authok' \in BOOLEAN
    BY <1>3, Zenon DEF HandleUserUpdate, AbandonAuth, IInv, TypeOK
  <2>5. UNCHANGED <<tree, dirty, hostname, service, strayed, hostok, commits>>
    BY <1>3, Zenon DEF HandleUserUpdate
  <2> QED
    BY <2>1, <2>2, <2>3, <2>4, <2>5, Zenon DEF IInv, TypeOK
<1>4. ASSUME NEW u \in User, NEW works \in BOOLEAN, HandlePasswdUpdate(u, works)
      PROVE  TypeOK'
  <2>1. faults' \in 0..MaxFaults
    BY <1>4, CountStep, Zenon DEF HandlePasswdUpdate, IInv
  <2>2. /\ tree' \in [shadow : Shadow, hostname : Names, hosts : Names]
        /\ dirty' \subseteq File
    BY <1>4, PasswordType
       DEF HandlePasswdUpdate, PasswordSet, SetShadow, IInv,
       TypeOK, Shadow, File
  <2>3. /\ running' = running /\ was' \in Config
        /\ at' \in {at, "host", "idle"} /\ todo' \subseteq todo
        /\ left' \subseteq User
    BY <1>4, ReturnStep, DiffTypes, Zenon
       DEF HandlePasswdUpdate, AbandonAuth, config,
       IInv, TypeOK, Phase
  <2>4. authok' \in BOOLEAN
    BY <1>4, Zenon DEF HandlePasswdUpdate, AbandonAuth, IInv, TypeOK
  <2>5. UNCHANGED <<accounts, files, keyfile, hostname, service, strayed, hostok,
                    commits>>
    BY <1>4, Zenon DEF HandlePasswdUpdate
  <2> QED
    BY <2>1, <2>2, <2>3, <2>4, <2>5, Zenon DEF IInv, TypeOK
<1>5. ASSUME NEW u \in User, NEW works \in BOOLEAN, GenerateAuthKeys(u, works)
      PROVE  TypeOK'
  <2>1. faults' \in 0..MaxFaults
    BY <1>5, CountStep, Zenon DEF GenerateAuthKeys, IInv
  <2>2. running.user[u] \in Setup[u]
    BY <1>5, PasswordType, Zenon
       DEF GenerateAuthKeys, IInv, TypeOK, Phase, Configured
  <2>3. running.user[u].keys \in KeySets
    BY <2>2, Zenon DEF KeySets
  <2>4. keyfile' \in [User -> KeySets] /\ todo' \subseteq todo
    BY <1>5, <2>3, Zenon DEF GenerateAuthKeys, IInv, TypeOK
  <2>5. authok' \in BOOLEAN
    BY <1>5, Zenon DEF GenerateAuthKeys, IInv, TypeOK
  <2>6. UNCHANGED <<config, at, accounts, augeas, hostname, service, left, strayed,
                    hostok, commits>>
    BY <1>5, Zenon DEF GenerateAuthKeys
  <2> QED
    BY <2>1, <2>4, <2>5, <2>6, Zenon DEF IInv, TypeOK, config, augeas
<1>6. ASSUME NEW works \in BOOLEAN, AugLoad(works)
      PROVE  TypeOK'
  <2>1. faults' \in 0..MaxFaults
    BY <1>6, CountStep, Zenon DEF AugLoad, IInv
  <2>2. /\ tree' \in {tree, files} /\ dirty' \subseteq dirty
        /\ running' = running /\ was' \in Config
        /\ at' \in {"passwords", "host", "idle"}
        /\ todo' \in {{}, PasswordDiff(was, running)}
        /\ left' \subseteq User
    BY <1>6, ReturnStep, DiffTypes, Zenon
       DEF AugLoad, AbandonAuth, config, IInv, TypeOK
  <2>3. authok' \in BOOLEAN
    BY <1>6, Zenon DEF AugLoad, AbandonAuth, IInv, TypeOK
  <2>4. UNCHANGED <<accounts, files, keyfile, hostname, service, strayed, hostok,
                    commits>>
    BY <1>6, Zenon DEF AugLoad
  <2> QED
    BY <2>1, <2>2, <2>3, <2>4, DiffTypes, Zenon DEF IInv, TypeOK
<1>7. ASSUME NEW works \in BOOLEAN, NEW f \in File, AugSave(f, works)
      PROVE  TypeOK'
  <2>1. faults' \in 0..MaxFaults
    BY <1>7, CountStep, Zenon DEF AugSave, IInv
  <2>2. /\ files' \in [shadow : Shadow, hostname : Names, hosts : Names]
        /\ tree' = tree /\ dirty' \subseteq dirty
    BY <1>7, Zenon DEF AugSave, Written, augeas, IInv, TypeOK, File
  <2>3. /\ running' = running /\ was' \in Config
        /\ at' \in {at, "host", "idle"} /\ todo' \subseteq todo
        /\ left' \subseteq User
    BY <1>7, ReturnStep, DiffTypes, Zenon
       DEF AugSave, AbandonAuth, config, history, IInv,
       TypeOK
  <2>4. authok' \in BOOLEAN /\ hostok' \in BOOLEAN
    BY <1>7, Zenon DEF AugSave, AbandonAuth, history, IInv, TypeOK
  <2>5. UNCHANGED <<accounts, keyfile, hostname, service, strayed, commits>>
    BY <1>7, Zenon DEF AugSave, history
  <2> QED
    BY <2>1, <2>2, <2>3, <2>4, <2>5, Zenon DEF IInv, TypeOK
<1>8. ASSUME NEW works \in BOOLEAN, NEW i \in Iface, ClientChange(i, works)
      PROVE  TypeOK'
  <2>1. faults' \in 0..MaxFaults
    BY <1>8, CountStep, Zenon DEF ClientChange, IInv
  <2>2. Wanted(running, i) \in ClientId \cup {Absent}
    BY Zenon DEF Wanted
  <2>3. /\ todo' \subseteq todo /\ strayed' \subseteq Iface
        /\ service' \in [Iface -> ClientId \cup {Absent}]
    BY <1>8, <2>2, Zenon DEF ClientChange, IInv, TypeOK
  <2>4. UNCHANGED <<config, at, accounts, augeas, keyfile, hostname, left, authok,
                    hostok, commits>>
    BY <1>8, Zenon DEF ClientChange
  <2> QED
    BY <2>1, <2>3, <2>4, Zenon DEF IInv, TypeOK, config, augeas
<1>9. CASE PasswordsDone
  BY <1>9, Zenon DEF PasswordsDone, config, augeas, history, IInv, TypeOK
<1>10. CASE Saved
  BY <1>10, ReturnStep, DiffTypes
     DEF Saved, config, augeas, history, IInv, TypeOK
<1>11. CASE AuthDone
  BY <1>11, ReturnStep, Zenon DEF AuthDone, augeas, history, IInv, TypeOK
<1>12. ASSUME NEW n \in 0..3, ChangeHostname(n)
       PROVE  TypeOK'
  <2>1. faults' \in 0..MaxFaults
    BY <1>12, CountStep, Zenon DEF ChangeHostname, IInv
  <2>2. Name(running) \in Names
    BY Zenon DEF Name, Names, IInv, TypeOK, Config
  <2>3. /\ tree' \in [shadow : Shadow, hostname : Names, hosts : Names]
        /\ dirty' \subseteq File /\ hostname' \in Names
    BY <1>12, <2>2, Zenon DEF ChangeHostname, Rename, IInv, TypeOK
  <2>4. /\ running' = running /\ was' \in Config
        /\ at' \in {"hostsave", "idle"} /\ todo' \in {{}, dirty'}
    BY <1>12, ReturnStep, Zenon DEF ChangeHostname, config, IInv, TypeOK
  <2>5. hostok' \in BOOLEAN
    BY <1>12, Zenon DEF ChangeHostname, IInv, TypeOK
  <2>6. UNCHANGED <<accounts, files, keyfile, service, left, strayed, authok, commits>>
    BY <1>12, Zenon DEF ChangeHostname
  <2> QED
    BY <2>1, <2>3, <2>4, <2>5, <2>6, Zenon DEF IInv, TypeOK
<1>13. CASE ClientsDone
  BY <1>13, ReturnStep, Zenon DEF ClientsDone, augeas, history, IInv, TypeOK
<1>14. CASE NoData
  <2>1. faults' \in 0..MaxFaults
    BY <1>14 DEF NoData, IInv, TypeOK
  <2>2. /\ running' = running /\ was' \in Config
        /\ at' \in {"host", "idle"} /\ todo' = {}
        /\ left' \subseteq User /\ strayed' \subseteq Iface
    BY <1>14, ReturnStep, DiffTypes, Zenon
       DEF NoData, AbandonAuth, IInv, TypeOK, Phase
  <2>3. authok' \in BOOLEAN
    BY <1>14, Zenon DEF NoData, AbandonAuth, IInv, TypeOK
  <2>4. UNCHANGED <<accounts, augeas, keyfile, hostname, service, hostok, commits>>
    BY <1>14, Zenon DEF NoData
  <2> QED
    BY <2>1, <2>2, <2>3, <2>4, Zenon DEF IInv, TypeOK, augeas
<1>15. CASE Restart
  <2>1. faults' \in 0..MaxFaults
    BY <1>15 DEF Restart, IInv, TypeOK
  <2>2. /\ running' = running /\ was' \in Config /\ at' = "idle" /\ todo' = {}
        /\ tree' = files /\ dirty' = {}
        /\ left' \subseteq User /\ strayed' \subseteq Iface
    BY <1>15, DiffTypes, Zenon DEF Restart, IInv, TypeOK, Phase
  <2>3. authok' \in BOOLEAN /\ hostok' \in BOOLEAN
    BY <1>15, Zenon DEF Restart, IInv, TypeOK
  <2>4. UNCHANGED <<accounts, files, keyfile, hostname, service, commits>>
    BY <1>15, Zenon DEF Restart
  <2> QED
    BY <2>1, <2>2, <2>3, <2>4, Zenon DEF IInv, TypeOK
<1>16. CASE UNCHANGED vars
  BY <1>16, Zenon DEF vars, config, augeas, history, IInv, TypeOK
<1> QED
  BY <1>1, <1>2, <1>3, <1>4, <1>5, <1>6, <1>7, <1>8, <1>9, <1>10, <1>11,
     <1>12,
     <1>13, <1>14, <1>15, <1>16, Zenon DEF Next

(* Every step keeps to the order of the callbacks.                         *)
LEMMA PhaseStep == IInv /\ [Next]_vars => Phase'
<1> SUFFICES ASSUME IInv, [Next]_vars PROVE Phase'
  OBVIOUS
<1>1. ASSUME NEW users \in Users, NEW host \in Host \cup {None},
             CommitSystem([running EXCEPT !.user = users, !.host = host])
      PROVE  Phase'
  <2> DEFINE c == [running EXCEPT !.user = users, !.host = host]
  <2>1. /\ c.user = users /\ c.host = host
        /\ c.dhcp = running.dhcp /\ c.client = running.client
    BY Zenon DEF IInv, TypeOK, Config
  <2>2. c.user = running.user => c.host # running.host
    BY <1>1, <2>1, Zenon DEF CommitSystem, IInv, TypeOK, Config
  <2> HIDE DEF c
  <2> QED
    BY <1>1, <2>2, Zenon DEF CommitSystem, c, Phase
<1>2. ASSUME NEW enabled \in BOOLEAN, NEW clients \in Clienteles,
             CommitDhcp([running EXCEPT !.dhcp = enabled, !.client = clients])
      PROVE  Phase'
  <2> DEFINE c == [running EXCEPT !.dhcp = enabled, !.client = clients]
  <2>1. c.host = running.host
    BY Zenon DEF IInv, TypeOK, Config
  <2> HIDE DEF c
  <2> QED
    BY <1>2, <2>1, DiffTypes, Zenon DEF CommitDhcp, c, Phase
<1>3. ASSUME NEW u \in User, NEW works \in BOOLEAN, HandleUserUpdate(u, works)
      PROVE  Phase'
  BY <1>3, ReturnStep, DiffTypes, Zenon
     DEF HandleUserUpdate, AbandonAuth, config, IInv,
     TypeOK, Phase
<1>4. ASSUME NEW u \in User, NEW works \in BOOLEAN, HandlePasswdUpdate(u, works)
      PROVE  Phase'
  BY <1>4, ReturnStep, DiffTypes, Zenon
     DEF HandlePasswdUpdate, AbandonAuth, config, IInv,
     TypeOK, Phase
<1>5. ASSUME NEW u \in User, NEW works \in BOOLEAN, GenerateAuthKeys(u, works)
      PROVE  Phase'
  BY <1>5, DiffTypes, Zenon
     DEF GenerateAuthKeys, config, augeas, IInv, TypeOK, Phase
<1>6. ASSUME NEW works \in BOOLEAN, AugLoad(works)
      PROVE  Phase'
  BY <1>6, ReturnStep, DiffTypes, Zenon
     DEF AugLoad, AbandonAuth, config, IInv, TypeOK,
     Phase
<1>7. ASSUME NEW works \in BOOLEAN, NEW f \in File, AugSave(f, works)
      PROVE  Phase'
  BY <1>7, ReturnStep, DiffTypes, Zenon
     DEF AugSave, AbandonAuth, Written, config, augeas,
     history, IInv, TypeOK, Phase
<1>8. ASSUME NEW works \in BOOLEAN, NEW i \in Iface, ClientChange(i, works)
      PROVE  Phase'
  BY <1>8, DiffTypes, Zenon
     DEF ClientChange, config, augeas, IInv, TypeOK, Phase
<1>9. CASE PasswordsDone
  BY <1>9, DiffTypes, Zenon
     DEF PasswordsDone, config, augeas, history, IInv, TypeOK, Phase
<1>10. CASE Saved
  BY <1>10, ReturnStep, DiffTypes, Zenon
     DEF Saved, config, augeas, history, IInv, TypeOK,
     Phase
<1>11. CASE AuthDone
  BY <1>11, ReturnStep, DiffTypes, Zenon
     DEF AuthDone, augeas, history, IInv, TypeOK, Phase
<1>12. ASSUME NEW n \in 0..3, ChangeHostname(n)
       PROVE  Phase'
  BY <1>12, ReturnStep, DiffTypes, Zenon
     DEF ChangeHostname, config, IInv, TypeOK, Phase
<1>13. CASE ClientsDone
  BY <1>13, ReturnStep, DiffTypes, Zenon
     DEF ClientsDone, augeas, history, IInv, TypeOK,
     Phase
<1>14. CASE NoData
  BY <1>14, ReturnStep, DiffTypes, Zenon
     DEF NoData, AbandonAuth, augeas, IInv, TypeOK,
     Phase
<1>15. CASE Restart
  BY <1>15, DiffTypes, Zenon DEF Restart, IInv, TypeOK, Phase
<1>16. CASE UNCHANGED vars
  BY <1>16, ReturnStep, DiffTypes, Zenon
     DEF vars, config, augeas, history, AbandonAuth,
     config, augeas, history, IInv, TypeOK, Phase
<1> QED
  BY <1>1, <1>2, <1>3, <1>4, <1>5, <1>6, <1>7, <1>8, <1>9, <1>10, <1>11,
     <1>12,
     <1>13, <1>14, <1>15, <1>16, Zenon DEF Next

(* At first there are no users, and every name is the default.             *)
LEMMA InitFacts ==
  ASSUME Init
  PROVE  /\ IInv
         /\ \A u \in User : running.user[u] = Absent
         /\ running.host = None /\ running.client = [i \in Iface |-> Absent]
         /\ Configured(running) = {}
         /\ tree = files /\ files.hostname = Default /\ files.hosts = Default
         /\ \A u \in User : files.shadow[u] = None
<1>1. /\ \A u \in User : running.user[u] = Absent
      /\ running.host = None /\ running.client = [i \in Iface |-> Absent]
      /\ Configured(running) = {}
  BY Zenon DEF Init, Configured
<1>2. running \in Config
  <2>1. [u \in User |-> Absent] \in Users
    <3> DEFINE f == [u \in User |-> Absent]
               S == UNION {Setup[u] : u \in User}
    <3>1. f \in [User -> S \cup {Absent}]
      <4> HIDE DEF S
      <4> QED
        OBVIOUS
    <3>2. \A u \in User : f[u] \in Setup[u] \cup {Absent}
      OBVIOUS
    <3> QED
      BY <3>1, <3>2, Zenon DEF Users
  <2>2. [i \in Iface |-> Absent] \in Clienteles
    BY Zenon DEF Clienteles
  <2> QED
    BY <2>1, <2>2, Zenon DEF Init, Config
<1>3. /\ files \in [shadow : Shadow, hostname : Names, hosts : Names]
      /\ tree = files /\ files.hostname = Default /\ files.hosts = Default
      /\ \A u \in User : files.shadow[u] = None
  BY Zenon DEF Init, Shadow, Names
<1>4. TypeOK
  BY <1>2, <1>3, LateBoundsAssumption DEF Init, TypeOK, Names, KeySets
<1>5. Phase
  BY Zenon DEF Init, Phase
<1> QED
  BY <1>1, <1>3, <1>4, <1>5, Zenon DEF IInv

(* TypeOK, and the order of the callbacks.                                 *)
THEOREM LateTypeCorrect == Spec => []IInv
<1>1. IInv /\ [Next]_vars => IInv'
  BY TypeStep, PhaseStep, Zenon DEF IInv
<1> QED
  BY <1>1, InitFacts, PTL DEF Spec

-----------------------------------------------------------------------------
(* An interface that has not strayed, and is not about to be dealt with,   *)
(* has the service that is wanted.                                         *)
ClientsInv ==
  \A i \in Iface \ strayed :
    (at = "clients" /\ i \in todo) \/ service[i] = Wanted(running, i)

(* Only client_change() touches the services, and the interfaces it passes *)
(* over have what they had before, and what they should have.              *)
LEMMA ClientsStep == IInv /\ ClientsInv /\ [Next]_vars => ClientsInv'
<1> SUFFICES ASSUME IInv /\ ClientsInv, [Next]_vars PROVE ClientsInv'
  OBVIOUS
<1>1. ASSUME NEW users \in Users, NEW host \in Host \cup {None},
             CommitSystem([running EXCEPT !.user = users, !.host = host])
      PROVE  ClientsInv'
  <2> DEFINE c == [running EXCEPT !.user = users, !.host = host]
  <2>1. \A i \in Iface : Wanted(c, i) = Wanted(running, i)
    BY Zenon DEF IInv, TypeOK, Config, Wanted
  <2> HIDE DEF c
  <2> QED
    BY <1>1, <2>1, Zenon DEF CommitSystem, c, ClientsInv
<1>2. ASSUME NEW enabled \in BOOLEAN, NEW clients \in Clienteles,
             CommitDhcp([running EXCEPT !.dhcp = enabled, !.client = clients])
      PROVE  ClientsInv'
  <2> DEFINE c == [running EXCEPT !.dhcp = enabled, !.client = clients]
  <2>1. ASSUME NEW i \in Iface \ ClientDiff(running, c), c.dhcp = running.dhcp
        PROVE  Wanted(c, i) = Wanted(running, i)
    BY <2>1, Zenon DEF ClientDiff, Wanted
  <2> HIDE DEF c
  <2> QED
    BY <1>2, <2>1, Zenon DEF CommitDhcp, c, ClientsInv
<1>3. ASSUME NEW u \in User, NEW works \in BOOLEAN, HandleUserUpdate(u, works)
      PROVE  ClientsInv'
  BY <1>3, ReturnStep, Zenon
     DEF HandleUserUpdate, AbandonAuth, config, IInv, Phase,
     ClientsInv
<1>4. ASSUME NEW u \in User, NEW works \in BOOLEAN, HandlePasswdUpdate(u, works)
      PROVE  ClientsInv'
  BY <1>4, ReturnStep, Zenon
     DEF HandlePasswdUpdate, AbandonAuth, config, IInv, Phase,
     ClientsInv
<1>5. ASSUME NEW u \in User, NEW works \in BOOLEAN, GenerateAuthKeys(u, works)
      PROVE  ClientsInv'
  BY <1>5, Zenon
     DEF GenerateAuthKeys, config, augeas, IInv, Phase, ClientsInv
<1>6. ASSUME NEW works \in BOOLEAN, AugLoad(works)
      PROVE  ClientsInv'
  BY <1>6, ReturnStep, Zenon
     DEF AugLoad, AbandonAuth, config, IInv, Phase, ClientsInv
<1>7. ASSUME NEW works \in BOOLEAN, NEW f \in File, AugSave(f, works)
      PROVE  ClientsInv'
  BY <1>7, ReturnStep, Zenon
     DEF AugSave, AbandonAuth, config, augeas, history, IInv,
     Phase, ClientsInv
<1>8. ASSUME NEW works \in BOOLEAN, NEW i \in Iface, ClientChange(i, works)
      PROVE  ClientsInv'
  BY <1>8, Zenon DEF ClientChange, config, IInv, TypeOK, ClientsInv
<1>9. CASE PasswordsDone
  BY <1>9, Zenon
     DEF PasswordsDone, config, augeas, history, IInv, Phase, ClientsInv
<1>10. CASE Saved
  BY <1>10, ReturnStep, Zenon
     DEF Saved, config, augeas, history, IInv, Phase, ClientsInv
<1>11. CASE AuthDone
  BY <1>11, ReturnStep, Zenon
     DEF AuthDone, augeas, history, IInv, Phase, ClientsInv
<1>12. ASSUME NEW n \in 0..3, ChangeHostname(n)
       PROVE  ClientsInv'
  BY <1>12, ReturnStep, Zenon
     DEF ChangeHostname, config, IInv, Phase, ClientsInv
<1>13. CASE ClientsDone
  BY <1>13, ReturnStep, Zenon
     DEF ClientsDone, augeas, history, IInv, Phase, ClientsInv
<1>14. CASE NoData
  BY <1>14, ReturnStep, Zenon
     DEF NoData, AbandonAuth, augeas, IInv, Phase, ClientsInv
<1>15. CASE Restart
  BY <1>15, Zenon DEF Restart, IInv, Phase, ClientsInv
<1>16. CASE UNCHANGED vars
  BY <1>16, Zenon DEF vars, config, history, ClientsInv
<1> QED
  BY <1>1, <1>2, <1>3, <1>4, <1>5, <1>6, <1>7, <1>8, <1>9, <1>10, <1>11,
     <1>12,
     <1>13, <1>14, <1>15, <1>16, Zenon DEF Next

(* The services at first.                                                  *)
LEMMA ClientsInit == Init => ClientsInv
<1> SUFFICES ASSUME Init PROVE ClientsInv
  OBVIOUS
<1>1. \A i \in Iface : service[i] = Absent /\ Wanted(running, i) = Absent
  BY InitFacts, Zenon DEF Init, Wanted
<1> QED
  BY <1>1, Zenon DEF ClientsInv

(* Clients holds in every reachable state: an interface of which           *)
(* client_change() was shown every change, and for which it never failed,  *)
(* has the DHCP client of the configuration.                               *)
THEOREM ClientsCorrect == Spec => []Clients
<1>1. ClientsInv /\ IInv => Clients
  BY Zenon DEF ClientsInv, Clients, Wanted
<1> QED
  BY <1>1, ClientsInit, LateTypeCorrect, ClientsStep, PTL DEF Spec

-----------------------------------------------------------------------------
(***************************************************************************)
(* The host name: change_hostname().                                       *)
(***************************************************************************)

(* The host name.  Augeas writes whatever differs from the file.  When it  *)
(* is about to save, the kernel has the new name and so does the tree.     *)
(* After a change_hostname() that went well, and as long as no other is    *)
(* due, all three have the name.  And while nothing has failed, the entry  *)
(* of /etc/hosts is the former name, so that it is found and replaced.     *)
NamedInv ==
  /\ "hostname" \notin dirty => tree.hostname = files.hostname
  /\ "hosts" \notin dirty => tree.hosts = files.hosts
  /\ at = "hostsave" => tree.hostname = Name(running) /\ hostname = Name(running)
  /\ hostok /\ was.host = running.host =>
       /\ hostname = Name(running)
       /\ tree.hostname = Name(running)
       /\ files.hostname = Name(running)
  /\ faults = 0 =>
       /\ tree.hosts = tree.hostname
       /\ at # "hostsave" => {"hostname", "hosts"} \cap dirty = {}

(* The steps that have nothing to do with names.                           *)
Nameless ==
  /\ UNCHANGED <<running, files, tree, dirty, hostname, hostok>>
  /\ at # "hostsave" /\ at' # "hostsave"
  /\ was'.host = running.host => was.host = running.host
  /\ faults' = 0 => faults = 0

(* They are those of the other callbacks that do not use Augeas.           *)
LEMMA NamelessStep ==
  ASSUME IInv
  PROVE  /\ \A u \in User, works \in BOOLEAN : GenerateAuthKeys(u, works) => Nameless
         /\ \A i \in Iface, works \in BOOLEAN : ClientChange(i, works) => Nameless
         /\ AuthDone => Nameless
         /\ ClientsDone => Nameless
         /\ PasswordsDone => Nameless
         /\ NoData => Nameless
<1>1. ASSUME NEW u \in User, NEW works \in BOOLEAN, GenerateAuthKeys(u, works)
      PROVE  Nameless
  BY <1>1, CountStep, FaultsType, Zenon
     DEF GenerateAuthKeys, config, augeas, IInv,
     Nameless
<1>2. ASSUME NEW i \in Iface, NEW works \in BOOLEAN, ClientChange(i, works)
      PROVE  Nameless
  BY <1>2, CountStep, FaultsType, Zenon
     DEF ClientChange, config, augeas, IInv, Nameless
<1>3. ASSUME AuthDone PROVE Nameless
  BY <1>3, ReturnStep, Zenon DEF AuthDone, augeas, history, IInv, Nameless
<1>4. ASSUME ClientsDone PROVE Nameless
  BY <1>4, ReturnStep, Zenon
     DEF ClientsDone, augeas, history, IInv, Phase, Nameless
<1>5. ASSUME PasswordsDone PROVE Nameless
  BY <1>5, Zenon DEF PasswordsDone, config, augeas, history, Nameless
<1>6. ASSUME NoData PROVE Nameless
  <2>1. /\ UNCHANGED <<files, tree, dirty, hostname, hostok>> /\ faults' = faults + 1
        /\ at # "hostsave"
    BY <1>6, Zenon DEF NoData, augeas
  <2>2. /\ running' = running /\ at' # "hostsave"
        /\ was'.host = running.host => was.host = running.host
    BY <1>6, ReturnStep, Zenon DEF NoData, AbandonAuth, IInv, Phase
  <2>3. faults' # 0
    BY <2>1, FaultsType, Zenon DEF IInv
  <2> QED
    BY <2>1, <2>2, <2>3, Zenon DEF Nameless
<1> QED
  BY <1>1, <1>2, <1>3, <1>4, <1>5, <1>6, Zenon

(* Only change_hostname() changes names, but both callbacks save them.     *)
LEMMA NamedStep == IInv /\ NamedInv /\ [Next]_vars => NamedInv'
<1> SUFFICES ASSUME IInv /\ NamedInv, [Next]_vars PROVE NamedInv'
  OBVIOUS
<1>1. ASSUME NEW users \in Users, NEW host \in Host \cup {None},
             CommitSystem([running EXCEPT !.user = users, !.host = host])
      PROVE  NamedInv'
  BY <1>1, Zenon
     DEF CommitSystem, augeas, IInv, TypeOK, Phase, NamedInv, Name
<1>2. ASSUME NEW enabled \in BOOLEAN, NEW clients \in Clienteles,
             CommitDhcp([running EXCEPT !.dhcp = enabled, !.client = clients])
      PROVE  NamedInv'
  BY <1>2, Zenon
     DEF CommitDhcp, augeas, IInv, TypeOK, Phase, NamedInv, Name, Config
<1>3. ASSUME NEW u \in User, NEW works \in BOOLEAN, HandleUserUpdate(u, works)
      PROVE  NamedInv'
  <2>1. /\ files'.hostname = files.hostname /\ files'.hosts = files.hosts
        /\ UNCHANGED <<tree, dirty, hostname, hostok>>
    BY <1>3, Zenon
       DEF HandleUserUpdate, AddNewUser, DelUser, Gives, IInv, TypeOK
  <2>2. /\ running' = running /\ at = "users" /\ at' # "hostsave"
        /\ was'.host = running.host => was.host = running.host
    BY <1>3, ReturnStep, Zenon
       DEF HandleUserUpdate, AbandonAuth, config, IInv
  <2>3. faults' = 0 => faults = 0
    BY <1>3, CountStep, FaultsType, Zenon DEF HandleUserUpdate, IInv
  <2> QED
    BY <2>1, <2>2, <2>3, Zenon DEF NamedInv
<1>4. ASSUME NEW u \in User, NEW works \in BOOLEAN, HandlePasswdUpdate(u, works)
      PROVE  NamedInv'
  <2>1. /\ tree'.hostname = tree.hostname /\ tree'.hosts = tree.hosts
        /\ dirty' \in {dirty, dirty \cup {"shadow"}}
        /\ UNCHANGED <<files, hostname, hostok>>
    BY <1>4, Zenon
       DEF HandlePasswdUpdate, PasswordSet, SetShadow, IInv, TypeOK
  <2>2. /\ running' = running /\ at = "passwords" /\ at' # "hostsave"
        /\ was'.host = running.host => was.host = running.host
    BY <1>4, ReturnStep, Zenon
       DEF HandlePasswdUpdate, AbandonAuth, config, IInv
  <2>3. faults' = 0 => faults = 0
    BY <1>4, CountStep, FaultsType, Zenon DEF HandlePasswdUpdate, IInv
  <2> QED
    BY <2>1, <2>2, <2>3, Zenon DEF NamedInv
<1>5. ASSUME NEW u \in User, NEW works \in BOOLEAN, GenerateAuthKeys(u, works)
      PROVE  NamedInv'
  BY <1>5, NamelessStep DEF Nameless, NamedInv
<1>6. ASSUME NEW works \in BOOLEAN, AugLoad(works)
      PROVE  NamedInv'
  BY <1>6, ReturnStep
     DEF AugLoad, AbandonAuth, config, Count, IInv, TypeOK, Phase,
     NamedInv
<1>7. ASSUME NEW works \in BOOLEAN, NEW f \in File, AugSave(f, works)
      PROVE  NamedInv'
  <2>1. CASE works
    <3>1. /\ UNCHANGED <<config, at, tree, hostname, history, faults>>
          /\ dirty' = dirty \ {f}
      BY <1>7, <2>1, Zenon DEF AugSave, Written, Count
    <3>2. /\ files'.hostname = IF f = "hostname" THEN tree.hostname ELSE files.hostname
          /\ files'.hosts = IF f = "hosts" THEN tree.hosts ELSE files.hosts
      BY <1>7, <2>1, Zenon DEF AugSave, Written, IInv, TypeOK
    <3> QED
      BY <3>1, <3>2, Zenon DEF NamedInv, config, history
  <2>2. CASE ~ works
    <3>1. UNCHANGED <<augeas, hostname>> /\ faults' = faults + 1
      BY <1>7, <2>2, Zenon DEF AugSave, Count
    <3>2. /\ running' = running /\ at' # "hostsave"
          /\ \/ ~ hostok'
             \/ /\ hostok' = hostok
                /\ was'.host = running.host => was.host = running.host
      BY <1>7, <2>2, ReturnStep, Zenon DEF AugSave, AbandonAuth, IInv
    <3>3. faults' # 0
      BY <3>1, FaultsType, Zenon DEF IInv
    <3> QED
      BY <3>1, <3>2, <3>3 DEF NamedInv, augeas
  <2> QED
    BY <2>1, <2>2, Zenon
<1>8. ASSUME NEW works \in BOOLEAN, NEW i \in Iface, ClientChange(i, works)
      PROVE  NamedInv'
  BY <1>8, NamelessStep DEF Nameless, NamedInv
<1>9. CASE PasswordsDone
  BY <1>9, NamelessStep DEF Nameless, NamedInv
<1>10. CASE Saved
  <2>1. /\ dirty = {} /\ UNCHANGED <<running, files, tree, dirty, hostname, hostok, faults>>
        /\ at' # "hostsave"
    BY <1>10, ReturnStep, Zenon
       DEF Saved, config, augeas, history, IInv, Phase
  <2>2. was'.host = running.host => was.host = running.host \/ at = "hostsave"
    BY <1>10, ReturnStep, Zenon DEF Saved, config, IInv
  <2> QED
    BY <2>1, <2>2, Zenon DEF NamedInv
<1>11. CASE AuthDone
  BY <1>11, NamelessStep DEF Nameless, NamedInv
<1>12. ASSUME NEW n \in 0..3, ChangeHostname(n)
       PROVE  NamedInv'
  <2>1. at = "host" /\ running' = running /\ was.host # running.host /\ files' = files
    BY <1>12, ReturnStep, Zenon DEF ChangeHostname, config, IInv, Phase
  <2>2. /\ "hostname" \notin dirty' => tree'.hostname = files.hostname
        /\ "hosts" \notin dirty' => tree'.hosts = files.hosts
    BY <1>12, Zenon DEF ChangeHostname, Rename, NamedInv, File
  <2>3. CASE n = 3
    <3>1. /\ tree'.hostname = Name(running) /\ hostname' = Name(running)
          /\ tree.hosts = tree.hostname => tree'.hosts = Name(running)
      BY <1>12, <2>3 DEF ChangeHostname, Rename, IInv, TypeOK
    <3>2. was' = was /\ at' = "hostsave" /\ faults' = faults
      BY <1>12, <2>3, Zenon DEF ChangeHostname, Count, config
    <3>3. faults' = 0 => tree.hosts = tree.hostname
      BY <3>2, Zenon DEF NamedInv
    <3> QED
      BY <2>1, <2>2, <3>1, <3>2, <3>3, Zenon DEF NamedInv
  <2>4. CASE n # 3
    <3>1. at' = "idle" /\ hostok' = FALSE /\ faults' = faults + 1
      BY <1>12, <2>4, ReturnStep, Zenon DEF ChangeHostname, Count, IInv
    <3>2. faults' # 0
      BY <3>1, FaultsType, Zenon DEF IInv
    <3> QED
      BY <2>1, <2>2, <3>1, <3>2, Zenon DEF NamedInv
  <2> QED
    BY <2>3, <2>4, Zenon
<1>13. CASE ClientsDone
  BY <1>13, NamelessStep DEF Nameless, NamedInv
<1>14. CASE NoData
  BY <1>14, NamelessStep DEF Nameless, NamedInv
<1>15. CASE Restart
  <2>1. hostok' => hostok /\ was.host = running.host
    BY <1>15, Zenon DEF Restart
  <2>2. /\ tree' = files /\ files' = files /\ at' = "idle"
        /\ running' = running /\ hostname' = hostname /\ faults' = faults + 1
    BY <1>15, Zenon DEF Restart
  <2>3. faults' # 0
    BY <2>2, FaultsType, Zenon DEF IInv
  <2> QED
    BY <2>1, <2>2, <2>3, Zenon DEF NamedInv
<1>16. CASE UNCHANGED vars
  BY <1>16, Zenon DEF vars, config, augeas, history, NamedInv
<1> QED
  BY <1>1, <1>2, <1>3, <1>4, <1>5, <1>6, <1>7, <1>8, <1>9, <1>10, <1>11,
     <1>12,
     <1>13, <1>14, <1>15, <1>16, Zenon DEF Next

(* The names at first.                                                     *)
LEMMA NamedInit == Init => NamedInv
  BY InitFacts, Zenon DEF Init, NamedInv, Name

(* Named holds in every reachable state: after a change_hostname() that    *)
(* got to its end the kernel and the file have the name, whatever failed   *)
(* before, and whoever saved the tree.                                     *)
THEOREM NamedCorrect == Spec => []Named
<1>1. IInv /\ NamedInv => Named
  <2> SUFFICES ASSUME IInv, NamedInv, at = "idle", hostok
               PROVE  /\ hostname = Name(running) /\ files.hostname = Name(running)
                      /\ faults = 0 => files.hosts = Name(running)
    BY Zenon DEF Named
  <2>1. was = running
    BY Zenon DEF IInv, Phase
  <2> QED
    BY <2>1, Zenon DEF NamedInv
<1> QED
  BY <1>1, NamedInit, LateTypeCorrect, NamedStep, PTL DEF Spec

-----------------------------------------------------------------------------
(***************************************************************************)
(* change_auth(): keys, and which accounts there are.                      *)
(***************************************************************************)

(* Once change_auth_done() has been through the users, those that the      *)
(* changeset removes have no account.                                      *)
Gone ==
  /\ at = "users" => \A u \in UserDiff(was, running) \ todo :
       running.user[u] = Absent => u \notin accounts
  /\ at = "passwords" => \A u \in UserDiff(was, running) :
       running.user[u] = Absent => u \notin accounts

(* A user that is not configured has no keys, unless the user is yet to be *)
(* removed, or was left.  One that is has the keys configured once         *)
(* generate_auth_keys() has been there, if all went well.                  *)
KeysInv ==
  /\ \A u \in User \ (Configured(running) \cup left) :
       (at = "users" /\ u \in todo) \/ keyfile[u] = {}
  /\ authok /\ at \notin {"users", "passwords", "authsave"} =>
       \A u \in Configured(running) :
         (at = "keys" /\ u \in todo) \/ keyfile[u] = running.user[u].keys

(* deluser must have worked for change_auth_done() to go on.               *)
LEMMA GoneStep == IInv /\ Gone /\ [Next]_vars => Gone'
<1> SUFFICES ASSUME IInv /\ Gone, [Next]_vars PROVE Gone'
  OBVIOUS
<1>1. ASSUME NEW users \in Users, NEW host \in Host \cup {None},
             CommitSystem([running EXCEPT !.user = users, !.host = host])
      PROVE  Gone'
  BY <1>1, Zenon DEF CommitSystem, Gone
<1>2. ASSUME NEW enabled \in BOOLEAN, NEW clients \in Clienteles,
             CommitDhcp([running EXCEPT !.dhcp = enabled, !.client = clients])
      PROVE  Gone'
  BY <1>2, Zenon DEF CommitDhcp, Gone
<1>3. ASSUME NEW u \in User, NEW works \in BOOLEAN, HandleUserUpdate(u, works)
      PROVE  Gone'
  BY <1>3, ReturnStep DEF HandleUserUpdate, AbandonAuth, AddNewUser, DelUser,
     config, IInv, TypeOK, Gone
<1>4. ASSUME NEW u \in User, NEW works \in BOOLEAN, HandlePasswdUpdate(u, works)
      PROVE  Gone'
  BY <1>4, ReturnStep, Zenon
     DEF HandlePasswdUpdate, AbandonAuth, config, IInv, TypeOK,
     Gone
<1>5. ASSUME NEW u \in User, NEW works \in BOOLEAN, GenerateAuthKeys(u, works)
      PROVE  Gone'
  BY <1>5, Zenon DEF GenerateAuthKeys, config, augeas, IInv, TypeOK, Gone
<1>6. ASSUME NEW works \in BOOLEAN, AugLoad(works)
      PROVE  Gone'
  BY <1>6, ReturnStep, Zenon
     DEF AugLoad, AbandonAuth, config, IInv, TypeOK, Gone
<1>7. ASSUME NEW works \in BOOLEAN, NEW f \in File, AugSave(f, works)
      PROVE  Gone'
  BY <1>7, ReturnStep, Zenon
     DEF AugSave, AbandonAuth, config, augeas, history, IInv,
     TypeOK, Gone
<1>8. ASSUME NEW works \in BOOLEAN, NEW i \in Iface, ClientChange(i, works)
      PROVE  Gone'
  BY <1>8, Zenon DEF ClientChange, config, augeas, IInv, TypeOK, Gone
<1>9. CASE PasswordsDone
  BY <1>9, Zenon
     DEF PasswordsDone, config, augeas, history, IInv, TypeOK, Gone
<1>10. CASE Saved
  BY <1>10, ReturnStep, Zenon
     DEF Saved, config, augeas, history, IInv, TypeOK, Gone
<1>11. CASE AuthDone
  BY <1>11, ReturnStep, Zenon
     DEF AuthDone, augeas, history, IInv, TypeOK, Gone
<1>12. ASSUME NEW n \in 0..3, ChangeHostname(n)
       PROVE  Gone'
  BY <1>12, ReturnStep, Zenon DEF ChangeHostname, config, IInv, TypeOK, Gone
<1>13. CASE ClientsDone
  BY <1>13, ReturnStep, Zenon
     DEF ClientsDone, augeas, history, IInv, TypeOK, Gone
<1>14. CASE NoData
  BY <1>14, ReturnStep, Zenon
     DEF NoData, AbandonAuth, augeas, IInv, TypeOK, Gone
<1>15. CASE Restart
  BY <1>15, Zenon DEF Restart, IInv, TypeOK, Gone
<1>16. CASE UNCHANGED vars
  BY <1>16, Zenon DEF vars, config, history, Gone
<1> QED
  BY <1>1, <1>2, <1>3, <1>4, <1>5, <1>6, <1>7, <1>8, <1>9, <1>10, <1>11,
     <1>12,
     <1>13, <1>14, <1>15, <1>16, Zenon DEF Next

(* Each step of change_auth_done() keeps what is known of the keys.        *)
LEMMA KeysStep == IInv /\ Gone /\ KeysInv /\ [Next]_vars => KeysInv'
<1> SUFFICES ASSUME IInv /\ Gone /\ KeysInv, [Next]_vars PROVE KeysInv'
  OBVIOUS
<1>1. ASSUME NEW users \in Users, NEW host \in Host \cup {None},
             CommitSystem([running EXCEPT !.user = users, !.host = host])
      PROVE  KeysInv'
  BY <1>1, Zenon
     DEF CommitSystem, KeysInv, Configured, UserDiff, IInv, TypeOK, Phase
<1>2. ASSUME NEW enabled \in BOOLEAN, NEW clients \in Clienteles,
             CommitDhcp([running EXCEPT !.dhcp = enabled, !.client = clients])
      PROVE  KeysInv'
  BY <1>2, Zenon
     DEF CommitDhcp, KeysInv, Configured, IInv, TypeOK, Phase, Config
<1>3. ASSUME NEW u \in User, NEW works \in BOOLEAN, HandleUserUpdate(u, works)
      PROVE  KeysInv'
  <2>1. /\ running' = running /\ at = "users" /\ u \in todo
        /\ \A v \in User \ {u} : keyfile'[v] = keyfile[v]
        /\ running.user[u] = Absent => keyfile'[u] = {}
    BY <1>3, ReturnStep, Zenon
       DEF HandleUserUpdate, AbandonAuth, AddNewUser, DelUser,
       config, IInv, TypeOK
  <2>2. CASE AbandonAuth
    BY <2>1, <2>2, ReturnStep, Zenon
       DEF AbandonAuth, IInv, KeysInv, Configured
  <2>3. CASE todo' = todo \ {u} /\ left' = left \ {u} /\ at' = at
    BY <2>1, <2>3, Zenon DEF KeysInv, Configured
  <2> QED
    BY <1>3, <2>2, <2>3, Zenon DEF HandleUserUpdate
<1>4. ASSUME NEW u \in User, NEW works \in BOOLEAN, HandlePasswdUpdate(u, works)
      PROVE  KeysInv'
  <2>1. u \in accounts => u \in Configured(running)
    BY <1>4, Zenon
       DEF HandlePasswdUpdate, IInv, Phase, Gone, PasswordDiff, PasswordOf,
       UserDiff, Configured
  <2> QED
    BY <1>4, <2>1, ReturnStep, Zenon
       DEF HandlePasswdUpdate, AbandonAuth, config, IInv,
       KeysInv, Configured
<1>5. ASSUME NEW u \in User, NEW works \in BOOLEAN, GenerateAuthKeys(u, works)
      PROVE  KeysInv'
  BY <1>5, Zenon
     DEF GenerateAuthKeys, config, augeas, IInv, TypeOK, Phase, KeysInv,
     Configured
<1>6. ASSUME NEW works \in BOOLEAN, AugLoad(works)
      PROVE  KeysInv'
  BY <1>6, ReturnStep, Zenon
     DEF AugLoad, AbandonAuth, config, IInv, TypeOK, Phase,
     KeysInv, Configured
<1>7. ASSUME NEW works \in BOOLEAN, NEW f \in File, AugSave(f, works)
      PROVE  KeysInv'
  BY <1>7, ReturnStep, Zenon
     DEF AugSave, AbandonAuth, config, augeas, history, IInv,
     TypeOK, Phase, KeysInv, Configured
<1>8. ASSUME NEW works \in BOOLEAN, NEW i \in Iface, ClientChange(i, works)
      PROVE  KeysInv'
  BY <1>8, Zenon
     DEF ClientChange, config, augeas, IInv, TypeOK, Phase, KeysInv,
     Configured
<1>9. CASE PasswordsDone
  BY <1>9, Zenon
     DEF PasswordsDone, config, augeas, history, IInv, TypeOK, Phase,
     KeysInv,
     Configured
<1>10. CASE Saved
  BY <1>10, ReturnStep, Zenon
     DEF Saved, config, augeas, history, IInv, TypeOK, Phase,
     KeysInv, Configured
<1>11. CASE AuthDone
  BY <1>11, ReturnStep, Zenon
     DEF AuthDone, augeas, history, IInv, TypeOK, Phase, KeysInv,
     Configured
<1>12. ASSUME NEW n \in 0..3, ChangeHostname(n)
       PROVE  KeysInv'
  BY <1>12, ReturnStep, Zenon
     DEF ChangeHostname, config, IInv, TypeOK, Phase, KeysInv,
     Configured
<1>13. CASE ClientsDone
  BY <1>13, ReturnStep, Zenon
     DEF ClientsDone, augeas, history, IInv, TypeOK, Phase,
     KeysInv, Configured
<1>14. CASE NoData
  BY <1>14, ReturnStep DEF NoData, AbandonAuth, augeas, IInv, TypeOK, Phase,
     KeysInv, Configured
<1>15. CASE Restart
  <2>1. /\ running' = running /\ keyfile' = keyfile /\ at' = "idle"
        /\ left \cup (IF at = "users" THEN todo ELSE {}) \subseteq left'
    BY <1>15, Zenon DEF Restart
  <2>2. authok' => authok /\ at \in {"host", "hostsave", "clients"}
    BY <1>15, Zenon DEF Restart
  <2> QED
    BY <2>1, <2>2, Zenon DEF KeysInv, Configured
<1>16. CASE UNCHANGED vars
  BY <1>16, Zenon DEF vars, config, history, KeysInv
<1> QED
  BY <1>1, <1>2, <1>3, <1>4, <1>5, <1>6, <1>7, <1>8, <1>9, <1>10, <1>11,
     <1>12,
     <1>13, <1>14, <1>15, <1>16, Zenon DEF Next

(* Nothing to do and no keys at first.                                     *)
LEMMA KeysInit == Init => Gone /\ KeysInv
  BY InitFacts, Zenon DEF Init, Gone, KeysInv

(* Accounts that change_auth_done() has deleted stay deleted.              *)
LEMMA GoneCorrect == Spec => []Gone
  BY KeysInit, LateTypeCorrect, GoneStep, PTL DEF Spec

(* Keys holds in every reachable state: every change_auth() that gets to   *)
(* its end makes up for the keys of those that did not, however many they  *)
(* were.                                                                   *)
THEOREM KeysCorrect == Spec => []Keys
<1>1. KeysInv => Keys
  BY Zenon DEF KeysInv, Keys
<1> QED
  BY <1>1, KeysInit, LateTypeCorrect, GoneCorrect, KeysStep, PTL DEF Spec

-----------------------------------------------------------------------------
(***************************************************************************)
(* Accounts and passwords.  First what the longer steps do to them.        *)
(***************************************************************************)

(* handle_sr_user_update() deals with the user, or change_auth() ends      *)
(* there with nothing done: because of a fault, or because the account was *)
(* not as it should have been.                                             *)
UserDone(u) ==
  /\ at = "users" /\ u \in todo
  /\ running.user[u] = Absent <=> u \in accounts
  /\ UNCHANGED <<running, was, at, tree, dirty, faults>>
  /\ todo' = todo \ {u} /\ left' = left \ {u}
  /\ accounts' = IF running.user[u] = Absent THEN accounts \ {u}
                 ELSE accounts \cup {u}
  /\ files'.shadow = [files.shadow EXCEPT ![u] =
                        IF running.user[u] = Absent THEN None ELSE Locked]

UserCut(u) ==
  /\ at = "users" /\ u \in todo
  /\ UNCHANGED <<running, accounts, files, tree, dirty>>
  /\ left' = left \cup todo \cup PasswordDiff(was, running)
  /\ at' \in {"host", "idle"}
  /\ \/ faults' = faults + 1
     \/ faults' = faults /\ ~ (running.user[u] = Absent <=> u \in accounts)

(* There is no third outcome.                                              *)
LEMMA UserUpdateStep ==
  ASSUME IInv, NEW u \in User, NEW works \in BOOLEAN, HandleUserUpdate(u, works)
  PROVE  UserDone(u) \/ UserCut(u)
<1>1. /\ at = "users" /\ u \in todo
      /\ UNCHANGED <<tree, dirty>>
  BY Zenon DEF HandleUserUpdate
<1>2. CASE works /\ (running.user[u] = Absent <=> u \in accounts)
  BY <1>1, <1>2, Zenon
     DEF UserDone, HandleUserUpdate, AddNewUser, DelUser, Gives, Count,
     config, IInv, TypeOK
<1>3. CASE ~ (works /\ (running.user[u] = Absent <=> u \in accounts))
  <2>1. AbandonAuth
    BY <1>3, Zenon DEF HandleUserUpdate
  <2>2. UNCHANGED <<accounts, files>>
    BY <1>3, Zenon DEF HandleUserUpdate, AddNewUser, DelUser
  <2>3. faults' = IF works THEN faults ELSE faults + 1
    BY Zenon DEF HandleUserUpdate, Count
  <2> QED
    BY <1>1, <1>3, <2>1, <2>2, <2>3, ReturnStep, Zenon
       DEF UserCut, AbandonAuth, IInv
<1> QED
  BY <1>2, <1>3, Zenon

(* handle_sr_passwd_update() sets the password of an account, passes over  *)
(* a user that has none, or fails.                                         *)
PasswordDone(u) ==
  /\ at = "passwords" /\ u \in todo /\ u \in accounts /\ Due(u) # None
  /\ UNCHANGED <<running, was, at, accounts, files, faults>>
  /\ todo' = todo \ {u} /\ left' = left \ {u}
  /\ tree'.shadow = [tree.shadow EXCEPT ![u] = Due(u)]
  /\ dirty' = IF tree.shadow[u] = Due(u) THEN dirty ELSE dirty \cup {"shadow"}

PasswordPassed(u) ==
  /\ at = "passwords" /\ u \in todo /\ u \notin accounts
  /\ UNCHANGED <<running, was, at, accounts, files, left, tree, dirty, faults>>
  /\ todo' = todo \ {u}

PasswordCut ==
  /\ at = "passwords"
  /\ UNCHANGED <<running, accounts, files, tree, dirty>>
  /\ left' = left \cup PasswordDiff(was, running)
  /\ at' \in {"host", "idle"} /\ faults' = faults + 1

(* Nor a fourth here.  A password is only ever set for a user that is      *)
(* configured, since those that were removed are gone.                     *)
LEMMA PasswdUpdateStep ==
  ASSUME IInv, Gone, NEW u \in User, NEW works \in BOOLEAN,
         HandlePasswdUpdate(u, works)
  PROVE  PasswordDone(u) \/ PasswordPassed(u) \/ PasswordCut
<1>1. /\ at = "passwords" /\ u \in todo
      /\ UNCHANGED <<accounts, files>>
  BY Zenon DEF HandlePasswdUpdate
<1>2. CASE works /\ u \notin accounts
  BY <1>1, <1>2, Zenon DEF PasswordPassed, HandlePasswdUpdate, Count, config
<1>3. CASE works /\ u \in accounts
  <2>1. running.user[u] # Absent
    BY <1>1, <1>3, Zenon
       DEF IInv, Phase, Gone, PasswordDiff, PasswordOf, UserDiff
  <2>2. /\ Due(u) # None
        /\ Due(u) = IF PasswordOf(running, u) = None THEN Locked
                    ELSE PasswordOf(running, u)
    BY <2>1, LateSetupAssumption, Zenon DEF Due, PasswordOf
  <2>3. SetShadow(u, Due(u))
    BY <1>3, <2>2, Zenon DEF HandlePasswdUpdate, PasswordSet
  <2> QED
    BY <1>1, <1>3, <2>2, <2>3, Zenon
       DEF PasswordDone, HandlePasswdUpdate, SetShadow,
       Count, config, IInv, TypeOK
<1>4. CASE ~ works
  BY <1>1, <1>4, ReturnStep, Zenon
     DEF PasswordCut, HandlePasswdUpdate, AbandonAuth, Count,
     IInv
<1> QED
  BY <1>2, <1>3, <1>4, Zenon

(* aug_save() writes a file, or gives up.                                  *)
LEMMA SaveStep ==
  ASSUME IInv, NEW works \in BOOLEAN, NEW f \in File, AugSave(f, works)
  PROVE  /\ at \in {"authsave", "hostsave"} /\ f \in todo
         /\ UNCHANGED <<running, accounts, tree>>
         /\ \/ /\ UNCHANGED <<at, was, left, faults>>
               /\ todo' = todo \ {f} /\ dirty' = dirty \ {f}
               /\ files'.shadow = IF f = "shadow" THEN tree.shadow ELSE files.shadow
            \/ /\ UNCHANGED <<files, dirty>>
               /\ left' = IF at = "authsave" THEN left \cup PasswordDiff(was, running)
                          ELSE left
               /\ at' \in {"host", "idle"} /\ faults' = faults + 1
<1>1. /\ at \in {"authsave", "hostsave"} /\ f \in todo
      /\ UNCHANGED accounts
  BY Zenon DEF AugSave
<1>2. CASE works
  BY <1>1, <1>2, Zenon
     DEF AugSave, Written, Count, config, history, IInv, TypeOK
<1>3. CASE ~ works
  BY <1>1, <1>3, ReturnStep, Zenon
     DEF AugSave, AbandonAuth, augeas, Count, IInv
<1> QED
  BY <1>2, <1>3, Zenon

(* change_hostname() does not touch the passwords.                         *)
LEMMA HostnameStep ==
  ASSUME IInv, NEW n \in 0..3, ChangeHostname(n)
  PROVE  /\ at = "host"
         /\ UNCHANGED <<running, accounts, files, left>>
         /\ tree'.shadow = tree.shadow
         /\ "shadow" \in dirty' <=> "shadow" \in dirty
         /\ \/ at' = "hostsave" /\ faults' = faults
            \/ at' = "idle" /\ faults' = faults + 1
<1>1. /\ at = "host"
      /\ UNCHANGED <<accounts, files, left>>
  BY Zenon DEF ChangeHostname
<1>2. tree'.shadow = tree.shadow
  BY Zenon DEF ChangeHostname, Rename, IInv, TypeOK
<1>3. "shadow" \in dirty' <=> "shadow" \in dirty
  BY <1>2, Zenon DEF ChangeHostname, Rename
<1>4. /\ running' = running
      /\ \/ at' = "hostsave" /\ faults' = faults
         \/ at' = "idle" /\ faults' = faults + 1
  BY ReturnStep, Zenon DEF ChangeHostname, Count, config, IInv
<1> QED
  BY <1>1, <1>2, <1>3, <1>4, Zenon

(* sysrepo hands out nothing.                                              *)
LEMMA NoDataStep ==
  ASSUME IInv, NoData
  PROVE  /\ UNCHANGED <<running, accounts, augeas>>
         /\ at' \in {"host", "idle"} /\ faults' = faults + 1
         /\ at \in {"users", "passwords", "keys", "clients"}
         /\ left' = IF at \in {"users", "passwords"}
                    THEN left \cup (IF at = "users" THEN todo ELSE {})
                              \cup PasswordDiff(was, running)
                    ELSE left
  BY ReturnStep, Zenon DEF NoData, AbandonAuth, IInv

(* aug_save() has written everything.                                      *)
LEMMA SavedStep ==
  ASSUME IInv, Saved
  PROVE  /\ dirty = {} /\ UNCHANGED <<running, accounts, files, tree, dirty, left, faults>>
         /\ \/ at = "authsave" /\ at' = "keys"
            \/ at = "hostsave" /\ at' = "idle"
<1>1. dirty = {} /\ UNCHANGED <<accounts, files, tree, dirty, left, faults>>
  BY Zenon DEF Saved, augeas, history, IInv, Phase
<1>2. running' = running
  BY ReturnStep, Zenon DEF Saved, config, IInv
<1>3. \/ at = "authsave" /\ at' = "keys"
      \/ at = "hostsave" /\ at' = "idle"
  BY ReturnStep, Zenon DEF Saved, IInv
<1> QED
  BY <1>1, <1>2, <1>3, Zenon

(* The steps that have nothing to do with accounts and passwords.          *)
Aside ==
  /\ UNCHANGED <<running, accounts, files, tree, dirty, left>>
  /\ at \in {"keys", "clients"} /\ at' \in {at, "host", "idle"}
  /\ faults' \in {faults, faults + 1}

(* They are those of generate_auth_keys() and client_change().             *)
LEMMA AsideStep ==
  ASSUME IInv
  PROVE  /\ \A u \in User, works \in BOOLEAN : GenerateAuthKeys(u, works) => Aside
         /\ \A i \in Iface, works \in BOOLEAN : ClientChange(i, works) => Aside
         /\ AuthDone => Aside
         /\ ClientsDone => Aside
<1>1. ASSUME NEW u \in User, NEW works \in BOOLEAN, GenerateAuthKeys(u, works)
      PROVE  Aside
  BY <1>1, Zenon DEF GenerateAuthKeys, Count, config, augeas, Aside
<1>2. ASSUME NEW i \in Iface, NEW works \in BOOLEAN, ClientChange(i, works)
      PROVE  Aside
  BY <1>2, Zenon DEF ClientChange, Count, config, augeas, Aside
<1>3. ASSUME AuthDone PROVE Aside
  BY <1>3, ReturnStep, Zenon DEF AuthDone, augeas, history, IInv, Aside
<1>4. ASSUME ClientsDone PROVE Aside
  BY <1>4, ReturnStep, Zenon DEF ClientsDone, augeas, history, IInv, Aside
<1> QED
  BY <1>1, <1>2, <1>3, <1>4, Zenon

-----------------------------------------------------------------------------
(* Between aug_load() and the end of aug_save() the tree is what           *)
(* change_auth_done() has made of the file.                                *)
Fresh == at \in {"passwords", "authsave"}

(* Passwords that have not been saved stay in the tree only after a fault. *)
Unsaved ==
  /\ faults = 0 /\ ~ Fresh /\ at # "hostsave" => "shadow" \notin dirty
  /\ at = "keys" => "shadow" \notin dirty
  /\ Fresh /\ "shadow" \notin dirty => tree.shadow = files.shadow

(* A user has an account if and only if the configuration, or the former   *)
(* one while the user is yet to be dealt with, has the user.               *)
Stands(u) ==
  u \in accounts <=>
    u \in Configured(IF at = "users" /\ u \in todo THEN was ELSE running)

(* That holds of users of whom no change was cut short; and of all as long *)
(* as nothing has failed, or only the passwords were not saved.            *)
Matching ==
  /\ \A u \in User \ left : Stands(u)
  /\ faults = 0 \/ (faults = 1 /\ "shadow" \in dirty /\ ~ Fresh) =>
       \A u \in User : Stands(u)

(* aug_load() forgets, and aug_save() writes, what is in the tree.         *)
LEMMA UnsavedStep == IInv /\ Gone /\ Unsaved /\ [Next]_vars => Unsaved'
<1> SUFFICES ASSUME IInv /\ Gone /\ Unsaved, [Next]_vars PROVE Unsaved'
  OBVIOUS
<1>0. ASSUME Aside PROVE Unsaved'
  BY <1>0 DEF Aside, IInv, TypeOK, Unsaved, Fresh
<1>1. ASSUME NEW users \in Users, NEW host \in Host \cup {None},
             CommitSystem([running EXCEPT !.user = users, !.host = host])
      PROVE  Unsaved'
  BY <1>1, Zenon DEF CommitSystem, augeas, Unsaved, Fresh
<1>2. ASSUME NEW enabled \in BOOLEAN, NEW clients \in Clienteles,
             CommitDhcp([running EXCEPT !.dhcp = enabled, !.client = clients])
      PROVE  Unsaved'
  BY <1>2, Zenon DEF CommitDhcp, augeas, Unsaved, Fresh
<1>3. ASSUME NEW u \in User, NEW works \in BOOLEAN, HandleUserUpdate(u, works)
      PROVE  Unsaved'
  <2>1. CASE UserDone(u)
    BY <2>1, Zenon DEF UserDone, Unsaved, Fresh
  <2>2. CASE UserCut(u)
    BY <2>2 DEF UserCut, IInv, TypeOK, Unsaved, Fresh
  <2> QED
    BY <1>3, <2>1, <2>2, UserUpdateStep, Zenon
<1>4. ASSUME NEW u \in User, NEW works \in BOOLEAN, HandlePasswdUpdate(u, works)
      PROVE  Unsaved'
  <2>1. CASE PasswordDone(u)
    BY <2>1, Zenon DEF PasswordDone, IInv, TypeOK, Shadow, Unsaved, Fresh
  <2>2. CASE PasswordPassed(u)
    BY <2>2, Zenon DEF PasswordPassed, Unsaved, Fresh
  <2>3. CASE PasswordCut
    BY <2>3 DEF PasswordCut, IInv, TypeOK, Unsaved, Fresh
  <2> QED
    BY <1>4, <2>1, <2>2, <2>3, PasswdUpdateStep, Zenon
<1>5. ASSUME NEW u \in User, NEW works \in BOOLEAN, GenerateAuthKeys(u, works)
      PROVE  Unsaved'
  BY <1>0, <1>5, AsideStep, Zenon
<1>6. ASSUME NEW works \in BOOLEAN, AugLoad(works)
      PROVE  Unsaved'
  BY <1>6, ReturnStep
     DEF AugLoad, AbandonAuth, config, Count, IInv, TypeOK, Phase,
     Unsaved, Fresh
<1>7. ASSUME NEW works \in BOOLEAN, NEW f \in File, AugSave(f, works)
      PROVE  Unsaved'
  BY <1>7, SaveStep DEF IInv, TypeOK, Unsaved, Fresh
<1>8. ASSUME NEW works \in BOOLEAN, NEW i \in Iface, ClientChange(i, works)
      PROVE  Unsaved'
  BY <1>0, <1>8, AsideStep, Zenon
<1>9. CASE PasswordsDone
  BY <1>9, Zenon DEF PasswordsDone, augeas, Unsaved, Fresh
<1>10. CASE Saved
  BY <1>10, SavedStep, Zenon DEF Unsaved, Fresh
<1>11. CASE AuthDone
  BY <1>0, <1>11, AsideStep, Zenon
<1>12. ASSUME NEW n \in 0..3, ChangeHostname(n)
       PROVE  Unsaved'
  BY <1>12, HostnameStep DEF IInv, TypeOK, Unsaved, Fresh
<1>13. CASE ClientsDone
  BY <1>0, <1>13, AsideStep, Zenon
<1>14. CASE NoData
  BY <1>14, NoDataStep DEF IInv, TypeOK, Unsaved, Fresh
<1>15. CASE Restart
  BY <1>15, Zenon DEF Restart, Unsaved, Fresh
<1>16. CASE UNCHANGED vars
  BY <1>16, Zenon DEF vars, config, augeas, history, Unsaved, Fresh
<1> QED
  BY <1>1, <1>2, <1>3, <1>4, <1>5, <1>6, <1>7, <1>8, <1>9, <1>10, <1>11,
     <1>12,
     <1>13, <1>14, <1>15, <1>16, Zenon DEF Next

(* Accounts are created and deleted as the configuration says.             *)
LEMMA MatchingStep == IInv /\ Gone /\ Unsaved /\ Matching /\ [Next]_vars => Matching'
<1> SUFFICES ASSUME IInv /\ Gone /\ Unsaved /\ Matching, [Next]_vars PROVE Matching'
  OBVIOUS
<1>0. ASSUME Aside PROVE Matching'
  BY <1>0 DEF Aside, IInv, TypeOK, Unsaved, Matching, Stands, Fresh
<1>1. ASSUME NEW users \in Users, NEW host \in Host \cup {None},
             CommitSystem([running EXCEPT !.user = users, !.host = host])
      PROVE  Matching'
  BY <1>1, Zenon
     DEF CommitSystem, augeas, IInv, TypeOK, Phase, Unsaved, Matching,
     Stands,
     Fresh, Configured, UserDiff
<1>2. ASSUME NEW enabled \in BOOLEAN, NEW clients \in Clienteles,
             CommitDhcp([running EXCEPT !.dhcp = enabled, !.client = clients])
      PROVE  Matching'
  BY <1>2, Zenon
     DEF CommitDhcp, augeas, IInv, TypeOK, Phase, Config, Matching, Stands,
     Fresh, Configured
<1>3. ASSUME NEW u \in User, NEW works \in BOOLEAN, HandleUserUpdate(u, works)
      PROVE  Matching'
  <2>1. CASE UserDone(u)
    BY <2>1 DEF UserDone, Unsaved, Matching, Stands, Configured, Fresh
  <2>2. CASE UserCut(u)
    BY <2>2
       DEF UserCut, IInv, TypeOK, Phase, Unsaved, Matching, Stands,
       Configured,
       UserDiff, Fresh
  <2> QED
    BY <1>3, <2>1, <2>2, UserUpdateStep, Zenon
<1>4. ASSUME NEW u \in User, NEW works \in BOOLEAN, HandlePasswdUpdate(u, works)
      PROVE  Matching'
  <2>0. u \in accounts => u \in Configured(running)
    BY <1>4, Zenon
       DEF HandlePasswdUpdate, IInv, Phase, Gone, PasswordDiff, PasswordOf,
       UserDiff, Configured
  <2>1. CASE PasswordDone(u)
    BY <2>1, <2>0, Zenon DEF PasswordDone, Matching, Stands, Fresh
  <2>2. CASE PasswordPassed(u)
    BY <2>2, Zenon DEF PasswordPassed, Matching, Stands, Fresh
  <2>3. CASE PasswordCut
    BY <2>3 DEF PasswordCut, IInv, TypeOK, Matching, Stands, Fresh
  <2> QED
    BY <1>4, <2>1, <2>2, <2>3, PasswdUpdateStep, Zenon
<1>5. ASSUME NEW u \in User, NEW works \in BOOLEAN, GenerateAuthKeys(u, works)
      PROVE  Matching'
  BY <1>0, <1>5, AsideStep, Zenon
<1>6. ASSUME NEW works \in BOOLEAN, AugLoad(works)
      PROVE  Matching'
  <2>1. at = "users" /\ todo = {} /\ UNCHANGED accounts
    BY <1>6, Zenon DEF AugLoad
  <2>2. CASE works
    <3>1. UNCHANGED <<running, left, faults>> /\ dirty' = {} /\ at' = "passwords"
      BY <1>6, <2>2, Zenon DEF AugLoad, config, Count
    <3>2. QED
      BY <2>1, <3>1, Zenon DEF Matching, Stands, Fresh
  <2>3. CASE ~works
    <3>1. /\ Return("auth") /\ left \subseteq left' /\ UNCHANGED dirty
          /\ faults' = faults + 1
      BY <1>6, <2>3, Zenon DEF AugLoad, AbandonAuth, Count
    <3>2. running' = running /\ at' # "users"
      BY <3>1, ReturnStep, Zenon DEF IInv
    <3>3. faults \in Int
      BY FaultsType DEF IInv
    <3>4. QED
      BY <2>1, <3>1, <3>2, <3>3, FaultsType DEF Matching, Stands, IInv
  <2>4. QED
    BY <2>2, <2>3, Zenon
<1>7. ASSUME NEW works \in BOOLEAN, NEW f \in File, AugSave(f, works)
      PROVE  Matching'
  BY <1>7, SaveStep DEF IInv, TypeOK, Phase, Matching, Stands, Fresh
<1>8. ASSUME NEW works \in BOOLEAN, NEW i \in Iface, ClientChange(i, works)
      PROVE  Matching'
  BY <1>0, <1>8, AsideStep, Zenon
<1>9. CASE PasswordsDone
  BY <1>9, Zenon
     DEF PasswordsDone, config, augeas, history, Matching, Stands, Fresh
<1>10. CASE Saved
  BY <1>10, SavedStep, Zenon DEF Matching, Stands, Fresh
<1>11. CASE AuthDone
  BY <1>0, <1>11, AsideStep, Zenon
<1>12. ASSUME NEW n \in 0..3, ChangeHostname(n)
       PROVE  Matching'
  BY <1>12, HostnameStep DEF IInv, TypeOK, Matching, Stands, Fresh
<1>13. CASE ClientsDone
  BY <1>0, <1>13, AsideStep, Zenon
<1>14. CASE NoData
  BY <1>14, NoDataStep
     DEF IInv, TypeOK, Unsaved, Matching, Stands, Fresh, augeas
<1>15. CASE Restart
  BY <1>15 DEF Restart, IInv, TypeOK, Matching, Stands, Fresh
<1>16. CASE UNCHANGED vars
  BY <1>16, Zenon DEF vars, config, augeas, history, Matching, Stands, Fresh
<1> QED
  BY <1>1, <1>2, <1>3, <1>4, <1>5, <1>6, <1>7, <1>8, <1>9, <1>10, <1>11,
     <1>12,
     <1>13, <1>14, <1>15, <1>16, Zenon DEF Next

(* No accounts at first.                                                   *)
LEMMA MatchingInit == Init => Unsaved /\ Matching
<1> SUFFICES ASSUME Init PROVE Unsaved /\ Matching
  OBVIOUS
<1>1. Unsaved
  BY Zenon DEF Init, Unsaved, Fresh
<1>2. accounts = {} /\ at = "idle" /\ Configured(running) = {}
  BY InitFacts, Zenon DEF Init
<1> QED
  BY <1>1, <1>2, Zenon DEF Matching, Stands

(* The tree and the accounts, as the two theorems below need them.         *)
LEMMA MatchingCorrect == Spec => [](Unsaved /\ Matching)
<1>1. Spec => []Unsaved
  BY MatchingInit, LateTypeCorrect, GoneCorrect, UnsavedStep, PTL DEF Spec
<1> QED
  BY <1>1, MatchingInit, LateTypeCorrect, GoneCorrect, MatchingStep, PTL
     DEF Spec

-----------------------------------------------------------------------------
(***************************************************************************)
(* change_auth(): passwords.                                               *)
(***************************************************************************)

(* The accounts with a password, or "!", are those there are; in the tree  *)
(* too, whenever it may be saved.                                          *)
Ghostless ==
  /\ NoGhost
  /\ faults <= 1 /\ (Fresh \/ ("shadow" \in dirty /\ at # "users")) =>
       \A u \in User : tree.shadow[u] # None <=> u \in accounts

(* A tree that is saved is never older than the accounts.                  *)
LEMMA GhostlessStep ==
  IInv /\ Gone /\ Unsaved /\ Matching /\ Ghostless /\ [Next]_vars => Ghostless'
<1> SUFFICES ASSUME IInv /\ Gone /\ Unsaved /\ Matching /\ Ghostless, [Next]_vars
             PROVE  Ghostless'
  OBVIOUS
<1>0. ASSUME Aside PROVE Ghostless'
  BY <1>0 DEF Aside, IInv, TypeOK, Unsaved, Ghostless, NoGhost, Fresh
<1>1. ASSUME NEW users \in Users, NEW host \in Host \cup {None},
             CommitSystem([running EXCEPT !.user = users, !.host = host])
      PROVE  Ghostless'
  BY <1>1, Zenon DEF CommitSystem, augeas, Ghostless, NoGhost, Fresh
<1>2. ASSUME NEW enabled \in BOOLEAN, NEW clients \in Clienteles,
             CommitDhcp([running EXCEPT !.dhcp = enabled, !.client = clients])
      PROVE  Ghostless'
  BY <1>2, Zenon DEF CommitDhcp, augeas, Ghostless, NoGhost, Fresh
<1>3. ASSUME NEW u \in User, NEW works \in BOOLEAN, HandleUserUpdate(u, works)
      PROVE  Ghostless'
  <2>1. CASE UserDone(u)
    BY <2>1, LateSetupAssumption, Zenon
       DEF UserDone, IInv, TypeOK, Shadow, Ghostless,
       NoGhost, Fresh
  <2>2. CASE UserCut(u)
    BY <2>2
       DEF UserCut, IInv, TypeOK, Phase, Unsaved, Matching, Stands,
       Configured,
       UserDiff, Fresh, Ghostless, NoGhost
  <2> QED
    BY <1>3, <2>1, <2>2, UserUpdateStep, Zenon
<1>4. ASSUME NEW u \in User, NEW works \in BOOLEAN, HandlePasswdUpdate(u, works)
      PROVE  Ghostless'
  <2>1. CASE PasswordDone(u)
    BY <2>1, Zenon
       DEF PasswordDone, IInv, TypeOK, Shadow, Ghostless, NoGhost, Fresh
  <2>2. CASE PasswordPassed(u)
    BY <2>2, Zenon DEF PasswordPassed, Ghostless, NoGhost, Fresh
  <2>3. CASE PasswordCut
    BY <2>3 DEF PasswordCut, IInv, TypeOK, Ghostless, NoGhost, Fresh
  <2> QED
    BY <1>4, <2>1, <2>2, <2>3, PasswdUpdateStep, Zenon
<1>5. ASSUME NEW u \in User, NEW works \in BOOLEAN, GenerateAuthKeys(u, works)
      PROVE  Ghostless'
  BY <1>0, <1>5, AsideStep, Zenon
<1>6. ASSUME NEW works \in BOOLEAN, AugLoad(works)
      PROVE  Ghostless'
  BY <1>6, ReturnStep
     DEF AugLoad, AbandonAuth, config, Count, IInv, TypeOK, Phase,
     Unsaved, Ghostless, NoGhost, Fresh
<1>7. ASSUME NEW works \in BOOLEAN, NEW f \in File, AugSave(f, works)
      PROVE  Ghostless'
  BY <1>7, SaveStep DEF IInv, TypeOK, Phase, Ghostless, NoGhost, Fresh
<1>8. ASSUME NEW works \in BOOLEAN, NEW i \in Iface, ClientChange(i, works)
      PROVE  Ghostless'
  BY <1>0, <1>8, AsideStep, Zenon
<1>9. CASE PasswordsDone
  BY <1>9, Zenon DEF PasswordsDone, augeas, Ghostless, NoGhost, Fresh
<1>10. CASE Saved
  BY <1>10, SavedStep, Zenon DEF Ghostless, NoGhost, Fresh
<1>11. CASE AuthDone
  BY <1>0, <1>11, AsideStep, Zenon
<1>12. ASSUME NEW n \in 0..3, ChangeHostname(n)
       PROVE  Ghostless'
  BY <1>12, HostnameStep DEF IInv, TypeOK, Ghostless, NoGhost, Fresh
<1>13. CASE ClientsDone
  BY <1>0, <1>13, AsideStep, Zenon
<1>14. CASE NoData
  BY <1>14, NoDataStep
     DEF IInv, TypeOK, Unsaved, Ghostless, NoGhost, Fresh, augeas
<1>15. CASE Restart
  BY <1>15 DEF Restart, IInv, TypeOK, Ghostless, NoGhost, Fresh
<1>16. CASE UNCHANGED vars
  BY <1>16, Zenon
     DEF vars, config, augeas, history, Ghostless, NoGhost, Fresh
<1> QED
  BY <1>1, <1>2, <1>3, <1>4, <1>5, <1>6, <1>7, <1>8, <1>9, <1>10, <1>11,
     <1>12,
     <1>13, <1>14, <1>15, <1>16, Zenon DEF Next

-----------------------------------------------------------------------------
(* While change_auth_done() is setting passwords, the tree has what is due *)
(* for every user but those it is yet to come to; so it has later, if it   *)
(* was not saved.                                                          *)
TreeDue(u) ==
  /\ Fresh => (at = "passwords" /\ u \in todo /\ u \in accounts)
              \/ tree.shadow[u] = Due(u)
  /\ ~ Fresh /\ at # "users" /\ "shadow" \in dirty => tree.shadow[u] = Due(u)

(* The file has what is due for every user but those change_auth_done()    *)
(* has yet to create or delete, and those whose password it has yet to     *)
(* change.                                                                 *)
FileDue(u) ==
  \/ Fresh /\ u \in PasswordDiff(was, running)
  \/ /\ at = "users"
     /\ u \in todo \/ (u \in accounts /\ u \in PasswordDiff(was, running))
  \/ files.shadow[u] = Due(u)

AccountsInv ==
  faults <= 1 => \A u \in User \ left : TreeDue(u) /\ FileDue(u)

(* Only valid names become accounts.                                       *)
ValidNames ==
  /\ at = "users" => \A u \in todo : IsValidUsername(u)
  /\ \A u \in accounts : IsValidUsername(u)

(* What is due for a user is in the file once change_auth_done() is through. *)
LEMMA AccountsStep ==
  IInv /\ Gone /\ Unsaved /\ Matching /\ AccountsInv /\ [Next]_vars => AccountsInv'
<1> SUFFICES ASSUME IInv /\ Gone /\ Unsaved /\ Matching /\ AccountsInv, [Next]_vars
             PROVE  AccountsInv'
  OBVIOUS
<1>0. ASSUME Aside PROVE AccountsInv'
  BY <1>0
     DEF Aside, IInv, TypeOK, Unsaved, AccountsInv, TreeDue, FileDue, Due,
     Fresh
<1>1. ASSUME NEW users \in Users, NEW host \in Host \cup {None},
             CommitSystem([running EXCEPT !.user = users, !.host = host])
      PROVE  AccountsInv'
  <2> DEFINE c == [running EXCEPT !.user = users, !.host = host]
  <2> SUFFICES ASSUME faults <= 1, NEW u \in User \ left
               PROVE  TreeDue(u)' /\ FileDue(u)'
    BY <1>1, Zenon DEF CommitSystem, AccountsInv
  <2>1. /\ running' = c /\ was' = running /\ at = "idle"
        /\ at' \in {"users", "host"} /\ (at' = "host" => c.user = running.user)
        /\ at' = "users" => todo' = UserDiff(running, c)
        /\ UNCHANGED <<accounts, files, tree, dirty>>
    BY <1>1, Zenon DEF CommitSystem, augeas
  <2> HIDE DEF c
  <2>2. files.shadow[u] = Due(u) /\ ("shadow" \in dirty => tree.shadow[u] = Due(u))
    BY <2>1, Zenon DEF AccountsInv, TreeDue, FileDue, Fresh
  <2>3. u \in accounts <=> running.user[u] # Absent
    BY <2>1, Zenon DEF Matching, Stands, Configured
  <2>4. CASE at' = "host"
    BY <2>1, <2>2, <2>4, Zenon DEF TreeDue, FileDue, Fresh, Due
  <2>5. CASE at' = "users"
    <3>1. ASSUME u \notin UserDiff(running, c), u \notin PasswordDiff(running, c)
          PROVE  Due(u)' = Due(u)
      BY <2>1, <3>1, Zenon DEF UserDiff, PasswordDiff, PasswordOf, Due
    <3>2. ASSUME u \notin UserDiff(running, c), u \in PasswordDiff(running, c)
          PROVE  u \in accounts
      BY <2>3, <3>2, Zenon DEF UserDiff, PasswordDiff, PasswordOf
    <3> QED
      BY <2>1, <2>2, <2>5, <3>1, <3>2, Zenon DEF TreeDue, FileDue, Fresh
  <2> QED
    BY <2>1, <2>4, <2>5, Zenon
<1>2. ASSUME NEW enabled \in BOOLEAN, NEW clients \in Clienteles,
             CommitDhcp([running EXCEPT !.dhcp = enabled, !.client = clients])
      PROVE  AccountsInv'
  <2>1. \A u \in User : Due(u)' = Due(u)
    BY <1>2, Zenon DEF CommitDhcp, IInv, TypeOK, Config, Due
  <2> QED
    BY <1>2, <2>1, Zenon
       DEF CommitDhcp, augeas, AccountsInv, TreeDue, FileDue, Fresh
<1>3. ASSUME NEW u \in User, NEW works \in BOOLEAN, HandleUserUpdate(u, works)
      PROVE  AccountsInv'
  <2>1. CASE UserDone(u)
    <3> SUFFICES ASSUME faults <= 1, NEW v \in User \ left'
                 PROVE  TreeDue(v)' /\ FileDue(v)'
      BY <2>1, Zenon DEF UserDone, AccountsInv
    <3>1. TreeDue(v)'
      BY <2>1, Zenon DEF UserDone, TreeDue, Fresh
    <3>2. CASE v # u
      <4>1. /\ files'.shadow[v] = files.shadow[v] /\ (v \in accounts' <=> v \in accounts)
            /\ v \in todo' <=> v \in todo
            /\ Due(v)' = Due(v) /\ v \in User \ left
        BY <2>1, <3>2, Zenon DEF UserDone, Due, IInv, TypeOK, Shadow
      <4>2. FileDue(v)
        BY <4>1, Zenon DEF AccountsInv
      <4> QED
        BY <2>1, <3>1, <4>1, <4>2, Zenon DEF UserDone, FileDue, Fresh
    <3>3. CASE v = u
      <4>1. files'.shadow[u] = IF running.user[u] = Absent THEN None ELSE Locked
        BY <2>1, Zenon DEF UserDone, IInv, TypeOK, Shadow
      <4>2. running.user[u] # Absent => u \in accounts' /\ PasswordOf(was, u) = None
        BY <2>1, Zenon DEF UserDone, IInv, Phase, UserDiff, PasswordOf
      <4>3. Due(u)' = Due(u) /\ at' = "users" /\ was' = was /\ running' = running
        BY <2>1, Zenon DEF UserDone, Due
      <4>4. CASE running.user[u] = Absent \/ running.user[u].password = None
        BY <3>1, <3>3, <4>1, <4>3, <4>4, Zenon DEF FileDue, Due
      <4>5. CASE running.user[u] # Absent /\ running.user[u].password # None
        <5>1. u \in PasswordDiff(was, running)
          BY <4>2, <4>5, Zenon DEF PasswordDiff, PasswordOf
        <5> QED
          BY <3>1, <3>3, <4>2, <4>3, <4>5, <5>1, Zenon DEF FileDue
      <4> QED
        BY <4>4, <4>5, Zenon
    <3> QED
      BY <3>1, <3>2, <3>3, Zenon
  <2>2. CASE UserCut(u)
    <3>1. ASSUME faults' <= 1 PROVE "shadow" \notin dirty
      BY <2>2, <3>1
         DEF UserCut, IInv, TypeOK, Phase, Unsaved, Matching, Stands,
         Configured, UserDiff, Fresh
    <3> QED
      BY <2>2, <3>1
         DEF UserCut, IInv, TypeOK, AccountsInv, TreeDue, FileDue, Due,
         Fresh
  <2> QED
    BY <1>3, <2>1, <2>2, UserUpdateStep, Zenon
<1>4. ASSUME NEW u \in User, NEW works \in BOOLEAN, HandlePasswdUpdate(u, works)
      PROVE  AccountsInv'
  <2>1. CASE PasswordDone(u)
    <3> SUFFICES ASSUME faults <= 1, NEW v \in User \ left'
                 PROVE  TreeDue(v)' /\ FileDue(v)'
      BY <2>1, Zenon DEF PasswordDone, AccountsInv
    <3>1. CASE v # u
      BY <2>1, <3>1, Zenon
         DEF PasswordDone, AccountsInv, TreeDue, FileDue, Due, Fresh,
         IInv, TypeOK, Shadow
    <3>2. CASE v = u
      BY <2>1, <3>2, Zenon
         DEF PasswordDone, TreeDue, FileDue, Due, Fresh, IInv, TypeOK,
         Phase, Shadow
    <3> QED
      BY <3>1, <3>2, Zenon
  <2>2. CASE PasswordPassed(u)
    BY <2>2, Zenon
       DEF PasswordPassed, AccountsInv, TreeDue, FileDue, Due, Fresh
  <2>3. CASE PasswordCut
    BY <2>3
       DEF PasswordCut, IInv, TypeOK, Phase, AccountsInv, TreeDue, FileDue,
       Due, Fresh
  <2> QED
    BY <1>4, <2>1, <2>2, <2>3, PasswdUpdateStep, Zenon
<1>5. ASSUME NEW u \in User, NEW works \in BOOLEAN, GenerateAuthKeys(u, works)
      PROVE  AccountsInv'
  BY <1>0, <1>5, AsideStep, Zenon
<1>6. ASSUME NEW works \in BOOLEAN, AugLoad(works)
      PROVE  AccountsInv'
  BY <1>6, ReturnStep
     DEF AugLoad, AbandonAuth, config, Count, IInv, TypeOK, Phase,
     Unsaved, AccountsInv, TreeDue, FileDue, Due, Fresh
<1>7. ASSUME NEW works \in BOOLEAN, NEW f \in File, AugSave(f, works)
      PROVE  AccountsInv'
  BY <1>7, SaveStep
     DEF IInv, TypeOK, Phase, AccountsInv, TreeDue, FileDue, Due,
     Fresh
<1>8. ASSUME NEW works \in BOOLEAN, NEW i \in Iface, ClientChange(i, works)
      PROVE  AccountsInv'
  BY <1>0, <1>8, AsideStep, Zenon
<1>9. CASE PasswordsDone
  BY <1>9, Zenon
     DEF PasswordsDone, config, augeas, history, AccountsInv, TreeDue,
     FileDue,
     Due, Fresh
<1>10. CASE Saved
  BY <1>10, SavedStep, Zenon
     DEF Unsaved, AccountsInv, TreeDue, FileDue, Due, Fresh
<1>11. CASE AuthDone
  BY <1>0, <1>11, AsideStep, Zenon
<1>12. ASSUME NEW n \in 0..3, ChangeHostname(n)
       PROVE  AccountsInv'
  BY <1>12, HostnameStep
     DEF IInv, TypeOK, AccountsInv, TreeDue, FileDue, Due, Fresh
<1>13. CASE ClientsDone
  BY <1>0, <1>13, AsideStep, Zenon
<1>14. CASE NoData
  BY <1>14, NoDataStep DEF IInv, TypeOK, Phase, Unsaved, AccountsInv, augeas,
     TreeDue, FileDue, Due, Fresh
<1>15. CASE Restart
  BY <1>15
     DEF Restart, IInv, TypeOK, Phase, AccountsInv, TreeDue, FileDue, Due,
     Fresh
<1>16. CASE UNCHANGED vars
  BY <1>16, Zenon
     DEF vars, config, augeas, history, AccountsInv, TreeDue, FileDue,
     Due, Fresh
<1> QED
  BY <1>1, <1>2, <1>3, <1>4, <1>5, <1>6, <1>7, <1>8, <1>9, <1>10, <1>11,
     <1>12,
     <1>13, <1>14, <1>15, <1>16, Zenon DEF Next

(* Names are checked when the changeset is, before anybody is created.     *)
LEMMA ValidNamesStep == IInv /\ Gone /\ ValidNames /\ [Next]_vars => ValidNames'
<1> SUFFICES ASSUME IInv /\ Gone /\ ValidNames, [Next]_vars PROVE ValidNames'
  OBVIOUS
<1>0. ASSUME Aside PROVE ValidNames'
  BY <1>0, Zenon DEF Aside, ValidNames
<1>1. ASSUME NEW users \in Users, NEW host \in Host \cup {None},
             CommitSystem([running EXCEPT !.user = users, !.host = host])
      PROVE  ValidNames'
  BY <1>1, Zenon DEF CommitSystem, ChangeAuthCheck, ValidNames
<1>2. ASSUME NEW enabled \in BOOLEAN, NEW clients \in Clienteles,
             CommitDhcp([running EXCEPT !.dhcp = enabled, !.client = clients])
      PROVE  ValidNames'
  BY <1>2, Zenon DEF CommitDhcp, ValidNames
<1>3. ASSUME NEW u \in User, NEW works \in BOOLEAN, HandleUserUpdate(u, works)
      PROVE  ValidNames'
  BY <1>3, UserUpdateStep, Zenon DEF UserDone, UserCut, ValidNames
<1>4. ASSUME NEW u \in User, NEW works \in BOOLEAN, HandlePasswdUpdate(u, works)
      PROVE  ValidNames'
  BY <1>4, PasswdUpdateStep, Zenon
     DEF PasswordDone, PasswordPassed, PasswordCut,
     ValidNames
<1>5. ASSUME NEW u \in User, NEW works \in BOOLEAN, GenerateAuthKeys(u, works)
      PROVE  ValidNames'
  BY <1>0, <1>5, AsideStep, Zenon
<1>6. ASSUME NEW works \in BOOLEAN, AugLoad(works)
      PROVE  ValidNames'
  BY <1>6, ReturnStep, Zenon
     DEF AugLoad, AbandonAuth, config, IInv, ValidNames
<1>7. ASSUME NEW works \in BOOLEAN, NEW f \in File, AugSave(f, works)
      PROVE  ValidNames'
  BY <1>7, SaveStep, Zenon DEF ValidNames
<1>8. ASSUME NEW works \in BOOLEAN, NEW i \in Iface, ClientChange(i, works)
      PROVE  ValidNames'
  BY <1>0, <1>8, AsideStep, Zenon
<1>9. CASE PasswordsDone
  BY <1>9, Zenon DEF PasswordsDone, ValidNames
<1>10. CASE Saved
  BY <1>10, SavedStep, Zenon DEF ValidNames
<1>11. CASE AuthDone
  BY <1>0, <1>11, AsideStep, Zenon
<1>12. ASSUME NEW n \in 0..3, ChangeHostname(n)
       PROVE  ValidNames'
  BY <1>12, HostnameStep, Zenon DEF ValidNames
<1>13. CASE ClientsDone
  BY <1>0, <1>13, AsideStep, Zenon
<1>14. CASE NoData
  BY <1>14, NoDataStep, Zenon DEF ValidNames
<1>15. CASE Restart
  BY <1>15, Zenon DEF Restart, IInv, ValidNames
<1>16. CASE UNCHANGED vars
  BY <1>16, Zenon DEF vars, config, augeas, history, ValidNames
<1> QED
  BY <1>1, <1>2, <1>3, <1>4, <1>5, <1>6, <1>7, <1>8, <1>9, <1>10, <1>11,
     <1>12,
     <1>13, <1>14, <1>15, <1>16, Zenon DEF Next

-----------------------------------------------------------------------------
(* No passwords at first.                                                  *)
LEMMA AccountsInit == Init => Ghostless /\ AccountsInv /\ ValidNames
<1> SUFFICES ASSUME Init PROVE Ghostless /\ AccountsInv /\ ValidNames
  OBVIOUS
<1>1. Ghostless
  BY InitFacts, Zenon DEF Init, Ghostless, NoGhost, Fresh
<1>2. AccountsInv
  BY InitFacts, Zenon DEF Init, AccountsInv, TreeDue, FileDue, Due, Fresh
<1>3. ValidNames
  BY Zenon DEF Init, ValidNames
<1> QED
  BY <1>1, <1>2, <1>3, Zenon

(* NoGhost holds in every reachable state: after at most one fault, the    *)
(* shadow file has an entry for an account if and only if the account is   *)
(* there, for any number of changesets.                                    *)
THEOREM NoGhostCorrect == Spec => []NoGhost
<1>1. Ghostless => NoGhost
  BY Zenon DEF Ghostless
<1> QED
  BY <1>1, AccountsInit, LateTypeCorrect, GoneCorrect, MatchingCorrect,
     GhostlessStep,
     PTL DEF Spec

(* Accounts holds in every reachable state: after at most one fault, users *)
(* of whom no change was cut short have the account and the password of    *)
(* the configuration, and accounts have valid names.                       *)
THEOREM AccountsCorrect == Spec => []Accounts
<1>1. Spec => []AccountsInv
  BY AccountsInit, LateTypeCorrect, GoneCorrect, MatchingCorrect,
     AccountsStep, PTL
     DEF Spec
<1>2. Spec => []ValidNames
  BY AccountsInit, LateTypeCorrect, GoneCorrect, ValidNamesStep, PTL DEF Spec
<1>3. IInv /\ Matching /\ AccountsInv /\ ValidNames => Accounts
  <2> SUFFICES ASSUME IInv, Matching, AccountsInv, ValidNames, at = "idle", faults <= 1,
                      NEW u \in User \ left
               PROVE  /\ u \in accounts => u[1] \notin {"digit", "-"}
                      /\ u \in accounts <=> u \in Configured(running)
                      /\ files.shadow[u] = Due(u)
    BY Zenon DEF Accounts
  <2>1. u \in accounts => u[1] \notin {"digit", "-"}
    BY Zenon DEF ValidNames, IsValidUsername
  <2>2. u \in accounts <=> u \in Configured(running)
    BY Zenon DEF Matching, Stands
  <2>3. files.shadow[u] = Due(u)
    BY Zenon DEF AccountsInv, FileDue, Fresh
  <2> QED
    BY <2>1, <2>2, <2>3, Zenon
<1> QED
  BY <1>1, <1>2, <1>3, LateTypeCorrect, MatchingCorrect, PTL
=============================================================================

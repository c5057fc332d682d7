------------------------------ MODULE NetTool ------------------------------
(***************************************************************************)
(* The tool net (net/src/main.c): "net do" moves the system from one       *)
(* generation of network configuration to the next, "net up" and "net      *)
(* down" set interfaces up or down.                                        *)
(*                                                                         *)
(* A generation is a directory with one directory for each interface, that *)
(* holds scripts and links to the interfaces it depends on.  Whoever       *)
(* prepares the next one adds exit scripts to the current one, and writes  *)
(* the number to the file next.  net runs the exit scripts in the reverse  *)
(* order of dependencies, that it has saved in the file rdeps when that    *)
(* generation was activated, then the init scripts in the order of         *)
(* dependencies, which it saves in deps and rdeps on the way, and finally  *)
(* replaces gen and removes next.                                          *)
(*                                                                         *)
(* Scripts for ip and bridge are lines for a pipe to one process each,     *)
(* which takes them from the pipe at any time, but has taken all of them   *)
(* when the pipe is closed; it stops at the first that fails.  Other       *)
(* scripts are executed at once and their failure is ignored.              *)
(***************************************************************************)
EXTENDS Naturals, Sequences, Functions

CONSTANTS
  None,        \* there is no such file
  Empty,       \* the file has been truncated and not written yet
  Names,       \* the sequence of all interfaces, in the order of their names
  Trees,       \* the directories that are prepared
  Leaving,     \* the exit scripts that are added to the current one
  Asked,       \* calls of net up and net down
  MaxGen,      \* bound on the number of generations
  MaxCrashes,  \* bound on the number of times that net is killed
  MaxFails,    \* bound on the number of commands that fail
  MaxUps       \* bound on the number of calls of net up and net down

Gen == 0 .. MaxGen - 1
Interface == Range(Names)
Tool == {"ip", "bridge", "ethtool"}
Pipe == {"ip", "bridge"}

ASSUME NetAssumption ==
  /\ {MaxGen, MaxCrashes, MaxFails, MaxUps} \subseteq Nat
  /\ Names \in Seq(Interface)

(* No files are mistaken for others.                                       *)
ASSUME NoneAssumption ==
  /\ None # Empty /\ {None, Empty} \cap Gen = {}
  /\ None \notin Trees /\ None \notin Seq(Interface)

(* In a directory interfaces depend on others of the same directory, and   *)
(* not on themselves.                                                      *)
ASSUME TreesAssumption ==
  \A t \in Trees :
    /\ DOMAIN t.deps \subseteq Interface
    /\ \A i \in DOMAIN t.deps : t.deps[i] \subseteq DOMAIN t.deps
    /\ \E rank \in [DOMAIN t.deps -> 0 .. Len(Names) - 1] :
         \A i \in DOMAIN t.deps : \A j \in t.deps[i] : rank[j] < rank[i]

VARIABLES
  tree,      \* tree[g]: the directory of generation g
  exits,     \* exits[g]: its exit scripts
  admin,     \* admin[g]: the files admin-state
  deps,      \* deps[g]: the file deps
  rdeps,     \* rdeps[g]: the file rdeps
  gen,       \* the file gen
  next,      \* the file next
  at,        \* what "net do" does: 1 .. 6 Action[at], and then 7 save
             \* rdeps, 8 and 9 gen, 10 remove next; 0 nothing
  pos,       \* the number of interfaces it has done that for
  curr,      \* the generation it deactivates
  dep,       \* it has added a line to deps
  pipe,      \* pipe[t]: lines that the process has not taken yet
  dead,      \* processes that have stopped
  executed,  \* the scripts that it has executed
  up,        \* "net up" or "net down"
  torn,      \* generations for which net was killed with deps complete
             \* and rdeps not written
  crashes, fails, ups

dirs == <<tree, exits>>
do == <<at, pos, curr, dep, pipe, dead, executed>>
count == <<crashes, fails, ups>>
vars == <<dirs, admin, deps, rdeps, gen, next, do, up, torn, count>>

Idle == at = 0
NoUp == [at |-> "idle", list |-> << >>, want |-> "up", gen |-> 0]

Init ==
  /\ tree = [g \in Gen |-> None]
  /\ exits = [g \in Gen |-> {}]
  /\ admin = [g \in Gen |-> << >>]
  /\ deps = [g \in Gen |-> << >>]
  /\ rdeps = [g \in Gen |-> None]
  /\ gen = None /\ next = None
  /\ at = 0 /\ pos = 0 /\ curr = None /\ dep = FALSE
  /\ pipe = [t \in Pipe |-> << >>] /\ dead = {} /\ executed = {}
  /\ up = NoUp
  /\ torn = {}
  /\ crashes = 0 /\ fails = 0 /\ ups = 0

-----------------------------------------------------------------------------
(***************************************************************************)
(* Whoever uses net, as its README tells.                                  *)
(***************************************************************************)

Script(g, kind, t, i) == [gen |-> g, do |-> kind, tool |-> t, if |-> i]

Ifs(g) == DOMAIN tree[g].deps

(* The next generation is prepared: t, and exit scripts in the current one *)
(* for some of its interfaces.                                             *)
Prepare(g, t, leaving) ==
  /\ Idle /\ next = None
  /\ tree[g] = None /\ \A h \in Gen : h < g => tree[h] # None
  /\ tree' = [tree EXCEPT ![g] = t]
  /\ admin' = [admin EXCEPT ![g] = t.admin]
  /\ exits' = IF gen \notin Gen THEN exits
              ELSE [exits EXCEPT ![gen] = leaving \cap (Ifs(gen) \X Tool)]
  /\ next' = g
  /\ UNCHANGED <<deps, rdeps, gen, do, up, torn, count>>

-----------------------------------------------------------------------------
(***************************************************************************)
(* The order of scripts.                                                   *)
(***************************************************************************)

(* Mutant of Action: exit.ip twice.                                        *)
ActionTwice == <<"bridge", "ip", "ip", "ethtool", "ip", "bridge">>

(* The arrays of deactivate() and of activate().                           *)
Action == <<"bridge", "ip", "ethtool", "ethtool", "ip", "bridge">>

Exiting == at \in 1 .. 3

Entering == at \in 4 .. 6

(* dir(): the interfaces of S in the order of their names, and f for each. *)
(* f takes the interfaces that were seen before, and adds some.            *)
EachOf(f, S, seen) ==
  LET after[k \in 0 .. Len(Names)] ==
        IF k = 0 THEN seen
        ELSE IF Names[k] \in S THEN f[<<Names[k], after[k - 1]>>]
        ELSE after[k - 1]
  IN after[Len(Names)]

Added(seen, i) == IF i \in Range(seen) THEN seen ELSE Append(seen, i)

(* Mutant of Visited: i comes first.                                       *)
VisitedDown(t, f, i, seen) == EachOf(f, t.deps[i], Added(seen, i))

(* deps() for i: the interfaces that it depends on, and then i.  Only the  *)
(* first visit has an effect.                                              *)
Visited(t, f, i, seen) == Added(EachOf(f, t.deps[i], seen), i)

(* deps() calls itself no deeper than there are interfaces.                *)
Deps(t) ==
  LET visit[n \in 0 .. Len(Names)] ==
        [p \in Interface \X Seq(Interface) |->
           IF n = 0 THEN p[2] ELSE Visited(t, visit[n - 1], p[1], p[2])]
  IN visit[Len(Names)]

(* iter(): deps() for every interface.                                     *)
Order(t) == EachOf(Deps(t), DOMAIN t.deps, << >>)

(* What the loops of rdeps() and of iter() are over.                       *)
List ==
  IF Entering THEN Order(tree[next])
  ELSE IF rdeps[curr] = None THEN << >> ELSE rdeps[curr]

-----------------------------------------------------------------------------
(***************************************************************************)
(* activate_next()                                                         *)
(***************************************************************************)

(* There is a next generation, and the current one is known or there is    *)
(* none.  A file gen that is empty is an error.                            *)
Start ==
  /\ Idle
  /\ next # None
  /\ gen # Empty
  /\ curr' = gen
  /\ at' = IF gen = None THEN 4 ELSE 1
  /\ pos' = 0
  /\ dep' = FALSE
  /\ UNCHANGED <<dirs, admin, deps, rdeps, gen, next, pipe, dead, executed, up,
                 torn, count>>

Step ==
  /\ at' = IF at = 10 THEN 0 ELSE at + 1
  /\ pos' = 0
  /\ UNCHANGED <<dirs, admin, curr, up, torn, count>>

(* One pass of a loop.                                                     *)
Pass ==
  /\ pos < Len(List)
  /\ pos' = pos + 1
  /\ UNCHANGED <<dirs, admin, at, curr, up, torn, count>>

(* run(): a line for a pipe, or a shell script.                            *)
Runs(s) ==
  IF s.tool \in Pipe
    THEN /\ pipe' = [pipe EXCEPT ![s.tool] = Append(@, s)]
         /\ UNCHANGED executed
    ELSE /\ executed' = executed \cup {s}
         /\ UNCHANGED pipe

(* The loop of rdeps(): the exit script, if there is one.                  *)
Run ==
  /\ Exiting /\ Pass
  /\ LET s == Script(curr, "exit", Action[at], List[pos + 1]) IN
     IF <<s.if, s.tool>> \in exits[curr] THEN Runs(s)
     ELSE UNCHANGED <<pipe, executed>>
  /\ UNCHANGED <<deps, rdeps, gen, next, dep, dead>>

RunEnd ==
  /\ Exiting /\ pos = Len(List)
  /\ Step
  /\ UNCHANGED <<deps, rdeps, gen, next, dep, pipe, dead, executed>>

(* savedep(): added to the file unless it is there.                        *)
Savedep(i) ==
  IF i \in Range(deps[next]) THEN UNCHANGED <<deps, dep>>
  ELSE /\ deps' = [deps EXCEPT ![next] = Append(@, i)]
       /\ dep' = TRUE

(* The rest of deps(), after the interfaces that it depends on.            *)
Visit ==
  /\ Entering /\ Pass
  /\ LET s == Script(next, "init", Action[at], List[pos + 1]) IN
     /\ Savedep(s.if)
     /\ IF <<s.if, s.tool>> \in tree[next].init THEN Runs(s)
        ELSE UNCHANGED <<pipe, executed>>
  /\ UNCHANGED <<rdeps, gen, next, dead>>

(* Mutant of Close: fclose().                                              *)
CloseFile ==
  /\ Entering /\ pos = Len(List)
  /\ Step
  /\ UNCHANGED <<deps, rdeps, gen, next, dep, pipe, dead, executed>>

(* The end of iter().  pclose(): the process has taken all lines.          *)
Close ==
  /\ Entering /\ pos = Len(List)
  /\ Action[at] \in Pipe => pipe[Action[at]] = << >>
  /\ Step
  /\ UNCHANGED <<deps, rdeps, gen, next, dep, pipe, dead, executed>>

(* The lines of a file from the last to the first.                         *)
Reversed(s) == [k \in DOMAIN s |-> s[Len(s) - k + 1]]

(* Mutant of SaveRdeps: if there are no dependencies.                      *)
SaveRdepsNot ==
  /\ at = 7 /\ Step
  /\ rdeps' = IF ~dep THEN [rdeps EXCEPT ![next] = Reversed(deps[next])] ELSE rdeps
  /\ UNCHANGED <<deps, gen, next, dep, pipe, dead, executed>>

(* save_rdeps(), if this call of net has added a line to deps.             *)
SaveRdeps ==
  /\ at = 7 /\ Step
  /\ rdeps' = IF dep THEN [rdeps EXCEPT ![next] = Reversed(deps[next])] ELSE rdeps
  /\ UNCHANGED <<deps, gen, next, dep, pipe, dead, executed>>

(* save_gen(): the file is truncated, then written.                        *)
Truncate ==
  /\ at = 8 /\ Step
  /\ gen' = Empty
  /\ UNCHANGED <<deps, rdeps, next, dep, pipe, dead, executed>>

SaveGen ==
  /\ at = 9 /\ Step
  /\ gen' = next
  /\ UNCHANGED <<deps, rdeps, next, dep, pipe, dead, executed>>

RemoveNext ==
  /\ at = 10 /\ Step
  /\ next' = None
  /\ executed' = {} /\ dead' = {}
  /\ UNCHANGED <<deps, rdeps, gen, dep, pipe>>

-----------------------------------------------------------------------------
(***************************************************************************)
(* ip -batch and bridge -batch; net is killed.                             *)
(***************************************************************************)

(* The process takes a line and executes it.                               *)
Execute(t) ==
  /\ ~Idle
  /\ t \notin dead /\ pipe[t] # << >>
  /\ executed' = executed \cup {Head(pipe[t])}
  /\ pipe' = [pipe EXCEPT ![t] = Tail(@)]
  /\ UNCHANGED <<dirs, admin, deps, rdeps, gen, next, at, pos, curr, dep, dead, up,
                 torn, count>>

(* It fails, and the process stops.  What is in the pipe is lost.          *)
Fail(t) ==
  /\ ~Idle
  /\ fails < MaxFails
  /\ t \notin dead /\ pipe[t] # << >>
  /\ dead' = dead \cup {t}
  /\ pipe' = [pipe EXCEPT ![t] = << >>]
  /\ fails' = fails + 1
  /\ UNCHANGED <<dirs, admin, deps, rdeps, gen, next, at, pos, curr, dep, executed,
                 up, torn, crashes, ups>>

Killed ==
  /\ at' = 0 /\ pos' = 0
  /\ pipe' = [t \in Pipe |-> << >>] /\ dead' = {} /\ executed' = {}
  /\ torn' = IF rdeps[next] = None /\ Range(deps[next]) = Ifs(next)
               THEN torn \cup {next} ELSE torn
  /\ UNCHANGED <<dirs, admin, deps, rdeps, gen, next, curr, dep, up, fails,
                 ups>>

(* The pipe is broken: SIGPIPE.                                            *)
Broken(t) ==
  /\ ~Idle
  /\ t \in dead /\ pipe[t] # << >>
  /\ Killed
  /\ UNCHANGED crashes

(* At any other time.                                                      *)
Kill ==
  /\ ~Idle
  /\ crashes < MaxCrashes
  /\ crashes' = crashes + 1
  /\ Killed

-----------------------------------------------------------------------------
(***************************************************************************)
(* ifupdown()                                                              *)
(***************************************************************************)

Dir(S) == SelectSeq(Names, LAMBDA i : i \in S)

(* For the interfaces that are named, or all those of the generation.  It  *)
(* is an error if there is none.                                           *)
UpStart(want, names) ==
  /\ up.at = "idle"
  /\ ups < MaxUps
  /\ gen \notin {None, Empty}
  /\ up' = [at |-> "check", want |-> want, gen |-> gen,
            list |-> IF names = {} THEN Dir(Ifs(gen)) ELSE Dir(names)]
  /\ ups' = ups + 1
  /\ UNCHANGED <<dirs, admin, deps, rdeps, gen, next, do, torn, crashes, fails>>

(* What a process reads or writes is that of the generation of that time.  *)
AdminState(i) == IF i \in DOMAIN admin[gen] THEN admin[gen][i] ELSE "none"

Up(here) ==
  /\ up.at = here
  /\ UNCHANGED <<dirs, deps, rdeps, gen, next, do, torn, count>>

(* Mutant of Allowed: whatever the file says.                              *)
AllowedAny(i) == TRUE

Allowed(i) == AdminState(i) # "disabled"

(* An interface that is not allowed is skipped.                            *)
UpCheck ==
  /\ Up("check")
  /\ up.list # << >> /\ gen # Empty
  /\ up' = IF Allowed(Head(up.list)) THEN [up EXCEPT !.at = "set", !.gen = gen]
           ELSE [up EXCEPT !.list = Tail(@)]
  /\ UNCHANGED admin

(* ip link set succeeds, and the file is written if there is a directory,  *)
(* or fails.                                                               *)
UpSet ==
  LET i == Head(up.list) IN
  /\ Up("set")
  /\ gen # Empty
  /\ up' = [up EXCEPT !.at = "check", !.list = Tail(@)]
  /\ \/ UNCHANGED admin
     \/ /\ i \in DOMAIN admin[gen]
        /\ admin' = [admin EXCEPT ![gen][i] = up.want]

(* All done, or the file gen cannot be read.                               *)
UpEnd ==
  /\ up.at # "idle"
  /\ up.list = << >> \/ gen = Empty
  /\ up' = NoUp
  /\ UNCHANGED <<dirs, admin, deps, rdeps, gen, next, do, torn, count>>

Do ==
  \/ Start \/ Run \/ RunEnd \/ Visit \/ Close
  \/ SaveRdeps \/ Truncate \/ SaveGen \/ RemoveNext

Next ==
  \/ \E g \in Gen, t \in Trees, leaving \in Leaving : Prepare(g, t, leaving)
  \/ Do
  \/ \E t \in Pipe : Execute(t) \/ Fail(t) \/ Broken(t)
  \/ Kill
  \/ \E a \in Asked : UpStart(a.want, a.names)
  \/ UpCheck \/ UpSet \/ UpEnd

Spec == Init /\ [][Next]_vars

-----------------------------------------------------------------------------
(***************************************************************************)
(* Properties.                                                             *)
(***************************************************************************)

Below(g, i) == tree[g].deps[i]

(* "Essentially, all leaves must be set up before their parents": an init  *)
(* script is executed after those of the interfaces it depends on, and     *)
(* "we must do so in the dependency order of the current generation": an   *)
(* exit script is executed after those of the interfaces that depend on    *)
(* it, also if commands fail.                                              *)
InOrder ==
  \A s \in executed : \A j \in Ifs(s.gen) :
    LET other == [s EXCEPT !.if = j] IN
    /\ s.do = "init" /\ j \in Below(s.gen, s.if) /\ <<j, s.tool>> \in tree[s.gen].init
         => other \in executed
    /\ s.do = "exit" /\ s.if \in Below(s.gen, j) /\ <<j, s.tool>> \in exits[s.gen]
         => other \in executed

(* Each tool executes the exit scripts of the current generation before    *)
(* the init scripts of the next one, if the file rdeps is there.           *)
ExitsFirst ==
  \A s \in executed : s.do = "init" /\ curr # None =>
    \A i \in Ifs(curr) : rdeps[curr] # None /\ <<i, s.tool>> \in exits[curr] =>
      Script(curr, "exit", s.tool, i) \in executed

(* The file rdeps, which the exit scripts are found with, has all          *)
(* interfaces once, each before those that it depends on, even if it was   *)
(* written by a second attempt.  It is there once the generation is the    *)
(* current one, except if net was killed between the last line of deps and *)
(* rdeps: the second attempt adds nothing to deps, and takes that for "no  *)
(* deps".                                                                  *)
RdepsSaved ==
  /\ gen \in Gen => rdeps[gen] # None \/ gen \in torn \/ Ifs(gen) = {}
  /\ \A g \in Gen : rdeps[g] # None =>
       LET r == rdeps[g] IN
       /\ Range(r) = Ifs(g)
       /\ \A j, k \in DOMAIN r :
            /\ r[j] = r[k] => j = k
            /\ r[k] \in Below(g, r[j]) => j < k

(* "When done, it writes 0 to the file /run/net/gen and then removes the   *)
(* next file to confirm the generation has been activated": all scripts    *)
(* have been executed before the file gen is touched, except for those of  *)
(* a tool that has stopped.                                                *)
Confirmed ==
  at \in 8 .. 10 =>
    \A i \in Ifs(next), t \in Tool \ dead :
      <<i, t>> \in tree[next].init => Script(next, "init", t, i) \in executed

(* "is the interface eligible for being taken up/down?": an interface      *)
(* stays disabled, unless another generation became the current one        *)
(* between the question and the answer.                                    *)
DisabledKept ==
  [][\A g \in Gen : \A i \in DOMAIN admin[g] :
       admin[g][i] = "disabled" /\ admin'[g][i] # "disabled" => up.gen # g]_vars

=============================================================================

---------------------------- MODULE ProfethEvents ----------------------------
(***************************************************************************)
(* The event loop of profeth, the PROFINET device: app_loop_forever() of   *)
(* sampleapp_common.c with its handlers, the callbacks that the p-net      *)
(* stack calls, and the list of connections (application relations, ARs)   *)
(* of app_utils.c through which the two talk to each other.                *)
(*                                                                         *)
(* A callback marks an event in the entry of its connection and in the     *)
(* flags that the loop waits for.  The loop takes a copy of the flags and  *)
(* handles the events in a fixed order; a handler clears the flag, visits  *)
(* the entries and clears the event in each.  The stack runs within the    *)
(* timer event, and its callbacks with it, so that what they mark is       *)
(* handled in the next round.                                              *)
(***************************************************************************)
EXTENDS Naturals, FiniteSets, FiniteSetsExt

CONSTANTS
  Arep,    \* the references of connections
  None,    \* UINT32_MAX: no connection
  MaxAR,   \* PNET_MAX_AR: size of the list, and number of connections at once
  Button,  \* whether there is a button 2 (option -d)
  Outputs, \* whether controllers use the output submodule
  Prompt   \* whether the loop has dealt with a closed connection before a
           \* controller gets a new one as far as the end of its parameters

ASSUME MaxARAssumption == MaxAR \in Nat \ {0}
ASSUME FlagsAssumption == {Button, Outputs, Prompt} \subseteq BOOLEAN
ASSUME NoneAssumption == None \notin Arep

Index == 0 .. MaxAR - 1

(* The events of a connection, and the tick.                               *)
ArEvent == {"ready", "alarm", "released", "abort"}
Event == ArEvent \cup {"timer"}

VARIABLES
  ar,        \* ar[i]: an entry of the list
  main,      \* main_events: the flags that the loop waits for
  flags,     \* those of its copy of them that it has not dealt with yet
  at,        \* whether it is in the loop, or how far within the timer event
  allowed,   \* alarm_allowed
  alarmArg,  \* alarm_arg: whose alarm was indicated last
  demo,      \* alarm_demo_state: what button 2 does next
  out,       \* the outputs are those of a controller, not the default
  conn,      \* conn[a]: how far the stack has got with a connection
  owner,     \* the connection that the output submodule belongs to
  sent,      \* sent[a]: process alarms that a has not confirmed
  alarms,    \* connections whose alarm we have not acknowledged
  released   \* connections that wait for us to confirm a released submodule

loop == <<flags, at>>
stack == <<conn, owner, sent, alarms, released>>
vars == <<ar, main, loop, allowed, alarmArg, demo, out, stack>>

(* The events of an unused entry are not looked at, and cleared when it is *)
(* taken.                                                                  *)
Unused == [arep |-> None, events |-> {}]

Init ==
  /\ ar = [i \in Index |-> Unused]
  /\ main = {} /\ flags = {} /\ at = "loop"
  /\ allowed = TRUE /\ alarmArg = None /\ demo = "alarm"
  /\ out = FALSE
  /\ conn = [a \in Arep |-> "idle"]
  /\ owner = None
  /\ sent = [a \in Arep |-> 0] /\ alarms = {} /\ released = {}

-----------------------------------------------------------------------------
(***************************************************************************)
(* The list of connections.                                                *)
(***************************************************************************)

(* app_ar_iterator_next(): the entries before the first unused one.        *)
Visited == {i \in Index : \A k \in 0 .. i : ar[k].arep # None}

(* ... and at the end, if an entry was deleted: entry i, if unused, gets   *)
(* the next used one.  The search stops with the last.                     *)
Close(s, i) ==
  LET later == {j \in Index : j > i /\ s.ar[j].arep # None} IN
  IF s.stop \/ s.ar[i].arep # None THEN s
  ELSE IF later = {} THEN [s EXCEPT !.stop = TRUE]
  ELSE LET j == Min(later)
       IN [ar |-> [s.ar EXCEPT ![i] = s.ar[j], ![j] = Unused],
           stop |-> j >= MaxAR - 1]

(* Mutant of Compact: the entries stay where they are.                     *)
CompactNot(list) == list

Compact(list) ==
  LET after[n \in 0 .. MaxAR] ==
        IF n = 0 THEN [ar |-> list, stop |-> FALSE]
        ELSE Close(after[n - 1], n - 1)
  IN after[MaxAR].ar

(* app_event_set(): mark the event in the entry of a.  If there is none    *)
(* and it may be added, it takes the first unused entry, if there is one.  *)
Marked(a, event, add) ==
  LET mine == {i \in Visited : ar[i].arep = a}
      free == {i \in Index : ar[i].arep = None}
  IN IF mine # {} THEN [ar EXCEPT ![Min(mine)].events = @ \cup {event}]
     ELSE IF add /\ free # {}
       THEN [ar EXCEPT ![Min(free)] = [arep |-> a, events |-> {event}]]
     ELSE ar

EventSet(a, event, add) ==
  /\ ar' = Marked(a, event, add)
  /\ main' = main \cup {event}

(* app_is_connected_to_controller()                                        *)
Connected == ar[0].arep # None

-----------------------------------------------------------------------------
(***************************************************************************)
(* The loop.                                                               *)
(***************************************************************************)

(* The order of the handlers.                                              *)
Order == [ready |-> 1, alarm |-> 2, timer |-> 3, released |-> 4, abort |-> 5]

Turn(event) ==
  /\ at = "loop"
  /\ event \in flags
  /\ \A e \in flags : Order[event] <= Order[e]

Tick ==
  /\ "timer" \notin main
  /\ main' = main \cup {"timer"}
  /\ UNCHANGED <<ar, loop, allowed, alarmArg, demo, out, stack>>

Wait ==
  /\ at = "loop"
  /\ flags = {}
  /\ main # {}
  /\ flags' = main
  /\ UNCHANGED <<ar, main, at, allowed, alarmArg, demo, out, stack>>

(* Whose event it is.                                                      *)
Marks(event) == {i \in Visited : event \in ar[i].events}
MarkedBy(event) == {ar[i].arep : i \in Marks(event)}

(* app_handle_event_ar(), up to the handler: the flag first, the entries   *)
(* then.                                                                   *)
Cleared(event) ==
  [i \in Index |-> IF i \in Marks(event)
                     THEN [ar[i] EXCEPT !.events = @ \ {event}] ELSE ar[i]]

Handle(event) ==
  /\ Turn(event)
  /\ flags' = flags \ {event}
  /\ main' = main \ {event}
  /\ UNCHANGED <<at, alarmArg, demo, out, owner>>

(* Mutant of HandleReady: only the first connection is told.               *)
HandleReadyFirst ==
  /\ Handle("ready")
  /\ ar' = Cleared("ready")
  /\ conn' = [a \in Arep |-> IF a = ar[0].arep /\ "ready" \in ar[0].events
                                  /\ conn[a] = "prmend"
                               THEN "data" ELSE conn[a]]
  /\ UNCHANGED <<allowed, sent, alarms, released>>

(* pnet_application_ready(), which fails for a connection that was closed. *)
HandleReady ==
  /\ Handle("ready")
  /\ ar' = Cleared("ready")
  /\ conn' = [a \in Arep |-> IF a \in MarkedBy("ready") /\ conn[a] = "prmend"
                               THEN "data" ELSE conn[a]]
  /\ UNCHANGED <<allowed, sent, alarms, released>>

(* pnet_alarm_send_ack() with the alarm that was indicated last, which is  *)
(* of use to the one who raised it.                                        *)
HandleAlarm ==
  /\ Handle("alarm")
  /\ ar' = Cleared("alarm")
  /\ alarms' = alarms \ (MarkedBy("alarm") \cap {alarmArg})
  /\ UNCHANGED <<allowed, conn, sent, released>>

(* Mutant of HandleReleased: only the first connection is told.            *)
HandleReleasedFirst ==
  /\ Handle("released")
  /\ ar' = Cleared("released")
  /\ released' = released \ (MarkedBy("released") \cap {ar[0].arep})
  /\ UNCHANGED <<allowed, conn, sent, alarms>>

(* pnet_sm_released_cnf()                                                  *)
HandleReleased ==
  /\ Handle("released")
  /\ ar' = Cleared("released")
  /\ released' = released \ MarkedBy("released")
  /\ UNCHANGED <<allowed, conn, sent, alarms>>

(* The connection is deleted.  Alarms are allowed again, whichever it was. *)
HandleAbort ==
  /\ Handle("abort")
  /\ ar' = IF Marks("abort") = {} THEN ar
           ELSE Compact([i \in Index |-> IF i \in Marks("abort") THEN Unused ELSE ar[i]])
  /\ allowed' = TRUE
  /\ UNCHANGED <<conn, sent, alarms, released>>

-----------------------------------------------------------------------------
(***************************************************************************)
(* app_handle_event_timer(): cyclic data, button 2, the stack.             *)
(***************************************************************************)

(* Cyclic data is exchanged in every hundredth tick.  app_cyclic_data_     *)
(* callback() knows from the length that there is no output data since no  *)
(* connection drives the submodule, and sets the default, as it does for   *)
(* data that is not good.                                                  *)
Polled ==
  IF ~Connected THEN {out}
  ELSE IF owner # None /\ conn[owner] = "data" THEN {out, TRUE, FALSE}
  ELSE {out, FALSE}

HandleTimer ==
  /\ Turn("timer")
  /\ flags' = flags \ {"timer"}
  /\ main' = main \ {"timer"}
  /\ out' \in Polled
  /\ at' = "demo"
  /\ UNCHANGED <<ar, allowed, alarmArg, demo, stack>>

(* A connection is closed: app_state_ind() with PNET_EVENT_ABORT.          *)
Closed(a) ==
  /\ conn' = [conn EXCEPT ![a] = "idle"]
  /\ owner' = IF owner = a THEN None ELSE owner
  /\ sent' = [sent EXCEPT ![a] = 0]
  /\ alarms' = alarms \ {a}
  /\ released' = released \ {a}
  /\ out' = FALSE
  /\ EventSet(a, "abort", FALSE)

(* There is a button 2, it was pressed since the last tick that looked at  *)
(* it, and there is an input submodule to send alarms from.                *)
Pressed == at = "demo" /\ Button

NoPress ==
  /\ at = "demo"
  /\ at' = "periodic"
  /\ UNCHANGED <<ar, main, flags, allowed, alarmArg, demo, out, stack>>

(* APP_DEMO_STATE_ALARM_SEND.  The return code is not looked at: a stack   *)
(* that does not exchange data with the controller has sent nothing.       *)
PressAlarm ==
  /\ Pressed
  /\ demo = "alarm"
  /\ IF allowed /\ Connected
       THEN /\ allowed' = FALSE
            /\ sent' = [a \in Arep |-> IF a = ar[0].arep /\ conn[a] = "data"
                                       THEN sent[a] + 1 ELSE sent[a]]
       ELSE UNCHANGED <<allowed, sent>>
  /\ demo' = "calls"
  /\ at' = "periodic"
  /\ UNCHANGED <<ar, main, flags, alarmArg, out, conn, owner, alarms, released>>

(* Mutant of PressCalls: the connection is not closed before the next one. *)
PressCallsOver ==
  /\ Pressed
  /\ demo = "calls"
  /\ demo' \in {"calls", "alarm"}
  /\ at' = "periodic"
  /\ UNCHANGED <<ar, main, flags, allowed, alarmArg, out, stack>>

(* The nine states after it, which only call the stack.                    *)
PressCalls ==
  /\ Pressed
  /\ demo = "calls"
  /\ demo' \in {"calls", "abort"}
  /\ at' = "periodic"
  /\ UNCHANGED <<ar, main, flags, allowed, alarmArg, out, stack>>

(* APP_DEMO_STATE_ABORT_AR: pnet_ar_abort(), whose callback comes at once. *)
PressAbort ==
  /\ Pressed
  /\ demo = "abort"
  /\ IF Connected /\ conn[ar[0].arep] # "idle" THEN Closed(ar[0].arep)
     ELSE UNCHANGED <<ar, main, out, stack>>
  /\ demo' = "alarm"
  /\ at' = "periodic"
  /\ UNCHANGED <<flags, allowed, alarmArg>>

PeriodicEnd ==
  /\ at = "periodic"
  /\ at' = "loop"
  /\ UNCHANGED <<ar, main, flags, allowed, alarmArg, demo, out, stack>>

-----------------------------------------------------------------------------
(***************************************************************************)
(* pnet_handle_periodic(): the stack, and the callbacks.                   *)
(***************************************************************************)

Live == {a \in Arep : conn[a] # "idle"}

(* app_connect_ind().  The output submodule goes to one connection.        *)
Connect(a) ==
  /\ at = "periodic"
  /\ conn[a] = "idle"
  /\ Cardinality(Live) < MaxAR
  /\ conn' = [conn EXCEPT ![a] = "connect"]
  /\ owner' \in IF Outputs /\ owner = None THEN {None, a} ELSE {owner}
  /\ UNCHANGED <<ar, main, loop, allowed, alarmArg, demo, out, sent, alarms,
                 released>>

(* app_state_ind() with PNET_EVENT_PRMEND: "Send application ready at next *)
(* tick".                                                                  *)
PrmEnd(a) ==
  /\ at = "periodic"
  /\ conn[a] = "connect"
  /\ Prompt => \A i \in Index : "abort" \notin ar[i].events
  /\ conn' = [conn EXCEPT ![a] = "prmend"]
  /\ EventSet(a, "ready", TRUE)
  /\ UNCHANGED <<loop, allowed, alarmArg, demo, out, owner, sent, alarms,
                 released>>

(* Mutant of AbortInd: the outputs keep what the controller has set.       *)
AbortIndKeeps(a) ==
  /\ at = "periodic"
  /\ a \in Live
  /\ conn' = [conn EXCEPT ![a] = "idle"]
  /\ owner' = IF owner = a THEN None ELSE owner
  /\ sent' = [sent EXCEPT ![a] = 0]
  /\ alarms' = alarms \ {a}
  /\ released' = released \ {a}
  /\ EventSet(a, "abort", FALSE)
  /\ UNCHANGED <<loop, allowed, alarmArg, demo, out>>

(* The connection is closed, after app_release_ind() if by the controller. *)
AbortInd(a) ==
  /\ at = "periodic"
  /\ a \in Live
  /\ Closed(a)
  /\ UNCHANGED <<loop, allowed, alarmArg, demo>>

(* app_sm_released_ind()                                                   *)
SmReleasedInd(a) ==
  /\ at = "periodic"
  /\ conn[a] = "data"
  /\ a \notin released
  /\ released' = released \cup {a}
  /\ EventSet(a, "released", FALSE)
  /\ UNCHANGED <<loop, allowed, alarmArg, demo, out, conn, owner, sent, alarms>>

(* app_alarm_ind(): a controller raises one alarm at a time.               *)
AlarmInd(a) ==
  /\ at = "periodic"
  /\ conn[a] = "data"
  /\ a \notin alarms
  /\ alarms' = alarms \cup {a}
  /\ alarmArg' = a
  /\ EventSet(a, "alarm", FALSE)
  /\ UNCHANGED <<loop, allowed, demo, out, conn, owner, sent, released>>

(* app_alarm_cnf(): our process alarm is confirmed.                        *)
AlarmCnf(a) ==
  /\ at = "periodic"
  /\ sent[a] > 0
  /\ sent' = [sent EXCEPT ![a] = @ - 1]
  /\ allowed' = TRUE
  /\ UNCHANGED <<ar, main, loop, alarmArg, demo, out, conn, owner, alarms,
                 released>>

(* app_new_data_status_ind(), from the thread that receives frames: the    *)
(* controller stops or its data is not valid.                              *)
NewDataStatusInd ==
  /\ \E a \in Arep : conn[a] = "data"
  /\ out' = FALSE
  /\ UNCHANGED <<ar, main, loop, allowed, alarmArg, demo, stack>>

Timer == HandleTimer \/ NoPress \/ PressAlarm \/ PressCalls \/ PressAbort
           \/ PeriodicEnd

Loop ==
  \/ Wait
  \/ HandleReady \/ HandleAlarm \/ HandleReleased \/ HandleAbort
  \/ Timer

Callback ==
  \E a \in Arep : \/ Connect(a) \/ PrmEnd(a) \/ AbortInd(a)
                  \/ SmReleasedInd(a) \/ AlarmInd(a) \/ AlarmCnf(a)

Next == Tick \/ Loop \/ Callback \/ NewDataStatusInd

(* The timer goes on and the loop never stops; nothing else is owed.       *)
Fairness == WF_vars(Tick) /\ WF_vars(Loop)

Spec == Init /\ [][Next]_vars /\ Fairness

-----------------------------------------------------------------------------
(***************************************************************************)
(* Properties.                                                             *)
(***************************************************************************)

(* "A list which is terminated by an entry with arep == UINT32_MAX": there *)
(* are no holes, whichever connections are closed together, and no         *)
(* connection has two entries.                                             *)
ListIntact ==
  \A i \in Index, k \in Index :
    i < k /\ ar[k].arep # None => ar[i].arep \notin {None, ar[k].arep}

MarkedFor(a, event) ==
  /\ \E i \in Index : ar[i].arep = a /\ event \in ar[i].events
  /\ event \in main \cup flags

(* What the stack waits for is marked in an entry, and the loop has been   *)
(* or will be woken for it: application ready, the confirmation of a       *)
(* released submodule, the answer to an alarm whose argument we have.  A   *)
(* controller that data is exchanged with is in the list, so that cyclic   *)
(* data, alarms and the log book go on for as long as there is one.        *)
Owed ==
  \A a \in Arep : /\ conn[a] = "prmend" => MarkedFor(a, "ready")
                  /\ a \in released => MarkedFor(a, "released")
                  /\ a \in alarms /\ alarmArg = a => MarkedFor(a, "alarm")
                  /\ conn[a] = "data" => \E i \in Index : ar[i].arep = a

(* "Not allowed until ACK received": there is at most one process alarm    *)
(* that no controller has confirmed, although the end of any connection    *)
(* allows the next one.                                                    *)
OneAlarm ==
  \A a \in Arep, b \in Arep : sent[a] > 0 /\ sent[b] > 0 => a = b /\ sent[a] = 1

(* Without a controller that drives them the outputs have their default.   *)
SafeOutputs == out => owner # None /\ conn[owner] = "data"

(* "Send application ready at next tick": a connection whose parameters    *)
(* are complete is told that we are ready, unless it is closed.            *)
ReadyNextTick ==
  \A a \in Arep : conn[a] = "prmend" ~> conn[a] # "prmend"

=============================================================================

----------------------- MODULE DataConnectionMonitor ------------------------
(***************************************************************************)
(* Stall detection and recovery (services/src/data_connection_monitor.cpp) *)
(* with those who start and stop it.  Three threads share the monitor      *)
(* without a lock:                                                         *)
(*   - the handler starts detection when a call is established and stops   *)
(*     it when the last one is gone or all are cleared;                    *)
(*   - observers stop and start it for a voice call on GSM and when the    *)
(*     screen is switched;                                                 *)
(*   - the monitor's own thread takes the timer event, counts packets,     *)
(*     takes the next step of recovery, which may clear all connections    *)
(*     and so stop detection, and sends the event again.                   *)
(* A start or a stop is a sequence of steps on the flag and on the event   *)
(* queue; steps of the threads interleave.  Calls are counted, those of    *)
(* MMS holders excepted, which ClearAllConnections spares.                 *)
(***************************************************************************)
EXTENDS Integers, Sequences

CONSTANTS
    RECOVERY_TRIGGER_PACKET,
    MaxCalls,                \* bound: calls at a time
    MaxDisturbances          \* bound: changes of calls, screen, radio and flow

ASSUME MonitorAssumption ==
    RECOVERY_TRIGGER_PACKET \in Nat /\ MaxCalls \in Nat /\ MaxDisturbances \in Nat

Threads == {"handler", "observer", "monitor"}

RecoveryStates == {"REQUEST_CONTEXT_LIST", "CLEANUP_CONNECTIONS",
                   "REREGISTER_NETWORK", "RADIO_STATUS_RESTART"}

\* What traffic does between two ticks.
Flows == {"none", "stalled", "answered"}

VARIABLES
    enabled,       \* stallDetectionEnabled_
    timers,        \* MSG_STALL_DETECTION_EVENT_ID events in the monitor's queue
    noRecvPackets, \* noRecvPackets_
    recoveryState, \* dataRecoveryState_
    todo,          \* what a thread still has to do of a start, a stop or a tick
    exempt,        \* history: detection may be off since the last clean start or stop
    live,          \* holders in PROFILE_STATE_CONNECTED
    dying,         \* holders in PROFILE_STATE_DISCONNECTING
    radio,         \* "on", "goingOff" or "goingOn"
    callBusy,      \* callState_ is neither IDLE nor DISCONNECTED
    gsm,           \* calls are voice calls on GSM; otherwise on IMS or another RAT
    flow,          \* current member of Flows
    disturbances   \* used part of the bound

monitorVars == <<noRecvPackets, recoveryState>>
timerVars == <<enabled, timers, todo, exempt>>
dataVars == <<live, dying, radio>>
phoneVars == <<callBusy, gsm, flow>>
vars == <<monitorVars, timerVars, dataVars, phoneVars, disturbances>>

Steps == {"disable", "remove", "enable", "check", "send", "rearm"}

\* The type invariant.  A timer event is sent after a test that there is none;
\* each of the three threads may have passed the test before another one sends.
TypeOK ==
    /\ enabled \in BOOLEAN /\ timers \in 0 .. 3
    /\ todo \in [Threads -> Seq(Steps)] /\ exempt \in BOOLEAN
    /\ noRecvPackets \in 0 .. RECOVERY_TRIGGER_PACKET
    /\ recoveryState \in RecoveryStates
    /\ live \in 0 .. MaxCalls /\ dying \in 0 .. MaxCalls /\ live + dying <= MaxCalls
    /\ radio \in {"on", "goingOff", "goingOn"}
    /\ callBusy \in BOOLEAN /\ gsm \in BOOLEAN /\ flow \in Flows
    /\ disturbances \in 0 .. MaxDisturbances

Init ==
    /\ enabled = FALSE /\ timers = 0
    /\ todo = [t \in Threads |-> <<>>] /\ exempt = FALSE
    /\ noRecvPackets = 0 /\ recoveryState = "REQUEST_CONTEXT_LIST"
    /\ live = 0 /\ dying = 0 /\ radio = "on"
    /\ callBusy = FALSE /\ gsm \in BOOLEAN /\ flow = "none"
    /\ disturbances = 0

-----------------------------------------------------------------------------
(* Starting and stopping.                                                  *)

\* Mutant: the flag is set after the event was sent.
StartStallDetectionTimer_FlagLast == <<"check", "enable">>

StartStallDetectionTimer == <<"enable", "check">>
StopStallDetectionTimer == <<"disable", "remove">>

Idle(t) == todo[t] = <<>>

\* Thread t is between the first and the last step of a start or a stop; the
\* sending of the event at the end of a tick does not count.
Switching(t) == \E i \in 1 .. Len(todo[t]) : todo[t][i] \in {"disable", "remove", "enable", "check"}

\* Thread t begins a start or a stop: two that overlap may undo each other.
Switch(t, steps) ==
    /\ todo' = [todo EXCEPT ![t] = steps]
    /\ exempt' = \E u \in Threads \ {t} : Switching(u)
    /\ UNCHANGED <<enabled, timers>>

\* Mutant: HasInnerEvent is not asked.
MustSend_Always(op) == op = "check" \/ (op = "rearm" /\ enabled)

\* HasInnerEvent, in a start and at the end of a tick, which wants the flag too.
MustSend(op) == timers = 0 /\ (op = "check" \/ (op = "rearm" /\ enabled))

\* The next step of thread t.
Step(t) ==
    /\ ~Idle(t)
    /\ LET op == Head(todo[t])
           rest == Tail(todo[t]) IN
        /\ todo' = [todo EXCEPT ![t] = IF MustSend(op) THEN <<"send">> \o rest ELSE rest]
        /\ enabled' = CASE op = "enable" -> TRUE [] op = "disable" -> FALSE [] OTHER -> enabled
        /\ timers' = CASE op = "send" -> timers + 1 [] op = "remove" -> 0 [] OTHER -> timers
    /\ UNCHANGED <<exempt, monitorVars, dataVars, phoneVars, disturbances>>

-----------------------------------------------------------------------------
(* The monitor's thread.                                                   *)

\* UpdateFlowInfo: packets sent without an answer ...
PacketsAfter == IF live = 0 THEN noRecvPackets
                ELSE [none |-> noRecvPackets, stalled |-> noRecvPackets + 1, answered |-> 0][flow]

\* ... and an answer ends the recovery.
StateAfterFlow == IF live > 0 /\ flow = "answered" THEN "REQUEST_CONTEXT_LIST" ELSE recoveryState

\* Mutant: the radio is never restarted.
NextRecoveryState_NoRestart(s) ==
    IF callBusy THEN "REQUEST_CONTEXT_LIST"
    ELSE [REQUEST_CONTEXT_LIST |-> "CLEANUP_CONNECTIONS",
          CLEANUP_CONNECTIONS  |-> "REREGISTER_NETWORK",
          REREGISTER_NETWORK   |-> "REQUEST_CONTEXT_LIST",
          RADIO_STATUS_RESTART |-> "REQUEST_CONTEXT_LIST"][s]

\* HandleRecovery: the state that follows s.
NextRecoveryState(s) ==
    IF callBusy THEN "REQUEST_CONTEXT_LIST"
    ELSE [REQUEST_CONTEXT_LIST |-> "CLEANUP_CONNECTIONS",
          CLEANUP_CONNECTIONS  |-> "REREGISTER_NETWORK",
          REREGISTER_NETWORK   |-> "RADIO_STATUS_RESTART",
          RADIO_STATUS_RESTART |-> "REQUEST_CONTEXT_LIST"][s]

\* HandleRecovery: the states whose step clears all connections.
Clears(s) == ~callBusy /\ s \in {"CLEANUP_CONNECTIONS", "RADIO_STATUS_RESTART"}

\* OnStallDetectionTimer.  ClearAllConnections runs on this thread and stops
\* detection at its end; then the event is sent again if detection is enabled.
OnStallDetectionTimer ==
    /\ Idle("monitor") /\ timers > 0
    /\ LET s == StateAfterFlow
           recovers == \/ PacketsAfter > RECOVERY_TRIGGER_PACKET
                       \/ live = 0 /\ s = "RADIO_STATUS_RESTART"
           clears == recovers /\ Clears(s) IN
        /\ noRecvPackets' = IF recovers THEN 0 ELSE PacketsAfter
        /\ recoveryState' = IF recovers THEN NextRecoveryState(s) ELSE s
        /\ todo' = [todo EXCEPT !["monitor"] =
                        (IF clears THEN StopStallDetectionTimer ELSE <<>>) \o <<"rearm">>]
        /\ IF clears
           THEN /\ live' = 0 /\ dying' = live + dying
                /\ radio' = IF s = "RADIO_STATUS_RESTART" THEN "goingOff" ELSE radio
                /\ exempt' = \E u \in Threads \ {"monitor"} : Switching(u)
           ELSE UNCHANGED <<dataVars, exempt>>
    /\ timers' = timers - 1
    /\ UNCHANGED <<enabled, phoneVars, disturbances>>

\* RADIO_OFF: the radio is off, it is switched on again.
RadioOff ==
    /\ Idle("monitor") /\ radio = "goingOff"
    /\ radio' = "goingOn"
    /\ UNCHANGED <<monitorVars, timerVars, live, dying, phoneVars, disturbances>>

\* RADIO_ON is the end of a restart.
RadioOn ==
    /\ Idle("monitor") /\ radio = "goingOn"
    /\ radio' = "on"
    /\ UNCHANGED <<monitorVars, timerVars, live, dying, phoneVars, disturbances>>

-----------------------------------------------------------------------------
(* The handler's thread.                                                   *)

\* DataConnCompleteUpdateState; the attempt may have begun before a voice call.
Established ==
    /\ Idle("handler") /\ live + dying < MaxCalls /\ radio = "on"
    /\ live' = live + 1
    /\ Switch("handler", StartStallDetectionTimer)
    /\ UNCHANGED <<monitorVars, dying, radio, phoneVars, disturbances>>

\* Mutant: the loss of any call stops detection.
DisconnectDataComplete_AnyCall ==
    /\ Idle("handler") /\ live' + dying' = live + dying - 1
    /\ Switch("handler", StopStallDetectionTimer)
    /\ UNCHANGED <<monitorVars, radio, phoneVars>>

\* DisconnectDataComplete with HandleIncallDataDisconnectComplete
DisconnectDataComplete ==
    /\ Idle("handler") /\ live' + dying' = live + dying - 1
    /\ IF live' + dying' = 0 THEN Switch("handler", StopStallDetectionTimer)
                             ELSE UNCHANGED timerVars
    /\ UNCHANGED <<monitorVars, radio, phoneVars>>

\* A call that was cleared comes down, or the radio takes it away.
Down ==
    /\ \/ dying > 0 /\ dying' = dying - 1 /\ live' = live
       \/ live > 0 /\ radio # "on" /\ live' = live - 1 /\ dying' = dying
    /\ DisconnectDataComplete
    /\ UNCHANGED disturbances

Disturb == disturbances < MaxDisturbances /\ disturbances' = disturbances + 1

\* A call is released or lost.
Lost ==
    /\ Disturb
    /\ live > 0 /\ live' = live - 1 /\ dying' = dying
    /\ DisconnectDataComplete

\* ClearAllConnections for any other reason than recovery
ClearAllConnections ==
    /\ Disturb /\ Idle("handler")
    /\ live' = 0 /\ dying' = live + dying
    /\ Switch("handler", StopStallDetectionTimer)
    /\ UNCHANGED <<monitorVars, radio, phoneVars>>

\* ClearConnectionIfRequired clears the calls whose APNs changed; detection goes
\* on until the last call is down.
ClearConnectionIfRequired ==
    /\ Disturb /\ Idle("handler")
    /\ \E changed \in 0 .. live : live' = live - changed /\ dying' = dying + changed
    /\ IF live + dying = 0 THEN Switch("handler", StopStallDetectionTimer)
                           ELSE UNCHANGED timerVars
    /\ UNCHANGED <<monitorVars, radio, phoneVars>>

-----------------------------------------------------------------------------
(* The observers' thread and the world.                                    *)

\* HandleCallChanged with HandleVoiceCallChanged.  Detection that was stopped
\* for a call on GSM is not started again if the call ends elsewhere.
HandleCallChanged ==
    /\ Disturb /\ Idle("observer")
    /\ callBusy' \in BOOLEAN
    /\ IF gsm /\ live + dying > 0
       THEN Switch("observer", IF callBusy' THEN StopStallDetectionTimer
                                            ELSE StartStallDetectionTimer)
       ELSE /\ exempt' = (exempt \/ (callBusy /\ ~callBusy' /\ ~enabled))
            /\ UNCHANGED <<enabled, timers, todo>>
    /\ UNCHANGED <<monitorVars, dataVars, gsm, flow>>

\* HandleScreenStateChanged of the default slot
HandleScreenStateChanged ==
    /\ Disturb /\ Idle("observer")
    /\ Switch("observer", StopStallDetectionTimer \o StartStallDetectionTimer)
    /\ UNCHANGED <<monitorVars, dataVars, phoneVars>>

\* The radio technology or IMS registration changes.
PsRatChanges ==
    /\ Disturb
    /\ gsm' = ~gsm
    /\ UNCHANGED <<monitorVars, timerVars, dataVars, callBusy, flow>>

FlowChanges ==
    /\ Disturb
    /\ flow' \in Flows \ {flow}
    /\ UNCHANGED <<monitorVars, timerVars, dataVars, callBusy, gsm>>

Next ==
    \/ \E t \in Threads : Step(t)
    \/ OnStallDetectionTimer \/ RadioOff \/ RadioOn
    \/ Established \/ Down \/ Lost \/ ClearAllConnections \/ ClearConnectionIfRequired
    \/ HandleCallChanged \/ HandleScreenStateChanged \/ PsRatChanges \/ FlowChanges

Spec == Init /\ [][Next]_vars

\* Threads run, the timer fires, the radio answers, calls that were cleared come
\* down, and data that is wanted is established again when there is none.
FairSpec ==
    /\ Spec
    /\ \A t \in Threads : WF_vars(Step(t))
    /\ WF_vars(OnStallDetectionTimer) /\ WF_vars(RadioOff) /\ WF_vars(RadioOn)
    /\ WF_vars(Down) /\ WF_vars(live + dying = 0 /\ Established)

-----------------------------------------------------------------------------
(* Properties.                                                             *)

Quiet == \A t \in Threads : Idle(t)

\* Detection that is switched on has its timer event queued: the test and the
\* sending of a start never cancel those of a tick on the monitor's thread
\* (StartStallDetectionTimer against OnStallDetectionTimer).  Only a start and
\* a stop that overlap can leave it without one, until the next clean start.
DetectionIsArmed == Quiet /\ enabled => timers > 0 \/ exempt

\* A connected call is monitored when no voice call is on, whatever recovery,
\* voice calls, screen and other calls did before (StartStallDetectionTimer,
\* StopStallDetectionTimer), with the same exception and that of a call that
\* stopped detection on GSM and ended on another technology.
ConnectedIsMonitored == Quiet /\ live > 0 /\ ~callBusy => enabled \/ exempt

\* If traffic is stalled for good, with no voice call and data wanted, recovery
\* goes through its four levels again and again, up to the restart of the radio,
\* even though two of them stop detection (HandleRecovery).
StallIsRecovered ==
    <>[](flow = "stalled" /\ ~callBusy) => []<>(radio # "on") \/ <>[]exempt
=============================================================================

----------------------- MODULE IncallDataStateMachine -----------------------
(***************************************************************************)
(* Data over the secondary card during an IMS call                         *)
(* (services/src/state_machine/incall_data_state_machine.cpp) and what     *)
(* CellularDataHandler does with it.  Four threads meet here:              *)
(*   - the call-state observer runs HandleCallChanged, which creates or    *)
(*     initialises the machine, updates its call state and, after giving   *)
(*     up the lock, sends it an event (three steps of "caller");           *)
(*   - the machine dispatches its queue;                                   *)
(*   - the handler takes MSG_INCALL_DATA_COMPLETE and de-initialises the   *)
(*     machine, without the lock;                                          *)
(*   - settings, radio and data connections change by themselves.          *)
(* An event is dispatched in one step.                                     *)
(***************************************************************************)
EXTENDS Integers, Sequences, Lists

CONSTANTS
    Slot,            \* slotId_ of the handler that owns the machine
    PrimarySlot,     \* what GetPrimarySlotId answers
    TstsMode,        \* CellularDataUtils::IsTstsModeEnabled()
    MaxCallChanges,  \* bound: changes of the call state
    MaxDisturbances  \* bound: changes of settings, radio and data

ASSUME IncallAssumption ==
    /\ Slot \in 0 .. 3 /\ PrimarySlot \in 0 .. 1 /\ Slot # PrimarySlot
    /\ TstsMode \in BOOLEAN
    /\ MaxCallChanges \in Nat /\ MaxDisturbances \in Nat

INVALID == -1
CELLDATA_SLOT_ID_3 == 3

EndedStates == {"IDLE", "DISCONNECTED"}
StartStates == {"DIALING"}                    \* DIALING and INCOMING
CallStates == EndedStates \cup StartStates \cup {"ACTIVE"}

NULL == "null"
SecondaryActive == {"activatingSecondary", "activatedSecondary"}
States == SecondaryActive \cup {NULL, "idle", "deactivatingSecondary"}

Events == {"CALL_STARTED", "CALL_ENDED", "SETTINGS_ON", "SETTINGS_OFF",
           "DATA_CONNECTED", "DATA_DISCONNECTED", "DSDS_CHANGED"}

VARIABLES
    exists,         \* incallDataStateMachine_ != nullptr
    inited,         \* the state objects exist and slotId_ and apnManager_ are set
    currentState,   \* currentState_, what GetCurrentState answers
    curState,       \* curState_ of the StateMachineEventHandler
    callState,      \* callState_ of the machine
    initPending,    \* MSG_STATE_MACHINE_INIT is in the queue, ahead of the rest
    queue,          \* the other events sent to the machine
    lastCallState,  \* lastCallState_ of the handler
    caller,         \* the observer thread inside HandleImsCallChanged
    complete,       \* MSG_INCALL_DATA_COMPLETE events in the handler's queue
    defaultSlot,    \* default cellular data slot, kept by the core service
    imsRegistered,  \* voice or video is registered with IMS
    network, smart, \* the two switches behind IsIncallDataSwitchOn
    connected,      \* HasAnyConnectedState of this slot's ApnManager
    calls, disturbances, \* used parts of the bounds
    crossed         \* history: a COMPLETE was handled after its call was followed by another

machineVars == <<exists, inited, currentState, curState, callState>>
handlerVars == <<lastCallState, caller, complete, crossed>>
worldVars == <<defaultSlot, imsRegistered, network, smart, connected>>
vars == <<machineVars, initPending, queue, handlerVars, worldVars, calls, disturbances>>

NoCaller == [pc |-> "none", state |-> "IDLE"]

\* The type invariant of the module.
TypeOK ==
    /\ exists \in BOOLEAN /\ inited \in BOOLEAN /\ initPending \in BOOLEAN
    /\ currentState \in States /\ curState \in States
    /\ callState \in CallStates /\ lastCallState \in CallStates
    /\ queue \in Seq(Events)
    /\ caller \in [pc: {"none", "update", "send"}, state: CallStates]
    /\ complete \in Nat
    /\ defaultSlot \in 0 .. 3
    /\ imsRegistered \in BOOLEAN /\ network \in BOOLEAN /\ smart \in BOOLEAN
    /\ connected \in BOOLEAN /\ crossed \in BOOLEAN
    /\ calls \in 0 .. MaxCallChanges /\ disturbances \in 0 .. MaxDisturbances

Init ==
    /\ exists = FALSE /\ inited = FALSE
    /\ currentState = NULL /\ curState = NULL /\ callState = "IDLE"
    /\ initPending = FALSE /\ queue = <<>>
    /\ lastCallState = "IDLE" /\ caller = NoCaller
    /\ complete = 0 /\ crossed = FALSE
    /\ defaultSlot = PrimarySlot
    /\ imsRegistered \in BOOLEAN /\ network \in BOOLEAN /\ smart \in BOOLEAN
    /\ connected \in BOOLEAN
    /\ calls = 0 /\ disturbances = 0

-----------------------------------------------------------------------------
(* What the machine asks the phone.                                        *)

\* Mutant: slots counted from one.
GetTargetDataSlotId_FromOne(def) == Slot + 1

\* GetTargetDataSlotId: slot 3 of a TSTS phone borrows one of the other two.
GetTargetDataSlotId(def) ==
    IF Slot = CELLDATA_SLOT_ID_3 /\ TstsMode THEN (IF def = 1 THEN 0 ELSE 1) ELSE Slot

IsIncallDataSwitchOn == network /\ smart

\* radioAllows stands for the DSDS mode, the primary SIM and the radio
\* technology.  A machine that was de-initialised asks IMS for slot -1.
IsSecondaryCanActiveData(radioAllows) ==
    /\ radioAllows
    /\ inited /\ imsRegistered
    /\ callState \notin EndedStates

HasAnyConnectedState == inited /\ connected

-----------------------------------------------------------------------------
(* States.  TransitionTo of a null state is refused, so it does nothing    *)
(* once the machine is de-initialised.                                     *)

Stay == UNCHANGED <<machineVars, complete, defaultSlot>>

\* The three handlers of IdleState that may start to use the secondary card.
\* SetDefaultCellularDataSlotId follows the transition.
TryActivate ==
    \E radioAllows \in BOOLEAN :
        LET target == GetTargetDataSlotId(defaultSlot) IN
        IF IsIncallDataSwitchOn /\ IsSecondaryCanActiveData(radioAllows) /\ defaultSlot # target
        THEN /\ curState' = "activatingSecondary" /\ currentState' = "activatingSecondary"
             /\ defaultSlot' = target
             /\ UNCHANGED <<exists, inited, callState, complete>>
        ELSE Stay

\* IdleState::StateBegin; DeInit resets cellularDataHandler_ too.
EnterIdle ==
    /\ curState' = "idle" /\ currentState' = "idle"
    /\ complete' = IF inited /\ callState \in EndedStates THEN complete + 1 ELSE complete
    /\ UNCHANGED <<exists, inited, callState>>

\* Mutant: SetDefaultCellularDataSlotId is not called.
EnterDeactivating_KeepSlot ==
    /\ currentState' = "deactivatingSecondary"
    /\ curState' = IF defaultSlot = PrimarySlot \/ ~HasAnyConnectedState
                   THEN "idle" ELSE "deactivatingSecondary"
    /\ UNCHANGED <<exists, inited, callState, complete, defaultSlot>>

\* DeactivatingSecondaryState::StateBegin.  A TransitionTo(idleState_) inside
\* it replaces destState_ before curState_ is assigned: the machine is then
\* idle without IdleState::StateBegin, and GetCurrentState still answers
\* deactivatingSecondaryState_.
EnterDeactivating ==
    /\ currentState' = "deactivatingSecondary"
    /\ defaultSlot' = PrimarySlot
    /\ curState' = IF defaultSlot = PrimarySlot \/ ~HasAnyConnectedState
                   THEN "idle" ELSE "deactivatingSecondary"
    /\ UNCHANGED <<exists, inited, callState, complete>>

\* The end of SecondaryActiveState, for a call that ended or a switch turned off.
LeaveSecondary ==
    \/ ~inited /\ Stay
    \/ inited /\ defaultSlot # PrimarySlot /\ EnterDeactivating
    \/ inited /\ defaultSlot = PrimarySlot /\ EnterIdle /\ UNCHANGED defaultSlot

\* IdleState: CALL_ENDED also drops DSDS_CHANGED events that are waiting.
IdleProcess(e) ==
    \/ /\ e \in {"CALL_STARTED", "SETTINGS_ON", "DSDS_CHANGED"}
       /\ TryActivate
       /\ queue' = Tail(queue)
    \/ /\ e = "CALL_ENDED"
       /\ queue' = Where(Tail(queue), Events \ {"DSDS_CHANGED"})
       /\ complete' = IF inited THEN complete + 1 ELSE complete
       /\ UNCHANGED <<machineVars, defaultSlot>>
    \/ /\ e \in {"SETTINGS_OFF", "DATA_CONNECTED", "DATA_DISCONNECTED"}
       /\ Stay
       /\ queue' = Tail(queue)

\* ActivatingSecondaryState and ActivatedSecondaryState, then their parent.
SecondaryActiveProcess(e) ==
    /\ queue' = Tail(queue)
    /\ \/ /\ e = "DATA_CONNECTED" /\ curState = "activatingSecondary" /\ inited
          /\ curState' = "activatedSecondary" /\ currentState' = "activatedSecondary"
          /\ UNCHANGED <<exists, inited, callState, complete, defaultSlot>>
       \/ e = "CALL_ENDED" /\ callState \in EndedStates /\ LeaveSecondary
       \/ e = "SETTINGS_OFF" /\ ~IsIncallDataSwitchOn /\ LeaveSecondary
       \/ /\ \/ e \in {"CALL_STARTED", "SETTINGS_ON", "DSDS_CHANGED", "DATA_DISCONNECTED"}
             \/ e = "DATA_CONNECTED" /\ ~(curState = "activatingSecondary" /\ inited)
             \/ e = "CALL_ENDED" /\ callState \notin EndedStates
             \/ e = "SETTINGS_OFF" /\ IsIncallDataSwitchOn
          /\ Stay

\* DeactivatingSecondaryState; Slot # PrimarySlot, and -1 differs from both.
DeactivatingProcess(e) ==
    /\ queue' = Tail(queue)
    /\ \/ e = "DATA_DISCONNECTED" /\ inited /\ EnterIdle /\ UNCHANGED defaultSlot
       \/ (e # "DATA_DISCONNECTED" \/ ~inited) /\ Stay

\* StateMachineEventHandler::ProcessEvent for MSG_STATE_MACHINE_INIT.  The
\* event handler keeps originalState_ through DeInit: a machine that was
\* de-initialised meanwhile gets a current state all the same.
ProcessInit ==
    /\ initPending
    /\ initPending' = FALSE
    /\ EnterIdle
    /\ UNCHANGED <<queue, lastCallState, caller, crossed, worldVars, calls, disturbances>>

\* StateMachineEventHandler::ProcessEvent for all other events; INIT has come first.
ProcessEvent ==
    /\ ~initPending /\ queue # <<>>
    /\ LET e == Head(queue) IN
        \/ curState = "idle" /\ IdleProcess(e)
        \/ curState \in SecondaryActive /\ SecondaryActiveProcess(e)
        \/ curState = "deactivatingSecondary" /\ DeactivatingProcess(e)
    /\ UNCHANGED <<initPending, lastCallState, caller, crossed, imsRegistered,
                   network, smart, connected, calls, disturbances>>

-----------------------------------------------------------------------------
(* The handler.                                                            *)

\* IncallDataStateMachine::IsSecondaryActiveState compares currentState_ with
\* the state objects: after DeInit all of them are null, and equal.
IsSecondaryActiveState ==
    exists /\ currentState \in (IF inited THEN SecondaryActive ELSE {NULL})

\* HandleCallChanged up to UpdateCallState.  The voice-call branch leaves the
\* machine alone.
HandleCallChanged(state) ==
    /\ caller = NoCaller
    /\ calls < MaxCallChanges /\ calls' = calls + 1
    /\ state # lastCallState
    /\ lastCallState' = state
    /\ IF ~(imsRegistered \/ IsSecondaryActiveState) \/ (~exists /\ state \notin StartStates)
       THEN UNCHANGED <<machineVars, initPending, caller>>
       ELSE /\ caller' = [pc |-> "update", state |-> state]
            /\ IF state \in StartStates /\ (~exists \/ currentState = NULL)
               THEN /\ exists' = TRUE /\ inited' = TRUE
                    /\ callState' = state
                    /\ initPending' = TRUE
                    /\ UNCHANGED <<currentState, curState>>
               ELSE UNCHANGED <<machineVars, initPending>>
    /\ UNCHANGED <<queue, complete, crossed, worldVars, disturbances>>

\* UpdateCallState, still under initMutex_, which DeInit does not take
UpdateCallState ==
    /\ caller.pc = "update"
    /\ callState' = caller.state
    /\ caller' = [caller EXCEPT !.pc = "send"]
    /\ UNCHANGED <<exists, inited, currentState, curState, initPending, queue,
                   lastCallState, complete, crossed, worldVars, calls, disturbances>>

\* Mutant: CALL_STATUS_IDLE is not taken for the end of a call.
SendCallEvent_NotIdle ==
    /\ caller.pc = "send"
    /\ caller' = NoCaller
    /\ queue' = CASE caller.state \in StartStates -> Append(queue, "CALL_STARTED")
                  [] caller.state = "DISCONNECTED" -> Append(queue, "CALL_ENDED")
                  [] OTHER -> queue
    /\ UNCHANGED <<machineVars, initPending, lastCallState, complete, crossed,
                   worldVars, calls, disturbances>>

\* CALL_STARTED or CALL_ENDED, after the lock is given up
SendCallEvent ==
    /\ caller.pc = "send"
    /\ caller' = NoCaller
    /\ queue' = CASE caller.state \in StartStates -> Append(queue, "CALL_STARTED")
                  [] caller.state \in EndedStates -> Append(queue, "CALL_ENDED")
                  [] OTHER -> queue
    /\ UNCHANGED <<machineVars, initPending, lastCallState, complete, crossed,
                   worldVars, calls, disturbances>>

\* Mutant: DeInit leaves currentState_ as it is.
IncallDataComplete_KeepCurrent ==
    /\ complete > 0
    /\ complete' = complete - 1
    /\ inited' = FALSE /\ callState' = "IDLE"
    /\ crossed' = (crossed \/ initPending \/ curState \in SecondaryActive
                            \/ lastCallState \notin EndedStates)
    /\ UNCHANGED <<exists, currentState, curState, initPending, queue, lastCallState, caller,
                   worldVars, calls, disturbances>>

\* IncallDataComplete: the machine is de-initialised and kept.
IncallDataComplete ==
    /\ complete > 0
    /\ complete' = complete - 1
    /\ inited' = FALSE /\ currentState' = NULL /\ callState' = "IDLE"
    /\ crossed' = (crossed \/ initPending \/ curState \in SecondaryActive
                            \/ lastCallState \notin EndedStates)
    /\ UNCHANGED <<exists, curState, initPending, queue, lastCallState, caller,
                   worldVars, calls, disturbances>>

\* Every event the handler forwards is dropped while there is no machine.
Forward(e) == queue' = IF exists THEN Append(queue, e) ELSE queue

Disturb ==
    /\ disturbances < MaxDisturbances /\ disturbances' = disturbances + 1
    /\ UNCHANGED <<machineVars, initPending, handlerVars, calls>>

\* CellularDataIncallObserver::OnChange and HandleDBSettingIncallChanged
HandleDBSettingIncallChanged ==
    /\ Disturb
    /\ network' = ~network
    /\ Forward(IF network' THEN "SETTINGS_ON" ELSE "SETTINGS_OFF")
    /\ UNCHANGED <<defaultSlot, imsRegistered, smart, connected>>

\* HandleDsdsModeChanged
DsdsChanged ==
    /\ Disturb
    /\ Forward("DSDS_CHANGED")
    /\ UNCHANGED worldVars

\* EstablishDataConnectionComplete
DataConnected ==
    /\ Disturb
    /\ connected' = TRUE
    /\ Forward("DATA_CONNECTED")
    /\ UNCHANGED <<defaultSlot, imsRegistered, network, smart>>

\* HandleIncallDataDisconnectComplete, when no holder is connected any more
DataDisconnected ==
    /\ Disturb
    /\ connected' = FALSE
    /\ Forward("DATA_DISCONNECTED")
    /\ UNCHANGED <<defaultSlot, imsRegistered, network, smart>>

\* What changes outside this process and is not reported to the machine: the
\* smart-dual-card switch, IMS registration, the default slot reset by the user.
PhoneChanges ==
    /\ Disturb
    /\ UNCHANGED <<queue, network, connected>>
    /\ \/ smart' = ~smart /\ UNCHANGED <<defaultSlot, imsRegistered>>
       \/ imsRegistered' = ~imsRegistered /\ UNCHANGED <<defaultSlot, smart>>
       \/ /\ defaultSlot # PrimarySlot /\ defaultSlot' = PrimarySlot
          /\ UNCHANGED <<smart, imsRegistered>>

MachineStep == ProcessInit \/ ProcessEvent
CallerStep == UpdateCallState \/ SendCallEvent

Next ==
    \/ MachineStep \/ CallerStep \/ IncallDataComplete
    \/ \E state \in CallStates : HandleCallChanged(state)
    \/ HandleDBSettingIncallChanged \/ DsdsChanged
    \/ DataConnected \/ DataDisconnected \/ PhoneChanges

Spec == Init /\ [][Next]_vars

\* The three queues are served; nothing is assumed of calls, radio or settings.
FairSpec == Spec /\ WF_vars(MachineStep) /\ WF_vars(CallerStep) /\ WF_vars(IncallDataComplete)

-----------------------------------------------------------------------------
(* Properties.                                                             *)

\* While data runs over another card than the primary, the machine is in a
\* state that hears the end of the call and still has the state it will move
\* to; only a MSG_INCALL_DATA_COMPLETE that is handled after the next call
\* began (crossed) breaks this.  IncallDataComplete de-initialises without
\* looking at the call (cellular_data_handler.cpp, IncallDataComplete).
SecondaryIsWatched ==
    defaultSlot # PrimarySlot => crossed \/ (inited /\ curState \in SecondaryActive)

\* HandleImsCallChanged takes GetCurrentState() == nullptr for "must be
\* initialised": for a machine that no stale COMPLETE hit this is right,
\* whatever the order of INIT, DeInit and the call events.
CurrentStateTellsInit ==
    exists => crossed \/ (inited <=> currentState # NULL \/ initPending)

\* callState_ of the machine says a call is on when the handler knows it ended:
\* the end of the call was delivered while IMS was not registered.
CallStateIsStale ==
    callState \notin EndedStates /\ lastCallState \in EndedStates /\ caller = NoCaller

\* When calls are over for good, data returns to the primary card for good,
\* unless a stale COMPLETE hit the machine or its call state is stale
\* (SecondaryActiveState::ProcessCallEnded, DeactivatingSecondaryState).
DataReturns ==
    <>[](lastCallState \in EndedStates)
        => <>[](defaultSlot = PrimarySlot \/ crossed \/ CallStateIsStale)

=============================================================================

-------------------------- MODULE IncallDataProofs --------------------------
(***************************************************************************)
(* Data is never left on another card, for any number of calls, events and *)
(* disturbances.  Neither property of IncallDataStateMachine is inductive: *)
(* a pending INIT would make an active machine idle, so the invariant also *)
(* says that none is pending while another card is used, and that the      *)
(* state GetCurrentState answers is then the state of the event handler.   *)
(***************************************************************************)
EXTENDS IncallDataStateMachine, ListProofs

\* What holds while another card than the primary is used and no stale
\* MSG_INCALL_DATA_COMPLETE was handled.
Watched ==
    defaultSlot # PrimarySlot =>
        \/ crossed
        \/ /\ inited /\ curState \in SecondaryActive
           /\ currentState = curState /\ ~initPending

\* A machine that was never created is empty.
NoMachine == ~exists => ~inited /\ ~initPending /\ curState = NULL /\ currentState = NULL

IncallInv == Watched /\ CurrentStateTellsInit /\ NoMachine

(* The initial states satisfy the invariant: data is on the primary card    *)
(* and the handler has no machine.                                         *)
LEMMA IncallInitially == Init => IncallInv
BY DEF Init, IncallInv, Watched, CurrentStateTellsInit, NoMachine

(* MSG_STATE_MACHINE_INIT: it finds data on the primary card.              *)
LEMMA InitEventKeeps == IncallInv /\ ProcessInit => IncallInv'
BY DEF ProcessInit, EnterIdle, IncallInv, Watched, CurrentStateTellsInit, NoMachine,
       worldVars, NULL, SecondaryActive

(* IdleState either starts to use another card, with the machine in        *)
(* activatingSecondaryState_, or leaves slot and machine as they are.      *)
LEMMA IdleKeeps ==
    ASSUME NEW e, IncallInv, ~initPending, curState = "idle", IdleProcess(e),
           UNCHANGED <<initPending, crossed>>
    PROVE  IncallInv'
<1>1. CASE TryActivate
    BY <1>1 DEF TryActivate, Stay, machineVars, IsSecondaryCanActiveData,
                IncallInv, Watched, CurrentStateTellsInit, NoMachine, NULL, SecondaryActive
<1>2. CASE UNCHANGED <<machineVars, defaultSlot>>
    BY <1>2 DEF machineVars, IncallInv, Watched, CurrentStateTellsInit, NoMachine
<1>. QED  BY <1>1, <1>2 DEF IdleProcess, Stay

(* Leaving the secondary card: data is on the primary card afterwards, or  *)
(* the machine was de-initialised and nothing happens.                     *)
LEMMA LeaveKeeps ==
    ASSUME IncallInv, curState \in SecondaryActive, LeaveSecondary,
           UNCHANGED <<initPending, crossed>>
    PROVE  IncallInv'
<1>1. CASE ~inited /\ Stay
    BY <1>1 DEF Stay, machineVars, IncallInv, Watched, CurrentStateTellsInit, NoMachine
<1>2. CASE inited /\ defaultSlot # PrimarySlot /\ EnterDeactivating
    BY <1>2 DEF EnterDeactivating, IncallInv, Watched, CurrentStateTellsInit, NoMachine, NULL
<1>3. CASE inited /\ defaultSlot = PrimarySlot /\ EnterIdle /\ UNCHANGED defaultSlot
    BY <1>3 DEF EnterIdle, IncallInv, Watched, CurrentStateTellsInit, NoMachine, NULL
<1>. QED  BY <1>1, <1>2, <1>3 DEF LeaveSecondary

(* ActivatingSecondaryState and ActivatedSecondaryState with their parent. *)
LEMMA SecondaryKeeps ==
    ASSUME NEW e, IncallInv, curState \in SecondaryActive, SecondaryActiveProcess(e),
           UNCHANGED <<initPending, crossed>>
    PROVE  IncallInv'
<1>1. CASE LeaveSecondary
    BY <1>1, LeaveKeeps
<1>2. CASE Stay
    BY <1>2 DEF Stay, machineVars, IncallInv, Watched, CurrentStateTellsInit, NoMachine
<1>3. CASE /\ inited /\ curState' = "activatedSecondary" /\ currentState' = "activatedSecondary"
           /\ UNCHANGED <<exists, inited, callState, complete, defaultSlot>>
    BY <1>3 DEF IncallInv, Watched, CurrentStateTellsInit, NoMachine, NULL, SecondaryActive
<1>. QED  BY <1>1, <1>2, <1>3 DEF SecondaryActiveProcess

(* DeactivatingSecondaryState is only reached with data on the primary card.*)
LEMMA DeactivatingKeeps ==
    ASSUME NEW e, IncallInv, curState = "deactivatingSecondary", DeactivatingProcess(e),
           UNCHANGED <<initPending, crossed>>
    PROVE  IncallInv'
<1>1. CASE inited /\ EnterIdle /\ UNCHANGED defaultSlot
    BY <1>1 DEF EnterIdle, IncallInv, Watched, CurrentStateTellsInit, NoMachine, NULL, SecondaryActive
<1>2. CASE Stay
    BY <1>2 DEF Stay, machineVars, IncallInv, Watched, CurrentStateTellsInit, NoMachine
<1>. QED  BY <1>1, <1>2 DEF DeactivatingProcess

(* Every event the machine dispatches preserves the invariant.             *)
LEMMA EventKeeps == IncallInv /\ ProcessEvent => IncallInv'
<1>. SUFFICES ASSUME IncallInv, ProcessEvent PROVE IncallInv'
    OBVIOUS
<1>. DEFINE e == Head(queue)
<1>0. ~initPending /\ UNCHANGED <<initPending, crossed>>
    BY DEF ProcessEvent
<1>1. CASE curState = "idle" /\ IdleProcess(e)
    BY <1>0, <1>1, IdleKeeps
<1>2. CASE curState \in SecondaryActive /\ SecondaryActiveProcess(e)
    BY <1>0, <1>2, SecondaryKeeps
<1>3. CASE curState = "deactivatingSecondary" /\ DeactivatingProcess(e)
    BY <1>0, <1>3, DeactivatingKeeps
<1>. QED  BY <1>1, <1>2, <1>3 DEF ProcessEvent

(* HandleCallChanged initialises only a machine without a current state,   *)
(* which does not use another card.                                        *)
LEMMA CallKeeps ==
    ASSUME NEW state, IncallInv, HandleCallChanged(state)
    PROVE  IncallInv'
<1>0. UNCHANGED <<crossed, defaultSlot>>
    BY DEF HandleCallChanged, worldVars
<1>1. CASE UNCHANGED <<machineVars, initPending>>
    BY <1>0, <1>1 DEF machineVars, IncallInv, Watched, CurrentStateTellsInit, NoMachine
<1>2. CASE /\ ~exists \/ currentState = NULL
           /\ exists' = TRUE /\ inited' = TRUE /\ initPending' = TRUE
           /\ UNCHANGED <<currentState, curState>>
    BY <1>0, <1>2 DEF IncallInv, Watched, CurrentStateTellsInit, NoMachine, NULL, SecondaryActive
<1>. QED  BY <1>1, <1>2 DEF HandleCallChanged

(* IncallDataComplete: if another card is in use this COMPLETE is stale.   *)
LEMMA CompleteKeeps == IncallInv /\ IncallDataComplete => IncallInv'
<1>. SUFFICES ASSUME IncallInv, IncallDataComplete PROVE IncallInv'
    OBVIOUS
<1>1. crossed \/ initPending \/ curState \in SecondaryActive => crossed'
    BY Zenon DEF IncallDataComplete
<1>2. /\ inited' = FALSE /\ currentState' = NULL
      /\ UNCHANGED <<exists, curState, initPending, defaultSlot>>
    BY DEF IncallDataComplete, worldVars
<1>. QED  BY <1>1, <1>2 DEF IncallInv, Watched, CurrentStateTellsInit, NoMachine

(* The steps of the observer thread and of the phone do not touch what the *)
(* invariant is about, except that the user may go back to the primary card.*)
LEMMA OthersKeep ==
    ASSUME IncallInv,
           UNCHANGED <<exists, inited, currentState, curState, initPending, crossed>>,
           defaultSlot' = defaultSlot \/ defaultSlot' = PrimarySlot
    PROVE  IncallInv'
BY DEF IncallInv, Watched, CurrentStateTellsInit, NoMachine

(* The invariant is inductive.                                             *)
LEMMA IncallStep == IncallInv /\ [Next]_vars => IncallInv'
<1>. SUFFICES ASSUME IncallInv, [Next]_vars PROVE IncallInv'
    OBVIOUS
<1>1. CASE MachineStep
    BY <1>1, InitEventKeeps, EventKeeps DEF MachineStep
<1>2. CASE CallerStep
    BY <1>2, OthersKeep DEF CallerStep, UpdateCallState, SendCallEvent, machineVars, worldVars
<1>3. CASE IncallDataComplete
    BY <1>3, CompleteKeeps
<1>4. CASE \E state \in CallStates : HandleCallChanged(state)
    BY <1>4, CallKeeps
<1>5. CASE HandleDBSettingIncallChanged \/ DsdsChanged \/ DataConnected \/ DataDisconnected
    BY <1>5, OthersKeep DEF HandleDBSettingIncallChanged, DsdsChanged, DataConnected,
       DataDisconnected, Disturb, machineVars, handlerVars, worldVars
<1>6. CASE PhoneChanges
    BY <1>6, OthersKeep DEF PhoneChanges, Disturb, machineVars, handlerVars
<1>7. CASE UNCHANGED vars
    BY <1>7, OthersKeep DEF vars, machineVars, handlerVars, worldVars
<1>. QED  BY <1>1, <1>2, <1>3, <1>4, <1>5, <1>6, <1>7 DEF Next

(* For any slots, any number of calls, settings and radio changes, data    *)
(* that runs over another card is watched by a machine that will hear the  *)
(* end of the call, unless IncallDataComplete de-initialised it during a   *)
(* later call.                                                             *)
THEOREM SecondaryAlwaysWatched == Spec => []SecondaryIsWatched
<1>1. IncallInv => SecondaryIsWatched
    BY DEF IncallInv, Watched, SecondaryIsWatched
<1>. QED  BY <1>1, IncallInitially, IncallStep, PTL DEF Spec

(* For every instance GetCurrentState() == nullptr, the test of            *)
(* HandleImsCallChanged, is right about a machine no stale COMPLETE hit.   *)
THEOREM CurrentStateAlwaysTells == Spec => []CurrentStateTellsInit
<1>1. IncallInv => CurrentStateTellsInit
    BY DEF IncallInv
<1>. QED  BY <1>1, IncallInitially, IncallStep, PTL DEF Spec

-----------------------------------------------------------------------------
(* Types. *)

LEMMA Constants ==
    /\ PrimarySlot \in 0 .. 3 /\ NULL \in States /\ NoCaller.state \in CallStates
    /\ \A d \in 0 .. 3 : GetTargetDataSlotId(d) \in 0 .. 3
BY IncallAssumption DEF GetTargetDataSlotId, CELLDATA_SLOT_ID_3, NULL, States, NoCaller, CallStates,
   EndedStates

\* What a step of the machine may change.
MachineTypeOK ==
    /\ curState \in States /\ currentState \in States /\ complete \in Nat /\ defaultSlot \in 0 .. 3
    /\ exists \in BOOLEAN /\ inited \in BOOLEAN /\ callState \in CallStates

(* Every state keeps the types, whatever event it takes. *)
LEMMA StatesTyped ==
    ASSUME TypeOK
    PROVE  /\ Stay => MachineTypeOK'
           /\ TryActivate => MachineTypeOK'
           /\ EnterIdle /\ UNCHANGED defaultSlot => MachineTypeOK'
           /\ LeaveSecondary => MachineTypeOK'
<1> USE DEF TypeOK, MachineTypeOK, States, SecondaryActive
<1>1. Stay => MachineTypeOK' BY DEF Stay, machineVars
<1>2. TryActivate => MachineTypeOK' BY <1>1, Constants DEF TryActivate
<1>3. EnterIdle /\ UNCHANGED defaultSlot => MachineTypeOK' BY DEF EnterIdle
<1>4. EnterDeactivating => MachineTypeOK' BY Constants DEF EnterDeactivating
<1> QED BY <1>1, <1>2, <1>3, <1>4 DEF LeaveSecondary

LEMMA EventTyped ==
    ASSUME TypeOK, ProcessEvent
    PROVE  MachineTypeOK' /\ queue' \in Seq(Events)
<1> DEFINE e == Head(queue)
<1>1. Tail(queue) \in Seq(Events) BY DEF TypeOK, ProcessEvent
<1>2. Where(Tail(queue), Events \ {"DSDS_CHANGED"}) \in Seq(Events) BY <1>1, WhereElements
<1>3. CASE IdleProcess(e)
    <2>1. CASE TryActivate BY <1>1, <1>2, <1>3, <2>1, StatesTyped DEF IdleProcess
    <2>2. CASE Stay BY <1>1, <1>2, <1>3, <2>2, StatesTyped DEF IdleProcess
    <2>3. CASE /\ queue' = Where(Tail(queue), Events \ {"DSDS_CHANGED"})
               /\ complete' = IF inited THEN complete + 1 ELSE complete
               /\ UNCHANGED <<machineVars, defaultSlot>>
        BY <1>2, <2>3 DEF TypeOK, MachineTypeOK, machineVars
    <2> QED BY <1>3, <2>1, <2>2, <2>3 DEF IdleProcess
<1>4. CASE SecondaryActiveProcess(e)
    <2>1. queue' \in Seq(Events) BY <1>1, <1>4 DEF SecondaryActiveProcess
    <2>2. CASE /\ curState' = "activatedSecondary" /\ currentState' = "activatedSecondary"
               /\ UNCHANGED <<exists, inited, callState, complete, defaultSlot>>
        BY <2>1, <2>2 DEF TypeOK, MachineTypeOK, States, SecondaryActive
    <2> QED BY <1>4, <2>1, <2>2, StatesTyped DEF SecondaryActiveProcess
<1>5. CASE DeactivatingProcess(e)
    BY <1>1, <1>5, StatesTyped DEF DeactivatingProcess
<1> QED BY <1>3, <1>4, <1>5 DEF ProcessEvent

LEMMA TypeStep == TypeOK /\ [Next]_vars => TypeOK'
<1> SUFFICES ASSUME TypeOK, [Next]_vars PROVE TypeOK'
    OBVIOUS
<1>1. CASE ProcessInit
    <2>1. MachineTypeOK' BY <1>1, StatesTyped DEF ProcessInit, worldVars
    <2> QED BY <1>1, <2>1 DEF ProcessInit, TypeOK, MachineTypeOK, worldVars
<1>2. CASE ProcessEvent
    <2>1. MachineTypeOK' /\ queue' \in Seq(Events) BY <1>2, EventTyped
    <2> QED BY <1>2, <2>1 DEF ProcessEvent, TypeOK, MachineTypeOK
<1>3. CASE UpdateCallState
    BY <1>3 DEF UpdateCallState, TypeOK, worldVars
<1>4. CASE SendCallEvent
    <2>1. queue' \in Seq(Events) BY <1>4 DEF SendCallEvent, TypeOK, Events
    <2>2. caller' \in [pc: {"none", "update", "send"}, state: CallStates]
        BY <1>4, Constants DEF SendCallEvent, NoCaller
    <2> QED BY <1>4, <2>1, <2>2 DEF SendCallEvent, TypeOK, machineVars, worldVars
<1>5. CASE IncallDataComplete
    <2>1. complete' \in Nat BY <1>5 DEF IncallDataComplete, TypeOK
    <2>2. crossed' \in BOOLEAN BY <1>5 DEF IncallDataComplete
    <2>3. currentState' \in States /\ callState' \in CallStates /\ inited' \in BOOLEAN
        BY <1>5, Constants DEF IncallDataComplete, CallStates, EndedStates
    <2> QED BY <1>5, <2>1, <2>2, <2>3 DEF IncallDataComplete, TypeOK, worldVars
<1>6. ASSUME NEW state \in CallStates, HandleCallChanged(state)
      PROVE  TypeOK'
    <2>1. calls' \in 0 .. MaxCallChanges BY <1>6, IncallAssumption DEF HandleCallChanged, TypeOK
    <2>2. caller' \in [pc: {"none", "update", "send"}, state: CallStates]
        BY <1>6 DEF HandleCallChanged, TypeOK
    <2>3. /\ exists' \in BOOLEAN /\ inited' \in BOOLEAN /\ callState' \in CallStates
          /\ initPending' \in BOOLEAN /\ UNCHANGED <<currentState, curState>>
        BY <1>6 DEF HandleCallChanged, TypeOK, machineVars
    <2> QED BY <1>6, <2>1, <2>2, <2>3 DEF HandleCallChanged, TypeOK, worldVars
<1>7. CASE HandleDBSettingIncallChanged \/ DsdsChanged \/ DataConnected \/ DataDisconnected
    <2>1. disturbances' \in 0 .. MaxDisturbances
        BY <1>7, IncallAssumption DEF HandleDBSettingIncallChanged, DsdsChanged, DataConnected,
           DataDisconnected, Disturb, TypeOK
    <2>2. \A e \in Events : Forward(e) => queue' \in Seq(Events) BY DEF Forward, TypeOK
    <2>3. queue' \in Seq(Events)
        BY <1>7, <2>2 DEF HandleDBSettingIncallChanged, DsdsChanged, DataConnected, DataDisconnected,
           Events
    <2>4. network' \in BOOLEAN /\ connected' \in BOOLEAN
        BY <1>7 DEF HandleDBSettingIncallChanged, DsdsChanged, DataConnected, DataDisconnected,
           worldVars, TypeOK
    <2>5. UNCHANGED <<machineVars, initPending, handlerVars, calls, defaultSlot, imsRegistered, smart>>
        BY <1>7 DEF HandleDBSettingIncallChanged, DsdsChanged, DataConnected, DataDisconnected, Disturb,
           worldVars
    <2> QED BY <2>1, <2>3, <2>4, <2>5 DEF TypeOK, machineVars, handlerVars
<1>8. CASE PhoneChanges
    <2>1. disturbances' \in 0 .. MaxDisturbances
        BY <1>8, IncallAssumption DEF PhoneChanges, Disturb, TypeOK
    <2>2. smart' \in BOOLEAN /\ imsRegistered' \in BOOLEAN /\ defaultSlot' \in 0 .. 3
        BY <1>8, Constants DEF PhoneChanges, TypeOK
    <2> QED BY <1>8, <2>1, <2>2 DEF PhoneChanges, Disturb, TypeOK, machineVars, handlerVars
<1>9. CASE UNCHANGED vars
    BY <1>9 DEF vars, machineVars, handlerVars, worldVars, TypeOK
<1> QED BY <1>1, <1>2, <1>3, <1>4, <1>5, <1>6, <1>7, <1>8, <1>9 DEF Next, MachineStep, CallerStep

(* For any slots, calls and disturbances the machine, its queue and the    *)
(* handler's side keep their types; in particular the card that a call     *)
(* borrows is one of the phone's.                                          *)
THEOREM IncallTypeCorrect == Spec => []TypeOK
<1>1. Init => TypeOK
    <2> SUFFICES ASSUME Init PROVE TypeOK OBVIOUS
    <2>1. 0 \in 0 .. MaxCallChanges /\ 0 \in 0 .. MaxDisturbances BY IncallAssumption
    <2>2. NoCaller \in [pc: {"none", "update", "send"}, state: CallStates]
        BY Constants DEF NoCaller
    <2>3. "IDLE" \in CallStates BY DEF CallStates, EndedStates
    <2>4. <<>> \in Seq(Events) OBVIOUS
    <2>5. 0 \in Nat OBVIOUS
    <2> QED BY <2>1, <2>2, <2>3, <2>4, <2>5, Constants, Zenon DEF Init, TypeOK
<1> QED BY <1>1, TypeStep, PTL DEF Spec
=============================================================================

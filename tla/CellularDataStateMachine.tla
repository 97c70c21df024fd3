---------------------- MODULE CellularDataStateMachine ----------------------
(***************************************************************************)
(* The data-connection state machines of one SIM slot                      *)
(* (services/src/state_machine/), each with the event queue of its own     *)
(* TelEventHandler, and the radio interface they talk to.                  *)
(*                                                                         *)
(* A machine runs one PDP context at a time: Inactive -> Activating ->     *)
(* Active -> Disconnecting -> Inactive.  connectId_ numbers these cycles;  *)
(* it is sent as the parameter of every radio request and every timer, and *)
(* comes back as the `flag' of the answer, so that the answer of an        *)
(* earlier cycle can be told from the answer of this one.                  *)
(*                                                                         *)
(* The module is open: CellularDataHandler (the sender of CONNECT and      *)
(* DISCONNECT), DataConnectionManager (the sender of LOST_CONNECTION) and  *)
(* the death notice of the RIL host are an environment that may send any   *)
(* event at any time.  What holds here holds for every such environment.   *)
(***************************************************************************)
EXTENDS Integers, Sequences, FiniteSets

CONSTANTS
    Machines,           \* the CellularDataStateMachine objects of the slot
    Apns,               \* the APN ids a machine can be asked to connect
    Cids,               \* the context ids the modem hands out
    DisconnectReasons,  \* the DisConnectionReasons MSG_SM_DISCONNECT carries
    FailReasons,        \* the PDP errors the modem rejects or drops a call with
    RadioResults,       \* the kinds of set-up answer the radio gives
    MaxErrSetChdataCnt, \* MAX_ERR_SET_CHDATA_CNT
    InOrder,            \* the radio answers the set-ups of a machine in order
    RadioPrompt,        \* the radio answers before the timer of a request runs out
    ClockSteady,        \* the system clock is never set back
    MaxConnectId,       \* bound: the connection cycles of a machine
    MaxDeferred         \* bound: the events a machine keeps deferred

NoCid    == 0           \* cid_ before the first answer
NoApn    == "noApn"
NoReason == "noReason"  \* resultInfo_ is null
NoMachine == "noMachine"

ASSUME ConstantsAssumption ==
    /\ NoCid \notin Cids
    /\ NoApn \notin Apns
    /\ NoMachine \notin Machines
    /\ DisconnectReasons \subseteq {"NORMAL", "GSM_AND_CALLING_ONLY", "RETRY", "CLEAR", "CHANGE",
                                   "PERMANENT", "HANDOVER"}
    /\ RadioResults \subseteq {"active", "rejected", "error", "chdata"}
    /\ MaxErrSetChdataCnt \in Nat \ {0}
    /\ InOrder \in BOOLEAN /\ RadioPrompt \in BOOLEAN /\ ClockSteady \in BOOLEAN
    /\ MaxConnectId \in Nat /\ MaxDeferred \in Nat

VARIABLES
    curState,         \* the State object a machine is in
    connectId,        \* connectId_
    apnId,            \* apnId_, set by DoConnect
    cid,              \* cid_, set by every set-up result of this cycle
    resultInfo,       \* Inactive::resultInfo_, as the PDP error it holds
    rilSetChdataErrCnt,
    deferEvents,      \* deferEvents_
    immediate,        \* the events re-sent with immediate priority
    queue,            \* the other events of the queue: armed timers, radio answers
    linkCallback,     \* progress of OnInterfaceLinkStateChanged (a binder thread)
    setupReqs,        \* set-up requests the radio has not answered
    deactReqs,        \* deactivation requests the radio has not answered
    granted,          \* history: the contexts the modem granted, with the request
    activeByCid,      \* DataConnectionManager::cidActiveConnectionMap_
    outbox            \* events a machine sent to CellularDataHandler

machineVars == <<curState, connectId, apnId, cid, resultInfo,
                 rilSetChdataErrCnt, deferEvents, immediate, queue>>
radioVars   == <<setupReqs, deactReqs, granted>>
heldVars    == <<connectId, apnId, cid, resultInfo, rilSetChdataErrCnt,
                 setupReqs, deactReqs, activeByCid, outbox>>
vars == <<machineVars, linkCallback, radioVars, activeByCid, outbox>>

-----------------------------------------------------------------------------
(* Events.  One record shape for all of them; a field that an event does   *)
(* not carry has a fixed value.  `result' tells the objects that an answer  *)
(* may hold apart: "active" and "rejected" are a SetupDataCallResultInfo,   *)
(* "error", "chdata" and "done" a RadioResponseInfo, "null" is neither.     *)

Codes == {"CONNECT", "DISCONNECT", "LOST", "HOST_DIED", "SETUP", "DEACTIVATE",
          "CONNECT_TIMEOUT", "DISCONNECT_TIMEOUT"}

Results == {"none", "active", "rejected", "error", "chdata", "done", "null"}

PdpErrors == FailReasons \cup {NoReason, "ZERO", "RETRY", "TO_NORMAL",
               "TO_GSM_AND_CALLING_ONLY", "TO_CLEAR", "TO_CHANGE", "TO_PERMANENT"}

DisConnectionReasons == {"NORMAL", "GSM_AND_CALLING_ONLY", "RETRY", "CLEAR", "CHANGE",
                         "PERMANENT", "HANDOVER"}

Reasons == DisConnectionReasons \cup PdpErrors

Event == [code : Codes, apn : Apns \cup {NoApn}, reason : Reasons,
          result : Results, flag : Nat, cid : Cids \cup {NoCid}]

Blank(code) == [code |-> code, apn |-> NoApn, reason |-> NoReason,
                result |-> "none", flag |-> 0, cid |-> NoCid]

ConnectEvent(a)    == [Blank("CONNECT") EXCEPT !.apn = a]
DisconnectEvent(r) == [Blank("DISCONNECT") EXCEPT !.reason = r]
LostEvent(r)       == [Blank("LOST") EXCEPT !.reason = r]
HostDiedEvent      == [Blank("HOST_DIED") EXCEPT !.reason = "ZERO"]
TimerEvent(code, n) == [Blank(code) EXCEPT !.flag = n]

SetupAnswer(n, result, c, r) ==
    [Blank("SETUP") EXCEPT !.flag = n, !.result = result, !.cid = c, !.reason = r]
DeactivateAnswer(n, result) ==
    [Blank("DEACTIVATE") EXCEPT !.flag = n, !.result = result]

\* What CellularDataHandler and DataConnectionManager send.
Commands == {ConnectEvent(a) : a \in Apns} \cup {DisconnectEvent(r) : r \in DisconnectReasons}
            \cup {LostEvent(r) : r \in FailReasons} \cup {HostDiedEvent}

\* Active::disconnReasonPdpErrorMap_; operator[] gives a reason that is not a
\* key, REASON_HANDOVER_CONNECTION, the value 0.
PdpErrorOf(reason) ==
    CASE reason = "NORMAL"               -> "TO_NORMAL"
      [] reason = "GSM_AND_CALLING_ONLY" -> "TO_GSM_AND_CALLING_ONLY"
      [] reason = "RETRY"                -> "RETRY"
      [] reason = "CLEAR"                -> "TO_CLEAR"
      [] reason = "CHANGE"               -> "TO_CHANGE"
      [] reason = "PERMANENT"            -> "TO_PERMANENT"
      [] OTHER                           -> "ZERO"

\* Events to CellularDataHandler.  `cycle' is the machine's connectId_ when the
\* event was sent and `answerOf' the cycle whose set-up answer is reported:
\* history fields, the code carries neither.
Report == [kind : {"ESTABLISHED", "DISCONNECTED"}, apn : Apns \cup {NoApn},
           cid : Cids \cup {NoCid}, reason : Reasons, cycle : Nat, answerOf : Nat]


Established(m, e) ==
    [kind |-> "ESTABLISHED", apn |-> apnId[m], cid |-> e.cid, reason |-> "ZERO",
     cycle |-> connectId[m], answerOf |-> e.flag]

Disconnected(m, c, reason) ==
    [kind |-> "DISCONNECTED", apn |-> apnId[m], cid |-> c, reason |-> reason,
     cycle |-> connectId[m], answerOf |-> 0]

-----------------------------------------------------------------------------
(* StateMachineEventHandler.  `rest' is what the event queue holds once the *)
(* event in hand is taken out of it: rest.imm and rest.queue.               *)

Requeue(m, rest) ==
    /\ immediate' = [immediate EXCEPT ![m] = rest.imm]
    /\ queue' = [queue EXCEPT ![m] = rest.queue]

\* SendEvent(code, n, delay), and RemoveEvent(code), which takes every event of that id.
SendTimer(rest, code, n) == [rest EXCEPT !.queue = @ \cup {TimerEvent(code, n)}]
RemoveEvent(rest, code)  == [rest EXCEPT !.queue = {x \in @ : x.code # code}]

Stay(m, rest) ==
    /\ Requeue(m, rest)
    /\ UNCHANGED <<curState, deferEvents>>

DeferEvent(m, e, rest) ==
    /\ deferEvents' = [deferEvents EXCEPT ![m] = Append(@, e)]
    /\ Requeue(m, rest)
    /\ UNCHANGED <<curState, heldVars>>

\* ProcessTransitions re-sends `deferred', deferEvents_ as the handler left it,
\* with immediate priority, behind what was re-sent before.
TransitionTo(m, dest, deferred, rest) ==
    /\ curState' = [curState EXCEPT ![m] = dest]
    /\ Requeue(m, [rest EXCEPT !.imm = @ \o deferred])
    /\ deferEvents' = [deferEvents EXCEPT ![m] = <<>>]

\* A transition to Inactive with deActiveApnTypeId_ set: Inactive::StateBegin
\* ends the cycle, reports MSG_DISCONNECT_DATA_COMPLETE and forgets resultInfo_.
EnterInactive(m, c, reason, rest) ==
    /\ TransitionTo(m, "Inactive", deferEvents[m], rest)
    /\ connectId' = [connectId EXCEPT ![m] = @ + 1]
    /\ outbox' = [outbox EXCEPT ![m] = Append(@, Disconnected(m, c, reason))]
    /\ resultInfo' = [resultInfo EXCEPT ![m] = NoReason]

\* An event no state and not Default handles; only the queue moves on.
Ignore(m, rest) ==
    /\ Stay(m, rest)
    /\ UNCHANGED heldVars

\* Default::StateProcess: DISCONNECT is deferred, nothing else changes state.
DefaultProcess(m, e, rest) ==
    \/ e.code = "DISCONNECT" /\ DeferEvent(m, e, rest)
    \/ e.code # "DISCONNECT" /\ Ignore(m, rest)

-----------------------------------------------------------------------------
(* Inactive *)

\* DoConnect: remember the APN, ask the radio, arm the timer.  A request that
\* the radio interface refuses is one that is never answered.
DoConnect(m, e, rest) ==
    /\ apnId' = [apnId EXCEPT ![m] = e.apn]
    /\ setupReqs' = [setupReqs EXCEPT ![m] = @ \cup {connectId[m]}]
    /\ TransitionTo(m, "Activating", deferEvents[m],
                    SendTimer(rest, "CONNECT_TIMEOUT", connectId[m]))

InactiveProcess(m, e, rest) ==
    \/ /\ e.code = "CONNECT"
       /\ DoConnect(m, e, rest)
       /\ UNCHANGED <<connectId, cid, resultInfo, rilSetChdataErrCnt, deactReqs,
                      activeByCid, outbox>>
    \/ e.code = "DISCONNECT" /\ Ignore(m, rest)
    \/ e.code \notin {"CONNECT", "DISCONNECT"} /\ DefaultProcess(m, e, rest)

-----------------------------------------------------------------------------
(* Activating *)

\* Mutant: the flag of the answer is not compared with connectId_.
RilActivatePdpContextDone_AnyFlag(m, e, rest) ==
    /\ rilSetChdataErrCnt' = [rilSetChdataErrCnt EXCEPT ![m] = 0]
    /\ cid' = [cid EXCEPT ![m] = e.cid]
    /\ \/ /\ e.result = "rejected"
          /\ EnterInactive(m, e.cid, e.reason, rest)
          /\ UNCHANGED activeByCid
       \/ /\ e.result = "active"
          /\ activeByCid' = [activeByCid EXCEPT ![e.cid] = m]
          /\ TransitionTo(m, "Active", Append(deferEvents[m], e), rest)
          /\ UNCHANGED <<connectId, resultInfo, outbox>>
    /\ UNCHANGED <<apnId, setupReqs, deactReqs>>

\* Mutant: SetCid is forgotten when the call is active.
RilActivatePdpContextDone_NoSetCid(m, e, rest) ==
    /\ rilSetChdataErrCnt' = [rilSetChdataErrCnt EXCEPT ![m] = 0]
    /\ \/ /\ e.flag # connectId[m]
          /\ Stay(m, rest)
          /\ UNCHANGED <<connectId, cid, resultInfo, activeByCid, outbox>>
       \/ /\ e.flag = connectId[m] /\ e.result = "rejected"
          /\ cid' = [cid EXCEPT ![m] = e.cid]
          /\ EnterInactive(m, e.cid, e.reason, rest)
          /\ UNCHANGED activeByCid
       \/ /\ e.flag = connectId[m] /\ e.result = "active"
          /\ activeByCid' = [activeByCid EXCEPT ![e.cid] = m]
          /\ TransitionTo(m, "Active", Append(deferEvents[m], e), rest)
          /\ UNCHANGED <<connectId, cid, resultInfo, outbox>>
    /\ UNCHANGED <<apnId, setupReqs, deactReqs>>

\* A SetupDataCallResultInfo.  It clears the CHDATA error count before the flag
\* is compared; SetCid precedes the test of the result.
RilActivatePdpContextDone(m, e, rest) ==
    /\ rilSetChdataErrCnt' = [rilSetChdataErrCnt EXCEPT ![m] = 0]
    /\ \/ /\ e.flag # connectId[m]
          /\ Stay(m, rest)
          /\ UNCHANGED <<connectId, cid, resultInfo, activeByCid, outbox>>
       \/ /\ e.flag = connectId[m]
          /\ cid' = [cid EXCEPT ![m] = e.cid]
          /\ \/ /\ e.result = "rejected"
                /\ EnterInactive(m, e.cid, e.reason, rest)
                /\ UNCHANGED activeByCid
             \/ /\ e.result = "active"
                /\ activeByCid' = [activeByCid EXCEPT ![e.cid] = m]
                /\ TransitionTo(m, "Active", Append(deferEvents[m], e), rest)
                /\ UNCHANGED <<connectId, resultInfo, outbox>>
    /\ UNCHANGED <<apnId, setupReqs, deactReqs>>

\* Mutant: the CHDATA error count is reset one error too late.
RilErrorResponse_LateReset(m, e, rest) ==
    /\ e.flag = connectId[m]
    /\ rilSetChdataErrCnt' = [rilSetChdataErrCnt EXCEPT ![m] =
           IF e.result = "chdata" THEN (@ + 1) % (MaxErrSetChdataCnt + 1) ELSE @]
    /\ EnterInactive(m, cid[m], "RETRY", rest)
    /\ UNCHANGED <<apnId, cid, setupReqs, deactReqs, activeByCid>>

\* A RadioResponseInfo.  The radio restart that the last of MaxErrSetChdataCnt
\* CHDATA errors asks for is the modem's business: it may drop any call anyway.
RilErrorResponse(m, e, rest) ==
    /\ e.flag = connectId[m]
    /\ rilSetChdataErrCnt' = [rilSetChdataErrCnt EXCEPT ![m] =
           IF e.result = "chdata" THEN (@ + 1) % MaxErrSetChdataCnt ELSE @]
    /\ EnterInactive(m, cid[m], "RETRY", rest)
    /\ UNCHANGED <<apnId, cid, setupReqs, deactReqs, activeByCid>>

\* The timer of this cycle ends it, unless the system clock says that less than
\* CONNECTION_TASK_TIME went by since DoConnect.
ProcessConnectTimeout(m, e, rest) ==
    \/ /\ e.flag = connectId[m]
       /\ EnterInactive(m, cid[m], "RETRY", rest)
       /\ UNCHANGED <<apnId, cid, rilSetChdataErrCnt, setupReqs, deactReqs, activeByCid>>
    \/ (e.flag # connectId[m] \/ ~ClockSteady) /\ Ignore(m, rest)

ActivatingProcess(m, e, rest) ==
    \/ e.code = "CONNECT" /\ DeferEvent(m, e, rest)
    \/ /\ e.code = "SETUP" /\ e.result \in {"active", "rejected"}
       /\ RilActivatePdpContextDone(m, e, rest)
    \/ /\ e.code = "SETUP" /\ e.result \in {"error", "chdata"}
       /\ \/ RilErrorResponse(m, e, rest)
          \/ e.flag # connectId[m] /\ Ignore(m, rest)
    \/ e.code = "CONNECT_TIMEOUT" /\ ProcessConnectTimeout(m, e, rest)
    \/ e.code \notin {"CONNECT", "SETUP", "CONNECT_TIMEOUT"} /\ DefaultProcess(m, e, rest)

-----------------------------------------------------------------------------
(* Active *)

\* Mutant: no disconnect timer.
FreeConnection_NoTimer(m, rest) ==
    /\ deactReqs' = [deactReqs EXCEPT ![m] = @ \cup {<<connectId[m], cid[m]>>}]
    /\ TransitionTo(m, "Disconnecting", deferEvents[m], rest)

FreeConnection(m, rest) ==
    /\ deactReqs' = [deactReqs EXCEPT ![m] = @ \cup {<<connectId[m], cid[m]>>}]
    /\ TransitionTo(m, "Disconnecting", deferEvents[m],
                    SendTimer(rest, "DISCONNECT_TIMEOUT", connectId[m]))

ProcessDisconnectDone(m, e, rest) ==
    /\ resultInfo' = [resultInfo EXCEPT ![m] = PdpErrorOf(e.reason)]
    /\ FreeConnection(m, rest)
    /\ UNCHANGED <<connectId, apnId, cid, rilSetChdataErrCnt, setupReqs, activeByCid, outbox>>

\* Mutant: deActiveApnTypeId_ is not set, so Inactive reports nothing.
ProcessLostConnection_NoReport(m, e, rest) ==
    /\ TransitionTo(m, "Inactive", deferEvents[m], rest)
    /\ UNCHANGED <<connectId, apnId, cid, resultInfo, rilSetChdataErrCnt, setupReqs,
                   deactReqs, activeByCid, outbox>>

\* MSG_SM_LOST_CONNECTION and MSG_SM_RIL_ADAPTER_HOST_DIED
ProcessLostConnection(m, e, rest) ==
    /\ EnterInactive(m, cid[m], e.reason, rest)
    /\ UNCHANGED <<apnId, cid, rilSetChdataErrCnt, setupReqs, deactReqs, activeByCid>>

\* Any SetupDataCallResultInfo that reaches the state is reported, whatever its flag.
ProcessDataConnectionComplete(m, e, rest) ==
    /\ Stay(m, RemoveEvent(rest, "CONNECT_TIMEOUT"))
    /\ outbox' = [outbox EXCEPT ![m] = Append(@, Established(m, e))]
    /\ UNCHANGED <<connectId, apnId, cid, resultInfo, rilSetChdataErrCnt, setupReqs, deactReqs, activeByCid>>

ActiveProcess(m, e, rest) ==
    \/ e.code = "CONNECT" /\ Ignore(m, rest)
    \/ e.code = "DISCONNECT" /\ ProcessDisconnectDone(m, e, rest)
    \/ e.code \in {"LOST", "HOST_DIED"} /\ ProcessLostConnection(m, e, rest)
    \/ /\ e.code = "SETUP" /\ e.result \in {"active", "rejected"}
       /\ ProcessDataConnectionComplete(m, e, rest)
    \/ /\ e.code = "SETUP" /\ e.result \notin {"active", "rejected"}
       /\ Ignore(m, rest)
    \/ /\ e.code \notin {"CONNECT", "DISCONNECT", "LOST", "HOST_DIED", "SETUP"}
       /\ DefaultProcess(m, e, rest)

-----------------------------------------------------------------------------
(* Disconnecting *)

\* The answer of this cycle, or an answer that carries no object at all.
ProcessRilDeactivateDataCall(m, e, rest) ==
    \/ /\ e.result = "null" \/ e.flag = connectId[m]
       /\ EnterInactive(m, cid[m], resultInfo[m], RemoveEvent(rest, "DISCONNECT_TIMEOUT"))
       /\ UNCHANGED <<apnId, cid, rilSetChdataErrCnt, setupReqs, deactReqs, activeByCid>>
    \/ e.result # "null" /\ e.flag # connectId[m] /\ Ignore(m, rest)

\* ProcessDisconnectTimeout and ProcessRilAdapterHostDied; both end in RETRY.
EndDisconnecting(m, rest) ==
    /\ EnterInactive(m, cid[m], "RETRY", rest)
    /\ UNCHANGED <<apnId, cid, rilSetChdataErrCnt, setupReqs, deactReqs, activeByCid>>

DisconnectingProcess(m, e, rest) ==
    \/ e.code = "CONNECT" /\ DeferEvent(m, e, rest)
    \/ e.code = "DEACTIVATE" /\ ProcessRilDeactivateDataCall(m, e, rest)
    \/ /\ \/ e.code = "DISCONNECT_TIMEOUT" /\ e.flag = connectId[m]
          \/ e.code = "HOST_DIED"
       /\ EndDisconnecting(m, rest)
    \/ e.code = "DISCONNECT_TIMEOUT" /\ e.flag # connectId[m] /\ Ignore(m, rest)
    \/ /\ e.code \notin {"CONNECT", "DEACTIVATE", "DISCONNECT_TIMEOUT", "HOST_DIED"}
       /\ DefaultProcess(m, e, rest)

-----------------------------------------------------------------------------
(* Dispatch.  The immediate events go first; then anything that is due.     *)

Process(m, e, rest) ==
    /\ \/ curState[m] = "Inactive"      /\ InactiveProcess(m, e, rest)
       \/ curState[m] = "Activating"    /\ ActivatingProcess(m, e, rest)
       \/ curState[m] = "Active"        /\ ActiveProcess(m, e, rest)
       \/ curState[m] = "Disconnecting" /\ DisconnectingProcess(m, e, rest)
    /\ UNCHANGED <<granted, linkCallback>>

DispatchImmediate(m) ==
    /\ immediate[m] # <<>>
    /\ Process(m, Head(immediate[m]), [imm |-> Tail(immediate[m]), queue |-> queue[m]])

\* A timer that runs out, or a radio answer; those of the set-ups of one machine
\* come in the order of the requests if the radio keeps it.
DispatchQueued(m, e) ==
    /\ immediate[m] = <<>>
    /\ e \in queue[m]
    /\ InOrder /\ e.code = "SETUP" =>
           \A x \in queue[m] : x.code = "SETUP" => e.flag <= x.flag
    /\ RadioPrompt /\ e.code \in {"CONNECT_TIMEOUT", "DISCONNECT_TIMEOUT"} => e.flag # connectId[m]
    /\ Process(m, e, [imm |-> <<>>, queue |-> queue[m] \ {e}])

\* An event of CellularDataHandler or DataConnectionManager.
DispatchCommand(m, e) ==
    /\ immediate[m] = <<>>
    /\ Len(deferEvents[m]) < MaxDeferred
    /\ e.code = "CONNECT" =>
           connectId[m] + Len(deferEvents[m]) + (IF curState[m] = "Inactive" THEN 0 ELSE 1)
               <= MaxConnectId
    /\ Process(m, e, [imm |-> <<>>, queue |-> queue[m]])

-----------------------------------------------------------------------------
(* The radio interface.  It may answer a request with any result, late, or  *)
(* never; a radio that keeps the order drops the requests it overtook.      *)

SetupAnswers(n) ==
    {SetupAnswer(n, res, c, "ZERO") : res \in RadioResults \cap {"active"}, c \in Cids}
    \cup {SetupAnswer(n, res, c, r) : res \in RadioResults \cap {"rejected"},
                                      c \in Cids \cup {NoCid}, r \in FailReasons}
    \cup {SetupAnswer(n, res, NoCid, NoReason) : res \in RadioResults \cap {"error", "chdata"}}

RadioAnswersSetup(m, n, e) ==
    /\ n \in setupReqs[m]
    /\ setupReqs' = [setupReqs EXCEPT ![m] =
                        IF InOrder THEN {k \in @ : k > n} ELSE @ \ {n}]
    /\ queue' = [queue EXCEPT ![m] = @ \cup {e}]
    /\ granted' = IF e.result = "active" THEN granted \cup {<<m, n, e.cid>>} ELSE granted
    /\ UNCHANGED <<curState, connectId, apnId, cid, resultInfo, rilSetChdataErrCnt,
                   deferEvents, immediate, linkCallback, deactReqs, activeByCid, outbox>>

RadioAnswersDeactivate(m, d, res) ==
    /\ d \in deactReqs[m]
    /\ deactReqs' = [deactReqs EXCEPT ![m] = @ \ {d}]
    /\ queue' = [queue EXCEPT ![m] = @ \cup {DeactivateAnswer(d[1], res)}]
    /\ UNCHANGED <<curState, connectId, apnId, cid, resultInfo, rilSetChdataErrCnt,
                   deferEvents, immediate, linkCallback, setupReqs, granted, activeByCid, outbox>>

-----------------------------------------------------------------------------
(* OnInterfaceLinkStateChanged(ifName, false), on a binder thread: if a     *)
(* disconnect timer is pending it is replaced by a short one.  The test,    *)
(* the removal and the new timer are three steps; the machine runs between. *)

HasDisconnectTimer(m) == \E x \in queue[m] : x.code = "DISCONNECT_TIMEOUT"

callbackRest == <<curState, connectId, apnId, cid, resultInfo, rilSetChdataErrCnt, deferEvents,
                  immediate, radioVars, activeByCid, outbox>>

LinkDownFound(m) ==
    /\ linkCallback[m] = "idle" /\ HasDisconnectTimer(m)
    /\ linkCallback' = [linkCallback EXCEPT ![m] = "found"]
    /\ UNCHANGED <<queue, callbackRest>>

LinkDownRemove(m) ==
    /\ linkCallback[m] = "found"
    /\ linkCallback' = [linkCallback EXCEPT ![m] = "removed"]
    /\ queue' = [queue EXCEPT ![m] = {x \in @ : x.code # "DISCONNECT_TIMEOUT"}]
    /\ UNCHANGED callbackRest

\* Mutant: the short timer is sent without the connectId_ parameter.
LinkDownRearm_NoParam(m) ==
    /\ linkCallback[m] = "removed"
    /\ linkCallback' = [linkCallback EXCEPT ![m] = "idle"]
    /\ queue' = [queue EXCEPT ![m] = @ \cup {TimerEvent("DISCONNECT_TIMEOUT", 0)}]
    /\ UNCHANGED callbackRest

LinkDownRearm(m) ==
    /\ linkCallback[m] = "removed"
    /\ linkCallback' = [linkCallback EXCEPT ![m] = "idle"]
    /\ queue' = [queue EXCEPT ![m] = @ \cup {TimerEvent("DISCONNECT_TIMEOUT", connectId[m])}]
    /\ UNCHANGED callbackRest

-----------------------------------------------------------------------------
(* CellularDataHandler takes the next event a machine sent it; on a         *)
(* disconnection it removes the machine's cid from the active connections.  *)

HandlerReceives(m) ==
    /\ outbox[m] # <<>>
    /\ outbox' = [outbox EXCEPT ![m] = Tail(@)]
    /\ activeByCid' = IF Head(outbox[m]).kind = "DISCONNECTED" /\ cid[m] \in Cids
                      THEN [activeByCid EXCEPT ![cid[m]] = NoMachine]
                      ELSE activeByCid
    /\ UNCHANGED <<machineVars, linkCallback, radioVars>>

-----------------------------------------------------------------------------
\* Init() and the MSG_STATE_MACHINE_INIT it posts: Inactive::StateBegin has run
\* once, with no APN to deactivate.
Init ==
    /\ curState = [m \in Machines |-> "Inactive"]
    /\ connectId = [m \in Machines |-> 1]
    /\ apnId = [m \in Machines |-> NoApn]
    /\ cid = [m \in Machines |-> NoCid]
    /\ resultInfo = [m \in Machines |-> NoReason]
    /\ rilSetChdataErrCnt = [m \in Machines |-> 0]
    /\ deferEvents = [m \in Machines |-> <<>>]
    /\ immediate = [m \in Machines |-> <<>>]
    /\ queue = [m \in Machines |-> {}]
    /\ linkCallback = [m \in Machines |-> "idle"]
    /\ setupReqs = [m \in Machines |-> {}]
    /\ deactReqs = [m \in Machines |-> {}]
    /\ granted = {}
    /\ activeByCid = [c \in Cids |-> NoMachine]
    /\ outbox = [m \in Machines |-> <<>>]

MachineStep(m) ==
    \/ DispatchImmediate(m)
    \/ \E e \in queue[m] : DispatchQueued(m, e)
    \/ \E e \in Commands : DispatchCommand(m, e)

RadioStep(m) ==
    \/ \E n \in setupReqs[m] : \E e \in SetupAnswers(n) : RadioAnswersSetup(m, n, e)
    \/ \E d \in deactReqs[m], res \in {"done", "null"} : RadioAnswersDeactivate(m, d, res)

LinkStep(m) == LinkDownFound(m) \/ LinkDownRemove(m) \/ LinkDownRearm(m)

Next == \E m \in Machines : MachineStep(m) \/ RadioStep(m) \/ LinkStep(m) \/ HandlerReceives(m)

Spec == Init /\ [][Next]_vars

\* The event queue of a machine is served in time order, so an event that is due
\* is dispatched at last, whatever else is sent; a callback that started finishes.
\* Nothing is assumed of the radio.
TimerRunsOut(m, code) == \E e \in queue[m] : e.code = code /\ e.flag = connectId[m] /\ DispatchQueued(m, e)

Fairness ==
    \A m \in Machines :
        /\ WF_vars(DispatchImmediate(m))
        /\ SF_vars(TimerRunsOut(m, "CONNECT_TIMEOUT"))
        /\ SF_vars(TimerRunsOut(m, "DISCONNECT_TIMEOUT"))
        /\ WF_vars(LinkDownRemove(m)) /\ WF_vars(LinkDownRearm(m))

FairSpec == Spec /\ Fairness

-----------------------------------------------------------------------------
(* Properties *)

\* Every variable holds a value of its type.
TypeOK ==
    /\ curState \in [Machines -> {"Inactive", "Activating", "Active", "Disconnecting"}]
    /\ connectId \in [Machines -> Nat]
    /\ apnId \in [Machines -> Apns \cup {NoApn}]
    /\ cid \in [Machines -> Cids \cup {NoCid}]
    /\ resultInfo \in [Machines -> Reasons]
    /\ rilSetChdataErrCnt \in [Machines -> 0 .. MaxErrSetChdataCnt - 1]
    /\ deferEvents \in [Machines -> Seq(Event)]
    /\ immediate \in [Machines -> Seq(Event)]
    /\ queue \in [Machines -> SUBSET Event]
    /\ linkCallback \in [Machines -> {"idle", "found", "removed"}]
    /\ setupReqs \in [Machines -> SUBSET Nat]
    /\ deactReqs \in [Machines -> SUBSET (Nat \X (Cids \cup {NoCid}))]
    /\ granted \in SUBSET (Machines \X Nat \X Cids)
    /\ activeByCid \in [Cids -> Machines \cup {NoMachine}]
    /\ outbox \in [Machines -> Seq(Report)]

\* A machine that is Active or Disconnecting holds the context that the modem
\* granted to the set-up request of this very cycle: an answer that comes after
\* its cycle timed out never connects a later cycle to the old context.
ContextOfThisCycle ==
    \A m \in Machines :
        curState[m] \in {"Active", "Disconnecting"} => <<m, connectId[m], cid[m]>> \in granted

\* A machine asks the modem to deactivate a context only in the cycle to which the
\* modem granted it, so a late or repeated disconnect never takes down a context
\* that by then belongs to someone else's request.
DeactivatesOwnContext ==
    \A m \in Machines : \A d \in deactReqs[m] : <<m, d[1], d[2]>> \in granted

\* A machine that waits for a radio answer is always woken: in Activating the
\* connect timer of the cycle is queued (if the clock is not set back), in
\* Disconnecting the disconnect timer is, or the link callback is about to put
\* it back.
WaitIsTimed ==
    \A m \in Machines :
        /\ curState[m] = "Activating" /\ ClockSteady =>
               TimerEvent("CONNECT_TIMEOUT", connectId[m]) \in queue[m]
        /\ curState[m] = "Disconnecting" =>
               \/ TimerEvent("DISCONNECT_TIMEOUT", connectId[m]) \in queue[m]
               \/ linkCallback[m] = "removed"

\* The connection that a machine reports as established is the one that the
\* radio set up for the cycle it is in (provided the radio answers in order:
\* Active does not compare the flag of a set-up answer).
ReportsOwnAnswer ==
    \A m \in Machines : \A i \in 1 .. Len(outbox[m]) :
        outbox[m][i].kind = "ESTABLISHED" => outbox[m][i].answerOf = outbox[m][i].cycle

\* The call a machine runs, as DataCall sees it: it is up once it is reported, which
\* in Active takes until the re-sent set-up answer is dispatched.
phaseBar == [m \in Machines |->
    CASE curState[m] = "Inactive"      -> "idle"
      [] curState[m] = "Activating"    -> "opening"
      [] curState[m] = "Disconnecting" -> "closing"
      [] OTHER -> IF \E i \in 1 .. Len(immediate[m]) : immediate[m][i].code = "SETUP"
                  THEN "opening" ELSE "up"]

reportsBar == [m \in Machines |-> [i \in 1 .. Len(outbox[m]) |->
                  [kind |-> outbox[m][i].kind, session |-> outbox[m][i].cycle]]]

Call == INSTANCE DataCall WITH phase <- phaseBar, session <- connectId, reports <- reportsBar

\* The machines implement DataCall (again with a radio that answers in order): one
\* disconnection report per cycle, and at most one establishment report before it,
\* along every path through time-outs, losses, deferred commands and host deaths.
ImplementsDataCall == Call!DCSpec

\* No cycle hangs: with the queue served fairly and a steady clock every machine
\* that starts to activate or to disconnect gets out of that state, even if the
\* radio never answers.
WaitsEnd ==
    \A m \in Machines :
        /\ curState[m] = "Activating" ~> curState[m] # "Activating"
        /\ curState[m] = "Disconnecting" ~> curState[m] = "Inactive"
=============================================================================

------------------------ MODULE CellularDataHandler -------------------------
(***************************************************************************)
(* CellularDataHandler with the APN holders of ApnManager, and             *)
(* DataConnectionManager, composed with the state machines they drive.     *)
(*                                                                         *)
(* Each APN type has one holder.  A request for the type makes the handler *)
(* find or create a machine, hand it to the holder and send it             *)
(* MSG_SM_CONNECT; the machine's reports come back as events and move the  *)
(* holder.  The handler, the manager and every machine have a thread and a *)
(* queue each: between a command and its report anything may happen.       *)
(***************************************************************************)
EXTENDS CellularDataStateMachine, SequencesExt

CONSTANTS
    SortApnHolder,     \* the APN types, the highest priority first
    Priority,          \* ApnHolder::GetPriority() of a type; types may share one
    DefaultRoles,      \* the types default and internal_default
    MultiDefaultRoles, \* the types bip and dun
    MmsRoles,          \* the type mms
    Serves,            \* Serves[a]: the types the APN item of holder a can deal with
    SingleConnection,  \* IsSingleConnectionEnabled
    CidReuse,          \* the modem gives a cid again before the phone has wound its last use up
    Disturbances,      \* what happens besides requests: a subset of PhoneEvents
    Requests,          \* bound: the requests <<type, TRUE>> and releases <<type, FALSE>>
    MaxHostDeaths      \* bound: HOST_DIED events that wait in an inbox

InternalRole == "internal_default"

PhoneEvents == {"clearAll", "establishAll", "apnChanged", "hostDied", "modemDrops"}

ASSUME HandlerAssumption ==
    /\ SortApnHolder \in Seq(Apns) /\ Apns = Range(SortApnHolder)
    /\ Priority \in [Apns -> Nat]
    /\ \A i, j \in DOMAIN SortApnHolder :
           i < j => Priority[SortApnHolder[i]] >= Priority[SortApnHolder[j]]
    /\ DefaultRoles \cup MultiDefaultRoles \cup MmsRoles \subseteq Apns
    /\ Serves \in [Apns -> SUBSET Apns]
    /\ Disturbances \subseteq PhoneEvents /\ Requests \subseteq Apns \X BOOLEAN
    /\ SingleConnection \in BOOLEAN /\ CidReuse \in BOOLEAN

VARIABLES
    apnState,        \* ApnHolder::apnState_
    stateMachine,    \* ApnHolder::cellularDataStateMachine_
    dataCallEnabled, \* ApnHolder::dataCallEnabled_
    establishEvents, \* pending MSG_ESTABLISH_DATA_CONNECTION, by their APN id
    retryEvents,     \* pending MSG_RETRY_TO_SETUP_DATACALL, by their APN id
    inbox,           \* commands queued to a machine
    machines,        \* DataConnectionManager::stateMachines_, in creation order
    currentState,    \* CellularDataStateMachine::currentState_, what IsInactiveState() ... read
    physicalActive,  \* physicalConnectionActiveState_
    modemContexts,   \* the cids in use at the modem
    listChanged,     \* RADIO_DATA_CALL_LIST_CHANGED events queued to the manager
    displaced        \* history: machines whose call another machine took out of the map,
                     \* when it connected with the same cid or when its own call ended

handlerVars == <<apnState, stateMachine, dataCallEnabled, establishEvents, retryEvents,
                 inbox, machines, physicalActive>>
modemVars   == <<modemContexts, listChanged>>
allVars     == <<vars, handlerVars, modemVars, currentState, displaced>>

-----------------------------------------------------------------------------
(* A handler runs to completion on the handler's thread, so its effect is    *)
(* written as a function from handler state to handler state:                *)
(* s.st, s.sm, s.en, s.est, s.box and s.mk are the variables above.          *)

HandlerState == [st |-> apnState, sm |-> stateMachine, en |-> dataCallEnabled,
                 est |-> establishEvents, box |-> inbox, mk |-> machines]

\* What a loop over the holders, in the order of their priority, makes of s.
ForEachHolder(Body(_, _), s) ==
    LET after[i \in 0 .. Len(SortApnHolder)] ==
            IF i = 0 THEN s ELSE Body(after[i - 1], SortApnHolder[i])
    IN  after[Len(SortApnHolder)]

SetHandlerState(s) ==
    /\ apnState' = s.st /\ stateMachine' = s.sm /\ dataCallEnabled' = s.en
    /\ establishEvents' = s.est /\ inbox' = s.box /\ machines' = s.mk

SendDisconnect(s, a, reason) ==
    [s EXCEPT !.st[a] = "DISCONNECTING",
              !.box[s.sm[a]] = Append(@, DisconnectEvent(reason))]

ClearConnection(s, a, reason) ==
    IF s.sm[a] = NoMachine \/ s.st[a] \in {"IDLE", "DISCONNECTING", "RETRYING"}
    THEN s ELSE SendDisconnect(s, a, reason)

ClearAllConnections(s, reason) ==
    ForEachHolder(LAMBDA t, a : IF a \in MmsRoles THEN t ELSE ClearConnection(t, a, reason), s)

ReleaseDataConnection(s, a) ==
    IF s.sm[a] = NoMachine THEN s ELSE SendDisconnect(s, a, "CLEAR")

\* Setting up default takes bip and dun down.
CheckMultiApnState(s, a) ==
    IF a # "default" THEN s
    ELSE ForEachHolder(LAMBDA t, b :
                         IF b \in MultiDefaultRoles /\ t.st[b] \in {"CONNECTED", "CONNECTING"}
                         THEN ReleaseDataConnection(t, b) ELSE t,
                       s)

HasAnyHigherPriorityConnection(s, a) ==
    \E b \in Apns : /\ Priority[b] > Priority[a] /\ s.en[b]
                   /\ s.st[b] \in {"CONNECTED", "CONNECTING", "DISCONNECTING"}

HasAnyConnectedState(s) == \E a \in Apns : s.st[a] \in {"CONNECTED", "DISCONNECTING"}

\* Mutant: a call that is being disconnected no longer counts.
GetOverallApnState_ConnectedOnly(s) ==
    IF \E a \in Apns : s.st[a] = "CONNECTED" THEN "CONNECTED"
    ELSE IF \E a \in Apns : s.st[a] \in {"CONNECTING", "RETRYING"} THEN "CONNECTING"
    ELSE "IDLE"

GetOverallApnState(s) ==
    IF HasAnyConnectedState(s) THEN "CONNECTED"
    ELSE IF \E a \in Apns : s.st[a] \in {"CONNECTING", "RETRYING"} THEN "CONNECTING"
    ELSE "IDLE"

\* Mutant: every inactive machine is taken for unused.
IsDataConnectionNotUsed_Always(s, m) == TRUE

IsDataConnectionNotUsed(s, m) == \A a \in Apns : s.sm[a] # m

\* The first machine that is inactive and has no holder.
FindIdleCellularDataConnection(s) ==
    LET idle == {i \in DOMAIN s.mk : /\ currentState[s.mk[i]] = "Inactive"
                                     /\ IsDataConnectionNotUsed(s, s.mk[i])}
    IN  IF idle = {} THEN NoMachine ELSE s.mk[Min(idle)]

\* An idle machine or a new one is given MSG_SM_CONNECT.  Bound: no machine is made
\* once there are Cardinality(Machines).
Connect(s, a) ==
    LET idle == FindIdleCellularDataConnection(s)
        new  == Machines \ Range(s.mk)
        m    == IF idle # NoMachine THEN idle ELSE CHOOSE k \in new : TRUE
    IN  IF idle = NoMachine /\ new = {} THEN s
        ELSE [s EXCEPT !.st[a] = "CONNECTING", !.sm[a] = m,
                       !.box[m] = Append(@, ConnectEvent(a)),
                       !.mk = IF idle # NoMachine THEN @ ELSE Append(@, m)]

\* CheckForCompatibleDataConnection: the machines whose APN item serves the type.
CompatibleMachines(s, a) ==
    {m \in Range(s.mk) : apnId[m] # NoApn /\ a \in Serves[apnId[m]] /\ currentState[m] # "Inactive"}

EstablishDataConnection(s, a) ==
    LET dcs == IF a \in DefaultRoles THEN {} ELSE CompatibleMachines(s, a)
    IN  IF \E m \in dcs : currentState[m] = "Active" THEN [s EXCEPT !.en[a] = FALSE]
        ELSE IF dcs # {} THEN [s EXCEPT !.est = @ \cup {a}]
        ELSE IF SingleConnection /\ HasAnyHigherPriorityConnection(s, a) THEN s
        ELSE IF SingleConnection /\ GetOverallApnState(s) \in {"CONNECTING", "CONNECTED"}
             THEN ClearAllConnections(s, "CHANGE")
        ELSE Connect(s, a)

\* AttemptEstablishDataConnection.  `outcome' is what the checks of slot, attach, SIM,
\* roaming, airplane and power-save mode give: "refused", "noApn" (they pass, but
\* no APN item is left to try) or "ok".
Attempt(s, a, outcome) ==
    IF outcome = "refused" THEN s
    ELSE IF s.st[a] = "DISCONNECTING" /\ s.est = {} THEN [s EXCEPT !.est = {a}]
    ELSE IF s.st[a] # "IDLE" THEN s
    ELSE LET t == CheckMultiApnState(s, a)
         IN  IF outcome = "noApn" THEN t ELSE EstablishDataConnection(t, a)

EstablishAllApnsIfConnectable(s, allow) ==
    ForEachHolder(LAMBDA t, a :
                    IF ~t.en[a] THEN t
                    ELSE Attempt(IF t.st[a] = "RETRYING" THEN ReleaseDataConnection(t, a) ELSE t,
                                 a, allow[a]),
                  s)

HandleSortConnection(s) ==
    LET wanted == {i \in DOMAIN SortApnHolder : s.en[SortApnHolder[i]]}
    IN  IF GetOverallApnState(s) = "IDLE" /\ wanted # {}
        THEN [s EXCEPT !.est = @ \cup {SortApnHolder[Min(wanted)]}] ELSE s

\* Bound: once the machines have ended MaxConnectId cycles in all, the checks refuse.
EndedCycles == MapThenSumSet(LAMBDA m : connectId[m] - 1, Machines)

Outcomes == IF EndedCycles >= MaxConnectId THEN {"refused"} ELSE {"refused", "noApn", "ok"}

-----------------------------------------------------------------------------
(* Requests and the events the handler sends itself *)

\* MsgRequestNetwork
RequestNetwork(a, on) ==
    /\ dataCallEnabled' = [dataCallEnabled EXCEPT ![a] = on]
    /\ establishEvents' = establishEvents \cup {a}
    /\ UNCHANGED <<vars, apnState, stateMachine, retryEvents, inbox, machines, physicalActive,
                   modemVars, displaced>>

\* The reason that a release gives depends on the bearer and the radio technology;
\* `outcome' is "notAllowed" if isCardAllowData is false.
MsgEstablishDataConnection(a, outcome, reason) ==
    LET s == [HandlerState EXCEPT !.est = @ \ {a}]
    IN  /\ a \in establishEvents
        /\ SetHandlerState(IF s.en[a] /\ outcome # "notAllowed"
                            THEN Attempt(s, a, outcome) ELSE ClearConnection(s, a, reason))
        /\ UNCHANGED <<vars, retryEvents, physicalActive, modemVars, displaced>>

RetryToSetupDatacall(a) ==
    /\ a \in retryEvents
    /\ retryEvents' = retryEvents \ {a}
    /\ IF apnState[a] = "RETRYING"
       THEN /\ apnState' = [apnState EXCEPT ![a] = "IDLE"]
            /\ establishEvents' = establishEvents \cup {a}
       ELSE UNCHANGED <<apnState, establishEvents>>
    /\ UNCHANGED <<vars, stateMachine, dataCallEnabled, inbox, machines, physicalActive, modemVars, displaced>>

-----------------------------------------------------------------------------
(* Reports of the machines *)

\* The machines' own variables keep; the report leaves the queue.
TakeReport(m) ==
    /\ outbox[m] # <<>>
    /\ outbox' = [outbox EXCEPT ![m] = Tail(@)]
    /\ UNCHANGED <<machineVars, linkCallback, radioVars, modemVars>>

EstablishDataConnectionComplete(m) ==
    LET r == Head(outbox[m])
        a == r.apn
    IN  /\ TakeReport(m)
        /\ r.kind = "ESTABLISHED"
        /\ apnState' = [apnState EXCEPT ![a] =
                           IF stateMachine[a] = NoMachine THEN "IDLE" ELSE "CONNECTED"]
        /\ retryEvents' = IF a = "default" /\ InternalRole \in Apns
                          THEN retryEvents \cup {InternalRole} ELSE retryEvents
        /\ physicalActive' = TRUE
        /\ UNCHANGED <<activeByCid, stateMachine, dataCallEnabled, establishEvents, inbox, machines,
                       displaced>>

\* Of the types, default alone has NET_CAPABILITY_INTERNET.
HasInternetCapability(c) == \E m \in Machines : activeByCid[c] = m /\ apnId[m] = "default"

\* ConvertPdpErrorToDisconnReason, for the errors of this model.
DisconnReasonOf(error) ==
    CASE error = "TO_NORMAL"               -> "NORMAL"
      [] error = "TO_GSM_AND_CALLING_ONLY" -> "GSM_AND_CALLING_ONLY"
      [] error = "TO_CLEAR"                -> "CLEAR"
      [] error = "TO_CHANGE"               -> "CHANGE"
      [] error \in {"TO_PERMANENT", "BARRED"} -> "PERMANENT"
      [] OTHER                             -> "RETRY"

\* Mutant: a call that is to be retried leaves the holder in PROFILE_STATE_FAILED.
RetryOrClear_Failed(s, a, reason, allow) ==
    CASE reason = "CLEAR" -> EstablishAllApnsIfConnectable(ClearConnection(s, a, reason), allow)
      [] reason = "PERMANENT" -> ClearConnection(s, a, "CLEAR")
      [] reason = "RETRY" -> [s EXCEPT !.st[a] = "FAILED"]
      [] OTHER -> s

\* RetryOrClearConnection, for a holder that is still wanted.
RetryOrClear(s, a, reason, allow) ==
    CASE reason = "CLEAR" -> EstablishAllApnsIfConnectable(ClearConnection(s, a, reason), allow)
      [] reason = "PERMANENT" -> ClearConnection(s, a, "CLEAR")
      [] reason = "RETRY" -> [s EXCEPT !.st[a] = "RETRYING"]
      [] OTHER -> s

GiveUpMachine(s, a) == [s EXCEPT !.st[a] = "IDLE", !.sm[a] = NoMachine]

\* Mutant: clear() in place of erase(cid).
RemoveActiveConnectionByCid_All(c) == activeByCid' = [k \in Cids |-> NoMachine]

RemoveActiveConnectionByCid(c) ==
    activeByCid' = [k \in Cids |-> IF k = c THEN NoMachine ELSE activeByCid[k]]

\* Mutant: any call that ends takes the physical link down.
UpdatePhysicalConnectionState_Off == physicalActive' = FALSE

UpdatePhysicalConnectionState == physicalActive' = (\E c \in Cids : activeByCid'[c] # NoMachine)

\* The machine that the manager's map gives for c: none, or one.
MappedTo(c) == {k \in Machines : c \in Cids /\ activeByCid[c] = k}

\* The machine whose cid_ is removed is the one the holder has, at this moment.
DisconnectDataComplete(m, allow) ==
    LET r      == Head(outbox[m])
        a      == r.apn
        dc     == stateMachine[a]
        reason == DisconnReasonOf(r.reason)
        s1     == GiveUpMachine(HandlerState, a)
        s2     == IF s1.en[a] THEN RetryOrClear(s1, a, reason, allow) ELSE s1
        s3     == IF reason = "CHANGE" THEN HandleSortConnection(s2) ELSE s2
    IN  /\ TakeReport(m)
        /\ r.kind = "DISCONNECTED"
        /\ \/ /\ dc = NoMachine
              /\ apnState' = [apnState EXCEPT ![a] = "IDLE"]
              /\ UNCHANGED <<activeByCid, stateMachine, dataCallEnabled, establishEvents,
                             retryEvents, inbox, machines, physicalActive, displaced>>
           \/ /\ dc # NoMachine
              /\ RemoveActiveConnectionByCid(cid[dc])
              /\ displaced' = (displaced \cup MappedTo(cid[dc])) \ {dc}
              /\ UpdatePhysicalConnectionState
              /\ retryEvents' = IF s1.en[a] /\ reason = "RETRY"
                                THEN retryEvents \cup {a} ELSE retryEvents
              /\ SetHandlerState(s3)

-----------------------------------------------------------------------------
(* Events of the phone: all of them clear or establish every holder.        *)

\* Radio off, roaming or data switched off, SIM removed, stall recovery ...
ClearAll(reason) ==
    /\ "clearAll" \in Disturbances
    /\ SetHandlerState(ClearAllConnections(HandlerState, reason))
    /\ UNCHANGED <<vars, retryEvents, physicalActive, modemVars, displaced>>

\* PS attached, radio on, roaming or data switched on ...
EstablishAll(allow) ==
    /\ "establishAll" \in Disturbances
    /\ SetHandlerState(EstablishAllApnsIfConnectable(HandlerState, allow))
    /\ UNCHANGED <<vars, retryEvents, physicalActive, modemVars, displaced>>

\* Mutant: a holder that waits to retry loses its event and keeps its state.
HandleApnChanged_KeepState(sameApn) ==
    LET s == IF sameApn THEN HandlerState ELSE ClearAllConnections(HandlerState, "CLEAR")
    IN  /\ "apnChanged" \in Disturbances
        /\ SetHandlerState([s EXCEPT !.est = Apns])
        /\ retryEvents' = IF \E a \in Apns : s.st[a] = "RETRYING" THEN {} ELSE retryEvents
        /\ UNCHANGED <<vars, physicalActive, modemVars, displaced>>

\* The connections are cleared if the attach APN is not the last one.
HandleApnChanged(sameApn) ==
    LET s == IF sameApn THEN HandlerState ELSE ClearAllConnections(HandlerState, "CLEAR")
        retrying == {a \in Apns : s.st[a] = "RETRYING"}
    IN  /\ "apnChanged" \in Disturbances
        /\ SetHandlerState([s EXCEPT !.st = [a \in Apns |-> IF a \in retrying THEN "IDLE" ELSE s.st[a]],
                                     !.est = Apns])
        /\ retryEvents' = IF retrying # {} THEN {} ELSE retryEvents
        /\ UNCHANGED <<vars, physicalActive, modemVars, displaced>>

OnRilAdapterHostDied ==
    /\ "hostDied" \in Disturbances
    /\ \A m \in Machines : Cardinality({i \in DOMAIN inbox[m] : inbox[m][i].code = "HOST_DIED"})
                               < MaxHostDeaths
    /\ inbox' = [m \in Machines |-> IF m \in Range(machines)
                                    THEN Append(inbox[m], HostDiedEvent) ELSE inbox[m]]
    /\ UNCHANGED <<vars, apnState, stateMachine, dataCallEnabled, establishEvents, retryEvents,
                   machines, physicalActive, modemVars, displaced>>

-----------------------------------------------------------------------------
(* DataConnectionManager and the modem *)

\* RadioDataCallListChanged: LOST_CONNECTION to the active connections with that cid.
RadioDataCallListChanged(c, reason) ==
    /\ c \in listChanged
    /\ listChanged' = listChanged \ {c}
    /\ LET lost == {m \in Machines : (\E k \in Cids : activeByCid[k] = m) /\ cid[m] = c}
       IN  inbox' = [m \in Machines |-> IF m \in lost THEN Append(inbox[m], LostEvent(reason))
                                        ELSE inbox[m]]
    /\ UNCHANGED <<vars, apnState, stateMachine, dataCallEnabled, establishEvents, retryEvents,
                   machines, physicalActive, modemContexts, displaced>>

ModemDropsContext(c) ==
    /\ "modemDrops" \in Disturbances
    /\ c \in modemContexts
    /\ modemContexts' = modemContexts \ {c}
    /\ listChanged' = listChanged \cup {c}
    /\ UNCHANGED <<vars, handlerVars, displaced>>

\* No loss of the cid waits at the manager, and no other machine has a call with it, is
\* about to have one, or has ended one that the handler has not heard of.
IsWoundUp(m, c) ==
    /\ c \notin listChanged
    /\ \A k \in Machines \ {m} :
           /\ cid[k] = c => curState[k] \in {"Inactive", "Activating"} /\ outbox[k] = <<>>
           /\ \A x \in queue[k] : x.cid = c => x.flag # connectId[k]

ModemAnswersSetup(m, n, e) ==
    /\ RadioAnswersSetup(m, n, e)
    /\ e.result = "active" => e.cid \notin modemContexts
    /\ e.cid # NoCid => CidReuse \/ IsWoundUp(m, e.cid)
    /\ modemContexts' = IF e.result = "active" THEN modemContexts \cup {e.cid} ELSE modemContexts
    /\ UNCHANGED <<handlerVars, listChanged, displaced>>

ModemDeactivates(m, d) ==
    /\ RadioAnswersDeactivate(m, d, "done")
    /\ modemContexts' = modemContexts \ {d[2]}
    /\ UNCHANGED <<handlerVars, listChanged, displaced>>

-----------------------------------------------------------------------------
(* The machines, now fed by the inbox.  A machine dispatches its next event   *)
(* when the last one is through: Inactive::StateBegin sends its report before *)
(* SetCurrentState, and the handler may act on the report in between.         *)

Publish(m) ==
    currentState' = IF curState'[m] = "Inactive" THEN currentState
                    ELSE [currentState EXCEPT ![m] = curState'[m]]

\* AddActiveConnectionByCid: a cid has one entry, the new call's.
Displace(m) ==
    displaced' = displaced \cup {k \in Machines \ {m} :
                                   \E c \in Cids : activeByCid[c] = k /\ activeByCid'[c] = m}

DispatchInbox(m) ==
    /\ currentState[m] = curState[m]
    /\ immediate[m] = <<>> /\ inbox[m] # <<>>
    /\ Process(m, Head(inbox[m]), [imm |-> <<>>, queue |-> queue[m]])
    /\ inbox' = [inbox EXCEPT ![m] = Tail(@)]
    /\ Publish(m) /\ Displace(m)
    /\ UNCHANGED <<apnState, stateMachine, dataCallEnabled, establishEvents, retryEvents,
                   machines, physicalActive, modemVars>>

DispatchOwn(m) ==
    /\ currentState[m] = curState[m]
    /\ DispatchImmediate(m) \/ \E e \in queue[m] : DispatchQueued(m, e)
    /\ Publish(m) /\ Displace(m)
    /\ UNCHANGED <<handlerVars, modemVars>>

SetCurrentState(m) ==
    /\ currentState[m] # curState[m]
    /\ currentState' = [currentState EXCEPT ![m] = curState[m]]
    /\ UNCHANGED <<vars, handlerVars, modemVars, displaced>>

-----------------------------------------------------------------------------
HandlerInit ==
    /\ Init
    /\ apnState = [a \in Apns |-> "IDLE"]
    /\ stateMachine = [a \in Apns |-> NoMachine]
    /\ dataCallEnabled = [a \in Apns |-> FALSE]
    /\ establishEvents = {}
    /\ retryEvents = {}
    /\ inbox = [m \in Machines |-> <<>>]
    /\ machines = <<>>
    /\ currentState = curState
    /\ physicalActive = FALSE
    /\ modemContexts = {}
    /\ listChanged = {}
    /\ displaced = {}

HandlerStep ==
    \/ \E q \in Requests : RequestNetwork(q[1], q[2])
    \/ \E a \in establishEvents, outcome \in Outcomes \cup {"notAllowed"}, reason \in DisconnectReasons :
           MsgEstablishDataConnection(a, outcome, reason)
    \/ \E a \in retryEvents : RetryToSetupDatacall(a)
    \/ \E m \in Machines : EstablishDataConnectionComplete(m)
    \/ \E m \in Machines, allow \in [Apns -> Outcomes] : DisconnectDataComplete(m, allow)
    \/ \E reason \in DisconnectReasons : ClearAll(reason)
    \/ \E allow \in [Apns -> Outcomes] : EstablishAll(allow)
    \/ \E sameApn \in BOOLEAN : HandleApnChanged(sameApn)
    \/ OnRilAdapterHostDied

ModemStep ==
    \/ \E c \in listChanged, r \in FailReasons : RadioDataCallListChanged(c, r)
    \/ \E c \in modemContexts : ModemDropsContext(c)
    \/ \E m \in Machines : \E n \in setupReqs[m] : \E e \in SetupAnswers(n) : ModemAnswersSetup(m, n, e)
    \/ \E m \in Machines : \E d \in deactReqs[m] : ModemDeactivates(m, d)

HandlerNext ==
    \/ HandlerStep /\ UNCHANGED currentState
    \/ ModemStep /\ UNCHANGED currentState
    \/ \E m \in Machines : DispatchInbox(m) \/ DispatchOwn(m) \/ SetCurrentState(m)

HandlerSpec == HandlerInit /\ [][HandlerNext]_allVars

\* Every queue is served: a machine's own (see Fairness), its inbox, and the handler's
\* queue of reports.  Nothing is assumed of the requests, the phone or the modem.
TimerFires(m, code) ==
    /\ currentState[m] = curState[m]
    /\ TimerRunsOut(m, code)
    /\ Publish(m) /\ Displace(m)
    /\ UNCHANGED <<handlerVars, modemVars>>

Resends(m) ==
    /\ currentState[m] = curState[m]
    /\ DispatchImmediate(m)
    /\ Publish(m) /\ Displace(m)
    /\ UNCHANGED <<handlerVars, modemVars>>

HandlerFairness ==
    \A m \in Machines :
        /\ WF_allVars(Resends(m)) /\ WF_allVars(SetCurrentState(m))
        /\ SF_allVars(TimerFires(m, "CONNECT_TIMEOUT"))
        /\ SF_allVars(TimerFires(m, "DISCONNECT_TIMEOUT"))
        /\ SF_allVars(DispatchInbox(m))
        /\ WF_allVars(EstablishDataConnectionComplete(m) /\ UNCHANGED currentState)
        /\ WF_allVars(\E allow \in [Apns -> Outcomes] : DisconnectDataComplete(m, allow)
                                                        /\ UNCHANGED currentState)

HandlerFairSpec == HandlerSpec /\ HandlerFairness

-----------------------------------------------------------------------------
(* Properties *)

ApnStates == {"IDLE", "CONNECTING", "CONNECTED", "DISCONNECTING", "RETRYING"}

\* Every variable of the handler, the manager and the modem holds a value of its type.
HandlerTypeOK ==
    /\ apnState \in [Apns -> ApnStates]
    /\ stateMachine \in [Apns -> Machines \cup {NoMachine}]
    /\ dataCallEnabled \in [Apns -> BOOLEAN]
    /\ establishEvents \subseteq Apns /\ retryEvents \subseteq Apns
    /\ inbox \in [Machines -> Seq(Event)]
    /\ Range(machines) \subseteq Machines
    /\ currentState \in [Machines -> {"Inactive", "Activating", "Active", "Disconnecting"}]
    /\ physicalActive \in BOOLEAN
    /\ modemContexts \subseteq Cids /\ listChanged \subseteq Cids
    /\ displaced \subseteq Machines

\* A machine is at work if it runs a cycle, is about to, or has ended one that the
\* handler has not heard of.
AtWork(m) ==
    \/ curState[m] # "Inactive"
    \/ \E i \in DOMAIN inbox[m] : inbox[m][i].code = "CONNECT"
    \/ \E i \in DOMAIN outbox[m] : outbox[m][i].kind = "DISCONNECTED"

\* Ownership survives every race of commands, reports, losses and time-outs: a
\* holder owns a machine exactly while it is neither idle nor waiting to retry, no
\* machine has two owners, every machine at work has one, and it works for the APN
\* of its owner: a machine nobody owns would keep a PDP context nobody can release.
OwnerOfEveryCall ==
    /\ \A a \in Apns : stateMachine[a] = NoMachine <=> apnState[a] \in {"IDLE", "RETRYING"}
    /\ \A a, b \in Apns : stateMachine[a] = stateMachine[b] /\ stateMachine[a] # NoMachine => a = b
    /\ \A m \in Machines : AtWork(m) <=> \E a \in Apns : stateMachine[a] = m
    /\ \A a \in Apns, m \in Machines :
           stateMachine[a] = m /\ curState[m] # "Inactive" => apnId[m] = a

\* A holder that waits to retry has its retry event pending: changing the APNs, which
\* removes the events of all holders at once, strands no holder in RETRYING.
RetryIsScheduled == \A a \in Apns : apnState[a] = "RETRYING" => a \in retryEvents

\* A machine is Inactive when it takes a CONNECT, although the handler chose it, and
\* sent the event, on another thread: no CONNECT is ignored (Active does so, and the
\* holder would stay CONNECTING for good) or deferred into a later cycle.
ConnectFindsInactive ==
    \A m \in Machines : immediate[m] = <<>> /\ inbox[m] # <<>> /\ Head(inbox[m]).code = "CONNECT"
                           => curState[m] = "Inactive"

HasCall(m) == curState[m] \in {"Active", "Disconnecting"}

\* The manager's map follows the calls, with any modem: a call is under its cid, so a
\* loss reaches its machine, unless another call took that entry (the handler erases
\* the cid that a finished machine remembers, whoever has it now); and an entry is
\* that of a call, or of one whose end the handler has still to hear.
MapFollowsCalls ==
    /\ \A m \in Machines : HasCall(m) => m \in displaced \/ activeByCid[cid[m]] = m
    /\ \A c \in Cids, m \in Machines :
           activeByCid[c] = m => cid[m] = c /\ (HasCall(m) \/ outbox[m] # <<>>)

\* The physical link follows the calls too, although it is recomputed from the map
\* whenever any call ends: it is reported as active while a holder is connected (whose
\* call was not taken out of the map), and not once the last call is gone.
LinkFollowsCalls ==
    /\ \A a \in Apns :
           apnState[a] = "CONNECTED" => physicalActive \/ stateMachine[a] \in displaced
    /\ physicalActive => \E m \in Machines : HasCall(m) \/ outbox[m] # <<>>

\* What HasInternetCapability answers is right for the call of default: 1 while it is
\* connected and the modem has its context.
InternetIsAnswered ==
    \A m \in Machines :
        /\ "default" \in Apns /\ apnState["default"] = "CONNECTED" /\ stateMachine["default"] = m
        /\ curState[m] = "Active" /\ cid[m] \in modemContexts
        => HasInternetCapability(cid[m])

\* In single-connection mode at most one holder has a call, in whatever order the
\* requests, the takeovers by priority and the reports of the old call come.
SingleCall ==
    SingleConnection =>
        \A a, b \in Apns : stateMachine[a] # NoMachine /\ stateMachine[b] # NoMachine => a = b

\* No holder hangs: whatever the modem does or fails to do, a holder that is connecting
\* or disconnecting reaches another state (the machine's timer sees to it, and its
\* report finds the holder).
HoldersSettle ==
    \A a \in Apns :
        /\ apnState[a] = "CONNECTING" ~> apnState[a] # "CONNECTING"
        /\ apnState[a] = "DISCONNECTING" ~> apnState[a] # "DISCONNECTING"
=============================================================================

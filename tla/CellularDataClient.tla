------------------------- MODULE CellularDataClient -------------------------
(***************************************************************************)
(* An application: the JavaScript functions of napi_cellular_data.cpp, the *)
(* CellularDataClient behind them, and the service of CellularDataService. *)
(*                                                                         *)
(* A function queues work for a pool thread; the thread connects, asks the *)
(* service over IPC and settles the promise.  An IPC is two steps: the     *)
(* service executes the request at once, the answer is taken later and is  *)
(* lost if the process died.  Beside the pool thread run the binder thread *)
(* that tells of a change of the default slot (UpdateDefaultCellularData-  *)
(* SlotId, one at a time: the calls are one-way) and OnRemoteDied.  The    *)
(* three share the cached slot and card, under no lock.                    *)
(***************************************************************************)
EXTENDS CellularDataService

CONSTANTS
    RestBudgets,   \* bound: the changes, faults and calls of a behaviour that begins at rest
    Apis,          \* the functions the application uses
    Callers        \* who it may be: [system, granted, policy]

ASSUME ClientAssumption == RestBudgets \subseteq [changes : Nat, faults : Nat, calls : Nat]

INVALID_SLOT == -1

VARIABLES
    proxy,         \* proxy_: the epoch of the service object, 0 if null
    deaths,        \* objects that died and whose OnRemoteDied is to come
    cacheSlot,     \* defaultCellularDataSlotId_
    cacheSim,      \* defaultCellularDataSimId_
    registered,    \* registerStatus_
    listening,     \* the core service knows callback_
    notices,       \* calls of OnSimAccountChanged on their way
    call,          \* the call of the application
    update         \* the binder thread in UpdateDefaultCellularDataSlotId

clientVars == <<proxy, deaths, cacheSlot, cacheSim, registered, listening, notices, call, update>>
vars == <<serviceVars, clientVars>>

Nobody == [system |-> FALSE, granted |-> {}, policy |-> FALSE]

\* A call: its arguments until the request is sent, then the answer on its way, then the outcome.
Idle == [pc |-> "idle", method |-> "none", who |-> Nobody, slot |-> INVALID_SLOT,
         remote |-> 0, code |-> "none", value |-> INVALID_SLOT, fresh |-> TRUE,
         outcome |-> "none", otherwise |-> "none", done |-> 0, lost |-> FALSE]

Resting == [pc |-> "idle", remote |-> 0, value |-> INVALID_SLOT]

-----------------------------------------------------------------------------
(* The functions: the method of the service that the work calls, whether the *)
(* slot in the arguments is checked first, whether IsCellularDataManager-    *)
(* Inited is asked, whether the call is to change something, and how it is   *)
(* settled when the client returns an error.                                 *)

Function(method, slotted, probes, sets, onError) ==
    [method |-> method, slotted |-> slotted, probes |-> probes, sets |-> sets, onError |-> onError]

NapiEnableCellularData == Function("EnableCellularData", FALSE, TRUE, TRUE, "reject")
NapiDisableCellularData == NapiEnableCellularData
NapiEnableCellularDataRoaming == Function("EnableCellularDataRoaming", TRUE, TRUE, TRUE, "reject")
NapiDisableCellularDataRoaming == NapiEnableCellularDataRoaming
NapiIsCellularDataEnabled == Function("IsCellularDataEnabled", FALSE, TRUE, FALSE, "reject")
NapiIsCellularDataRoamingEnabled == Function("IsCellularDataRoamingEnabled", TRUE, TRUE, FALSE, "reject")
NapiSetDefaultCellularDataSlotId == Function("SetDefaultCellularDataSlotId", TRUE, TRUE, TRUE, "reject")
NapiGetDefaultCellularDataSlotId == Function("GetDefaultCellularDataSlotId", FALSE, FALSE, FALSE, "reject")
NapiQueryApnIds == Function("QueryApnIds", FALSE, FALSE, FALSE, "reject")
NapiQueryAllApns == Function("QueryAllApnInfo", FALSE, FALSE, FALSE, "reject")
NapiGetActiveApnName == Function("GetActiveApnName", FALSE, FALSE, FALSE, "reject")

\* Only a missing permission rejects: any other error is the state UNKNOWN or the type NONE.
NapiGetCellularDataState == Function("GetCellularDataState", FALSE, TRUE, FALSE, "unknown")
NapiGetCellularDataFlowType == Function("GetCellularDataFlowType", FALSE, TRUE, FALSE, "unknown")

\* An error of the database resolves to false.
NapiSetPreferredApn == Function("SetPreferApn", FALSE, FALSE, TRUE, "false")

\* These return at once: the code itself, or a value that an error leaves as it was initialised.
NapiEnableIntelligenceSwitch == Function("EnableIntelligenceSwitch", FALSE, FALSE, TRUE, "return")
NapiGetIntelligenceSwitchState == Function("GetIntelligenceSwitchState", FALSE, FALSE, FALSE, "return")
NapiGetDefaultCellularDataSimId == Function("GetDefaultCellularDataSimId", FALSE, FALSE, FALSE, "return")

\* What the application is told.
Settles(api, code) ==
    CASE code = "SUCCESS" -> IF api.sets THEN "done" ELSE "value"
      [] code = "UNAVAILABLE" -> "error"
      [] code # "SUCCESS" /\ api.onError = "return" -> IF api.sets THEN "not done" ELSE "value"
      [] code = "FAIL" /\ api.onError = "false" -> "not done"
      [] code \notin {"SUCCESS", "UNAVAILABLE", "PERMISSION_ERR"} /\ api.onError = "unknown" -> "value"
      [] OTHER -> "error"

\* The method of the service.
Execute(api, who, k) ==
    CASE api.method = "EnableCellularData" -> EnableCellularData(who, k)
      [] api.method = "EnableCellularDataRoaming" -> EnableCellularDataRoaming(who, k)
      [] api.method = "EnableIntelligenceSwitch" -> EnableIntelligenceSwitch(who, k)
      [] api.method = "GetIntelligenceSwitchState" -> GetIntelligenceSwitchState(who, k)
      [] api.method = "IsCellularDataEnabled" -> IsCellularDataEnabled(who, k)
      [] api.method = "IsCellularDataRoamingEnabled" -> IsCellularDataRoamingEnabled(who, k)
      [] api.method = "GetCellularDataState" -> GetCellularDataState(who, k)
      [] api.method = "GetCellularDataFlowType" -> GetCellularDataFlowType(who, k)
      [] api.method = "SetDefaultCellularDataSlotId" -> SetDefaultCellularDataSlotId(who, k)
      [] api.method = "GetDefaultCellularDataSlotId" -> "SUCCESS"
      [] api.method = "GetDefaultCellularDataSimId" -> GetDefaultCellularDataSimId(who, k)
      [] api.method = "QueryApnIds" -> QueryApnIds(who, k)
      [] api.method = "SetPreferApn" -> SetPreferApn(who, k)
      [] api.method = "QueryAllApnInfo" -> QueryAllApnInfo(who, k)
      [] api.method = "GetActiveApnName" -> GetActiveApnName(who, k)

\* The functions whose client method keeps what it hears, and registers callback_ first.
Keepers == {NapiGetDefaultCellularDataSlotId, NapiGetDefaultCellularDataSimId,
            NapiSetDefaultCellularDataSlotId}

-----------------------------------------------------------------------------
(* The connection.                                                           *)

Published == state \in {"published", "running"}

\* The object that GetProxy returns, 0 for none; it is kept in proxy_.
GetProxy == IF proxy # 0 THEN proxy ELSE IF Published THEN epoch ELSE 0

Answers(e) == e # 0 /\ e = epoch /\ Alive

OnRemoteDied(e) ==
    /\ e \in deaths
    /\ deaths' = deaths \ {e}
    /\ IF proxy = e
       THEN /\ proxy' = 0 /\ cacheSlot' = INVALID_SLOT /\ cacheSim' = INVALID_SIM_ID
            /\ registered' = FALSE
            /\ call' = [call EXCEPT !.fresh = (call.value = INVALID_SLOT)]
       ELSE UNCHANGED <<proxy, cacheSlot, cacheSim, registered, call>>
    /\ UNCHANGED <<serviceVars, listening, notices, update>>

\* The core service tells the listeners that the default slot or its card changed.
Notified == /\ notices' = IF listening THEN notices + 1 ELSE notices
            /\ UNCHANGED <<proxy, deaths, cacheSlot, cacheSim, registered, listening, call, update>>

\* With the process its listeners are gone; GetProxy had asked to be told of the death.
ProcessDies ==
    /\ Crash
    /\ deaths' = IF proxy = epoch THEN deaths \cup {epoch} ELSE deaths
    /\ listening' = FALSE
    /\ UNCHANGED <<proxy, cacheSlot, cacheSim, registered, notices, call, update>>

-----------------------------------------------------------------------------
(* A call.                                                                   *)

Goes(pc) == call' = [call EXCEPT !.pc = pc]

Settled(api, code, done) ==
    [Idle EXCEPT !.pc = "settled", !.outcome = Settles(api, code), !.done = done, !.lost = (code = "IPC")]

\* The function of a method that keeps its answer.
Keeper(method) == CHOOSE api \in Keepers : api.method = method

SettledWith(code) == Settled(Keeper(call.method), code, call.done)

\* A cached value is stored; the property excuses one that was read before the cache was last
\* emptied, and one that no notice will ever correct.
Storing == slips' = slips \cup (IF call.fresh THEN {} ELSE {"overtaken"})
                          \cup (IF listening THEN {} ELSE {"unheard"})

\* The request of a call, executed by the service at once, unless nobody answers.  What a setter
\* does may fail after all checks.
Request(api, who, k, ok) ==
    IF ~Answers(GetProxy)
    THEN ok /\ call' = Settled(api, "IPC", 0) /\ UNCHANGED <<defaultSlot, notices>>
    ELSE LET checked == Execute(api, who, k)
             does == checked = "SUCCESS" /\ api.sets
             code == IF does /\ ~ok THEN "FAIL" ELSE checked
             moves == does /\ ok /\ api.method = "SetDefaultCellularDataSlotId"
             done == IF does /\ ok THEN 1 ELSE 0
         IN  /\ ok \/ does
             /\ defaultSlot' = IF moves THEN k ELSE defaultSlot
             /\ notices' = IF moves /\ listening THEN notices + 1 ELSE notices
             /\ call' = IF api \notin Keepers \/ code # "SUCCESS"
                        THEN [Idle EXCEPT !.pc = "reply", !.remote = GetProxy, !.code = code,
                                          !.outcome = Settles(api, code), !.done = done,
                                          !.otherwise = Settles(api, "IPC")]
                        ELSE [Idle EXCEPT !.pc = "reply", !.method = api.method, !.remote = GetProxy,
                                          !.code = code, !.done = done,
                                          !.otherwise = Settles(api, "IPC"),
                                          !.value = IF api.method = "GetDefaultCellularDataSimId"
                                                    THEN simId[defaultSlot] ELSE defaultSlot']

\* The function queues its work, which checks the slot, asks whether the service is there and sends
\* the request, or first registers callback_.
Invoke(api, who, k, ok) ==
    /\ call.pc \in {"idle", "settled"}
    /\ api.slotted \/ k = 0
    /\ LET valid == api.slotted => k \in Slots
           asks == valid /\ (api.probes \/ api \notin Keepers)
       IN  /\ budget.calls > 0 /\ (ok \/ budget.faults > 0)
           /\ budget' = [budget EXCEPT !.calls = @ - 1, !.faults = IF ok THEN @ ELSE @ - 1]
           /\ proxy' = IF asks THEN GetProxy ELSE proxy
           /\ CASE ~valid \/ (api.probes /\ GetProxy = 0) ->
                     ok /\ call' = Settled(api, "UNAVAILABLE", 0) /\ UNCHANGED <<defaultSlot, notices>>
                [] valid /\ api \in Keepers /\ (api.probes => GetProxy # 0) ->
                     /\ ok /\ call' = [Idle EXCEPT !.pc = "register", !.method = api.method,
                                                   !.who = who, !.slot = k]
                     /\ UNCHANGED <<defaultSlot, notices>>
                [] OTHER -> Request(api, who, k, ok)
    /\ UNCHANGED <<sim, simId, netVars, lifeVars, agentVars, slotVars, slips,
                   deaths, cacheSlot, cacheSim, registered, listening, update>>

\* The request of RegisterSimAccountCallback, refused by the core service or not.
RegisterSimAccountCallback(ok) ==
    /\ call.pc = "register"
    /\ proxy' = IF registered THEN proxy ELSE GetProxy
    /\ IF ~registered /\ Answers(GetProxy)
       THEN /\ IF ok THEN UNCHANGED budget ELSE Spend("faults")
            /\ listening' = (listening \/ ok)
            /\ Goes(IF ok THEN "registering" ELSE "cache")
       ELSE ok /\ Goes("cache") /\ UNCHANGED <<listening, budget>>
    /\ UNCHANGED <<coreVars, netVars, lifeVars, agentVars, slotVars, slips,
                   deaths, cacheSlot, cacheSim, registered, notices, update>>

\* Its answer.
Registered ==
    /\ call.pc = "registering"
    /\ registered' = TRUE
    /\ slips' = slips \cup (IF listening THEN {} ELSE {"unheard"})
    /\ Goes("cache")
    /\ UNCHANGED <<coreVars, netVars, lifeVars, agentVars, slotVars, budget,
                   proxy, deaths, cacheSlot, cacheSim, listening, notices, update>>

\* The cached slot is used if it is valid and callback_ is registered, the cached card if it is valid.
ReadsCache ==
    /\ call.pc = "cache"
    /\ call' = CASE call.method = "GetDefaultCellularDataSlotId" /\ cacheSlot \in Slots /\ registered
                      -> SettledWith("SUCCESS")
                 [] call.method = "GetDefaultCellularDataSimId" /\ cacheSim > 0
                      -> SettledWith("SUCCESS")
                 [] OTHER -> [call EXCEPT !.pc = "send"]
    /\ UNCHANGED <<serviceVars, proxy, deaths, cacheSlot, cacheSim, registered, listening, notices, update>>

Send(ok) ==
    /\ call.pc = "send"
    /\ IF ok THEN UNCHANGED budget ELSE Spend("faults")
    /\ proxy' = GetProxy
    /\ Request(Keeper(call.method), call.who, call.slot, ok)
    /\ UNCHANGED <<sim, simId, netVars, lifeVars, agentVars, slotVars, slips,
                   deaths, cacheSlot, cacheSim, registered, listening, update>>

\* The answer is taken, or the process died before it was sent.
Reply(arrived) ==
    /\ call.pc = "reply"
    /\ arrived \/ ~Answers(call.remote)
    /\ LET stored == arrived /\ call.method # "none"
       IN  /\ IF stored THEN Storing ELSE UNCHANGED slips
           /\ cacheSlot' = IF stored /\ call.method # "GetDefaultCellularDataSimId"
                           THEN call.value ELSE cacheSlot
           /\ cacheSim' = IF stored /\ call.method = "GetDefaultCellularDataSimId"
                          THEN call.value ELSE cacheSim
           /\ call' = IF stored /\ call.method = "SetDefaultCellularDataSlotId"
                      THEN [call EXCEPT !.pc = "simSend"]
                      ELSE IF stored THEN SettledWith("SUCCESS")
                      ELSE [Idle EXCEPT !.pc = "settled", !.done = call.done, !.lost = ~arrived,
                                        !.outcome = IF arrived THEN call.outcome ELSE call.otherwise]
    /\ UNCHANGED <<coreVars, netVars, lifeVars, agentVars, slotVars, budget,
                   proxy, deaths, registered, listening, notices, update>>

\* Mutant: the second request decides.
AsksSim_ItsCode ==
    /\ call.pc = "simSend"
    /\ IF Answers(call.remote) /\ simId[defaultSlot] # INVALID_SIM_ID
       THEN call' = [call EXCEPT !.pc = "simReply", !.value = simId[defaultSlot], !.fresh = TRUE]
       ELSE call' = SettledWith(IF Answers(call.remote) THEN "FAIL" ELSE "IPC")
    /\ UNCHANGED <<serviceVars, proxy, deaths, cacheSlot, cacheSim, registered, listening, notices, update>>

\* SetDefaultCellularDataSlotId goes on to ask the same object for the card.
AsksSim ==
    /\ call.pc = "simSend"
    /\ IF Answers(call.remote) /\ simId[defaultSlot] # INVALID_SIM_ID
       THEN call' = [call EXCEPT !.pc = "simReply", !.value = simId[defaultSlot], !.fresh = TRUE]
       ELSE call' = SettledWith("SUCCESS")
    /\ UNCHANGED <<serviceVars, proxy, deaths, cacheSlot, cacheSim, registered, listening, notices, update>>

SimReply(arrived) ==
    /\ call.pc = "simReply"
    /\ arrived \/ ~Answers(call.remote)
    /\ IF arrived THEN Storing /\ cacheSim' = call.value ELSE UNCHANGED <<slips, cacheSim>>
    /\ call' = SettledWith("SUCCESS")
    /\ UNCHANGED <<coreVars, netVars, lifeVars, agentVars, slotVars, budget,
                   proxy, deaths, cacheSlot, registered, listening, notices, update>>

-----------------------------------------------------------------------------
(* The callback.                                                             *)

\* Mutant: a slot that is known is not asked for again.
UpdateDefaultCellularDataSlotId_IfEmpty ==
    /\ update.pc = "idle" /\ notices > 0
    /\ notices' = notices - 1
    /\ UNCHANGED <<cacheSlot, cacheSim>>
    /\ proxy' = GetProxy
    /\ update' = IF GetProxy = 0 \/ cacheSlot \in Slots THEN update ELSE [update EXCEPT !.pc = "slot", !.remote = GetProxy]
    /\ call' = [call EXCEPT !.fresh = (call.value = INVALID_SLOT)]
    /\ UNCHANGED <<serviceVars, deaths, registered, listening>>

\* OnSimAccountChanged: the caches are emptied.
UpdateDefaultCellularDataSlotId ==
    /\ update.pc = "idle" /\ notices > 0
    /\ notices' = notices - 1
    /\ cacheSlot' = INVALID_SLOT /\ cacheSim' = INVALID_SIM_ID
    /\ proxy' = GetProxy
    /\ update' = IF GetProxy = 0 THEN update ELSE [update EXCEPT !.pc = "slot", !.remote = GetProxy]
    /\ call' = [call EXCEPT !.fresh = (call.value = INVALID_SLOT)]
    /\ UNCHANGED <<serviceVars, deaths, registered, listening>>

\* Two requests follow, each answered into its cache; a lost one leaves it empty.  What is read
\* while callback_ is not registered may change without a notice.
UpdateAsks ==
    /\ update.pc \in {"slot", "sim"}
    /\ slips' = slips \cup (IF Answers(update.remote) /\ ~listening THEN {"unheard"} ELSE {})
    /\ update' = IF ~Answers(update.remote)
                 THEN IF update.pc = "slot" THEN [update EXCEPT !.pc = "sim"] ELSE Resting
                 ELSE [update EXCEPT !.pc = IF update.pc = "slot" THEN "slotReply" ELSE "simReply",
                                     !.value = IF update.pc = "slot" THEN defaultSlot ELSE simId[defaultSlot]]
    /\ UNCHANGED <<coreVars, netVars, lifeVars, agentVars, slotVars, budget,
                   proxy, deaths, cacheSlot, cacheSim, registered, listening, notices, call>>

UpdateStores(arrived) ==
    /\ update.pc \in {"slotReply", "simReply"}
    /\ arrived \/ ~Answers(update.remote)
    /\ slips' = slips \cup (IF arrived /\ ~listening THEN {"unheard"} ELSE {})
                      \cup (IF arrived /\ ~Answers(update.remote) THEN {"overtaken"} ELSE {})
    /\ cacheSlot' = IF arrived /\ update.pc = "slotReply" THEN update.value ELSE cacheSlot
    /\ cacheSim' = IF arrived /\ update.pc = "simReply" THEN update.value ELSE cacheSim
    /\ update' = IF update.pc = "slotReply" THEN [update EXCEPT !.pc = "sim"] ELSE Resting
    /\ UNCHANGED <<coreVars, netVars, lifeVars, agentVars, slotVars, budget,
                   proxy, deaths, registered, listening, notices, call>>

-----------------------------------------------------------------------------
\* At rest: a card in every slot but 0, with its suppliers, and a service that is up.
AtRest ==
    /\ sim = [k \in Slots |-> IF k = 0 THEN INVALID_SIM_ID ELSE Card(k)]
    /\ simId = sim /\ defaultSlot = 0 /\ slotIdSimId = sim
    /\ netUp = TRUE /\ suppliers = {<<sim[k], c>> : k \in Slots \ {0}, c \in Caps} /\ asked = {}
    /\ epoch = 1 /\ state = "running" /\ isInitSuccess = TRUE
    /\ controller = [k \in Slots |-> "ready"]
    /\ netSuppliers = [k \in Slots |-> [c \in Caps |->
                         [simId |-> sim[k], supplierId |-> sim[k], listed |-> TRUE]]]
    /\ queue = [k \in Slots |-> <<>>] /\ timer = [k \in Slots |-> 0]
    /\ loaded = [k \in Slots |-> k # 0] /\ added = {} /\ wanted = [k \in Slots |-> {}]
    /\ budget \in RestBudgets /\ slips = {}

Init ==
    /\ ServiceInit \/ AtRest
    /\ proxy = 0 /\ deaths = {} /\ cacheSlot = INVALID_SLOT /\ cacheSim = INVALID_SIM_ID
    /\ registered = FALSE /\ listening = FALSE /\ notices = 0
    /\ call = Idle /\ update = Resting

CallStep ==
    \/ Registered \/ ReadsCache \/ AsksSim
    \/ \E ok \in BOOLEAN : RegisterSimAccountCallback(ok) \/ Send(ok) \/ Reply(ok) \/ SimReply(ok)

UpdateStep ==
    UpdateDefaultCellularDataSlotId \/ UpdateAsks \/ \E arrived \in BOOLEAN : UpdateStores(arrived)

Next ==
    \/ (StartStep \/ EnvironmentStep) /\ UNCHANGED clientVars
    \/ NetManagerStarts /\ UNCHANGED clientVars
    \/ \E k \in Slots : (HandlerStep(k) \/ AbilityStep(k)) /\ UNCHANGED clientVars
    \/ \E k \in Slots : (AccountStep(k) \/ SimRemoved(k) \/ DefaultSlotChanges(k)) /\ Notified
    \/ ProcessDies
    \/ \E e \in deaths : OnRemoteDied(e)
    \/ \E api \in Apis, who \in Callers, k \in Slots \cup {INVALID_SLOT}, ok \in BOOLEAN :
          Invoke(api, who, k, ok)
    \/ CallStep \/ UpdateStep

\* What the threads of the service, the system-ability manager, which restarts what died and
\* announces it, and the core service, which loads the account of a card that is in, do by
\* themselves.
SystemStep ==
    \/ (StartStep \/ NetManagerStarts) /\ UNCHANGED clientVars
    \/ \E k \in Slots : (HandlerStep(k) \/ AbilityStep(k)) /\ UNCHANGED clientVars
    \/ \E k \in Slots : AccountStep(k) /\ Notified

\* As long as one of them has work, one of them works.
Fairness == WF_vars(SystemStep)

Spec == Init /\ [][Next]_vars /\ Fairness

-----------------------------------------------------------------------------
(* Properties.                                                               *)

\* Every variable of the service and of the application has a value the code can give it.
TypeOK ==
    /\ ServiceTypeOK
    /\ proxy \in 0 .. epoch /\ deaths \subseteq 1 .. epoch
    /\ cacheSlot \in Slots \cup {INVALID_SLOT} /\ cacheSim \in SimIds
    /\ registered \in BOOLEAN /\ listening \in BOOLEAN /\ notices \in Nat
    /\ call.pc \in {"idle", "register", "registering", "cache", "send", "reply", "simSend",
                    "simReply", "settled"}
    /\ call.done \in 0 .. 1 /\ call.outcome \in {"none", "done", "not done", "value", "error"}
    /\ update.pc \in {"idle", "slot", "slotReply", "sim", "simReply"}

\* An application that is told that something was set can rely on it: the service did it, once.
\* One that is told that nothing was set can rely on that too, unless the service died with the
\* answer.
AnswerIsTrue ==
    call.pc = "settled" =>
        /\ call.outcome = "done" => call.done = 1
        /\ call.outcome \in {"not done", "error"} => call.done = 0 \/ call.lost

\* When no call, notice or death is on its way, a cached slot or card that will be used is the one
\* the core service has.
CacheIsCurrent ==
    /\ Alive /\ deaths = {} /\ notices = 0 /\ update.pc = "idle" /\ call.pc \in {"idle", "settled"}
    /\ slips \cap {"overtaken", "unheard"} = {}
    => /\ cacheSlot \in Slots => cacheSlot = defaultSlot
       /\ cacheSim > 0 => cacheSim = simId[defaultSlot]

\* Whatever has died, been stopped or been swapped, in the end every card has its suppliers at the
\* net manager and its requests reach its slot.
CardsAreServed ==
    <>[](\/ slips \cap {"refused", "crossed", "missed", "kept"} # {}
         \/ \A k \in Slots : sim[k] # INVALID_SIM_ID =>
               /\ \A c \in Caps : <<sim[k], c>> \in suppliers
               /\ GetSlotId(slotIdSimId, sim[k]) = k)
=============================================================================

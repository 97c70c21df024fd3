---------------------- MODULE CellularDataClientProofs ----------------------
(***************************************************************************)
(* What an application is told and what its client remembers, for any      *)
(* number of calls, changes, deaths and restarts.                          *)
(*                                                                         *)
(* AnswerIsTrue is about a settled call; CallInv says what a call already  *)
(* owes the application at every stage before.  CacheIsCurrent is about    *)
(* moments of rest; CacheInv says what guards a cached value at all other  *)
(* moments: a notice on its way, or the death of the object it came from.  *)
(*                                                                         *)
(* The second half is about the service the client talks to.               *)
(* SuppliersFollowSims and RequestsFollowNet also speak of moments of      *)
(* rest.  ServiceInv says which controllers and handlers there are and     *)
(* what their routes may name, SupplyInv what the events still queued will *)
(* do to the suppliers, RequestInv what they will do to the requests.      *)
(***************************************************************************)
EXTENDS CellularDataClient, FiniteSetTheorems, SequenceTheorems, ListProofs

CallFields == {"pc", "method", "who", "slot", "remote", "code", "value", "fresh",
               "outcome", "otherwise", "done", "lost"}

KeptMethods == {"GetDefaultCellularDataSlotId", "GetDefaultCellularDataSimId",
                "SetDefaultCellularDataSlotId"}

CallTypeOK ==
    /\ DOMAIN call = CallFields
    /\ call.pc \in {"idle", "register", "registering", "cache", "send", "reply", "simSend",
                    "simReply", "settled"}
    /\ call.pc \in {"register", "registering", "cache", "send"} =>
          call.method \in KeptMethods /\ call.slot \in Slots

\* A call whose request was executed carries what was done, and the outcome that
\* the answer, or its loss, will give it.
AnswerOwed ==
    /\ call.pc = "reply" =>
         /\ call.otherwise # "done"
         /\ call.method = "none" =>
              /\ call.outcome = "done" => call.done = 1
              /\ call.outcome \in {"not done", "error"} => call.done = 0
         /\ call.method # "none" =>
              /\ call.method \in KeptMethods
              /\ call.method = "SetDefaultCellularDataSlotId" => call.done = 1
    /\ call.pc \in {"simSend", "simReply"} =>
         call.method = "SetDefaultCellularDataSlotId" /\ call.done = 1

CallInv == CallTypeOK /\ AnswerOwed /\ AnswerIsTrue

-----------------------------------------------------------------------------
LinkTypeOK ==
    /\ sim \in [Slots -> SimIds] /\ simId \in [Slots -> SimIds] /\ defaultSlot \in Slots
    /\ epoch \in Nat /\ (Alive => epoch # 0)
    /\ proxy \in 0 .. epoch /\ notices \in Nat /\ listening \in BOOLEAN
    /\ update \in [pc : {"idle", "slot", "slotReply", "sim", "simReply"},
                   remote : 0 .. epoch, value : Slots \cup SimIds \cup {INVALID_SLOT}]

\* The object of proxy_ lives as long as the core service knows callback_; one whose
\* death is to be told is dead.
LinkOK ==
    /\ listening => proxy # 0 /\ Answers(proxy)
    /\ \A e \in deaths : e \in 1 .. epoch /\ ~Answers(e)

Clean == slips \cap {"overtaken", "unheard"} = {}

\* A value is the core service's, or a notice that it changed is on its way.
Slot(v) == v = defaultSlot \/ notices > 0
Sim(v) == v = simId[defaultSlot] \/ notices > 0

\* A value in the cache is watched, or will be dropped with the object it came from.
CacheWatched ==
    Clean => /\ cacheSlot \in Slots => (listening /\ Slot(cacheSlot)) \/ proxy \in deaths
             /\ cacheSim > 0 => (listening /\ Sim(cacheSim)) \/ proxy \in deaths

\* So is the answer on its way to the call, unless the cache was emptied meanwhile,
AnswerWatched ==
    /\ call.pc = "reply" /\ call.method # "none" =>
         /\ call.value # INVALID_SLOT
         /\ listening /\ call.fresh =>
              IF call.method = "GetDefaultCellularDataSimId" THEN Sim(call.value) ELSE Slot(call.value)
    /\ call.pc = "simReply" =>
         /\ call.value # INVALID_SLOT
         /\ listening /\ call.fresh => Sim(call.value)

\* and the one on its way to the callback, unless its object died.
UpdateWatched ==
    Clean /\ Answers(update.remote) =>
        /\ update.pc = "slotReply" => listening /\ Slot(update.value)
        /\ update.pc = "simReply" => listening /\ Sim(update.value)

CacheInv == LinkTypeOK /\ LinkOK /\ CacheWatched /\ AnswerWatched /\ UpdateWatched

-----------------------------------------------------------------------------
(* The service, seen from the application.                                 *)

\* A step inside the service: at most a new process takes the place of a dead one.
Inside ==
    /\ UNCHANGED <<simId, defaultSlot>> /\ sim' \in [Slots -> SimIds] /\ slips \subseteq slips'
    /\ \/ UNCHANGED epoch /\ Alive' = Alive
       \/ ~Alive /\ Alive' /\ epoch' = epoch + 1
    /\ UNCHANGED clientVars

\* The core service has another default slot or card, and says so.
Moves ==
    /\ sim' \in [Slots -> SimIds] /\ simId' \in [Slots -> SimIds] /\ defaultSlot' \in Slots
    /\ slips \subseteq slips' /\ UNCHANGED <<epoch, state>>
    /\ Notified

(* Slot 0 is always there, and an invalid slot is none; no card has its number. *)
LEMMA Numbers ==
    /\ 0 \in Slots /\ Slots \subseteq Nat /\ INVALID_SLOT \notin Slots
    /\ SimIds \subseteq Nat /\ INVALID_SLOT \notin SimIds
    /\ \A k \in Slots : Card(k) \in Sims
<1>1. Cardinality(Slots) \in Nat
    BY ServiceAssumption, FS_CardinalityType
<1>2. 0 \in Slots /\ Slots \subseteq Nat /\ INVALID_SLOT \notin Slots
    BY <1>1, ServiceAssumption DEF INVALID_SLOT
<1>3. SimIds \subseteq Nat /\ INVALID_SLOT \notin SimIds
    BY ServiceAssumption DEF INVALID_SLOT, SimIds, INVALID_SIM_ID
<1>4. \A k \in Slots : Card(k) \in Sims
    BY ServiceAssumption DEF Card
<1> QED BY <1>2, <1>3, <1>4

(* Whatever the agent does leaves the core service's and the client's state alone. *)
LEMMA AgentSlips ==
    ASSUME NEW g, SetAgent(g)
    PROVE  slips \subseteq slips'
BY DEF SetAgent

LEMMA StartIsInside ==
    ASSUME LinkTypeOK, StartStep \/ NetManagerStarts, UNCHANGED clientVars
    PROVE  Inside
<1> USE DEF Inside, LinkTypeOK, Alive, coreVars, lifeVars
<1>1. CASE ProcessStarts BY <1>1 DEF ProcessStarts
<1>2. CASE OnStart BY <1>2 DEF OnStart
<1>3. CASE InitSucceeds BY <1>3 DEF InitSucceeds
<1>4. CASE \E k \in Slots : AsynchronousRegister(k) BY <1>4 DEF AsynchronousRegister
<1>5. CASE \E k \in Slots : RegisterEvents(k) BY <1>5 DEF RegisterEvents
<1>6. CASE NetManagerStarts BY <1>6 DEF NetManagerStarts
<1> QED BY <1>1, <1>2, <1>3, <1>4, <1>5, <1>6 DEF StartStep

LEMMA HandlerIsInside ==
    ASSUME LinkTypeOK, NEW k \in Slots, HandlerStep(k) \/ AbilityStep(k), UNCHANGED clientVars
    PROVE  Inside
<1> USE DEF Inside, LinkTypeOK, Alive, coreVars, lifeVars
<1>1. CASE HandleSimStateChanged(k)
    BY <1>1, AgentSlips DEF HandleSimStateChanged, Takes
<1>2. CASE MsgRequestNetwork(k) BY <1>2 DEF MsgRequestNetwork, Takes
<1>3. CASE \E acc \in Accepted : HandleSimAccountLoaded(k, acc)
    BY <1>3, AgentSlips DEF HandleSimAccountLoaded, Takes, SimAccountLoaded
<1>4. CASE \E acc \in Accepted : HandleRetryLoadSimAccount(k, acc)
    BY <1>4, AgentSlips DEF HandleRetryLoadSimAccount, SimAccountLoaded
<1>5. CASE \E acc \in Accepted : OnAddSystemAbility(k, acc)
    BY <1>5, AgentSlips DEF OnAddSystemAbility
<1> QED BY <1>1, <1>2, <1>3, <1>4, <1>5 DEF HandlerStep, AbilityStep

LEMMA EnvironmentIsInside ==
    ASSUME LinkTypeOK, EnvironmentStep, UNCHANGED clientVars
    PROVE  Inside
<1> USE DEF Inside, LinkTypeOK, Alive, coreVars, lifeVars
<1>1. CASE OnStop BY <1>1, AgentSlips DEF OnStop
<1>2. CASE NetManagerDies BY <1>2 DEF NetManagerDies
<1>3. CASE \E k \in Slots : OnDataShareReady(k) BY <1>3 DEF OnDataShareReady
<1>4. CASE \E k \in Slots : \E s \in Sims : SimInserted(k, s)
    <2>1. PICK k \in Slots, s \in Sims : SimInserted(k, s) BY <1>4
    <2>2. sim' \in [Slots -> SimIds] BY <2>1 DEF SimInserted, SimIds
    <2> QED BY <2>1, <2>2 DEF SimInserted
<1>5. CASE \E p \in Sims \X Caps : RequestNetwork(p)
    BY <1>5 DEF RequestNetwork
<1>6. CASE \E p \in asked : ReleaseNetwork(p) BY <1>6 DEF ReleaseNetwork
<1> QED BY <1>1, <1>2, <1>3, <1>4, <1>5, <1>6 DEF EnvironmentStep

LEMMA CoreMoves ==
    ASSUME LinkTypeOK, NEW k \in Slots, AccountStep(k) \/ SimRemoved(k) \/ DefaultSlotChanges(k),
           Notified
    PROVE  Moves
<1> USE DEF Moves, LinkTypeOK, lifeVars
<1>1. CASE AccountStep(k)
    <2>1. PICK told \in BOOLEAN : SimIdLoaded(k, told) BY <1>1 DEF AccountStep
    <2>2. simId' \in [Slots -> SimIds] BY <2>1 DEF SimIdLoaded
    <2> QED BY <2>1, <2>2 DEF SimIdLoaded
<1>2. CASE SimRemoved(k)
    <2>1. sim' \in [Slots -> SimIds] /\ simId' \in [Slots -> SimIds]
        BY <1>2 DEF SimRemoved, SimIds
    <2> QED BY <1>2, <2>1 DEF SimRemoved
<1>3. CASE DefaultSlotChanges(k) BY <1>3 DEF DefaultSlotChanges
<1> QED BY <1>1, <1>2, <1>3

-----------------------------------------------------------------------------
(* What a call owes the application.                                       *)

(* The functions that keep what they hear differ in their methods, and only one
   of them sets something. *)
LEMMA KeeperOf ==
    /\ \A m \in KeptMethods : Keeper(m) \in Keepers /\ Keeper(m).method = m
    /\ \A api \in Keepers : /\ api.method \in KeptMethods
                            /\ api.sets <=> api.method = "SetDefaultCellularDataSlotId"
<1>1. /\ NapiGetDefaultCellularDataSlotId.method = "GetDefaultCellularDataSlotId"
      /\ NapiGetDefaultCellularDataSimId.method = "GetDefaultCellularDataSimId"
      /\ NapiSetDefaultCellularDataSlotId.method = "SetDefaultCellularDataSlotId"
      /\ ~NapiGetDefaultCellularDataSlotId.sets
      /\ ~NapiGetDefaultCellularDataSimId.sets
      /\ NapiSetDefaultCellularDataSlotId.sets
    BY DEF NapiGetDefaultCellularDataSlotId, NapiGetDefaultCellularDataSimId,
           NapiSetDefaultCellularDataSlotId, Function
<1>2. \A m \in KeptMethods : \E api \in Keepers : api.method = m
    BY <1>1 DEF KeptMethods, Keepers
<1>3. \A m \in KeptMethods : Keeper(m) \in Keepers /\ Keeper(m).method = m
    BY <1>2 DEF Keeper
<1>4. \A api \in Keepers : /\ api.method \in KeptMethods
                           /\ api.sets <=> api.method = "SetDefaultCellularDataSlotId"
    BY <1>1 DEF KeptMethods, Keepers
<1> QED BY <1>3, <1>4

(* Only a setter that succeeded is told "done", and a success is no failure. *)
LEMMA SettlesHonestly ==
    ASSUME NEW api, NEW code
    PROVE  /\ Settles(api, code) = "done" => code = "SUCCESS" /\ api.sets
           /\ code = "SUCCESS" => Settles(api, code) \notin {"not done", "error"}
<1>1. CASE code = "SUCCESS" BY <1>1 DEF Settles
<1>2. CASE code # "SUCCESS" BY <1>2 DEF Settles
<1> QED BY <1>1, <1>2

LEMMA FailureIsNotDone ==
    ASSUME NEW api
    PROVE  Settles(api, "IPC") # "done" /\ Settles(api, "UNAVAILABLE") # "done"
BY DEF Settles

LEMMA SuccessIsDone ==
    ASSUME NEW api
    PROVE  Settles(api, "SUCCESS") = "done" => api.sets
BY DEF Settles

(* The request of a call: what is done, the code and the outcome agree. *)
LEMMA RequestOwes ==
    ASSUME NEW api, NEW who, NEW k, NEW ok \in BOOLEAN, Request(api, who, k, ok)
    PROVE  CallInv'
<1> USE DEF CallInv, CallTypeOK, AnswerOwed, AnswerIsTrue, CallFields
<1>1. CASE ~Answers(GetProxy)
    <2>1. call' = Settled(api, "IPC", 0) BY <1>1 DEF Request
    <2> QED BY <2>1, FailureIsNotDone DEF Settled, Idle
<1>2. CASE Answers(GetProxy)
    <2> DEFINE checked == Execute(api, who, k)
               does == checked = "SUCCESS" /\ api.sets
               code == IF does /\ ~ok THEN "FAIL" ELSE checked
               done == IF does /\ ok THEN 1 ELSE 0
    <2>1. Settles(api, "IPC") # "done" BY FailureIsNotDone
    <2>2. /\ Settles(api, code) = "done" => done = 1
          /\ Settles(api, code) \in {"not done", "error"} => done = 0
          /\ code = "SUCCESS" /\ api.sets => done = 1
        <3> HIDE DEF checked
        <3>1. Settles(api, code) = "done" => code = "SUCCESS" /\ api.sets BY SettlesHonestly
        <3>2. Settles(api, code) \in {"not done", "error"} => code # "SUCCESS" BY SettlesHonestly
        <3> QED BY <3>1, <3>2
    <2>3. CASE api \notin Keepers \/ code # "SUCCESS"
        <3>1. call' = [Idle EXCEPT !.pc = "reply", !.remote = GetProxy, !.code = code,
                                   !.outcome = Settles(api, code), !.done = done,
                                   !.otherwise = Settles(api, "IPC")]
            BY <1>2, <2>3 DEF Request
        <3> HIDE DEF code, done
        <3> QED BY <2>1, <2>2, <3>1 DEF Idle
    <2>4. CASE api \in Keepers /\ code = "SUCCESS"
        <3> DEFINE v == IF api.method = "GetDefaultCellularDataSimId"
                        THEN simId[defaultSlot] ELSE defaultSlot'
        <3>1. call' = [Idle EXCEPT !.pc = "reply", !.method = api.method, !.remote = GetProxy,
                                   !.code = code, !.done = done,
                                   !.otherwise = Settles(api, "IPC"), !.value = v]
            BY <1>2, <2>4 DEF Request
        <3>2. api.method = "SetDefaultCellularDataSlotId" => done = 1
            BY <2>2, <2>4, KeeperOf
        <3>3. api.method \in KeptMethods BY <2>4, KeeperOf
        <3> HIDE DEF code, done, v
        <3> QED BY <2>1, <3>1, <3>2, <3>3 DEF Idle, KeptMethods
    <2> QED BY <2>3, <2>4
<1> QED BY <1>1, <1>2

(* A call settled after a success of a kept method. *)
LEMMA SettledSuccess ==
    ASSUME call.method \in KeptMethods,
           call.method = "SetDefaultCellularDataSlotId" => call.done = 1,
           call' = SettledWith("SUCCESS")
    PROVE  CallInv'
<1>1. Settles(Keeper(call.method), "SUCCESS") = "done" => call.done = 1
    BY SuccessIsDone, KeeperOf
<1>2. Settles(Keeper(call.method), "SUCCESS") \notin {"not done", "error"}
    BY SettlesHonestly
<1> QED BY <1>1, <1>2
        DEF SettledWith, Settled, Idle, CallInv, CallTypeOK, AnswerOwed, AnswerIsTrue, CallFields

LEMMA InvokeOwes ==
    ASSUME NEW api, NEW who, NEW k \in Slots \cup {INVALID_SLOT}, NEW ok \in BOOLEAN,
           Invoke(api, who, k, ok)
    PROVE  CallInv'
<1> DEFINE valid == api.slotted => k \in Slots
<1>1. CASE ~valid \/ (api.probes /\ GetProxy = 0)
    <2>1. call' = Settled(api, "UNAVAILABLE", 0) BY <1>1 DEF Invoke
    <2>2. Settles(api, "UNAVAILABLE") # "done" BY FailureIsNotDone
    <2> QED BY <2>1, <2>2
            DEF Settled, Idle, CallInv, CallTypeOK, AnswerOwed, AnswerIsTrue, CallFields
<1>2. CASE valid /\ api \in Keepers /\ (api.probes => GetProxy # 0)
    <2>1. call' = [Idle EXCEPT !.pc = "register", !.method = api.method, !.who = who, !.slot = k]
        BY <1>2 DEF Invoke
    <2>2. k \in Slots BY <1>2, Numbers DEF Invoke
    <2>3. api.method \in KeptMethods BY <1>2, KeeperOf
    <2> QED BY <2>1, <2>2, <2>3
            DEF Idle, CallInv, CallTypeOK, AnswerOwed, AnswerIsTrue, CallFields
<1>3. CASE /\ ~(~valid \/ (api.probes /\ GetProxy = 0))
           /\ ~(valid /\ api \in Keepers /\ (api.probes => GetProxy # 0))
    <2>1. Request(api, who, k, ok) BY <1>3 DEF Invoke
    <2> QED BY <2>1, RequestOwes
<1> QED BY <1>1, <1>2, <1>3

(* Every stage of a call keeps what the call owes. *)
LEMMA CallStepOwes ==
    ASSUME CallInv, CallStep
    PROVE  CallInv'
<1> USE DEF CallInv
<1>1. CASE Registered
    BY <1>1 DEF Registered, Goes, CallTypeOK, AnswerOwed, AnswerIsTrue, CallFields
<1>2. CASE ReadsCache
    <2>1. call.method \in KeptMethods /\ call.pc = "cache" BY <1>2 DEF ReadsCache, CallTypeOK
    <2>2. \/ /\ call.method # "SetDefaultCellularDataSlotId"
             /\ call' = SettledWith("SUCCESS")
          \/ call' = [call EXCEPT !.pc = "send"]
        BY <1>2 DEF ReadsCache
    <2>3. CASE call' = [call EXCEPT !.pc = "send"]
        BY <2>1, <2>3 DEF CallTypeOK, AnswerOwed, AnswerIsTrue, CallFields
    <2> QED BY <2>1, <2>2, <2>3, SettledSuccess
<1>3. CASE AsksSim
    <2>1. call.method = "SetDefaultCellularDataSlotId" /\ call.done = 1
        BY <1>3 DEF AsksSim, AnswerOwed
    <2>2. CASE call' = SettledWith("SUCCESS")
        BY <2>1, <2>2, SettledSuccess DEF KeptMethods
    <2>3. CASE call' = [call EXCEPT !.pc = "simReply", !.value = simId[defaultSlot], !.fresh = TRUE]
        BY <2>1, <2>3 DEF CallTypeOK, AnswerOwed, AnswerIsTrue, CallFields
    <2> QED BY <1>3, <2>2, <2>3 DEF AsksSim
<1>4. ASSUME NEW ok \in BOOLEAN, RegisterSimAccountCallback(ok) PROVE CallInv'
    <2>1. PICK pc \in {"registering", "cache"} : call' = [call EXCEPT !.pc = pc]
        BY <1>4 DEF RegisterSimAccountCallback, Goes
    <2>2. call.pc = "register" BY <1>4 DEF RegisterSimAccountCallback
    <2> QED BY <2>1, <2>2 DEF CallTypeOK, AnswerOwed, AnswerIsTrue, CallFields
<1>5. ASSUME NEW ok \in BOOLEAN, Send(ok) PROVE CallInv'
    BY <1>5, RequestOwes DEF Send
<1>6. ASSUME NEW ok \in BOOLEAN, Reply(ok) PROVE CallInv'
    <2>1. call.pc = "reply" BY <1>6 DEF Reply
    <2>2. CASE ok /\ call.method = "SetDefaultCellularDataSlotId"
        <3>1. call' = [call EXCEPT !.pc = "simSend"] BY <1>6, <2>2 DEF Reply
        <3> QED BY <2>1, <2>2, <3>1 DEF CallTypeOK, AnswerOwed, AnswerIsTrue, CallFields
    <2>3. CASE ok /\ call.method \notin {"SetDefaultCellularDataSlotId", "none"}
        <3>1. call' = SettledWith("SUCCESS") BY <1>6, <2>3 DEF Reply
        <3> QED BY <2>1, <2>3, <3>1, SettledSuccess DEF AnswerOwed
    <2>4. CASE ~ok \/ call.method = "none"
        <3>1. call' = [Idle EXCEPT !.pc = "settled", !.done = call.done, !.lost = ~ok,
                                   !.outcome = IF ok THEN call.outcome ELSE call.otherwise]
            BY <1>6, <2>4 DEF Reply
        <3> QED BY <2>1, <2>4, <3>1 DEF Idle, CallTypeOK, AnswerOwed, AnswerIsTrue, CallFields
    <2> QED BY <2>2, <2>3, <2>4
<1>7. ASSUME NEW ok \in BOOLEAN, SimReply(ok) PROVE CallInv'
    <2>1. call.pc = "simReply" /\ call' = SettledWith("SUCCESS") BY <1>7 DEF SimReply
    <2> QED BY <2>1, SettledSuccess DEF AnswerOwed, KeptMethods
<1> QED BY <1>1, <1>2, <1>3, <1>4, <1>5, <1>6, <1>7 DEF CallStep

LEMMA CallInvInit ==
    ASSUME Init
    PROVE  CallInv
BY DEF Init, Idle, CallInv, CallTypeOK, AnswerOwed, AnswerIsTrue, CallFields

LEMMA CallInvNext ==
    ASSUME CallInv, [Next]_vars
    PROVE  CallInv'
<1>1. CASE UNCHANGED call
    BY <1>1 DEF CallInv, CallTypeOK, AnswerOwed, AnswerIsTrue
<1>2. CASE \E b : call' = [call EXCEPT !.fresh = b]
    BY <1>2 DEF CallInv, CallTypeOK, AnswerOwed, AnswerIsTrue, CallFields
<1>3. CASE CallStep BY <1>3, CallStepOwes
<1>4. CASE \E api \in Apis, who \in Callers, k \in Slots \cup {INVALID_SLOT}, ok \in BOOLEAN :
              Invoke(api, who, k, ok)
    BY <1>4, InvokeOwes
<1>5. CASE UNCHANGED clientVars BY <1>1, <1>5 DEF clientVars
<1>6. CASE Notified BY <1>1, <1>6 DEF Notified
<1>7. CASE ProcessDies BY <1>1, <1>7 DEF ProcessDies
<1>8. CASE \E e \in deaths : OnRemoteDied(e)
    <2>1. PICK e \in deaths : OnRemoteDied(e) BY <1>8
    <2>2. UNCHANGED call \/ call' = [call EXCEPT !.fresh = (call.value = INVALID_SLOT)]
        BY <2>1 DEF OnRemoteDied
    <2> QED BY <1>1, <1>2, <2>2
<1>9. CASE UpdateStep
    <2>1. UNCHANGED call \/ call' = [call EXCEPT !.fresh = (call.value = INVALID_SLOT)]
        BY <1>9 DEF UpdateStep, UpdateDefaultCellularDataSlotId, UpdateAsks, UpdateStores
    <2> QED BY <1>1, <1>2, <2>1
<1>10. CASE UNCHANGED vars BY <1>5, <1>10 DEF vars
<1> QED BY <1>3, <1>4, <1>5, <1>6, <1>7, <1>8, <1>9, <1>10 DEF Next

(* An application that is told that something was set, or that nothing was, can
   rely on it: AnswerIsTrue for every set of functions and callers, whatever dies
   between the request and its answer. *)
THEOREM AnswerAlwaysTrue == Spec => []AnswerIsTrue
<1>1. Init => CallInv BY CallInvInit
<1>2. CallInv /\ [Next]_vars => CallInv' BY CallInvNext
<1>3. CallInv => AnswerIsTrue BY DEF CallInv
<1> QED BY <1>1, <1>2, <1>3, PTL DEF Spec

-----------------------------------------------------------------------------
(* What guards a cached value.                                             *)

LEMMA CacheInvInit ==
    ASSUME Init
    PROVE  CacheInv
<1>1. sim \in [Slots -> SimIds] /\ simId \in [Slots -> SimIds] /\ defaultSlot \in Slots
      /\ epoch \in Nat /\ (Alive => epoch # 0)
    <2>1. CASE ServiceInit BY <2>1, Numbers DEF ServiceInit, SimIds, Alive
    <2>2. CASE AtRest BY <2>2, Numbers DEF AtRest, SimIds, Alive
    <2> QED BY <2>1, <2>2 DEF Init
<1>2. LinkTypeOK
    <2>1. 0 \in 0 .. epoch BY <1>1
    <2>2. update \in [pc : {"idle", "slot", "slotReply", "sim", "simReply"},
                     remote : 0 .. epoch, value : Slots \cup SimIds \cup {INVALID_SLOT}]
        BY <2>1 DEF Init, Resting
    <2> QED BY <1>1, <2>1, <2>2 DEF Init, LinkTypeOK
<1>3. LinkOK /\ CacheWatched BY Numbers DEF Init, LinkOK, CacheWatched, INVALID_SIM_ID
<1>4. AnswerWatched /\ UpdateWatched
    BY DEF Init, Idle, Resting, AnswerWatched, UpdateWatched
<1> QED BY <1>2, <1>3, <1>4 DEF CacheInv

(* Inside the service: what answers afterwards answered before. *)
LEMMA InsideKeeps ==
    ASSUME CacheInv, Inside
    PROVE  CacheInv'
<1> USE DEF CacheInv
<1>1. UNCHANGED <<simId, defaultSlot, proxy, deaths, cacheSlot, cacheSim, listening, notices, call, update>>
      /\ slips \subseteq slips'
    BY DEF Inside, clientVars
<1>2. epoch' \in Nat /\ epoch <= epoch' BY DEF Inside, LinkTypeOK
<1>3. \A e \in 0 .. epoch : Answers(e)' => Answers(e)
    <2>1. CASE UNCHANGED epoch /\ Alive' = Alive BY <2>1 DEF Answers
    <2>2. CASE epoch' = epoch + 1
        <3>1. \A e \in 0 .. epoch : e # epoch + 1 BY DEF LinkTypeOK
        <3> QED BY <2>2, <3>1 DEF Answers
    <2> QED BY <2>1, <2>2 DEF Inside
<1>4. \A e : Alive /\ Answers(e) => Answers(e)'
    BY DEF Inside, Answers
<1>5. LinkTypeOK' BY <1>1, <1>2 DEF LinkTypeOK, Inside
<1>6. LinkOK'
    <2>1. listening => proxy # 0 /\ Answers(proxy)' BY <1>1, <1>4 DEF LinkOK, Answers
    <2>2. \A e \in deaths : e \in 1 .. epoch' /\ ~Answers(e)'
        BY <1>2, <1>3 DEF LinkOK, LinkTypeOK
    <2> QED BY <1>1, <2>1, <2>2 DEF LinkOK, Answers, Alive
<1>7. CacheWatched' BY <1>1 DEF CacheWatched, Clean, Slot, Sim
<1>8. AnswerWatched' BY <1>1 DEF AnswerWatched, Slot, Sim
<1>9. UpdateWatched'
    <2>1. Answers(update.remote)' => Answers(update.remote) BY <1>1, <1>3 DEF LinkTypeOK, Answers, Alive
    <2> QED BY <1>1, <2>1 DEF UpdateWatched, Clean, Slot, Sim
<1> QED BY <1>5, <1>6, <1>7, <1>8, <1>9

(* A change at the core service: whoever listens gets a notice. *)
LEMMA MovesKeep ==
    ASSUME CacheInv, Moves
    PROVE  CacheInv'
<1> USE DEF CacheInv
<1>1. UNCHANGED <<epoch, state, proxy, deaths, cacheSlot, cacheSim, listening, call, update>>
      /\ slips \subseteq slips'
    BY DEF Moves, Notified
<1>2. notices' \in Nat /\ (listening => notices' > 0)
    BY DEF Moves, Notified, LinkTypeOK
<1>3. LinkTypeOK' BY <1>1, <1>2 DEF LinkTypeOK, Moves, Alive
<1>4. LinkOK' BY <1>1 DEF LinkOK, Answers, Alive
<1>5. CacheWatched' BY <1>1, <1>2 DEF CacheWatched, Clean, Slot, Sim
<1>6. AnswerWatched' BY <1>1, <1>2 DEF AnswerWatched, Slot, Sim
<1>7. UpdateWatched' BY <1>1, <1>2 DEF UpdateWatched, Clean, Slot, Sim, Answers, Alive
<1> QED BY <1>3, <1>4, <1>5, <1>6, <1>7

(* The death of the process: what was watched came from the object that died. *)
LEMMA ProcessDiesKeeps ==
    ASSUME CacheInv, ProcessDies
    PROVE  CacheInv'
<1> USE DEF CacheInv
<1>1. /\ UNCHANGED <<sim, defaultSlot, epoch, slips, proxy, cacheSlot, cacheSim, notices, call, update>>
      /\ ~listening' /\ listening' \in BOOLEAN /\ ~Alive'
      /\ simId' = [k \in Slots |-> INVALID_SIM_ID]
      /\ deaths' = IF proxy = epoch THEN deaths \cup {epoch} ELSE deaths
    BY DEF ProcessDies, Crash, Alive
<1>2. LinkTypeOK' BY <1>1 DEF LinkTypeOK, SimIds
<1>3. \A e : ~Answers(e)' BY <1>1 DEF Answers
<1>5. LinkOK'
    <2>1. Alive BY DEF ProcessDies, Crash
    <2>2. epoch \in 1 .. epoch BY <2>1 DEF LinkTypeOK
    <2> QED BY <1>1, <1>3, <2>2 DEF LinkOK, Answers, LinkTypeOK
<1>6. CacheWatched' BY <1>1 DEF CacheWatched, Clean, Slot, Sim, LinkOK, Answers
<1>7. AnswerWatched' BY <1>1 DEF AnswerWatched
<1>8. UpdateWatched' BY <1>1, <1>3 DEF UpdateWatched
<1> QED BY <1>2, <1>5, <1>6, <1>7, <1>8

(* GetProxy keeps the object there is. *)
LEMMA ProxyFetched ==
    ASSUME LinkTypeOK, LinkOK, UNCHANGED <<epoch, state, deaths, listening>>,
           proxy' \in {proxy, GetProxy}
    PROVE  /\ proxy' \in 0 .. epoch /\ LinkOK'
           /\ listening \/ proxy \in deaths => proxy' = proxy
<1>1. proxy' \in 0 .. epoch /\ (proxy # 0 => proxy' = proxy)
    BY DEF GetProxy, LinkTypeOK
<1>2. listening \/ proxy \in deaths => proxy # 0
    BY DEF LinkOK, LinkTypeOK
<1>3. LinkOK' BY <1>1, <1>2 DEF LinkOK, Answers, Alive
<1> QED BY <1>1, <1>2, <1>3

(* OnRemoteDied empties the cache if it is the object of proxy_ that died; nobody
   listens then. *)
LEMMA RemoteDiedKeeps ==
    ASSUME CacheInv, CallTypeOK, NEW e \in deaths, OnRemoteDied(e)
    PROVE  CacheInv'
<1> USE DEF CacheInv
<1>1. UNCHANGED <<sim, simId, defaultSlot, epoch, state, slips, listening, notices, update>>
    BY DEF OnRemoteDied, serviceVars, coreVars, lifeVars
<1>2. deaths' = deaths \ {e} BY DEF OnRemoteDied
<1>3. UpdateWatched' BY <1>1 DEF UpdateWatched, Clean, Slot, Sim, Answers, Alive
<1>4. CASE proxy = e
    <2>1. /\ proxy' = 0 /\ cacheSlot' = INVALID_SLOT /\ cacheSim' = INVALID_SIM_ID
          /\ call' = [call EXCEPT !.fresh = (call.value = INVALID_SLOT)]
        BY <1>4 DEF OnRemoteDied
    <2>2. ~listening BY <1>4 DEF LinkOK
    <2>3. LinkTypeOK' BY <1>1, <2>1 DEF LinkTypeOK, Alive
    <2>4. LinkOK' BY <1>1, <1>2, <2>2 DEF LinkOK, Answers, Alive
    <2>5. CacheWatched' BY <2>1, Numbers DEF CacheWatched, INVALID_SIM_ID
    <2>6. AnswerWatched'
        BY <1>1, <2>1, <2>2 DEF AnswerWatched, CallTypeOK, CallFields
    <2> QED BY <1>3, <2>3, <2>4, <2>5, <2>6
<1>5. CASE proxy # e
    <2>1. UNCHANGED <<proxy, cacheSlot, cacheSim, call>> BY <1>5 DEF OnRemoteDied
    <2>2. LinkTypeOK' BY <1>1, <2>1 DEF LinkTypeOK, Alive
    <2>3. LinkOK' BY <1>1, <1>2, <2>1 DEF LinkOK, Answers, Alive
    <2>4. CacheWatched' BY <1>1, <1>2, <1>5, <2>1 DEF CacheWatched, Clean, Slot, Sim
    <2>5. AnswerWatched' BY <1>1, <2>1 DEF AnswerWatched, Slot, Sim
    <2> QED BY <1>3, <2>2, <2>3, <2>4, <2>5
<1> QED BY <1>4, <1>5

(* The client is left as it was, but for the call, which has no answer to store,
   and for proxy_. *)
Elsewhere ==
    /\ UNCHANGED <<sim, simId, defaultSlot, epoch, state, deaths, cacheSlot, cacheSim, notices, update>>
    /\ proxy' \in {proxy, GetProxy} /\ slips \subseteq slips'
    /\ call'.pc \notin {"reply", "simReply"}

LEMMA ElsewhereKeeps ==
    ASSUME CacheInv, Elsewhere, UNCHANGED listening
    PROVE  CacheInv'
<1> USE DEF CacheInv, Elsewhere
<1>1. proxy' \in 0 .. epoch /\ LinkOK' /\ (listening \/ proxy \in deaths => proxy' = proxy)
    BY ProxyFetched
<1>2. LinkTypeOK' BY <1>1 DEF LinkTypeOK, Alive
<1>3. CacheWatched' BY <1>1 DEF CacheWatched, Clean, Slot, Sim
<1>4. AnswerWatched' BY DEF AnswerWatched
<1>5. UpdateWatched' BY DEF UpdateWatched, Clean, Slot, Sim, Answers, Alive
<1> QED BY <1>1, <1>2, <1>3, <1>4, <1>5

(* The request of a call.  Whatever it changes, a listener gets a notice; what it
   answers is what the core service has now. *)
LEMMA RequestKeeps ==
    ASSUME CacheInv, NEW api, NEW who, NEW k \in Slots, NEW ok \in BOOLEAN,
           Request(api, who, k, ok),
           UNCHANGED <<sim, simId, epoch, state, slips, deaths, cacheSlot, cacheSim, listening, update>>,
           proxy' \in {proxy, GetProxy}
    PROVE  CacheInv'
<1> USE DEF CacheInv
<1>1. proxy' \in 0 .. epoch /\ LinkOK' /\ (listening \/ proxy \in deaths => proxy' = proxy)
    BY ProxyFetched
<1>2. /\ defaultSlot' \in Slots /\ notices' \in Nat
      /\ \/ UNCHANGED <<defaultSlot, notices>>
         \/ listening => notices' > 0
    <2>1. CASE UNCHANGED <<defaultSlot, notices>> BY <2>1 DEF LinkTypeOK
    <2>2. CASE defaultSlot' = k /\ notices' = IF listening THEN notices + 1 ELSE notices
        BY <2>2 DEF LinkTypeOK
    <2> QED BY <2>1, <2>2 DEF Request
<1>3. LinkTypeOK' BY <1>1, <1>2 DEF LinkTypeOK, Alive
<1>4. CacheWatched' BY <1>1, <1>2 DEF CacheWatched, Clean, Slot, Sim
<1>5. UpdateWatched' BY <1>2 DEF UpdateWatched, Clean, Slot, Sim, Answers, Alive
<1>6. AnswerWatched'
    <2>1. CASE ~Answers(GetProxy)
        <3>1. call' = Settled(api, "IPC", 0) BY <2>1 DEF Request
        <3> QED BY <3>1 DEF Settled, Idle, AnswerWatched
    <2>2. CASE Answers(GetProxy)
        <3> DEFINE checked == Execute(api, who, k)
                   does == checked = "SUCCESS" /\ api.sets
                   code == IF does /\ ~ok THEN "FAIL" ELSE checked
                   done == IF does /\ ok THEN 1 ELSE 0
                   moves == does /\ ok /\ api.method = "SetDefaultCellularDataSlotId"
        <3>1. CASE api \notin Keepers \/ code # "SUCCESS"
            <4>1. call' = [Idle EXCEPT !.pc = "reply", !.remote = GetProxy, !.code = code,
                                       !.outcome = Settles(api, code), !.done = done,
                                       !.otherwise = Settles(api, "IPC")]
                BY <2>2, <3>1 DEF Request
            <4> HIDE DEF code, done
            <4> QED BY <4>1 DEF Idle, AnswerWatched
        <3>2. CASE api \in Keepers /\ code = "SUCCESS"
            <4> DEFINE v == IF api.method = "GetDefaultCellularDataSimId"
                            THEN simId[defaultSlot] ELSE defaultSlot'
            <4>1. call' = [Idle EXCEPT !.pc = "reply", !.method = api.method, !.remote = GetProxy,
                                       !.code = code, !.done = done,
                                       !.otherwise = Settles(api, "IPC"), !.value = v]
                BY <2>2, <3>2 DEF Request
            <4>2. api.method = "GetDefaultCellularDataSimId" => UNCHANGED defaultSlot
                BY <2>2 DEF Request
            <4>3. v = IF api.method = "GetDefaultCellularDataSimId"
                      THEN simId'[defaultSlot'] ELSE defaultSlot'
                BY <4>2
            <4>4. v # INVALID_SLOT
                <5>1. defaultSlot' # INVALID_SLOT /\ simId[defaultSlot] # INVALID_SLOT
                    BY <1>2, Numbers DEF LinkTypeOK
                <5> QED BY <5>1
            <4> HIDE DEF code, done, v
            <4>5. call'.pc = "reply" /\ call'.method = api.method /\ call'.value = v
                BY <4>1 DEF Idle
            <4> QED BY <4>3, <4>4, <4>5 DEF AnswerWatched, Slot, Sim
        <3> QED BY <3>1, <3>2
    <2> QED BY <2>1, <2>2
<1> QED BY <1>1, <1>3, <1>4, <1>5, <1>6

LEMMA InvokeKeeps ==
    ASSUME CacheInv, NEW api, NEW who, NEW k \in Slots \cup {INVALID_SLOT}, NEW ok \in BOOLEAN,
           Invoke(api, who, k, ok)
    PROVE  CacheInv'
<1> DEFINE valid == api.slotted => k \in Slots
<1>1. /\ UNCHANGED <<sim, simId, epoch, state, slips, deaths, cacheSlot, cacheSim, listening, update>>
      /\ proxy' \in {proxy, GetProxy}
    BY DEF Invoke, lifeVars
<1>2. CASE ~valid \/ (api.probes /\ GetProxy = 0)
    <2>1. call' = Settled(api, "UNAVAILABLE", 0) /\ UNCHANGED <<defaultSlot, notices>>
        BY <1>2 DEF Invoke
    <2>2. call'.pc = "settled" BY <2>1 DEF Settled, Idle
    <2> QED BY <1>1, <2>1, <2>2, ElsewhereKeeps DEF Elsewhere
<1>3. CASE valid /\ api \in Keepers /\ (api.probes => GetProxy # 0)
    <2>1. /\ call' = [Idle EXCEPT !.pc = "register", !.method = api.method, !.who = who, !.slot = k]
          /\ UNCHANGED <<defaultSlot, notices>>
        BY <1>3 DEF Invoke
    <2>2. call'.pc = "register" BY <2>1 DEF Idle
    <2> QED BY <1>1, <2>1, <2>2, ElsewhereKeeps DEF Elsewhere
<1>4. CASE /\ ~(~valid \/ (api.probes /\ GetProxy = 0))
           /\ ~(valid /\ api \in Keepers /\ (api.probes => GetProxy # 0))
    <2>1. Request(api, who, k, ok) BY <1>4 DEF Invoke
    <2>2. k \in Slots BY <1>4, Numbers DEF Invoke
    <2> QED BY <1>1, <2>1, <2>2, RequestKeeps
<1> QED BY <1>2, <1>3, <1>4

(* The registration of callback_.  Where it begins to listen nothing valid is
   cached, and no answer of an object that lives is on its way. *)
LEMMA RegistrationKeeps ==
    ASSUME CacheInv, CallTypeOK, NEW ok \in BOOLEAN, RegisterSimAccountCallback(ok)
    PROVE  CacheInv'
<1> USE DEF CacheInv
<1>1. Elsewhere
    <2>1. PICK pc \in {"registering", "cache"} : call' = [call EXCEPT !.pc = pc]
        BY DEF RegisterSimAccountCallback, Goes
    <2>2. call'.pc = pc BY <2>1 DEF CallTypeOK, CallFields
    <2> QED BY <2>2 DEF Elsewhere, RegisterSimAccountCallback, coreVars, lifeVars
<1>2. CASE UNCHANGED listening BY <1>1, <1>2, ElsewhereKeeps
<1>3. CASE listening' # listening
    <2>1. ~listening /\ listening' = TRUE /\ Answers(GetProxy) /\ proxy' = GetProxy
        BY <1>3 DEF RegisterSimAccountCallback, LinkTypeOK
    <2>2. proxy' \in 0 .. epoch BY <2>1 DEF GetProxy, LinkTypeOK
    <2>3. proxy \notin deaths BY <2>1 DEF LinkOK, GetProxy
    <2>4. LinkTypeOK' BY <1>1, <2>1, <2>2 DEF LinkTypeOK, Elsewhere, Alive
    <2>5. LinkOK' BY <1>1, <2>1 DEF LinkOK, Elsewhere, Answers, Alive
    <2>6. CacheWatched' BY <1>1, <2>1, <2>3 DEF CacheWatched, Elsewhere, Clean
    <2>7. AnswerWatched' BY <1>1 DEF AnswerWatched, Elsewhere
    <2>8. UpdateWatched'
        BY <1>1, <2>1 DEF UpdateWatched, Elsewhere, Clean, Answers, Alive
    <2> QED BY <2>4, <2>5, <2>6, <2>7, <2>8
<1> QED BY <1>2, <1>3

(* The answer to a call.  A value that is stored without a slip is fresh, and a
   listener stores it. *)
LEMMA ReplyKeeps ==
    ASSUME CacheInv, CallInv, NEW arrived \in BOOLEAN, Reply(arrived)
    PROVE  CacheInv'
<1> USE DEF CacheInv
<1>1. /\ UNCHANGED <<sim, simId, defaultSlot, epoch, state, proxy, deaths, listening, notices, update>>
      /\ slips \subseteq slips' /\ call.pc = "reply"
    BY DEF Reply, Storing, coreVars, lifeVars
<1>2. LinkTypeOK' BY <1>1 DEF LinkTypeOK, Alive
<1>3. LinkOK' BY <1>1 DEF LinkOK, Answers, Alive
<1>4. UpdateWatched' BY <1>1 DEF UpdateWatched, Clean, Slot, Sim, Answers, Alive
<1>5. AnswerWatched'
    <2>1. call'.pc \in {"simSend", "settled"}
        BY DEF Reply, SettledWith, Settled, Idle, CallInv, CallTypeOK, CallFields
    <2> QED BY <2>1 DEF AnswerWatched
<1>6. CacheWatched'
    <2>1. CASE ~(arrived /\ call.method # "none")
        <3>1. UNCHANGED <<cacheSlot, cacheSim>> BY <2>1 DEF Reply
        <3> QED BY <1>1, <3>1 DEF CacheWatched, Clean, Slot, Sim
    <2>2. CASE arrived /\ call.method # "none"
        <3>1. Storing BY <2>2 DEF Reply
        <3>2. Clean' => call.fresh /\ listening BY <3>1 DEF Clean, Storing
        <3>3. CASE call.method = "GetDefaultCellularDataSimId"
            <4>1. UNCHANGED cacheSlot /\ cacheSim' = call.value BY <2>2, <3>3 DEF Reply
            <4>2. Clean' => Sim(call.value) BY <1>1, <2>2, <3>2, <3>3 DEF AnswerWatched
            <4> QED BY <1>1, <3>2, <4>1, <4>2 DEF CacheWatched, Clean, Slot, Sim
        <3>4. CASE call.method # "GetDefaultCellularDataSimId"
            <4>1. UNCHANGED cacheSim /\ cacheSlot' = call.value BY <2>2, <3>4 DEF Reply
            <4>2. Clean' => Slot(call.value) BY <1>1, <2>2, <3>2, <3>4 DEF AnswerWatched
            <4> QED BY <1>1, <3>2, <4>1, <4>2 DEF CacheWatched, Clean, Slot, Sim
        <3> QED BY <3>3, <3>4
    <2> QED BY <2>1, <2>2
<1> QED BY <1>2, <1>3, <1>4, <1>5, <1>6

(* The card that SetDefaultCellularDataSlotId asks for afterwards, *)
LEMMA AsksSimKeeps ==
    ASSUME CacheInv, CallInv, AsksSim
    PROVE  CacheInv'
<1> USE DEF CacheInv
<1>1. /\ UNCHANGED <<sim, simId, defaultSlot, epoch, state, slips, proxy, deaths, cacheSlot, cacheSim,
                     listening, notices, update>>
    BY DEF AsksSim, serviceVars, coreVars, lifeVars
<1>2. CASE call' = SettledWith("SUCCESS")
    <2>1. call'.pc = "settled" BY <1>2 DEF SettledWith, Settled, Idle
    <2> QED BY <1>1, <2>1, ElsewhereKeeps DEF Elsewhere
<1>3. CASE call' = [call EXCEPT !.pc = "simReply", !.value = simId[defaultSlot], !.fresh = TRUE]
    <2>1. call'.pc = "simReply" /\ call'.value = simId[defaultSlot]
        BY <1>3 DEF CallInv, CallTypeOK, CallFields
    <2>2. simId[defaultSlot] # INVALID_SLOT BY Numbers DEF LinkTypeOK
    <2>3. AnswerWatched' BY <1>1, <2>1, <2>2 DEF AnswerWatched, Sim
    <2>4. LinkTypeOK' BY <1>1 DEF LinkTypeOK, Alive
    <2>5. LinkOK' BY <1>1 DEF LinkOK, Answers, Alive
    <2>6. CacheWatched' BY <1>1 DEF CacheWatched, Clean, Slot, Sim
    <2>7. UpdateWatched' BY <1>1 DEF UpdateWatched, Clean, Slot, Sim, Answers, Alive
    <2> QED BY <2>3, <2>4, <2>5, <2>6, <2>7
<1> QED BY <1>2, <1>3 DEF AsksSim

(* and its answer. *)
LEMMA SimReplyKeeps ==
    ASSUME CacheInv, NEW arrived \in BOOLEAN, SimReply(arrived)
    PROVE  CacheInv'
<1> USE DEF CacheInv
<1>1. /\ UNCHANGED <<sim, simId, defaultSlot, epoch, state, proxy, deaths, cacheSlot, listening,
                     notices, update>>
      /\ slips \subseteq slips' /\ call.pc = "simReply"
    BY DEF SimReply, Storing, coreVars, lifeVars
<1>2. LinkTypeOK' BY <1>1 DEF LinkTypeOK, Alive
<1>3. LinkOK' BY <1>1 DEF LinkOK, Answers, Alive
<1>4. UpdateWatched' BY <1>1 DEF UpdateWatched, Clean, Slot, Sim, Answers, Alive
<1>5. AnswerWatched'
    <2>1. call'.pc = "settled" BY DEF SimReply, SettledWith, Settled, Idle
    <2> QED BY <2>1 DEF AnswerWatched
<1>6. CacheWatched'
    <2>1. CASE ~arrived
        <3>1. UNCHANGED cacheSim BY <2>1 DEF SimReply
        <3> QED BY <1>1, <3>1 DEF CacheWatched, Clean, Slot, Sim
    <2>2. CASE arrived
        <3>1. Storing /\ cacheSim' = call.value BY <2>2 DEF SimReply
        <3>2. Clean' => call.fresh /\ listening BY <3>1 DEF Clean, Storing
        <3>3. Clean' => Sim(call.value) BY <1>1, <3>2 DEF AnswerWatched
        <3> QED BY <1>1, <3>1, <3>2, <3>3 DEF CacheWatched, Clean, Slot, Sim
    <2> QED BY <2>1, <2>2
<1> QED BY <1>2, <1>3, <1>4, <1>5, <1>6

LEMMA CallStepKeeps ==
    ASSUME CacheInv, CallInv, CallStep
    PROVE  CacheInv'
<1>1. CASE Registered
    <2>1. call'.pc = "cache" BY <1>1 DEF Registered, Goes, CallInv, CallTypeOK, CallFields
    <2> QED BY <1>1, <2>1, ElsewhereKeeps DEF Elsewhere, Registered, coreVars, lifeVars
<1>2. CASE ReadsCache
    <2>1. call'.pc \in {"settled", "send"}
        BY <1>2 DEF ReadsCache, SettledWith, Settled, Idle, CallInv, CallTypeOK, CallFields
    <2> QED BY <1>2, <2>1, ElsewhereKeeps
            DEF Elsewhere, ReadsCache, serviceVars, coreVars, lifeVars
<1>3. CASE AsksSim BY <1>3, AsksSimKeeps
<1>4. CASE \E ok \in BOOLEAN : RegisterSimAccountCallback(ok)
    BY <1>4, RegistrationKeeps DEF CallInv
<1>5. ASSUME NEW ok \in BOOLEAN, Send(ok) PROVE CacheInv'
    <2>1. call.slot \in Slots BY <1>5 DEF Send, CallInv, CallTypeOK
    <2> QED BY <1>5, <2>1, RequestKeeps DEF Send, lifeVars
<1>6. CASE \E ok \in BOOLEAN : Reply(ok) BY <1>6, ReplyKeeps
<1>7. CASE \E ok \in BOOLEAN : SimReply(ok) BY <1>7, SimReplyKeeps
<1> QED BY <1>1, <1>2, <1>3, <1>4, <1>5, <1>6, <1>7 DEF CallStep

(* A notice empties the caches, and marks what the call has read as stale. *)
LEMMA NoticeKeeps ==
    ASSUME CacheInv, CallTypeOK, UpdateDefaultCellularDataSlotId
    PROVE  CacheInv'
<1> USE DEF CacheInv
<1>1. /\ UNCHANGED <<sim, simId, defaultSlot, epoch, state, slips, deaths, listening>>
      /\ proxy' = GetProxy /\ notices > 0 /\ notices' = notices - 1 /\ update.pc = "idle"
      /\ cacheSlot' = INVALID_SLOT /\ cacheSim' = INVALID_SIM_ID
      /\ call' = [call EXCEPT !.fresh = (call.value = INVALID_SLOT)]
    BY DEF UpdateDefaultCellularDataSlotId, serviceVars, coreVars, lifeVars
<1>2. proxy' \in 0 .. epoch /\ LinkOK' BY <1>1, ProxyFetched
<1>3. update' \in [pc : {"idle", "slot"}, remote : 0 .. epoch,
                   value : Slots \cup SimIds \cup {INVALID_SLOT}]
    <2>1. CASE UNCHANGED update BY <1>1, <2>1 DEF LinkTypeOK
    <2>2. CASE update' = [update EXCEPT !.pc = "slot", !.remote = GetProxy]
        <3>1. GetProxy \in 0 .. epoch BY <1>1, <1>2
        <3> QED BY <2>2, <3>1 DEF LinkTypeOK
    <2> QED BY <2>1, <2>2 DEF UpdateDefaultCellularDataSlotId
<1>4. LinkTypeOK' BY <1>1, <1>2, <1>3 DEF LinkTypeOK, Alive
<1>5. CacheWatched' BY <1>1, Numbers DEF CacheWatched, INVALID_SIM_ID
<1>6. AnswerWatched' BY <1>1 DEF AnswerWatched, CallTypeOK, CallFields
<1>7. UpdateWatched' BY <1>3 DEF UpdateWatched
<1> QED BY <1>2, <1>4, <1>5, <1>6, <1>7

(* A request of the callback: a value that is read while nobody listens is a slip. *)
LEMMA UpdateAsksKeeps ==
    ASSUME CacheInv, UpdateAsks
    PROVE  CacheInv'
<1> USE DEF CacheInv
<1>1. UNCHANGED <<sim, simId, defaultSlot, epoch, state, proxy, deaths, cacheSlot, cacheSim, listening,
                  notices, call>>
      /\ slips \subseteq slips'
    BY DEF UpdateAsks, coreVars, lifeVars
<1>2. CASE ~Answers(update.remote)
    <2>1. update' \in [pc : {"idle", "sim"}, remote : 0 .. epoch,
                       value : Slots \cup SimIds \cup {INVALID_SLOT}]
        <3>1. CASE update.pc = "slot" BY <1>2, <3>1 DEF UpdateAsks, LinkTypeOK
        <3>2. CASE update.pc # "slot"
            <4>1. update' = Resting BY <1>2, <3>2 DEF UpdateAsks
            <4> QED BY <4>1 DEF Resting, LinkTypeOK
        <3> QED BY <3>1, <3>2
    <2>2. LinkTypeOK' BY <1>1, <2>1 DEF LinkTypeOK, Alive
    <2>3. UpdateWatched' BY <2>1 DEF UpdateWatched
    <2>4. LinkOK' BY <1>1 DEF LinkOK, Answers, Alive
    <2>5. CacheWatched' BY <1>1 DEF CacheWatched, Clean, Slot, Sim
    <2>6. AnswerWatched' BY <1>1 DEF AnswerWatched, Slot, Sim
    <2> QED BY <2>2, <2>3, <2>4, <2>5, <2>6
<1>3. CASE Answers(update.remote)
    <2> DEFINE v == IF update.pc = "slot" THEN defaultSlot ELSE simId[defaultSlot]
    <2>1. update' = [update EXCEPT !.pc = IF update.pc = "slot" THEN "slotReply" ELSE "simReply",
                                   !.value = v]
        BY <1>3 DEF UpdateAsks
    <2>2. v \in Slots \cup SimIds \cup {INVALID_SLOT} BY DEF LinkTypeOK
    <2>3. LinkTypeOK' BY <1>1, <2>1, <2>2 DEF LinkTypeOK, Alive
    <2>4. Clean' => listening BY <1>3 DEF Clean, UpdateAsks
    <2>5. UpdateWatched'
        BY <1>1, <2>1, <2>4 DEF UpdateWatched, Slot, Sim, LinkTypeOK
    <2>6. LinkOK' BY <1>1 DEF LinkOK, Answers, Alive
    <2>7. CacheWatched' BY <1>1 DEF CacheWatched, Clean, Slot, Sim
    <2>8. AnswerWatched' BY <1>1 DEF AnswerWatched, Slot, Sim
    <2> QED BY <2>3, <2>5, <2>6, <2>7, <2>8
<1> QED BY <1>2, <1>3

(* Its answer. *)
LEMMA UpdateStoresKeeps ==
    ASSUME CacheInv, NEW arrived \in BOOLEAN, UpdateStores(arrived)
    PROVE  CacheInv'
<1> USE DEF CacheInv
<1>1. /\ UNCHANGED <<sim, simId, defaultSlot, epoch, state, proxy, deaths, listening, notices, call>>
      /\ slips \subseteq slips' /\ update.pc \in {"slotReply", "simReply"}
    BY DEF UpdateStores, coreVars, lifeVars
<1>2. update' \in [pc : {"idle", "sim"}, remote : 0 .. epoch,
                   value : Slots \cup SimIds \cup {INVALID_SLOT}]
    <2>1. CASE update.pc = "slotReply" BY <2>1 DEF UpdateStores, LinkTypeOK
    <2>2. CASE update.pc # "slotReply"
        <3>1. update' = Resting BY <2>2 DEF UpdateStores
        <3> QED BY <3>1 DEF Resting, LinkTypeOK
    <2> QED BY <2>1, <2>2
<1>3. LinkTypeOK' BY <1>1, <1>2 DEF LinkTypeOK, Alive
<1>4. UpdateWatched' BY <1>2 DEF UpdateWatched
<1>5. LinkOK' BY <1>1 DEF LinkOK, Answers, Alive
<1>6. AnswerWatched' BY <1>1 DEF AnswerWatched, Slot, Sim
<1>7. CacheWatched'
    <2>1. CASE ~arrived
        <3>1. UNCHANGED <<cacheSlot, cacheSim>> BY <2>1 DEF UpdateStores
        <3> QED BY <1>1, <3>1 DEF CacheWatched, Clean, Slot, Sim
    <2>2. CASE arrived
        <3>1. Clean' => Clean /\ listening /\ Answers(update.remote)
            BY <2>2 DEF Clean, UpdateStores
        <3>2. CASE update.pc = "slotReply"
            <4>1. cacheSlot' = update.value /\ UNCHANGED cacheSim BY <2>2, <3>2 DEF UpdateStores
            <4> QED BY <1>1, <3>1, <3>2, <4>1 DEF CacheWatched, UpdateWatched, Clean, Slot, Sim
        <3>3. CASE update.pc = "simReply"
            <4>1. cacheSim' = update.value /\ UNCHANGED cacheSlot BY <2>2, <3>3 DEF UpdateStores
            <4> QED BY <1>1, <3>1, <3>3, <4>1 DEF CacheWatched, UpdateWatched, Clean, Slot, Sim
        <3> QED BY <1>1, <3>2, <3>3
    <2> QED BY <2>1, <2>2
<1> QED BY <1>3, <1>4, <1>5, <1>6, <1>7

LEMMA CacheInvNext ==
    ASSUME CacheInv, CallInv, [Next]_vars
    PROVE  CacheInv'
<1>1. CASE (StartStep \/ EnvironmentStep) /\ UNCHANGED clientVars
    BY <1>1, StartIsInside, EnvironmentIsInside, InsideKeeps DEF CacheInv
<1>2. CASE NetManagerStarts /\ UNCHANGED clientVars
    BY <1>2, StartIsInside, InsideKeeps DEF CacheInv
<1>3. CASE \E k \in Slots : (HandlerStep(k) \/ AbilityStep(k)) /\ UNCHANGED clientVars
    BY <1>3, HandlerIsInside, InsideKeeps DEF CacheInv
<1>4. CASE \E k \in Slots : (AccountStep(k) \/ SimRemoved(k) \/ DefaultSlotChanges(k)) /\ Notified
    BY <1>4, CoreMoves, MovesKeep DEF CacheInv
<1>5. CASE ProcessDies BY <1>5, ProcessDiesKeeps
<1>6. CASE \E e \in deaths : OnRemoteDied(e) BY <1>6, RemoteDiedKeeps DEF CallInv
<1>7. CASE \E api \in Apis, who \in Callers, k \in Slots \cup {INVALID_SLOT}, ok \in BOOLEAN :
              Invoke(api, who, k, ok)
    BY <1>7, InvokeKeeps
<1>8. CASE CallStep BY <1>8, CallStepKeeps
<1>9. CASE UpdateStep
    <2>1. CASE UpdateDefaultCellularDataSlotId BY <2>1, NoticeKeeps DEF CallInv
    <2>2. CASE UpdateAsks BY <2>2, UpdateAsksKeeps
    <2>3. CASE \E arrived \in BOOLEAN : UpdateStores(arrived) BY <2>3, UpdateStoresKeeps
    <2> QED BY <1>9, <2>1, <2>2, <2>3 DEF UpdateStep
<1>10. CASE UNCHANGED vars
    <2>1. Inside
        BY <1>10 DEF vars, serviceVars, coreVars, lifeVars, Inside, CacheInv, LinkTypeOK, Alive
    <2> QED BY <2>1, InsideKeeps
<1> QED BY <1>1, <1>2, <1>3, <1>4, <1>5, <1>6, <1>7, <1>8, <1>9, <1>10 DEF Next

LEMMA CacheInvIsEnough ==
    ASSUME CacheInv
    PROVE  CacheIsCurrent
<1> USE DEF CacheInv
<1>1. SUFFICES ASSUME deaths = {}, notices = 0, slips \cap {"overtaken", "unheard"} = {}
               PROVE  /\ cacheSlot \in Slots => cacheSlot = defaultSlot
                      /\ cacheSim > 0 => cacheSim = simId[defaultSlot]
    BY DEF CacheIsCurrent
<1>2. Clean BY <1>1 DEF Clean
<1> QED BY <1>1, <1>2 DEF CacheWatched, Slot, Sim

(* At rest, a cached slot or card that will be used is the core service's, however
   often the default slot, the cards, the service and the calls have changed hands:
   CacheIsCurrent for every number of slots, cards, changes, deaths and calls. *)
THEOREM CacheAlwaysCurrent == Spec => []CacheIsCurrent
<1>1. Init => CallInv /\ CacheInv BY CallInvInit, CacheInvInit
<1>2. CallInv /\ CacheInv /\ [Next]_vars => (CallInv /\ CacheInv)' BY CallInvNext, CacheInvNext
<1>3. CacheInv => CacheIsCurrent BY CacheInvIsEnough
<1> QED BY <1>1, <1>2, <1>3, PTL DEF Spec

-----------------------------------------------------------------------------
(* Numbers and sequences that the suppliers and requests rest on.          *)

(* A bounded set of naturals has a greatest element. *)
LEMMA MaxIsIn ==
    ASSUME NEW n \in Nat, NEW S \in SUBSET (1 .. n), S # {}
    PROVE  Max(S) \in S
<1> DEFINE T == {n - x : x \in S}
<1>0. \A x \in S : n - x \in Nat OBVIOUS
<1>1. T \subseteq Nat /\ T # {} BY <1>0
<1> HIDE DEF T
<1>2. Min(T) \in T /\ \A y \in T : Min(T) <= y BY <1>1, MinIsLeast
<1> USE DEF T
<1>3. PICK x \in S : Min(T) = n - x BY <1>2
<1>4. \A y \in S : n - x <= n - y BY <1>2, <1>3
<1>5. \A y \in S : x >= y BY <1>4
<1> QED BY <1>5 DEF Max

(* One capability is its own best. *)
LEMMA BestOfOne ==
    ASSUME NEW c \in Caps
    PROVE  FindBestCapability({c}) = c
<1> DEFINE S == {i \in DOMAIN Capability : Capability[i] \in {c}}
<1>1. DOMAIN Capability = 1 .. Len(Capability) /\ Len(Capability) \in Nat
    BY ServiceAssumption
<1>2. S \subseteq 1 .. Len(Capability) BY <1>1
<1>3. S # {} BY DEF Caps, Range
<1>4. \A i \in S : Capability[i] = c OBVIOUS
<1> HIDE DEF S
<1>5. Max(S) \in S BY <1>1, <1>2, <1>3, MaxIsIn
<1>6. Capability[Max(S)] = c BY <1>4, <1>5
<1> QED BY <1>6 DEF S, FindBestCapability

LEMMA CapsFinite == IsFiniteSet(Caps)
<1> DEFINE n == Len(Capability)
<1>1. Capability \in Seq(Range(Capability)) BY ServiceAssumption
<1>2. n \in Nat /\ Capability \in [1 .. n -> Caps] BY <1>1 DEF Caps
<1>3. \A c \in Caps : \E i \in 1 .. n : Capability[i] = c BY <1>2 DEF Caps, Range
<1> HIDE DEF n
<1>4. Capability \in Surjection(1 .. n, Caps) BY <1>2, <1>3 DEF Surjection
<1>5. IsFiniteSet(1 .. n) BY <1>2, FS_Interval
<1> QED BY <1>4, <1>5, FS_Surjection

(* The members of a finite set, in some order. *)
LEMMA SetToSeqIsOnto ==
    ASSUME NEW S, IsFiniteSet(S)
    PROVE  /\ SetToSeq(S) \in Seq(S)
           /\ \A x \in S : \E i \in DOMAIN SetToSeq(S) : SetToSeq(S)[i] = x
<1> DEFINE n == Cardinality(S)
           f == SetToSeq(S)
<1>1. n \in Nat /\ ExistsBijection(1 .. n, S) BY FS_CardinalityType
<1> HIDE DEF n
<1>2. PICK b : b \in Bijection(1 .. n, S) BY <1>1 DEF ExistsBijection
<1>3. b \in [1 .. n -> S] /\ IsInjective(b)
    BY <1>2 DEF Bijection, Injection, IsInjective
<1>4. f \in [1 .. n -> S] /\ IsInjective(f) BY <1>3 DEF SetToSeq, n
<1> HIDE DEF f
<1>5. f \in Injection(1 .. n, S) BY <1>4 DEF Injection, IsInjective
<1>6. Cardinality(1 .. n) = n BY <1>1, FS_Interval
<1>7. Cardinality(S) = n BY DEF n
<1>8. f \in Surjection(1 .. n, S) BY <1>5, <1>6, <1>7, FS_Injection
<1>9. f \in Seq(S) BY <1>1, <1>4
<1>10. \A x \in S : \E i \in DOMAIN f : f[i] = x BY <1>4, <1>8 DEF Surjection
<1> QED BY <1>9, <1>10 DEF f

-----------------------------------------------------------------------------
(* The service: what its tables, its queues and the net manager's table hold. *)

EventTypes == {"SIM_STATE", "ACCOUNT_LOADED", "REQUEST", "RELEASE"}
Events == {e \in [type : EventTypes, cap : Caps \cup {"none"}] :
              e.type \in {"REQUEST", "RELEASE"} => e.cap \in Caps}
Entries == [simId : SimIds, supplierId : SimIds, listed : BOOLEAN]
Slips == {"refused", "crossed", "missed", "forgotten", "early", "late", "kept", "swapped",
          "overtaken", "unheard"}

\* The states of the agent that a call of it begins and ends with.
Agents == [tab : [Slots -> [Caps -> Entries]], map : [Slots -> SimIds], net : SUBSET (Sims \X Caps),
           queue : [Slots -> Seq(Events)], slip : SUBSET Slips]

Serving == state \in {"published", "running"}

\* The card of an entry, and whether the net manager knows it.
Ent(g, k, c) == g.tab[k][c].simId
Live(g, k, c) == Ent(g, k, c) # INVALID_SIM_ID /\ <<Ent(g, k, c), c>> \in g.net

\* All entries are listed, or none; one with a card has the supplier id of this card.
Booked(g) ==
    /\ g \in Agents
    /\ \A k \in Slots, c \in Caps :
         /\ g.tab[k][c].listed = Serving
         /\ Ent(g, k, c) # INVALID_SIM_ID => Serving /\ g.tab[k][c].supplierId = Ent(g, k, c)

\* An event of the type is in the queue e.
In(e, type) == \E i \in DOMAIN e : e[i].type = type

ServiceTyped ==
    /\ sim \in [Slots -> SimIds] /\ simId \in [Slots -> SimIds] /\ defaultSlot \in Slots
    /\ netUp \in BOOLEAN /\ asked \subseteq Sims \X Caps
    /\ epoch \in Nat /\ state \in {"dead", "created", "published", "running", "stopped"}
    /\ isInitSuccess \in BOOLEAN
    /\ controller \in [Slots -> {"none", "waiting", "inited", "ready"}]
    /\ timer \in [Slots -> 0 .. LoadRetryTimes] /\ loaded \in [Slots -> BOOLEAN]
    /\ added \subseteq Slots /\ wanted \in [Slots -> SUBSET Caps]
    /\ budget \in [changes : Nat, faults : Nat, calls : Nat]
    /\ slips \subseteq Slips
    /\ Booked(Agent(queue))

\* The cards: accounts follow them, and a card is in one slot.
CardsOK ==
    /\ \A k \in Slots : simId[k] \in {INVALID_SIM_ID, sim[k]}
    /\ \A j, k \in Slots : j # k /\ sim[j] # INVALID_SIM_ID => sim[j] # sim[k]

\* A controller without a handler has nothing.
SlotsOK ==
    /\ \A k \in Slots : controller[k] \in {"none", "waiting"} =>
         /\ \A c \in Caps : netSuppliers[k][c].simId = INVALID_SIM_ID
         /\ queue[k] = <<>> /\ timer[k] = 0 /\ k \notin added /\ wanted[k] = {}
         /\ controller[k] = "none" => slotIdSimId[k] = INVALID_SIM_ID
    /\ state \in {"dead", "created"} => \A k \in Slots : controller[k] = "none"
    /\ added # {} => netUp
    /\ \A k \in Slots : timer[k] > 0 => ~loaded[k]

ServiceInv == ServiceTyped /\ CardsOK /\ SlotsOK

-----------------------------------------------------------------------------
(* Queues.                                                                 *)

LEMMA AppendKeeps ==
    ASSUME NEW e \in Seq(Events), NEW d \in Seq(Events)
    PROVE  /\ e \o d \in Seq(Events)
           /\ \A t : In(e \o d, t) <=> In(e, t) \/ In(d, t)
<1>1. /\ e \o d \in Seq(Events) /\ Len(e \o d) = Len(e) + Len(d)
      /\ \A i \in 1 .. Len(e \o d) : (e \o d)[i] = IF i <= Len(e) THEN e[i] ELSE d[i - Len(e)]
    BY ConcatProperties
<1>2. ASSUME NEW t, In(e \o d, t) PROVE In(e, t) \/ In(d, t)
    <2>1. PICK i \in 1 .. Len(e \o d) : (e \o d)[i].type = t BY <1>1, <1>2 DEF In
    <2>2. CASE i <= Len(e) BY <1>1, <2>1, <2>2 DEF In
    <2>3. CASE ~(i <= Len(e))
        <3>1. i - Len(e) \in 1 .. Len(d) /\ d[i - Len(e)].type = t BY <1>1, <2>1, <2>3
        <3> QED BY <3>1 DEF In
    <2> QED BY <2>2, <2>3
<1>3. ASSUME NEW t, In(e, t) PROVE In(e \o d, t)
    <2>1. PICK i \in 1 .. Len(e) : e[i].type = t BY <1>3 DEF In
    <2>2. i \in 1 .. Len(e \o d) /\ (e \o d)[i] = e[i] BY <1>1, <2>1
    <2> QED BY <1>1, <2>1, <2>2 DEF In
<1>4. ASSUME NEW t, In(d, t) PROVE In(e \o d, t)
    <2>1. PICK i \in 1 .. Len(d) : d[i].type = t BY <1>4 DEF In
    <2>2. i + Len(e) \in 1 .. Len(e \o d) /\ (e \o d)[i + Len(e)] = d[i] BY <1>1, <2>1
    <2> QED BY <1>1, <2>1, <2>2 DEF In
<1> QED BY <1>1, <1>2, <1>3, <1>4

LEMMA TailKeeps ==
    ASSUME NEW e \in Seq(Events), e # <<>>
    PROVE  /\ Tail(e) \in Seq(Events) /\ Head(e) \in Events
           /\ \A t : In(e, t) <=> Head(e).type = t \/ In(Tail(e), t)
<1>1. /\ Tail(e) \in Seq(Events) /\ Head(e) = e[1] /\ Head(e) \in Events /\ Len(e) \in Nat \ {0}
      /\ Len(Tail(e)) = Len(e) - 1 /\ \A i \in 1 .. Len(Tail(e)) : Tail(e)[i] = e[i + 1]
    OBVIOUS
<1>2. ASSUME NEW t, In(e, t), Head(e).type # t PROVE In(Tail(e), t)
    <2>1. PICK i \in 1 .. Len(e) : e[i].type = t BY <1>2 DEF In
    <2>2. i # 1 BY <1>1, <1>2, <2>1
    <2>3. i - 1 \in 1 .. Len(Tail(e)) /\ (i - 1) + 1 = i BY <1>1, <2>1, <2>2
    <2>4. i - 1 \in DOMAIN Tail(e) /\ Tail(e)[i - 1].type = t BY <1>1, <2>1, <2>3
    <2> QED BY <2>4 DEF In
<1>3. ASSUME NEW t, Head(e).type = t PROVE In(e, t)
    <2>1. 1 \in DOMAIN e BY <1>1
    <2> QED BY <1>1, <1>3, <2>1 DEF In
<1>4. ASSUME NEW t, In(Tail(e), t) PROVE In(e, t)
    <2>1. PICK i \in 1 .. Len(Tail(e)) : Tail(e)[i].type = t BY <1>1, <1>4 DEF In
    <2>2. i + 1 \in DOMAIN e /\ e[i + 1].type = t BY <1>1, <2>1
    <2> QED BY <2>2 DEF In
<1> QED BY <1>1, <1>2, <1>3, <1>4

(* What the net manager says of a card: events of one type, for these capabilities. *)
Said(type, caps) == [i \in DOMAIN caps |-> Event(type, FindBestCapability({caps[i]}))]

LEMMA SaidIs ==
    ASSUME NEW type \in EventTypes, NEW caps \in Seq(Caps)
    PROVE  /\ Said(type, caps) \in Seq(Events) /\ DOMAIN Said(type, caps) = DOMAIN caps
           /\ \A i \in DOMAIN caps : /\ Said(type, caps)[i].type = type
                                     /\ Said(type, caps)[i].cap = caps[i]
<1> DEFINE s == Said(type, caps)
<1>1. DOMAIN caps = 1 .. Len(caps) /\ Len(caps) \in Nat OBVIOUS
<1>2. ASSUME NEW i \in DOMAIN caps PROVE s[i] = Event(type, caps[i]) /\ caps[i] \in Caps
    <2>1. caps[i] \in Caps OBVIOUS
    <2> QED BY <2>1, BestOfOne DEF Said
<1>3. DOMAIN s = DOMAIN caps BY DEF Said
<1>4. \A i \in DOMAIN caps : s[i] = [type |-> type, cap |-> caps[i]] BY <1>2 DEF Event
<1>5. s = [i \in 1 .. Len(caps) |-> s[i]] BY <1>1 DEF Said
<1> HIDE DEF s
<1>6. \A i \in 1 .. Len(caps) : s[i] \in Events
    <2> SUFFICES ASSUME NEW i \in 1 .. Len(caps) PROVE s[i] \in Events OBVIOUS
    <2>1. caps[i] \in Caps \cup {"none"} OBVIOUS
    <2>2. s[i] = [type |-> type, cap |-> caps[i]] BY <1>1, <1>4
    <2>3. caps[i] \in Caps OBVIOUS
    <2> QED BY <2>1, <2>2, <2>3 DEF Events
<1>7. s \in [1 .. Len(caps) -> Events] BY <1>5, <1>6
<1>8. s \in Seq(Events) BY <1>1, <1>7
<1> QED BY <1>3, <1>4, <1>8 DEF s

\* The handler of slot k, to which a card of this map is routed first.
Leads(map, s, k) == k \in Slots /\ map[k] = s /\ \A j \in Slots : j < k => map[j] # s
Hears(k) == isInitSuccess /\ controller[k] \in {"inited", "ready"}

LEMMA RouteLeads ==
    ASSUME NEW map \in [Slots -> SimIds], NEW s \in Sims
    PROVE  /\ GetSlotId(map, s) \in Slots => Leads(map, s, GetSlotId(map, s))
           /\ \A k : Leads(map, s, k) => GetSlotId(map, s) = k
<1> DEFINE S == {k \in Slots : map[k] = s}
<1>1. S \subseteq Nat BY Numbers
<1>2. S # {} => Min(S) \in S /\ \A y \in S : Min(S) <= y BY <1>1, MinIsLeast
<1>3. GetSlotId(map, s) = IF S # {} THEN Min(S) ELSE -1 BY DEF GetSlotId
<1>4. -1 \notin Slots BY Numbers
<1>5. ASSUME S # {} PROVE Leads(map, s, Min(S))
    <2>1. Min(S) \in Slots /\ map[Min(S)] = s BY <1>2, <1>5
    <2>2. \A j \in Slots : j < Min(S) => map[j] # s
        <3> SUFFICES ASSUME NEW j \in Slots, j < Min(S), map[j] = s PROVE FALSE OBVIOUS
        <3>1. j \in S /\ Min(S) <= j BY <1>2
        <3>2. j \in Nat /\ Min(S) \in Nat BY <2>1, Numbers
        <3> HIDE DEF S
        <3> QED BY <3>1, <3>2
    <2> HIDE DEF S
    <2> QED BY <2>1, <2>2 DEF Leads
<1>6. ASSUME NEW k, Leads(map, s, k) PROVE GetSlotId(map, s) = k
    <2>1. k \in S BY <1>6 DEF Leads
    <2>2. Leads(map, s, Min(S)) /\ Min(S) <= k BY <1>2, <1>5, <2>1
    <2>3. Min(S) \in Nat /\ k \in Nat /\ ~(Min(S) < k) BY <1>6, <2>2, Numbers DEF Leads
    <2>4. GetSlotId(map, s) = Min(S) BY <1>3, <2>1
    <2> HIDE DEF S
    <2> QED BY <2>2, <2>3, <2>4
<1> HIDE DEF S
<1> QED BY <1>3, <1>4, <1>5, <1>6

\* The queues q, and d appended to the one of the slot that card s is routed to, if it hears.
Delivered(q, r, map, s, d) ==
    /\ r \in [Slots -> Seq(Events)]
    /\ \A j \in Slots : r[j] = IF Leads(map, s, j) /\ Hears(j) THEN q[j] \o d ELSE q[j]

LEMMA RoutedIs ==
    ASSUME NEW q \in [Slots -> Seq(Events)], NEW map \in [Slots -> SimIds], NEW s \in Sims,
           NEW type \in EventTypes, NEW caps \in Seq(Caps), NEW r, r = Routed(q, map, s, type, caps)
    PROVE  Delivered(q, r, map, s, Said(type, caps))
<1> DEFINE k == GetSlotId(map, s)
<1>1. Said(type, caps) \in Seq(Events) BY SaidIs
<1>2. r = IF k \in Slots /\ Hears(k) THEN [q EXCEPT ![k] = @ \o Said(type, caps)] ELSE q
    BY DEF Routed, Said, GetCellularDataController, Hears
<1>3. k \in Slots => Leads(map, s, k) BY RouteLeads
<1>4. \A j \in Slots : Leads(map, s, j) => j = k BY RouteLeads
<1> HIDE DEF k
<1>5. CASE k \in Slots /\ Hears(k)
    <2>1. q[k] \o Said(type, caps) \in Seq(Events) BY <1>1, <1>5, AppendKeeps
    <2>2. r = [q EXCEPT ![k] = q[k] \o Said(type, caps)] BY <1>2, <1>5
    <2>3. r \in [Slots -> Seq(Events)] BY <2>1, <2>2
    <2>4. \A j \in Slots : r[j] = IF j = k THEN q[j] \o Said(type, caps) ELSE q[j] BY <2>2
    <2> QED BY <1>3, <1>4, <1>5, <2>3, <2>4 DEF Delivered
<1>6. CASE ~(k \in Slots /\ Hears(k))
    <2>1. r = q BY <1>2, <1>6
    <2>2. \A j \in Slots : ~(Leads(map, s, j) /\ Hears(j)) BY <1>4, <1>6
    <2> QED BY <2>1, <2>2 DEF Delivered
<1> QED BY <1>5, <1>6

(* UnregisterNetSupplierForSimUpdate. *)
Dropped(g, u, k) ==
    /\ Booked(u) /\ u.queue = g.queue /\ u.slip = g.slip
    /\ \A j \in Slots \ {k} : u.tab[j] = g.tab[j] /\ u.map[j] = g.map[j]
    /\ \A c \in Caps : ~Live(u, k, c) /\ Ent(u, k, c) \in {INVALID_SIM_ID, Ent(g, k, c)}
    /\ u.net \subseteq g.net
    /\ \A p \in g.net \ u.net : Ent(g, k, p[2]) = p[1]
    /\ \A c \in Caps : Ent(g, k, c) # INVALID_SIM_ID => u.map[k] = INVALID_SIM_ID
    /\ (\A c \in Caps : Ent(g, k, c) = INVALID_SIM_ID) => u.map[k] = g.map[k]
    /\ \A c \in Caps : Ent(g, k, c) # INVALID_SIM_ID => <<Ent(g, k, c), c>> \notin u.net

LEMMA Drops ==
    ASSUME NEW g, Booked(g), NEW k \in Slots, NEW u, u = UnregisterNetSupplierForSimUpdate(g, k)
    PROVE  Dropped(g, u, k)
<1> DEFINE held == {c \in Caps : g.tab[k][c].listed /\ g.tab[k][c].simId # INVALID_SIM_ID}
           gone == {<<g.tab[k][c].supplierId, c>> : c \in held} \cap g.net
           row == [c \in Caps |-> IF c \in held /\ <<g.tab[k][c].supplierId, c>> \in gone
                                  THEN [g.tab[k][c] EXCEPT !.simId = INVALID_SIM_ID] ELSE g.tab[k][c]]
<1>1. g \in Agents /\ INVALID_SIM_ID \in SimIds BY DEF Booked, SimIds
<1>2. \A c \in Caps : c \in held <=> Ent(g, k, c) # INVALID_SIM_ID BY DEF Booked, Ent
<1>3. CASE held = {}
    <2>1. u = g BY <1>3 DEF UnregisterNetSupplierForSimUpdate
    <2>2. \A c \in Caps : Ent(g, k, c) = INVALID_SIM_ID BY <1>2, <1>3
    <2> QED BY <2>1, <2>2 DEF Dropped, Live
<1>4. CASE held # {}
    <2>1. u = [g EXCEPT !.map[k] = INVALID_SIM_ID, !.net = @ \ gone, !.tab[k] = row]
        BY <1>4 DEF UnregisterNetSupplierForSimUpdate
    <2>2. row \in [Caps -> Entries] BY <1>1 DEF Agents, Entries
    <2>3. \A c \in Caps : c \in held => g.tab[k][c].supplierId = Ent(g, k, c) BY <1>2 DEF Booked
    <2>4. \A c \in Caps : <<Ent(g, k, c), c>> \in gone <=> c \in held /\ <<Ent(g, k, c), c>> \in g.net
        BY <2>3
    <2>5. \A p \in gone : p \in g.net /\ Ent(g, k, p[2]) = p[1] BY <2>3
    <2>6. \A c \in Caps : /\ row[c].simId = IF <<Ent(g, k, c), c>> \in gone THEN INVALID_SIM_ID
                                            ELSE Ent(g, k, c)
                          /\ row[c].listed = g.tab[k][c].listed
                          /\ row[c].supplierId = g.tab[k][c].supplierId
        <3> SUFFICES ASSUME NEW c \in Caps
                     PROVE  /\ row[c].simId = IF <<Ent(g, k, c), c>> \in gone THEN INVALID_SIM_ID
                                              ELSE Ent(g, k, c)
                            /\ row[c].listed = g.tab[k][c].listed
                            /\ row[c].supplierId = g.tab[k][c].supplierId
            OBVIOUS
        <3>1. g.tab[k][c] \in Entries BY <1>1 DEF Agents
        <3>2. row[c] = IF c \in held /\ <<g.tab[k][c].supplierId, c>> \in gone
                       THEN [g.tab[k][c] EXCEPT !.simId = INVALID_SIM_ID] ELSE g.tab[k][c]
            OBVIOUS
        <3>3. <<Ent(g, k, c), c>> \in gone <=> c \in held /\ <<g.tab[k][c].supplierId, c>> \in gone
            BY <2>3, <2>4
        <3> HIDE DEF held, gone, row
        <3>4. CASE <<Ent(g, k, c), c>> \in gone
            <4>1. row[c] = [g.tab[k][c] EXCEPT !.simId = INVALID_SIM_ID] BY <3>2, <3>3, <3>4
            <4> QED BY <3>1, <3>4, <4>1 DEF Entries
        <3>5. CASE <<Ent(g, k, c), c>> \notin gone
            <4>1. row[c] = g.tab[k][c] BY <3>2, <3>3, <3>5
            <4> QED BY <3>5, <4>1 DEF Ent
        <3> QED BY <3>4, <3>5
    <2> HIDE DEF held, gone, row
    <2>7. /\ u.tab = [g.tab EXCEPT ![k] = row] /\ u.map = [g.map EXCEPT ![k] = INVALID_SIM_ID]
          /\ u.net = g.net \ gone /\ u.queue = g.queue /\ u.slip = g.slip
        BY <1>1, <2>1 DEF Agents
    <2>8. u \in Agents
        <3>1. u.tab \in [Slots -> [Caps -> Entries]] BY <1>1, <2>2, <2>7 DEF Agents
        <3>2. u.map \in [Slots -> SimIds] BY <1>1, <2>7 DEF Agents
        <3> QED BY <1>1, <2>1, <2>7, <3>1, <3>2 DEF Agents
    <2>9. /\ u.tab[k] = row /\ u.map[k] = INVALID_SIM_ID
          /\ \A j \in Slots \ {k} : u.tab[j] = g.tab[j] /\ u.map[j] = g.map[j]
        BY <1>1, <2>7 DEF Agents
    <2>10. Booked(u)
        <3>1. ASSUME NEW j \in Slots, NEW c \in Caps
              PROVE  /\ u.tab[j][c].listed = Serving
                     /\ Ent(u, j, c) # INVALID_SIM_ID =>
                           Serving /\ u.tab[j][c].supplierId = Ent(u, j, c)
            <4>1. CASE j = k BY <2>6, <2>9, <4>1 DEF Booked, Ent
            <4>2. CASE j # k BY <2>9, <4>2 DEF Booked, Ent
            <4> QED BY <4>1, <4>2
        <3> QED BY <2>8, <3>1 DEF Booked
    <2>11. \A c \in Caps : ~Live(u, k, c) /\ Ent(u, k, c) \in {INVALID_SIM_ID, Ent(g, k, c)}
        BY <1>2, <2>4, <2>6, <2>7, <2>9 DEF Live, Ent
    <2>12. ~(\A c \in Caps : Ent(g, k, c) = INVALID_SIM_ID) BY <1>2, <1>4 DEF held
    <2>13. \A c \in Caps : Ent(g, k, c) # INVALID_SIM_ID => <<Ent(g, k, c), c>> \notin u.net
        BY <1>2, <2>4, <2>7
    <2> QED BY <2>5, <2>7, <2>9, <2>10, <2>11, <2>12, <2>13 DEF Dropped
<1> QED BY <1>3, <1>4

(* RegisterNetSupplier: nothing without an account or a list. *)
LEMMA EnrollsNothing ==
    ASSUME NEW g, Booked(g), NEW k \in Slots, NEW acc, NEW r, r = RegisterNetSupplier(g, k, acc),
           simId[k] = INVALID_SIM_ID \/ ~Serving
    PROVE  r = g
<1>1. simId[k] = INVALID_SIM_ID \/ ~\E c \in Caps : g.tab[k][c].listed BY DEF Booked
<1> QED BY <1>1 DEF RegisterNetSupplier

\* What is asked of the suppliers that have just registered.
Due(g, k, acc) == {c \in acc : <<simId[k], c>> \notin g.net /\ <<simId[k], c>> \in asked}

Enrolled(g, r, k, acc) ==
    /\ Booked(r)
    /\ r.map = [g.map EXCEPT ![k] = simId[k]]
    /\ \A j \in Slots \ {k} : r.tab[j] = g.tab[j]
    /\ \A c \in Caps : Ent(r, k, c) = IF c \in acc THEN simId[k] ELSE Ent(g, k, c)
    /\ r.net = g.net \cup ({simId[k]} \X acc)
    /\ g.slip \subseteq r.slip
    /\ Refused(acc) => "refused" \in r.slip
    /\ Crossing(g, k) => "crossed" \in r.slip
    /\ r.queue = IF Due(g, k, acc) = {} THEN g.queue
                 ELSE RequestNet(g.queue, r.map, simId[k], SetToSeq(Due(g, k, acc)))
    /\ Due(g, k, acc) # {} /\ ~isInitSuccess => "early" \in r.slip

LEMMA Enrolls ==
    ASSUME NEW g, Booked(g), NEW k \in Slots, NEW acc \in SUBSET Caps, Serving,
           simId \in [Slots -> SimIds], simId[k] # INVALID_SIM_ID, Caps # {},
           NEW r, r = RegisterNetSupplier(g, k, acc)
    PROVE  Enrolled(g, r, k, acc)
<1> DEFINE done == {c \in acc : g.tab[k][c].listed}
           new == {c \in done : <<simId[k], c>> \notin g.net}
           row == [c \in Caps |-> IF c \in done
                                  THEN [g.tab[k][c] EXCEPT !.simId = simId[k], !.supplierId = simId[k]]
                                  ELSE g.tab[k][c]]
           slip == g.slip \cup (IF Refused(acc) THEN {"refused"} ELSE {})
                          \cup (IF Crossing(g, k) THEN {"crossed"} ELSE {})
           b == [g EXCEPT !.map[k] = simId[k], !.tab[k] = row, !.net = @ \cup ({simId[k]} \X done),
                          !.slip = slip]
<1>1. g \in Agents /\ simId[k] \in Sims BY DEF Booked, SimIds
<1>2. done = acc BY DEF Booked
<1>3. \E c \in Caps : g.tab[k][c].listed BY DEF Booked
<1>4. r = Asked(b, simId[k], new) BY <1>3 DEF RegisterNetSupplier
<1>5. Due(g, k, acc) = {c \in new : <<simId[k], c>> \in asked} BY <1>2 DEF Due
<1>6. \A c \in Caps : g.tab[k][c] \in Entries BY <1>1 DEF Agents
<1>7. \A c \in Caps : /\ row[c] \in Entries /\ row[c].listed = g.tab[k][c].listed
                      /\ row[c].simId = IF c \in acc THEN simId[k] ELSE Ent(g, k, c)
                      /\ row[c].supplierId = IF c \in acc THEN simId[k] ELSE g.tab[k][c].supplierId
    <2> SUFFICES ASSUME NEW c \in Caps
                 PROVE  /\ row[c] \in Entries /\ row[c].listed = g.tab[k][c].listed
                        /\ row[c].simId = IF c \in acc THEN simId[k] ELSE Ent(g, k, c)
                        /\ row[c].supplierId = IF c \in acc THEN simId[k] ELSE g.tab[k][c].supplierId
        OBVIOUS
    <2>1. row[c] = IF c \in acc THEN [g.tab[k][c] EXCEPT !.simId = simId[k], !.supplierId = simId[k]]
                   ELSE g.tab[k][c]
        BY <1>2
    <2> HIDE DEF row
    <2>2. CASE c \in acc BY <1>1, <1>6, <2>1, <2>2 DEF Entries, SimIds
    <2>3. CASE c \notin acc BY <1>6, <2>1, <2>3 DEF Ent
    <2> QED BY <2>2, <2>3
<1>8. row \in [Caps -> Entries]
    <2>1. row = [c \in Caps |-> row[c]] OBVIOUS
    <2> HIDE DEF row
    <2> QED BY <1>7, <2>1
<1>9. slip \subseteq Slips BY <1>1 DEF Agents, Slips
<1> HIDE DEF row, slip
<1>10. /\ b.map = [g.map EXCEPT ![k] = simId[k]] /\ b.tab = [g.tab EXCEPT ![k] = row]
       /\ b.net = g.net \cup ({simId[k]} \X acc) /\ b.slip = slip /\ b.queue = g.queue
    BY <1>1, <1>2 DEF Agents
<1>11. b \in Agents
    <2>1. b.tab \in [Slots -> [Caps -> Entries]] BY <1>1, <1>8, <1>10 DEF Agents
    <2>2. b.map \in [Slots -> SimIds] BY <1>1, <1>10 DEF Agents, SimIds
    <2>3. b.net \subseteq Sims \X Caps BY <1>1, <1>10 DEF Agents
    <2>4. b.queue \in [Slots -> Seq(Events)] BY <1>1, <1>10 DEF Agents
    <2>5. b.slip \subseteq Slips BY <1>9, <1>10
    <2> QED BY <1>1, <2>1, <2>2, <2>3, <2>4, <2>5 DEF Agents
<1> DEFINE due == Due(g, k, acc)
<1>12. due \subseteq Caps BY DEF Due
<1>13. r = IF due = {} THEN b
           ELSE [b EXCEPT !.queue = RequestNet(@, b.map, simId[k], SetToSeq(due)),
                          !.slip = @ \cup Early(b.map, simId[k])]
    BY <1>4, <1>5 DEF Asked
<1> HIDE DEF b, new, done, due
<1>14. SetToSeq(due) \in Seq(Caps)
    <2>1. IsFiniteSet(due) BY <1>12, CapsFinite, FS_Subset
    <2>2. SetToSeq(due) \in Seq(due) BY <2>1, SetToSeqIsOnto
    <2> QED BY <1>12, <2>2, SeqMonotonic
<1> DEFINE rq == RequestNet(b.queue, b.map, simId[k], SetToSeq(due))
<1>15. rq \in [Slots -> Seq(Events)]
    <2>1. rq = Routed(b.queue, b.map, simId[k], "REQUEST", SetToSeq(due)) BY DEF RequestNet
    <2>2. "REQUEST" \in EventTypes BY DEF EventTypes
    <2>3. b.queue \in [Slots -> Seq(Events)] /\ b.map \in [Slots -> SimIds] BY <1>11 DEF Agents
    <2> HIDE DEF rq
    <2>4. Delivered(b.queue, rq, b.map, simId[k], Said("REQUEST", SetToSeq(due)))
        BY <1>1, <1>14, <2>1, <2>2, <2>3, RoutedIs
    <2> QED BY <2>4 DEF Delivered
<1> HIDE DEF rq
<1>16. Early(b.map, simId[k]) \subseteq Slips BY DEF Early, Slips
<1>17. /\ r \in Agents /\ r.tab = b.tab /\ r.map = b.map /\ r.net = b.net /\ b.slip \subseteq r.slip
       /\ r.queue = IF due = {} THEN g.queue ELSE rq
       /\ due # {} => Early(b.map, simId[k]) \subseteq r.slip
    <2>1. CASE due = {} BY <1>10, <1>11, <1>13, <2>1
    <2>2. CASE due # {}
        <3>1. r = [b EXCEPT !.queue = rq, !.slip = b.slip \cup Early(b.map, simId[k])]
            BY <1>13, <2>2 DEF rq
        <3> QED BY <1>11, <1>15, <1>16, <2>2, <3>1 DEF Agents
    <2> QED BY <2>1, <2>2
<1>18. ASSUME due # {}, ~isInitSuccess PROVE "early" \in r.slip
    <2>1. b.map \in [Slots -> SimIds] /\ b.map[k] = simId[k] BY <1>1, <1>10, <1>11 DEF Agents
    <2>2. GetSlotId(b.map, simId[k]) \in Slots
        <3> DEFINE S == {j \in Slots : b.map[j] = simId[k]}
        <3>1. k \in S BY <2>1
        <3>2. S \subseteq Nat BY Numbers
        <3>3. GetSlotId(b.map, simId[k]) = Min(S) BY <3>1 DEF GetSlotId
        <3>4. S \subseteq Slots OBVIOUS
        <3> HIDE DEF S
        <3> QED BY <3>1, <3>2, <3>3, <3>4, MinIsLeast
    <2>3. Early(b.map, simId[k]) = {"early"} BY <1>18, <2>2 DEF Early
    <2> QED BY <1>17, <1>18, <2>3
<1>19. /\ r.tab[k] = row /\ \A j \in Slots \ {k} : r.tab[j] = g.tab[j]
    BY <1>1, <1>10, <1>17 DEF Agents
<1>20. Booked(r)
    <2>1. ASSUME NEW j \in Slots, NEW c \in Caps
          PROVE  /\ r.tab[j][c].listed = Serving
                 /\ Ent(r, j, c) # INVALID_SIM_ID => Serving /\ r.tab[j][c].supplierId = Ent(r, j, c)
        <3>0. /\ g.tab[j][c].listed = Serving
              /\ Ent(g, j, c) # INVALID_SIM_ID => Serving /\ g.tab[j][c].supplierId = Ent(g, j, c)
            BY DEF Booked
        <3>1. CASE j = k
            <4>1. r.tab[j][c] = row[c] /\ Ent(r, j, c) = row[c].simId BY <1>19, <3>1 DEF Ent
            <4>2. CASE c \in acc BY <1>7, <3>0, <3>1, <4>1, <4>2
            <4>3. CASE c \notin acc BY <1>7, <3>0, <3>1, <4>1, <4>3
            <4> QED BY <4>2, <4>3
        <3>2. CASE j # k
            <4>1. r.tab[j] = g.tab[j] BY <1>19, <3>2
            <4> QED BY <3>0, <4>1 DEF Ent
        <3> QED BY <3>1, <3>2
    <2> QED BY <1>17, <2>1 DEF Booked
<1>21. \A c \in Caps : Ent(r, k, c) = IF c \in acc THEN simId[k] ELSE Ent(g, k, c)
    BY <1>7, <1>19 DEF Ent
<1>22. /\ g.slip \subseteq b.slip /\ (Refused(acc) => "refused" \in b.slip)
       /\ (Crossing(g, k) => "crossed" \in b.slip)
    BY <1>10 DEF slip
<1>23. r.queue = IF due = {} THEN g.queue ELSE RequestNet(g.queue, r.map, simId[k], SetToSeq(due))
    BY <1>10, <1>17 DEF rq
<1> QED BY <1>10, <1>17, <1>18, <1>19, <1>20, <1>21, <1>22, <1>23 DEF Enrolled, due

-----------------------------------------------------------------------------
(* Types of the service, and what a slot without a handler has.            *)

\* A controller with a handler.
Inited(k) == controller[k] \in {"inited", "ready"}

LEMMA BookedNext ==
    ASSUME ServiceInv, NEW g, Booked(g), SetAgent(g), UNCHANGED state
    PROVE  Booked(Agent(queue))' /\ slips \subseteq slips' /\ slips' \subseteq Slips
<1>1. g \in Agents /\ slips \subseteq Slips BY DEF Booked, ServiceInv, ServiceTyped
<1>2. /\ netSuppliers' = g.tab /\ slotIdSimId' = g.map /\ suppliers' = g.net /\ queue' = g.queue
      /\ slips' = slips \cup g.slip
    BY DEF SetAgent
<1>3. /\ Agent(queue)'.tab = g.tab /\ Agent(queue)' \in Agents
    BY <1>1, <1>2 DEF Agent, Agents
<1>4. Serving' = Serving BY DEF Serving
<1>5. \A k, c : Ent(Agent(queue)', k, c) = Ent(g, k, c) BY <1>3 DEF Ent
<1>6. \A k \in Slots, c \in Caps :
         /\ g.tab[k][c].listed = Serving
         /\ Ent(g, k, c) # INVALID_SIM_ID => Serving /\ g.tab[k][c].supplierId = Ent(g, k, c)
    BY DEF Booked
<1>7. Booked(Agent(queue))' BY <1>3, <1>4, <1>5, <1>6 DEF Booked, Ent
<1>8. slips' \subseteq Slips BY <1>1, <1>2 DEF Agents
<1> QED BY <1>2, <1>7, <1>8

LEMMA BookedQueue ==
    ASSUME Booked(Agent(queue)), queue' \in [Slots -> Seq(Events)],
           UNCHANGED <<netSuppliers, slotIdSimId, suppliers, state>>
    PROVE  Booked(Agent(queue))'
<1>1. Agent(queue) \in Agents BY DEF Booked
<1>2. Agent(queue)'.tab = Agent(queue).tab /\ Agent(queue)' \in Agents BY <1>1 DEF Agent, Agents
<1>3. Serving' = Serving BY DEF Serving
<1>4. \A k, c : Ent(Agent(queue)', k, c) = Ent(Agent(queue), k, c) BY <1>2 DEF Ent
<1>5. \A k \in Slots, c \in Caps :
         /\ Agent(queue).tab[k][c].listed = Serving
         /\ Ent(Agent(queue), k, c) # INVALID_SIM_ID =>
               Serving /\ Agent(queue).tab[k][c].supplierId = Ent(Agent(queue), k, c)
    BY DEF Booked
<1> QED BY <1>2, <1>3, <1>4, <1>5 DEF Booked, Ent

LEMMA BookedRest ==
    ASSUME ServiceInv, NEW q \in [Slots -> Seq(Events)]
    PROVE  /\ Booked(Agent(q)) /\ Agent(q).queue = q /\ Agent(q).tab = netSuppliers
           /\ Agent(q).map = slotIdSimId /\ Agent(q).net = suppliers /\ Agent(q).slip = {}
<1>1. Agent(queue) \in Agents /\ Booked(Agent(queue)) BY DEF Booked, ServiceInv, ServiceTyped
<1>2. Agent(q).tab = Agent(queue).tab /\ Agent(q) \in Agents BY <1>1 DEF Agent, Agents
<1>3. \A k, c : Ent(Agent(q), k, c) = Ent(Agent(queue), k, c) BY <1>2 DEF Ent
<1>4. \A k \in Slots, c \in Caps :
         /\ Agent(queue).tab[k][c].listed = Serving
         /\ Ent(Agent(queue), k, c) # INVALID_SIM_ID =>
               Serving /\ Agent(queue).tab[k][c].supplierId = Ent(Agent(queue), k, c)
    BY <1>1 DEF Booked
<1>5. Booked(Agent(q)) BY <1>2, <1>3, <1>4 DEF Booked, Ent
<1> QED BY <1>5 DEF Agent

LEMMA TableTypes ==
    ASSUME ServiceInv
    PROVE  /\ netSuppliers \in [Slots -> [Caps -> Entries]] /\ slotIdSimId \in [Slots -> SimIds]
           /\ suppliers \subseteq Sims \X Caps /\ queue \in [Slots -> Seq(Events)]
<1>1. Agent(queue) \in Agents BY DEF Booked, ServiceInv, ServiceTyped
<1> QED BY <1>1 DEF Agent, Agents

(* An event is taken from a queue. *)
LEMMA TakesRest ==
    ASSUME ServiceInv, NEW k \in Slots, NEW type, Takes(k, type)
    PROVE  /\ Rest(k) \in [Slots -> Seq(Events)] /\ Inited(k)
           /\ \A t : Has(k, t) <=> t = type \/ In(Rest(k)[k], t)
           /\ Rest(k)[k] = Tail(queue[k]) /\ \A j \in Slots \ {k} : Rest(k)[j] = queue[j]
<1>1. queue \in [Slots -> Seq(Events)] BY TableTypes
<1>2. queue[k] \in Seq(Events) /\ queue[k] # <<>> /\ Head(queue[k]).type = type BY <1>1 DEF Takes
<1>3. /\ Tail(queue[k]) \in Seq(Events)
      /\ \A t : In(queue[k], t) <=> Head(queue[k]).type = t \/ In(Tail(queue[k]), t)
    BY <1>2, TailKeeps
<1>4. Rest(k) = [queue EXCEPT ![k] = Tail(queue[k])] BY DEF Rest
<1>5. Rest(k) \in [Slots -> Seq(Events)] BY <1>1, <1>3, <1>4
<1>6. Rest(k)[k] = Tail(queue[k]) /\ \A j \in Slots \ {k} : Rest(k)[j] = queue[j] BY <1>1, <1>4
<1>7. \A t : Has(k, t) <=> In(queue[k], t) BY DEF Has, In
<1>8. Inited(k) BY <1>2 DEF Inited, ServiceInv, SlotsOK, ServiceTyped
<1> QED BY <1>2, <1>3, <1>5, <1>6, <1>7, <1>8

(* A call of the agent for a slot with a handler. *)
LEMMA AgentKeeps ==
    ASSUME ServiceInv, NEW k \in Slots, Inited(k), NEW g, Booked(g), SetAgent(g),
           \A j \in Slots \ {k} : g.tab[j] = netSuppliers[j] /\ g.map[j] = slotIdSimId[j],
           \A j \in Slots : ~Inited(j) => g.queue[j] = queue[j],
           UNCHANGED <<sim, simId, defaultSlot, netUp, asked, epoch, state, isInitSuccess, controller>>,
           added' \subseteq added,
           wanted' \in [Slots -> SUBSET Caps], \A j \in Slots : wanted[j] = {} => wanted'[j] = {},
           timer' \in [Slots -> 0 .. LoadRetryTimes], \A j \in Slots : timer[j] = 0 => timer'[j] = 0,
           loaded' \in [Slots -> BOOLEAN], \A j \in Slots : timer'[j] > 0 => ~loaded'[j],
           budget' \in [changes : Nat, faults : Nat, calls : Nat]
    PROVE  ServiceInv'
<1>1. Booked(Agent(queue))' /\ slips' \subseteq Slips BY BookedNext
<1>2. ServiceTyped' BY <1>1 DEF ServiceTyped, ServiceInv
<1>3. CardsOK' BY DEF CardsOK, ServiceInv
<1>4. netSuppliers' = g.tab /\ slotIdSimId' = g.map /\ queue' = g.queue BY DEF SetAgent
<1>5. ASSUME NEW j \in Slots, controller'[j] \in {"none", "waiting"}
      PROVE  /\ \A c \in Caps : netSuppliers'[j][c].simId = INVALID_SIM_ID
             /\ queue'[j] = <<>> /\ timer'[j] = 0 /\ j \notin added' /\ wanted'[j] = {}
             /\ controller'[j] = "none" => slotIdSimId'[j] = INVALID_SIM_ID
    <2>1. j # k /\ ~Inited(j) BY <1>5 DEF Inited
    <2>2. netSuppliers'[j] = netSuppliers[j] /\ slotIdSimId'[j] = slotIdSimId[j] /\ queue'[j] = queue[j]
        BY <1>4, <2>1
    <2>3. /\ \A c \in Caps : netSuppliers[j][c].simId = INVALID_SIM_ID
          /\ queue[j] = <<>> /\ timer[j] = 0 /\ j \notin added /\ wanted[j] = {}
          /\ controller[j] = "none" => slotIdSimId[j] = INVALID_SIM_ID
        BY <1>5 DEF ServiceInv, SlotsOK
    <2> QED BY <2>2, <2>3
<1>6. SlotsOK' BY <1>5 DEF SlotsOK, ServiceInv
<1> QED BY <1>2, <1>3, <1>6 DEF ServiceInv

LEMMA CapsExist == Caps # {}
<1>1. 1 \in DOMAIN Capability BY ServiceAssumption
<1> QED BY <1>1 DEF Caps, Range

LEMMA AcceptedCaps ==
    ASSUME NEW acc \in Accepted
    PROVE  acc \in SUBSET Caps /\ (netUp /\ ~Refused(acc) => acc = Caps)
BY DEF Accepted, Refused

(* Whatever the register does, it does for its slot, and queues only grow. *)
LEMMA RegisterKeeps ==
    ASSUME ServiceInv, NEW g, Booked(g), NEW k \in Slots, NEW acc \in Accepted,
           NEW r, r = RegisterNetSupplier(g, k, acc)
    PROVE  /\ Booked(r) /\ g.slip \subseteq r.slip
           /\ \A j \in Slots \ {k} : r.tab[j] = g.tab[j] /\ r.map[j] = g.map[j]
           /\ \A j \in Slots : ~Inited(j) => r.queue[j] = g.queue[j]
           /\ \A j \in Slots : \A t : In(g.queue[j], t) => In(r.queue[j], t)
<1>1. CASE simId[k] = INVALID_SIM_ID \/ ~Serving
    <2>1. r = g BY <1>1, EnrollsNothing
    <2> QED BY <2>1
<1>2. CASE ~(simId[k] = INVALID_SIM_ID \/ ~Serving)
    <2>1. acc \in SUBSET Caps BY AcceptedCaps
    <2>2. simId \in [Slots -> SimIds] BY DEF ServiceInv, ServiceTyped
    <2>3. Enrolled(g, r, k, acc) BY <1>2, <2>1, <2>2, CapsExist, Enrolls
    <2>4. /\ Booked(r) /\ g.slip \subseteq r.slip /\ r.map = [g.map EXCEPT ![k] = simId[k]]
          /\ \A j \in Slots \ {k} : r.tab[j] = g.tab[j]
        BY <2>3 DEF Enrolled
    <2>5. g \in Agents /\ r \in Agents BY <2>4 DEF Booked
    <2>6. \A j \in Slots \ {k} : r.map[j] = g.map[j] BY <2>4, <2>5 DEF Agents
    <2>7. CASE Due(g, k, acc) = {}
        <3>1. r.queue = g.queue BY <2>3, <2>7 DEF Enrolled
        <3> QED BY <2>4, <2>6, <3>1
    <2>8. CASE Due(g, k, acc) # {}
        <3> DEFINE due == SetToSeq(Due(g, k, acc))
                   type == "REQUEST"
        <3>1. r.queue = Routed(g.queue, r.map, simId[k], type, due)
            BY <2>3, <2>8 DEF Enrolled, RequestNet
        <3>2. due \in Seq(Caps)
            <4>1. Due(g, k, acc) \in SUBSET Caps BY <2>1 DEF Due
            <4>2. IsFiniteSet(Due(g, k, acc)) BY <4>1, CapsFinite, FS_Subset
            <4>3. due \in Seq(Due(g, k, acc)) BY <4>2, SetToSeqIsOnto
            <4> HIDE DEF due
            <4> QED BY <4>1, <4>3, SeqMonotonic
        <3> HIDE DEF due
        <3>3. simId[k] \in Sims BY <1>2, <2>2 DEF SimIds
        <3>4. type \in EventTypes BY DEF EventTypes
        <3> HIDE DEF type
        <3>5. g.queue \in [Slots -> Seq(Events)] /\ r.map \in [Slots -> SimIds] BY <2>5 DEF Agents
        <3>6. Delivered(g.queue, r.queue, r.map, simId[k], Said(type, due))
            BY <3>1, <3>2, <3>3, <3>4, <3>5, RoutedIs
        <3>7. Said(type, due) \in Seq(Events) BY <3>2, <3>4, SaidIs
        <3>8. \A j \in Slots : ~Inited(j) => r.queue[j] = g.queue[j] BY <3>6 DEF Hears, Inited, Delivered
        <3>9. ASSUME NEW j \in Slots, NEW t, In(g.queue[j], t) PROVE In(r.queue[j], t)
            <4>1. g.queue[j] \in Seq(Events) BY <3>5
            <4>2. In(g.queue[j] \o Said(type, due), t) BY <3>7, <3>9, <4>1, AppendKeeps
            <4> QED BY <3>6, <3>9, <4>2 DEF Delivered
        <3> QED BY <2>4, <2>6, <3>8, <3>9
    <2> QED BY <2>7, <2>8
<1> QED BY <1>1, <1>2

LEMMA CostTyped ==
    ASSUME ServiceInv, NEW acc, Cost(acc)
    PROVE  budget' \in [changes : Nat, faults : Nat, calls : Nat]
BY DEF ServiceInv, ServiceTyped, Cost, Spend

LEMMA SpendTyped ==
    ASSUME ServiceInv, NEW kind \in {"changes", "faults", "calls"}, Spend(kind)
    PROVE  budget' \in [changes : Nat, faults : Nat, calls : Nat]
BY DEF ServiceInv, ServiceTyped, Spend

(* An account that is loaded. *)
LEMMA AccountKeeps ==
    ASSUME ServiceInv, NEW k \in Slots, Inited(k), NEW acc \in Accepted,
           NEW q \in [Slots -> Seq(Events)], \A j \in Slots : ~Inited(j) => q[j] = queue[j],
           SimAccountLoaded(k, acc, q),
           UNCHANGED <<sim, simId, defaultSlot, netUp, asked, epoch, state, isInitSuccess, controller,
                       added, wanted>>,
           timer' = [timer EXCEPT ![k] = 0]
    PROVE  ServiceInv'
<1> DEFINE u == UnregisterNetSupplierForSimUpdate(Agent(q), k)
           g == RegisterNetSupplier(u, k, acc)
<1>1. Booked(Agent(q)) /\ Agent(q).queue = q /\ Agent(q).tab = netSuppliers
      /\ Agent(q).map = slotIdSimId
    BY BookedRest
<1>2. Dropped(Agent(q), u, k) BY <1>1, Drops
<1>3. SetAgent(g) /\ Cost(acc)
      /\ loaded' = [loaded EXCEPT ![k] = simId[k] # INVALID_SIM_ID
                                           /\ \E c \in acc : g.tab[k][c].listed]
    BY DEF SimAccountLoaded
<1> HIDE DEF u
<1>4. Booked(u) BY <1>2 DEF Dropped
<1>5. g = RegisterNetSupplier(u, k, acc) OBVIOUS
<1> HIDE DEF g
<1>6. /\ Booked(g) /\ \A j \in Slots \ {k} : g.tab[j] = u.tab[j] /\ g.map[j] = u.map[j]
      /\ \A j \in Slots : ~Inited(j) => g.queue[j] = u.queue[j]
    BY <1>4, <1>5, RegisterKeeps
<1>7. \A j \in Slots \ {k} : g.tab[j] = netSuppliers[j] /\ g.map[j] = slotIdSimId[j]
    BY <1>1, <1>2, <1>6 DEF Dropped
<1>8. \A j \in Slots : ~Inited(j) => g.queue[j] = queue[j] BY <1>1, <1>2, <1>6 DEF Dropped
<1>9. budget' \in [changes : Nat, faults : Nat, calls : Nat] BY <1>3, CostTyped
<1>10. loaded' \in [Slots -> BOOLEAN] /\ \A j \in Slots \ {k} : loaded'[j] = loaded[j]
    BY <1>3 DEF ServiceInv, ServiceTyped
<1>11. /\ timer' \in [Slots -> 0 .. LoadRetryTimes] /\ timer'[k] = 0
       /\ \A j \in Slots \ {k} : timer'[j] = timer[j]
    BY ServiceAssumption DEF ServiceInv, ServiceTyped
<1>12. \A j \in Slots : timer[j] = 0 => timer'[j] = 0 BY <1>11
<1>13. \A j \in Slots : timer'[j] > 0 => ~loaded'[j]
    <2> SUFFICES ASSUME NEW j \in Slots, timer'[j] > 0 PROVE ~loaded'[j] OBVIOUS
    <2>1. j # k BY <1>11
    <2> QED BY <1>10, <1>11, <2>1 DEF ServiceInv, SlotsOK
<1>14. wanted' \in [Slots -> SUBSET Caps] BY DEF ServiceInv, ServiceTyped
<1> QED BY <1>3, <1>6, <1>7, <1>8, <1>9, <1>10, <1>11, <1>12, <1>13, <1>14, AgentKeeps

LEMMA StateChangedKeeps ==
    ASSUME ServiceInv, NEW k \in Slots, HandleSimStateChanged(k)
    PROVE  ServiceInv'
<1>1. Takes(k, "SIM_STATE") /\ UNCHANGED <<timer, budget>> BY DEF HandleSimStateChanged
<1>2. UNCHANGED <<sim, simId, defaultSlot, netUp, asked, epoch, state, isInitSuccess, controller, added>>
    BY <1>1 DEF Takes, coreVars, lifeVars
<1>3. /\ Rest(k) \in [Slots -> Seq(Events)] /\ Inited(k)
      /\ \A j \in Slots \ {k} : Rest(k)[j] = queue[j]
    BY <1>1, TakesRest
<1>4. /\ Booked(Agent(Rest(k))) /\ Agent(Rest(k)).queue = Rest(k)
      /\ Agent(Rest(k)).tab = netSuppliers /\ Agent(Rest(k)).map = slotIdSimId
      /\ Agent(Rest(k)).net = suppliers /\ Agent(Rest(k)).slip = {}
    BY <1>3, BookedRest
<1>5. \A j \in Slots : ~Inited(j) => Rest(k)[j] = queue[j] BY <1>3
<1>6. /\ timer' \in [Slots -> 0 .. LoadRetryTimes] /\ \A j \in Slots : timer[j] = 0 => timer'[j] = 0
      /\ budget' \in [changes : Nat, faults : Nat, calls : Nat]
    BY <1>1 DEF ServiceInv, ServiceTyped
<1>7. CASE sim[k] = INVALID_SIM_ID
    <2> DEFINE u == UnregisterNetSupplierForSimUpdate(Agent(Rest(k)), k)
               s == (IF Has(k, "REQUEST") THEN {"late"} ELSE {})
                      \cup (IF u.map[k] # INVALID_SIM_ID THEN {"kept"} ELSE {})
               g == [u EXCEPT !.slip = s]
    <2>1. Dropped(Agent(Rest(k)), u, k) BY <1>4, Drops
    <2>2. /\ SetAgent(g) /\ loaded' = [loaded EXCEPT ![k] = FALSE]
          /\ wanted' = [wanted EXCEPT ![k] = {}]
        BY <1>7 DEF HandleSimStateChanged
    <2>3. s \subseteq Slips BY DEF Slips
    <2> HIDE DEF u, s
    <2>4. Booked(u) /\ u \in Agents BY <2>1 DEF Dropped, Booked
    <2>5. g \in Agents /\ g.tab = u.tab /\ g.map = u.map /\ g.queue = u.queue
        BY <2>3, <2>4 DEF Agents
    <2> HIDE DEF g
    <2>6. Booked(g) BY <2>4, <2>5 DEF Booked, Ent
    <2>7. \A j \in Slots \ {k} : g.tab[j] = netSuppliers[j] /\ g.map[j] = slotIdSimId[j]
        BY <1>4, <2>1, <2>5 DEF Dropped
    <2>8. \A j \in Slots : ~Inited(j) => g.queue[j] = queue[j] BY <1>4, <1>5, <2>1, <2>5 DEF Dropped
    <2>9. /\ wanted' \in [Slots -> SUBSET Caps] /\ \A j \in Slots : wanted[j] = {} => wanted'[j] = {}
        BY <2>2 DEF ServiceInv, ServiceTyped
    <2>10. loaded' \in [Slots -> BOOLEAN] /\ \A j \in Slots : timer'[j] > 0 => ~loaded'[j]
        BY <1>1, <2>2 DEF ServiceInv, ServiceTyped, SlotsOK
    <2> QED BY <1>2, <1>3, <1>6, <2>2, <2>6, <2>7, <2>8, <2>9, <2>10, AgentKeeps
<1>8. CASE sim[k] # INVALID_SIM_ID
    <2> DEFINE g == Agent(Rest(k))
    <2>1. UNCHANGED <<netSuppliers, slotIdSimId, suppliers, slips, loaded, wanted>> /\ queue' = Rest(k)
        BY <1>8 DEF HandleSimStateChanged, agentVars
    <2>2. SetAgent(g) BY <1>4, <2>1 DEF SetAgent
    <2>3. Booked(g) /\ g.tab = netSuppliers /\ g.map = slotIdSimId /\ g.queue = Rest(k) BY <1>4
    <2> HIDE DEF g
    <2>4. /\ wanted' \in [Slots -> SUBSET Caps] /\ \A j \in Slots : wanted[j] = {} => wanted'[j] = {}
          /\ loaded' \in [Slots -> BOOLEAN] /\ \A j \in Slots : timer'[j] > 0 => ~loaded'[j]
        BY <1>1, <2>1 DEF ServiceInv, ServiceTyped, SlotsOK
    <2> QED BY <1>2, <1>3, <1>5, <1>6, <2>2, <2>3, <2>4, AgentKeeps
<1> QED BY <1>7, <1>8

LEMMA AccountLoadedKeeps ==
    ASSUME ServiceInv, NEW k \in Slots, NEW acc \in Accepted, HandleSimAccountLoaded(k, acc)
    PROVE  ServiceInv'
<1>1. Takes(k, "ACCOUNT_LOADED") /\ SimAccountLoaded(k, acc, Rest(k))
      /\ timer' = [timer EXCEPT ![k] = 0] /\ UNCHANGED wanted
    BY DEF HandleSimAccountLoaded
<1>2. UNCHANGED <<sim, simId, defaultSlot, netUp, asked, epoch, state, isInitSuccess, controller, added>>
    BY <1>1 DEF Takes, coreVars, lifeVars
<1>3. /\ Rest(k) \in [Slots -> Seq(Events)] /\ Inited(k)
      /\ \A j \in Slots \ {k} : Rest(k)[j] = queue[j]
    BY <1>1, TakesRest
<1>4. \A j \in Slots : ~Inited(j) => Rest(k)[j] = queue[j] BY <1>3
<1> QED BY <1>1, <1>2, <1>3, <1>4, AccountKeeps

LEMMA RetryKeeps ==
    ASSUME ServiceInv, NEW k \in Slots, NEW acc \in Accepted, HandleRetryLoadSimAccount(k, acc)
    PROVE  ServiceInv'
<1>1. /\ timer[k] > 0 /\ timer' = [timer EXCEPT ![k] = IF simId[k] = INVALID_SIM_ID THEN @ - 1 ELSE 0]
      /\ UNCHANGED <<sim, simId, defaultSlot, netUp, asked, epoch, state, isInitSuccess, controller, added,
                     wanted>>
    BY DEF HandleRetryLoadSimAccount, coreVars, lifeVars
<1>2. timer[k] \in 0 .. LoadRetryTimes /\ timer \in [Slots -> 0 .. LoadRetryTimes]
      /\ LoadRetryTimes \in Nat
    BY ServiceAssumption DEF ServiceInv, ServiceTyped
<1>3. timer[k] # 0 BY <1>1, <1>2
<1>4. Inited(k) BY <1>3 DEF ServiceInv, SlotsOK, ServiceTyped, Inited
<1>5. queue \in [Slots -> Seq(Events)] BY TableTypes
<1>6. CASE simId[k] # INVALID_SIM_ID /\ ~loaded[k] /\ ~Has(k, "ACCOUNT_LOADED")
    <2>1. SimAccountLoaded(k, acc, queue) /\ timer' = [timer EXCEPT ![k] = 0]
        BY <1>1, <1>6 DEF HandleRetryLoadSimAccount
    <2> QED BY <1>1, <1>4, <1>5, <2>1, AccountKeeps
<1>7. CASE ~(simId[k] # INVALID_SIM_ID /\ ~loaded[k] /\ ~Has(k, "ACCOUNT_LOADED"))
    <2> DEFINE g == Agent(queue)
    <2>1. UNCHANGED <<netSuppliers, slotIdSimId, suppliers, queue, slips, budget, loaded>>
        BY <1>7 DEF HandleRetryLoadSimAccount, agentVars
    <2>2. /\ Booked(g) /\ g.tab = netSuppliers /\ g.map = slotIdSimId /\ g.queue = queue
          /\ g.net = suppliers /\ g.slip = {}
        BY <1>5, BookedRest
    <2> HIDE DEF g
    <2>3. SetAgent(g) BY <2>1, <2>2 DEF SetAgent
    <2>4. timer' \in [Slots -> 0 .. LoadRetryTimes] BY <1>1, <1>2
    <2>5. \A j \in Slots : timer[j] = 0 => timer'[j] = 0 BY <1>1, <1>2, <1>3
    <2>6. \A j \in Slots : timer'[j] > 0 => timer[j] > 0 BY <1>1, <1>2
    <2>7. loaded' \in [Slots -> BOOLEAN] /\ \A j \in Slots : timer'[j] > 0 => ~loaded'[j]
        BY <2>1, <2>6 DEF ServiceInv, ServiceTyped, SlotsOK
    <2>8. wanted' \in [Slots -> SUBSET Caps] /\ budget' \in [changes : Nat, faults : Nat, calls : Nat]
        BY <1>1, <2>1 DEF ServiceInv, ServiceTyped
    <2> QED BY <1>1, <1>4, <2>2, <2>3, <2>4, <2>5, <2>7, <2>8, AgentKeeps
<1> QED BY <1>6, <1>7

LEMMA AbilityKeeps ==
    ASSUME ServiceInv, NEW k \in Slots, NEW acc \in Accepted, OnAddSystemAbility(k, acc)
    PROVE  ServiceInv'
<1> DEFINE g == RegisterNetSupplier(Agent(queue), k, acc)
<1>1. /\ k \in added /\ added' = added \ {k} /\ SetAgent(g) /\ Cost(acc)
      /\ UNCHANGED <<sim, simId, defaultSlot, netUp, asked, epoch, state, isInitSuccess, controller,
                     timer, loaded, wanted>>
    BY DEF OnAddSystemAbility, coreVars, lifeVars
<1>2. Inited(k) BY <1>1 DEF ServiceInv, SlotsOK, ServiceTyped, Inited
<1>3. queue \in [Slots -> Seq(Events)] BY TableTypes
<1>4. /\ Booked(Agent(queue)) /\ Agent(queue).tab = netSuppliers /\ Agent(queue).map = slotIdSimId
      /\ Agent(queue).queue = queue
    BY <1>3, BookedRest
<1>5. /\ Booked(g)
      /\ \A j \in Slots \ {k} : g.tab[j] = Agent(queue).tab[j] /\ g.map[j] = Agent(queue).map[j]
      /\ \A j \in Slots : ~Inited(j) => g.queue[j] = Agent(queue).queue[j]
    BY <1>4, RegisterKeeps
<1> HIDE DEF g
<1>6. /\ \A j \in Slots \ {k} : g.tab[j] = netSuppliers[j] /\ g.map[j] = slotIdSimId[j]
      /\ \A j \in Slots : ~Inited(j) => g.queue[j] = queue[j]
    BY <1>4, <1>5
<1>7. budget' \in [changes : Nat, faults : Nat, calls : Nat] BY <1>1, CostTyped
<1>8. /\ wanted' \in [Slots -> SUBSET Caps] /\ timer' \in [Slots -> 0 .. LoadRetryTimes]
      /\ loaded' \in [Slots -> BOOLEAN] /\ \A j \in Slots : timer'[j] > 0 => ~loaded'[j]
    BY <1>1 DEF ServiceInv, ServiceTyped, SlotsOK
<1> QED BY <1>1, <1>2, <1>5, <1>6, <1>7, <1>8, AgentKeeps

LEMMA MsgRequestKeeps ==
    ASSUME ServiceInv, NEW k \in Slots, MsgRequestNetwork(k)
    PROVE  ServiceInv'
<1>1. PICK t \in {"REQUEST", "RELEASE"} :
        /\ Takes(k, t)
        /\ wanted' = [wanted EXCEPT ![k] = IF t = "REQUEST" THEN @ \cup {Head(queue[k]).cap}
                                           ELSE @ \ {Head(queue[k]).cap}]
    BY DEF MsgRequestNetwork
<1>2. UNCHANGED <<sim, simId, defaultSlot, netUp, asked, epoch, state, isInitSuccess, controller, added>>
    BY <1>1 DEF Takes, coreVars, lifeVars
<1>3. UNCHANGED <<suppliers, netSuppliers, slotIdSimId, timer, loaded, budget, slips>>
      /\ queue' = Rest(k)
    BY DEF MsgRequestNetwork, agentVars
<1>4. /\ Rest(k) \in [Slots -> Seq(Events)] /\ Inited(k)
      /\ \A j \in Slots \ {k} : Rest(k)[j] = queue[j]
    BY <1>1, TakesRest
<1>5. queue[k] \in Seq(Events) /\ queue[k] # <<>> /\ Head(queue[k]).type = t
    BY <1>1, TableTypes DEF Takes
<1>6. Head(queue[k]) \in Events BY <1>5, TailKeeps
<1>7. Head(queue[k]).cap \in Caps BY <1>1, <1>5, <1>6 DEF Events
<1>8. wanted \in [Slots -> SUBSET Caps] BY DEF ServiceInv, ServiceTyped
<1>9. wanted' \in [Slots -> SUBSET Caps] BY <1>1, <1>7, <1>8
<1>10. \A j \in Slots : j # k => wanted'[j] = wanted[j] BY <1>1, <1>8
<1> DEFINE g == Agent(Rest(k))
<1>11. /\ Booked(g) /\ g.tab = netSuppliers /\ g.map = slotIdSimId /\ g.queue = Rest(k)
       /\ g.net = suppliers /\ g.slip = {}
    BY <1>4, BookedRest
<1> HIDE DEF g
<1>12. SetAgent(g) BY <1>3, <1>11 DEF SetAgent
<1>13. Booked(Agent(queue))' /\ slips' \subseteq Slips BY <1>2, <1>11, <1>12, BookedNext
<1>14. ServiceTyped' BY <1>2, <1>3, <1>9, <1>13 DEF ServiceInv, ServiceTyped
<1>15. CardsOK' BY <1>2 DEF ServiceInv, CardsOK
<1>16. ASSUME NEW j \in Slots, controller'[j] \in {"none", "waiting"}
       PROVE  /\ \A c \in Caps : netSuppliers'[j][c].simId = INVALID_SIM_ID
              /\ queue'[j] = <<>> /\ timer'[j] = 0 /\ j \notin added' /\ wanted'[j] = {}
              /\ controller'[j] = "none" => slotIdSimId'[j] = INVALID_SIM_ID
    <2>1. j # k BY <1>2, <1>4, <1>16 DEF Inited
    <2>2. queue'[j] = queue[j] /\ wanted'[j] = wanted[j] BY <1>3, <1>4, <1>10, <2>1
    <2> QED BY <1>2, <1>3, <1>16, <2>2 DEF ServiceInv, SlotsOK
<1>17. SlotsOK' BY <1>2, <1>3, <1>16 DEF SlotsOK, ServiceInv
<1> QED BY <1>14, <1>15, <1>17 DEF ServiceInv

(* A step that leaves the life of the service and its agent alone. *)
LEMMA OutsideKeeps ==
    ASSUME ServiceInv,
           UNCHANGED <<netSuppliers, slotIdSimId, epoch, state, isInitSuccess, controller, loaded, wanted>>,
           queue' \in [Slots -> Seq(Events)], \A j \in Slots : ~Inited(j) => queue'[j] = queue[j],
           suppliers' \subseteq Sims \X Caps, asked' \subseteq Sims \X Caps, netUp' \in BOOLEAN,
           sim' \in [Slots -> SimIds], simId' \in [Slots -> SimIds], defaultSlot' \in Slots, CardsOK',
           timer' \in [Slots -> 0 .. LoadRetryTimes],
           \A j \in Slots : timer'[j] = timer[j] \/ (Inited(j) /\ ~loaded[j]),
           added' \subseteq {k \in Slots : Inited(k)}, added' # {} => netUp',
           budget' \in [changes : Nat, faults : Nat, calls : Nat], slips' \subseteq Slips
    PROVE  ServiceInv'
<1>1. Agent(queue) \in Agents BY DEF ServiceInv, ServiceTyped, Booked
<1>2. Agent(queue)'.tab = Agent(queue).tab /\ Agent(queue)' \in Agents BY <1>1 DEF Agent, Agents
<1>3. Serving' = Serving BY DEF Serving
<1>4. \A k, c : Ent(Agent(queue)', k, c) = Ent(Agent(queue), k, c) BY <1>2 DEF Ent
<1>5. \A k \in Slots, c \in Caps :
         /\ Agent(queue).tab[k][c].listed = Serving
         /\ Ent(Agent(queue), k, c) # INVALID_SIM_ID =>
               Serving /\ Agent(queue).tab[k][c].supplierId = Ent(Agent(queue), k, c)
    BY DEF Booked, ServiceInv, ServiceTyped
<1>6. Booked(Agent(queue))' BY <1>2, <1>3, <1>4, <1>5 DEF Booked, Ent
<1>7. ServiceTyped' BY <1>6 DEF ServiceInv, ServiceTyped
<1>8. ASSUME NEW j \in Slots, controller'[j] \in {"none", "waiting"}
      PROVE  /\ \A c \in Caps : netSuppliers'[j][c].simId = INVALID_SIM_ID
             /\ queue'[j] = <<>> /\ timer'[j] = 0 /\ j \notin added' /\ wanted'[j] = {}
             /\ controller'[j] = "none" => slotIdSimId'[j] = INVALID_SIM_ID
    <2>1. ~Inited(j) BY <1>8 DEF Inited
    <2>2. queue'[j] = queue[j] /\ timer'[j] = timer[j] /\ j \notin added' BY <2>1
    <2> QED BY <1>8, <2>2 DEF ServiceInv, SlotsOK
<1>9. \A j \in Slots : timer'[j] > 0 => ~loaded'[j] BY DEF ServiceInv, SlotsOK
<1>10. SlotsOK' BY <1>8, <1>9 DEF ServiceInv, SlotsOK
<1> QED BY <1>7, <1>10 DEF ServiceInv

\* What OutsideKeeps takes of the old state.
LEMMA ServiceTypes ==
    ASSUME ServiceInv
    PROVE  /\ queue \in [Slots -> Seq(Events)] /\ suppliers \subseteq Sims \X Caps
           /\ netSuppliers \in [Slots -> [Caps -> Entries]] /\ slotIdSimId \in [Slots -> SimIds]
           /\ asked \subseteq Sims \X Caps /\ netUp \in BOOLEAN
           /\ sim \in [Slots -> SimIds] /\ simId \in [Slots -> SimIds] /\ defaultSlot \in Slots
           /\ CardsOK /\ timer \in [Slots -> 0 .. LoadRetryTimes]
           /\ wanted \in [Slots -> SUBSET Caps] /\ loaded \in [Slots -> BOOLEAN]
           /\ added \subseteq {k \in Slots : Inited(k)} /\ (added # {} => netUp)
           /\ budget \in [changes : Nat, faults : Nat, calls : Nat] /\ slips \subseteq Slips
           /\ controller \in [Slots -> {"none", "waiting", "inited", "ready"}]
<1>1. added \subseteq {k \in Slots : Inited(k)} BY DEF ServiceInv, ServiceTyped, SlotsOK, Inited
<1> QED BY <1>1, TableTypes DEF ServiceInv, ServiceTyped, SlotsOK

(* A request or a release. *)
LEMMA RoutedKeeps ==
    ASSUME ServiceInv, NEW p \in Sims \X Caps, NEW type \in EventTypes,
           NEW r, r = Routed(queue, slotIdSimId, p[1], type, <<p[2]>>)
    PROVE  /\ Delivered(queue, r, slotIdSimId, p[1], <<Event(type, p[2])>>)
           /\ <<Event(type, p[2])>> \in Seq(Events)
<1> DEFINE s == p[1]
           d == p[2]
           caps == <<d>>
<1>1. s \in Sims /\ d \in Caps OBVIOUS
<1>2. r = Routed(queue, slotIdSimId, s, type, caps) OBVIOUS
<1> HIDE DEF s, d
<1>3. caps \in Seq(Caps) /\ DOMAIN caps = {1} /\ caps[1] = d BY <1>1
<1>4. Said(type, caps) = <<Event(type, d)>>
    <2>1. FindBestCapability({d}) = d BY <1>1, BestOfOne
    <2>2. Said(type, caps) = [i \in 1 .. 1 |-> Event(type, FindBestCapability({caps[i]}))] BY DEF Said
    <2>3. Said(type, caps) = [i \in 1 .. 1 |-> Event(type, d)] BY <2>1, <2>2
    <2> QED BY <2>3
<1> HIDE DEF caps
<1>5. Said(type, caps) \in Seq(Events) BY <1>3, SaidIs
<1>6. Delivered(queue, r, slotIdSimId, s, Said(type, caps)) BY <1>1, <1>2, <1>3, ServiceTypes, RoutedIs
<1> QED BY <1>4, <1>5, <1>6 DEF s, d

LEMMA RequestNetworkKeeps ==
    ASSUME ServiceInv, NEW p \in Sims \X Caps, RequestNetwork(p)
    PROVE  ServiceInv'
<1>1. /\ UNCHANGED <<netSuppliers, slotIdSimId, epoch, state, isInitSuccess, controller, loaded, wanted,
                     suppliers, netUp, sim, simId, defaultSlot, timer, added>>
      /\ Spend("changes") /\ asked' = asked \cup {p}
    BY DEF RequestNetwork, agentVars, lifeVars, coreVars
<1>2. budget' \in [changes : Nat, faults : Nat, calls : Nat] BY <1>1, SpendTyped
<1>3. slips' \subseteq Slips
    <2>1. Early(slotIdSimId, p[1]) \subseteq Slips BY DEF Early, Slips
    <2>2. slips' = slips \/ slips' = slips \cup Early(slotIdSimId, p[1]) BY DEF RequestNetwork
    <2> QED BY <2>1, <2>2, ServiceTypes
<1>4. queue' \in [Slots -> Seq(Events)] /\ \A j \in Slots : ~Inited(j) => queue'[j] = queue[j]
    <2>1. CASE p \in suppliers
        <3> DEFINE type == "REQUEST"
        <3>1. queue' = Routed(queue, slotIdSimId, p[1], type, <<p[2]>>)
            BY <2>1 DEF RequestNetwork, RequestNet
        <3>2. type \in EventTypes BY DEF EventTypes
        <3> HIDE DEF type
        <3>3. Delivered(queue, queue', slotIdSimId, p[1], <<Event(type, p[2])>>)
            BY <3>1, <3>2, RoutedKeeps
        <3> QED BY <3>3 DEF Delivered, Hears, Inited
    <2>2. CASE p \notin suppliers BY <2>2, ServiceTypes DEF RequestNetwork
    <2> QED BY <2>1, <2>2
<1>5. CardsOK' BY <1>1, ServiceTypes DEF CardsOK
<1> QED BY <1>1, <1>2, <1>3, <1>4, <1>5, ServiceTypes, OutsideKeeps

LEMMA ReleaseNetworkKeeps ==
    ASSUME ServiceInv, NEW p \in asked, ReleaseNetwork(p)
    PROVE  ServiceInv'
<1>1. /\ UNCHANGED <<netSuppliers, slotIdSimId, epoch, state, isInitSuccess, controller, loaded, wanted,
                     suppliers, netUp, sim, simId, defaultSlot, timer, added, budget, slips>>
      /\ asked' = asked \ {p} /\ p \in Sims \X Caps
    BY ServiceTypes DEF ReleaseNetwork, agentVars, lifeVars, coreVars
<1>2. queue' \in [Slots -> Seq(Events)] /\ \A j \in Slots : ~Inited(j) => queue'[j] = queue[j]
    <2>1. CASE p \in suppliers
        <3> DEFINE type == "RELEASE"
        <3>1. queue' = Routed(queue, slotIdSimId, p[1], type, <<p[2]>>)
            BY <2>1 DEF ReleaseNetwork, ReleaseNet
        <3>2. type \in EventTypes BY DEF EventTypes
        <3> HIDE DEF type
        <3>3. Delivered(queue, queue', slotIdSimId, p[1], <<Event(type, p[2])>>)
            BY <1>1, <3>1, <3>2, RoutedKeeps
        <3> QED BY <3>3 DEF Delivered, Hears, Inited
    <2>2. CASE p \notin suppliers BY <2>2, ServiceTypes DEF ReleaseNetwork
    <2> QED BY <2>1, <2>2
<1>3. CardsOK' BY <1>1, ServiceTypes DEF CardsOK
<1> QED BY <1>1, <1>2, <1>3, ServiceTypes, OutsideKeeps

LEMMA NetManagerKeeps ==
    ASSUME ServiceInv, NetManagerDies \/ NetManagerStarts
    PROVE  ServiceInv'
<1>1. UNCHANGED <<netSuppliers, slotIdSimId, epoch, state, isInitSuccess, controller, loaded, wanted,
                  queue, sim, simId, defaultSlot, timer>>
    BY DEF NetManagerDies, NetManagerStarts, agentVars, lifeVars, coreVars
<1>2. CardsOK' BY <1>1, ServiceTypes DEF CardsOK
<1>3. CASE NetManagerDies
    <2>1. /\ netUp' = FALSE /\ suppliers' = {} /\ asked' = {} /\ added' = {} /\ Spend("faults")
          /\ slips' \subseteq slips \cup {"forgotten"}
        BY <1>3 DEF NetManagerDies
    <2>2. slips' \subseteq Slips BY <2>1, ServiceTypes DEF Slips
    <2>3. budget' \in [changes : Nat, faults : Nat, calls : Nat] BY <2>1, SpendTyped
    <2> QED BY <1>1, <1>2, <2>1, <2>2, <2>3, ServiceTypes, OutsideKeeps
<1>4. CASE NetManagerStarts
    <2>1. /\ netUp' = TRUE /\ added' = {k \in Slots : Inited(k)}
          /\ UNCHANGED <<suppliers, asked, budget, slips>>
        BY <1>4 DEF NetManagerStarts, Inited
    <2> QED BY <1>1, <1>2, <2>1, ServiceTypes, OutsideKeeps
<1> QED BY <1>3, <1>4

(* An event of the core service. *)
LEMMA SendsKeeps ==
    ASSUME ServiceInv, NEW k \in Slots, NEW type \in {"SIM_STATE", "ACCOUNT_LOADED"}, Sends(k, type)
    PROVE  /\ queue' \in [Slots -> Seq(Events)] /\ \A j \in Slots : ~Inited(j) => queue'[j] = queue[j]
           /\ \A j \in Slots \ {k} : queue'[j] = queue[j]
           /\ \A t : (Has(k, t))' <=> Has(k, t) \/ (controller[k] = "ready" /\ t = type)
           /\ queue'[k] = IF controller[k] = "ready" THEN Append(queue[k], Event(type, "none"))
                          ELSE queue[k]
<1> DEFINE e == Event(type, "none")
<1>1. queue \in [Slots -> Seq(Events)] BY ServiceTypes
<1>2. e \in Events /\ e.type = type BY DEF Event, Events, EventTypes
<1>3. queue' = IF controller[k] = "ready" THEN [queue EXCEPT ![k] = Append(queue[k], e)] ELSE queue
    BY DEF Sends
<1> HIDE DEF e
<1>4. \A t : Has(k, t) <=> In(queue[k], t) BY DEF Has, In
<1>5. \A t : (Has(k, t))' <=> In(queue'[k], t) BY DEF Has, In
<1>6. CASE controller[k] = "ready"
    <2>1. queue[k] \in Seq(Events) /\ <<e>> \in Seq(Events) BY <1>1, <1>2
    <2>2. Append(queue[k], e) = queue[k] \o <<e>> BY <2>1
    <2>3. /\ queue[k] \o <<e>> \in Seq(Events)
          /\ \A t : In(queue[k] \o <<e>>, t) <=> In(queue[k], t) \/ In(<<e>>, t)
        BY <2>1, AppendKeeps
    <2>4. \A t : In(<<e>>, t) <=> t = type BY <1>2 DEF In
    <2>5. queue' \in [Slots -> Seq(Events)] /\ queue'[k] = queue[k] \o <<e>>
          /\ \A j \in Slots \ {k} : queue'[j] = queue[j]
        BY <1>1, <1>3, <1>6, <2>2, <2>3
    <2>6. Inited(k) BY <1>6 DEF Inited
    <2>7. \A t : (Has(k, t))' <=> Has(k, t) \/ (controller[k] = "ready" /\ t = type)
        BY <1>4, <1>5, <1>6, <2>3, <2>4, <2>5
    <2> QED BY <1>6, <2>2, <2>5, <2>6, <2>7 DEF e
<1>7. CASE controller[k] # "ready"
    <2>1. queue' = queue BY <1>3, <1>7
    <2>2. \A t : (Has(k, t))' <=> Has(k, t) BY <2>1 DEF Has
    <2> QED BY <1>1, <1>7, <2>1, <2>2
<1> QED BY <1>6, <1>7

LEMMA SimRemovedKeeps ==
    ASSUME ServiceInv, NEW k \in Slots, SimRemoved(k)
    PROVE  ServiceInv'
<1>1. /\ UNCHANGED <<netSuppliers, slotIdSimId, epoch, state, isInitSuccess, controller, loaded, wanted,
                     suppliers, asked, netUp, defaultSlot, timer, added>>
      /\ Spend("changes") /\ Sends(k, "SIM_STATE")
      /\ sim' = [sim EXCEPT ![k] = INVALID_SIM_ID] /\ simId' = [simId EXCEPT ![k] = INVALID_SIM_ID]
      /\ slips' \subseteq slips \cup {"missed", "kept"}
    BY DEF SimRemoved, agentVars, lifeVars, netVars
<1>2. budget' \in [changes : Nat, faults : Nat, calls : Nat] BY <1>1, SpendTyped
<1>3. queue' \in [Slots -> Seq(Events)] /\ \A j \in Slots : ~Inited(j) => queue'[j] = queue[j]
    BY <1>1, SendsKeeps
<1>4. slips' \subseteq Slips BY <1>1, ServiceTypes DEF Slips
<1>5. /\ sim \in [Slots -> SimIds] /\ simId \in [Slots -> SimIds] /\ CardsOK BY ServiceTypes
<1>6. /\ sim' \in [Slots -> SimIds] /\ simId' \in [Slots -> SimIds] BY <1>1, <1>5 DEF SimIds
<1>7. CardsOK' BY <1>1, <1>5 DEF CardsOK
<1> QED BY <1>1, <1>2, <1>3, <1>4, <1>6, <1>7, ServiceTypes, OutsideKeeps

LEMMA SimInsertedKeeps ==
    ASSUME ServiceInv, NEW k \in Slots, NEW s \in Sims, SimInserted(k, s)
    PROVE  ServiceInv'
<1>1. /\ UNCHANGED <<netSuppliers, slotIdSimId, epoch, state, isInitSuccess, controller, loaded, wanted,
                     suppliers, asked, netUp, simId, defaultSlot, timer, added>>
      /\ Spend("changes") /\ Sends(k, "SIM_STATE")
      /\ sim[k] = INVALID_SIM_ID /\ (\A j \in Slots : sim[j] # s) /\ sim' = [sim EXCEPT ![k] = s]
      /\ slips' \subseteq slips \cup {"swapped"}
    BY DEF SimInserted, agentVars, lifeVars, netVars
<1>2. budget' \in [changes : Nat, faults : Nat, calls : Nat] BY <1>1, SpendTyped
<1>3. queue' \in [Slots -> Seq(Events)] /\ \A j \in Slots : ~Inited(j) => queue'[j] = queue[j]
    BY <1>1, SendsKeeps
<1>4. slips' \subseteq Slips BY <1>1, ServiceTypes DEF Slips
<1>5. /\ sim \in [Slots -> SimIds] /\ simId \in [Slots -> SimIds] /\ CardsOK BY ServiceTypes
<1>6. sim' \in [Slots -> SimIds] BY <1>1, <1>5 DEF SimIds
<1>7. CardsOK' BY <1>1, <1>5 DEF CardsOK
<1> QED BY <1>1, <1>2, <1>3, <1>4, <1>6, <1>7, ServiceTypes, OutsideKeeps

LEMMA SimIdLoadedKeeps ==
    ASSUME ServiceInv, NEW k \in Slots, NEW told \in BOOLEAN, SimIdLoaded(k, told)
    PROVE  ServiceInv'
<1>1. /\ UNCHANGED <<netSuppliers, slotIdSimId, epoch, state, isInitSuccess, controller, loaded, wanted,
                     suppliers, asked, netUp, sim, defaultSlot, timer, added>>
      /\ simId' = [simId EXCEPT ![k] = sim[k]]
      /\ slips' \subseteq slips \cup {"missed"}
      /\ (told /\ Sends(k, "ACCOUNT_LOADED") /\ UNCHANGED budget) \/ (Spend("faults") /\ UNCHANGED queue)
    BY DEF SimIdLoaded, agentVars, lifeVars, netVars
<1>2. budget' \in [changes : Nat, faults : Nat, calls : Nat] BY <1>1, SpendTyped, ServiceTypes
<1>3. queue' \in [Slots -> Seq(Events)] /\ \A j \in Slots : ~Inited(j) => queue'[j] = queue[j]
    BY <1>1, SendsKeeps, ServiceTypes
<1>4. slips' \subseteq Slips BY <1>1, ServiceTypes DEF Slips
<1>5. /\ sim \in [Slots -> SimIds] /\ simId \in [Slots -> SimIds] /\ CardsOK BY ServiceTypes
<1>6. simId' \in [Slots -> SimIds] BY <1>1, <1>5 DEF SimIds
<1>7. CardsOK' BY <1>1, <1>5 DEF CardsOK
<1> QED BY <1>1, <1>2, <1>3, <1>4, <1>6, <1>7, ServiceTypes, OutsideKeeps

LEMMA DataShareKeeps ==
    ASSUME ServiceInv, NEW k \in Slots, OnDataShareReady(k)
    PROVE  ServiceInv'
<1>1. /\ UNCHANGED <<netSuppliers, slotIdSimId, epoch, state, isInitSuccess, controller, loaded, wanted,
                     queue, suppliers, asked, netUp, sim, simId, defaultSlot, added, slips>>
      /\ Spend("changes") /\ controller[k] = "ready" /\ ~loaded[k]
      /\ timer' = [timer EXCEPT ![k] = LoadRetryTimes]
    BY DEF OnDataShareReady, agentVars, lifeVars, netVars, coreVars
<1>2. budget' \in [changes : Nat, faults : Nat, calls : Nat] BY <1>1, SpendTyped
<1>3. timer \in [Slots -> 0 .. LoadRetryTimes] /\ LoadRetryTimes \in 0 .. LoadRetryTimes
    BY ServiceTypes, ServiceAssumption
<1>4. timer' \in [Slots -> 0 .. LoadRetryTimes] BY <1>1, <1>3
<1>5. \A j \in Slots : timer'[j] = timer[j] \/ (Inited(j) /\ ~loaded[j]) BY <1>1, <1>3 DEF Inited
<1>6. CardsOK' BY <1>1, ServiceTypes DEF CardsOK
<1> QED BY <1>1, <1>2, <1>4, <1>5, <1>6, ServiceTypes, OutsideKeeps

(* What the calls of the application do to the service. *)
LEMMA BystanderKeeps ==
    ASSUME ServiceInv,
           UNCHANGED <<netVars, lifeVars, agentVars, slotVars, sim, simId>>,
           defaultSlot' \in Slots, budget' \in [changes : Nat, faults : Nat, calls : Nat],
           slips' \subseteq Slips
    PROVE  ServiceInv'
<1>1. UNCHANGED <<netSuppliers, slotIdSimId, epoch, state, isInitSuccess, controller, loaded, wanted,
                  queue, suppliers, asked, netUp, sim, simId, timer, added>>
    BY DEF agentVars, lifeVars, netVars, slotVars
<1>2. CardsOK' BY <1>1, ServiceTypes DEF CardsOK
<1> QED BY <1>1, <1>2, ServiceTypes, OutsideKeeps

(* Tables that hold no card. *)
LEMMA BookedEmpty ==
    ASSUME NEW l \in BOOLEAN,
           netSuppliers' = [k \in Slots |-> [c \in Caps |-> [NoSupplier EXCEPT !.listed = l]]],
           l = Serving', slotIdSimId' \in [Slots -> SimIds], suppliers' \subseteq Sims \X Caps,
           queue' \in [Slots -> Seq(Events)]
    PROVE  /\ Booked(Agent(queue))'
           /\ \A k \in Slots, c \in Caps : netSuppliers'[k][c].simId = INVALID_SIM_ID
<1> DEFINE e == [NoSupplier EXCEPT !.listed = l]
           g == Agent(queue)'
<1>1. e \in Entries /\ e.simId = INVALID_SIM_ID /\ e.listed = l BY DEF NoSupplier, Entries, SimIds
<1>2. netSuppliers' = [k \in Slots |-> [c \in Caps |-> e]] OBVIOUS
<1> HIDE DEF e
<1>3. netSuppliers' \in [Slots -> [Caps -> Entries]] BY <1>1, <1>2
<1>4. g.tab = netSuppliers' /\ g \in Agents BY <1>3 DEF Agent, Agents
<1>5. \A k \in Slots, c \in Caps : netSuppliers'[k][c] = e BY <1>2
<1> HIDE DEF g
<1>6. \A k \in Slots, c \in Caps : g.tab[k][c].listed = Serving' /\ Ent(g, k, c) = INVALID_SIM_ID
    <2> TAKE k \in Slots, c \in Caps
    <2>1. g.tab[k][c] = e BY <1>4, <1>5
    <2>2. g.tab[k][c].listed = Serving' BY <1>1, <2>1
    <2>3. Ent(g, k, c) = INVALID_SIM_ID BY <1>1, <2>1 DEF Ent
    <2> QED BY <2>2, <2>3
<1>7. Booked(Agent(queue))' BY <1>4, <1>6 DEF Booked, g
<1>8. ASSUME NEW k \in Slots, NEW c \in Caps PROVE netSuppliers'[k][c].simId = INVALID_SIM_ID
    <2>1. netSuppliers'[k][c] = e BY <1>5
    <2> QED BY <1>1, <2>1
<1> QED BY <1>7, <1>8

LEMMA NoSupplierUnlisted == NoSupplier = [NoSupplier EXCEPT !.listed = FALSE]
<1> DEFINE f == FALSE
           s == INVALID_SIM_ID
           e == [simId |-> s, supplierId |-> s, listed |-> f]
<1>1. NoSupplier = e BY DEF NoSupplier
<1> HIDE DEF f, s
<1>2. e = [e EXCEPT !.listed = f] OBVIOUS
<1> HIDE DEF e
<1> QED BY <1>1, <1>2 DEF f

LEMMA EmptyQueues ==
    ASSUME queue' = [k \in Slots |-> <<>>]
    PROVE  queue' \in [Slots -> Seq(Events)] /\ \A k \in Slots : queue'[k] = <<>>
<1>1. <<>> \in Seq(Events) OBVIOUS
<1> QED BY <1>1

LEMMA OnStartKeeps ==
    ASSUME ServiceInv, OnStart
    PROVE  ServiceInv'
<1>1. /\ state' = "published" /\ controller' = [k \in Slots |-> "waiting"]
      /\ netSuppliers' = [k \in Slots |-> AddNetSupplier] /\ slotIdSimId' = slotIdSimId
      /\ queue' = [k \in Slots |-> <<>>] /\ timer' = [k \in Slots |-> 0]
      /\ loaded' = [k \in Slots |-> FALSE] /\ added' = {} /\ wanted' = [k \in Slots |-> {}]
      /\ slips' \subseteq slips \cup {"kept"}
      /\ UNCHANGED <<sim, simId, defaultSlot, netUp, suppliers, asked, epoch, isInitSuccess, budget>>
    BY DEF OnStart, InitModule, coreVars, netVars
<1>2. Serving' = TRUE BY <1>1 DEF Serving
<1>3. queue' \in [Slots -> Seq(Events)] /\ \A k \in Slots : queue'[k] = <<>> BY <1>1, EmptyQueues
<1> DEFINE l == TRUE
<1>4. netSuppliers' = [k \in Slots |-> [c \in Caps |-> [NoSupplier EXCEPT !.listed = l]]] /\ l \in BOOLEAN
      /\ l = Serving'
    BY <1>1, <1>2 DEF AddNetSupplier
<1> HIDE DEF l
<1>5. /\ slotIdSimId' \in [Slots -> SimIds] /\ suppliers' \subseteq Sims \X Caps BY <1>1, ServiceTypes
<1>6. /\ Booked(Agent(queue))' /\ \A k \in Slots, c \in Caps : netSuppliers'[k][c].simId = INVALID_SIM_ID
    BY <1>3, <1>4, <1>5, BookedEmpty
<1>7. slips' \subseteq Slips BY <1>1, ServiceTypes DEF Slips
<1>8. /\ controller' \in [Slots -> {"none", "waiting", "inited", "ready"}]
      /\ timer' \in [Slots -> 0 .. LoadRetryTimes] /\ loaded' \in [Slots -> BOOLEAN]
      /\ wanted' \in [Slots -> SUBSET Caps] /\ added' \subseteq Slots
    BY <1>1, ServiceAssumption
<1>9. ServiceTyped' BY <1>1, <1>6, <1>7, <1>8 DEF ServiceInv, ServiceTyped
<1>10. CardsOK' BY <1>1 DEF ServiceInv, CardsOK
<1>11. SlotsOK' BY <1>1, <1>3, <1>6 DEF SlotsOK
<1> QED BY <1>9, <1>10, <1>11 DEF ServiceInv

LEMMA CrashKeeps ==
    ASSUME ServiceInv, Crash
    PROVE  ServiceInv'
<1>1. /\ state' = "dead" /\ isInitSuccess' = FALSE /\ simId' = [k \in Slots |-> INVALID_SIM_ID]
      /\ controller' = [k \in Slots |-> "none"]
      /\ netSuppliers' = [k \in Slots |-> [c \in Caps |-> NoSupplier]]
      /\ slotIdSimId' = [k \in Slots |-> INVALID_SIM_ID]
      /\ queue' = [k \in Slots |-> <<>>] /\ timer' = [k \in Slots |-> 0]
      /\ loaded' = [k \in Slots |-> FALSE] /\ added' = {} /\ wanted' = [k \in Slots |-> {}]
      /\ suppliers' = {} /\ Spend("faults")
      /\ UNCHANGED <<sim, defaultSlot, netUp, asked, epoch, slips>>
    BY DEF Crash
<1>2. Serving' = FALSE BY <1>1 DEF Serving
<1>3. queue' \in [Slots -> Seq(Events)] /\ \A k \in Slots : queue'[k] = <<>> BY <1>1, EmptyQueues
<1> DEFINE l == FALSE
<1>4. netSuppliers' = [k \in Slots |-> [c \in Caps |-> [NoSupplier EXCEPT !.listed = l]]] /\ l \in BOOLEAN
      /\ l = Serving'
    <2>1. NoSupplier = [NoSupplier EXCEPT !.listed = FALSE] BY NoSupplierUnlisted
    <2> QED BY <1>1, <1>2, <2>1
<1> HIDE DEF l
<1>5. /\ slotIdSimId' \in [Slots -> SimIds] /\ suppliers' \subseteq Sims \X Caps BY <1>1 DEF SimIds
<1>6. /\ Booked(Agent(queue))' /\ \A k \in Slots, c \in Caps : netSuppliers'[k][c].simId = INVALID_SIM_ID
    BY <1>3, <1>4, <1>5, BookedEmpty
<1>7. budget' \in [changes : Nat, faults : Nat, calls : Nat] BY <1>1, SpendTyped
<1>8. /\ controller' \in [Slots -> {"none", "waiting", "inited", "ready"}]
      /\ timer' \in [Slots -> 0 .. LoadRetryTimes] /\ loaded' \in [Slots -> BOOLEAN]
      /\ wanted' \in [Slots -> SUBSET Caps] /\ added' \subseteq Slots
      /\ simId' \in [Slots -> SimIds]
    BY <1>1, ServiceAssumption DEF SimIds
<1>9. ServiceTyped' BY <1>1, <1>6, <1>7, <1>8 DEF ServiceInv, ServiceTyped
<1>10. CardsOK' BY <1>1 DEF ServiceInv, CardsOK
<1>11. SlotsOK' BY <1>1, <1>3, <1>6 DEF SlotsOK
<1> QED BY <1>9, <1>10, <1>11 DEF ServiceInv

(* All suppliers of the entries are taken back. *)
LEMMA OnStopDrops ==
    ASSUME ServiceInv, OnStop
    PROVE  /\ netSuppliers' = [k \in Slots |-> [c \in Caps |-> NoSupplier]]
           /\ UNCHANGED <<slotIdSimId, queue, slips>> /\ suppliers' \subseteq suppliers
           /\ \A p \in suppliers' : \A k \in Slots : netSuppliers[k][p[2]].simId # p[1]
<1> DEFINE gone == {<<Agent(queue).tab[k][c].supplierId, c>> : k \in Slots, c \in Caps} \cap Agent(queue).net
           tab == [k \in Slots |-> [c \in Caps |-> NoSupplier]]
           g == Agent(queue)
           r == [g EXCEPT !.net = g.net \ gone, !.tab = tab]
<1>1. SetAgent(r) BY DEF OnStop, UnregisterAllNetSupplier
<1>2. g = [tab |-> netSuppliers, map |-> slotIdSimId, net |-> suppliers, queue |-> queue, slip |-> {}]
    BY DEF Agent
<1>3. gone = {<<netSuppliers[k][c].supplierId, c>> : k \in Slots, c \in Caps} \cap suppliers BY <1>2
<1>4. /\ Booked(g) /\ suppliers \subseteq Sims \X Caps BY ServiceTypes DEF ServiceInv, ServiceTyped
<1> HIDE DEF g, gone, tab
<1>5. /\ r.tab = tab /\ r.map = slotIdSimId /\ r.net = suppliers \ gone /\ r.queue = queue /\ r.slip = {}
    BY <1>2
<1>6. \A k \in Slots, c \in Caps : netSuppliers[k][c].simId # INVALID_SIM_ID =>
           netSuppliers[k][c].supplierId = netSuppliers[k][c].simId
    BY <1>2, <1>4 DEF Booked, Ent
<1>7. INVALID_SIM_ID \notin Sims BY Numbers, ServiceAssumption DEF INVALID_SIM_ID
<1>8. ASSUME NEW p \in suppliers \ gone, NEW k \in Slots, netSuppliers[k][p[2]].simId = p[1] PROVE FALSE
    <2>1. p[1] \in Sims /\ p[2] \in Caps /\ p = <<p[1], p[2]>> BY <1>4, <1>8
    <2>2. netSuppliers[k][p[2]].supplierId = p[1] BY <1>6, <1>7, <1>8, <2>1
    <2> QED BY <1>3, <1>8, <2>1, <2>2
<1> HIDE DEF r
<1>9. /\ netSuppliers' = tab /\ slotIdSimId' = slotIdSimId /\ suppliers' = suppliers \ gone /\ queue' = queue
      /\ slips' = slips
    BY <1>1, <1>5 DEF SetAgent
<1> QED BY <1>8, <1>9 DEF tab

LEMMA OnStopKeeps ==
    ASSUME ServiceInv, OnStop
    PROVE  ServiceInv'
<1>1. /\ state' = "stopped" /\ Spend("faults")
      /\ UNCHANGED <<sim, simId, defaultSlot, netUp, asked, epoch, isInitSuccess, controller, timer, loaded,
                     added, wanted>>
    BY DEF OnStop, coreVars
<1>2. /\ netSuppliers' = [k \in Slots |-> [c \in Caps |-> NoSupplier]]
      /\ UNCHANGED <<slotIdSimId, queue, slips>> /\ suppliers' \subseteq suppliers
    BY OnStopDrops
<1>3. Serving' = FALSE BY <1>1 DEF Serving
<1> DEFINE l == FALSE
<1>4. netSuppliers' = [k \in Slots |-> [c \in Caps |-> [NoSupplier EXCEPT !.listed = l]]] /\ l \in BOOLEAN
      /\ l = Serving'
    <2>1. NoSupplier = [NoSupplier EXCEPT !.listed = FALSE] BY NoSupplierUnlisted
    <2> QED BY <1>2, <1>3, <2>1
<1> HIDE DEF l
<1>5. /\ slotIdSimId' \in [Slots -> SimIds] /\ suppliers' \subseteq Sims \X Caps
      /\ queue' \in [Slots -> Seq(Events)]
    BY <1>2, ServiceTypes
<1>6. /\ Booked(Agent(queue))' /\ \A k \in Slots, c \in Caps : netSuppliers'[k][c].simId = INVALID_SIM_ID
    BY <1>4, <1>5, BookedEmpty
<1>7. budget' \in [changes : Nat, faults : Nat, calls : Nat] BY <1>1, SpendTyped
<1>8. ServiceTyped' BY <1>1, <1>2, <1>6, <1>7 DEF ServiceInv, ServiceTyped
<1>9. CardsOK' BY <1>1 DEF ServiceInv, CardsOK
<1>10. SlotsOK' BY <1>1, <1>2, <1>6 DEF ServiceInv, SlotsOK
<1> QED BY <1>8, <1>9, <1>10 DEF ServiceInv

(* The other steps of the life cycle leave the tables alone. *)
LEMMA StartKeeps ==
    ASSUME ServiceInv,
           ProcessStarts \/ InitSucceeds \/ \E k \in Slots : AsynchronousRegister(k) \/ RegisterEvents(k)
    PROVE  ServiceInv'
<1>1. UNCHANGED <<sim, simId, defaultSlot, netUp, suppliers, asked, netSuppliers, slotIdSimId, queue, timer,
                  loaded, wanted, budget, slips>>
    BY DEF ProcessStarts, InitSucceeds, AsynchronousRegister, RegisterEvents, coreVars, netVars, lifeVars,
           agentVars, slotVars
<1>2. Serving' = Serving /\ state' \in {"dead", "created", "published", "running", "stopped"}
    BY DEF ProcessStarts, InitSucceeds, AsynchronousRegister, RegisterEvents, Serving, lifeVars,
           ServiceInv, ServiceTyped
<1>3. epoch' \in Nat /\ isInitSuccess' \in BOOLEAN
    <2>1. epoch' = epoch \/ epoch' = epoch + 1
        BY DEF ProcessStarts, InitSucceeds, AsynchronousRegister, RegisterEvents, lifeVars
    <2>2. isInitSuccess' = isInitSuccess \/ isInitSuccess' = TRUE
        BY DEF ProcessStarts, InitSucceeds, AsynchronousRegister, RegisterEvents, lifeVars
    <2>3. epoch \in Nat BY DEF ServiceInv, ServiceTyped
    <2>4. isInitSuccess \in BOOLEAN BY DEF ServiceInv, ServiceTyped
    <2>5. epoch' \in Nat BY <2>1, <2>3
    <2>6. isInitSuccess' \in BOOLEAN BY <2>2, <2>4
    <2> QED BY <2>5, <2>6
<1>4. controller' \in [Slots -> {"none", "waiting", "inited", "ready"}] /\ added' \subseteq Slots
    BY DEF ProcessStarts, InitSucceeds, AsynchronousRegister, RegisterEvents, slotVars, ServiceInv,
           ServiceTyped
<1>5. Booked(Agent(queue))'
    <2>1. Agent(queue)' = Agent(queue) BY <1>1 DEF Agent
    <2> QED BY <1>2, <2>1 DEF ServiceInv, ServiceTyped, Booked, Ent
<1>6. ServiceTyped' BY <1>1, <1>2, <1>3, <1>4, <1>5 DEF ServiceInv, ServiceTyped
<1>7. CardsOK' BY <1>1 DEF ServiceInv, CardsOK
<1>8. \A k \in Slots : controller'[k] \in {"none", "waiting"} => controller'[k] = controller[k] /\
                          (k \in added' => k \in added)
    BY DEF ProcessStarts, InitSucceeds, AsynchronousRegister, RegisterEvents, slotVars, ServiceInv,
           ServiceTyped
<1>9. \A k \in Slots : controller'[k] \in {"none", "waiting"} =>
         /\ \A c \in Caps : netSuppliers'[k][c].simId = INVALID_SIM_ID
         /\ queue'[k] = <<>> /\ timer'[k] = 0 /\ k \notin added' /\ wanted'[k] = {}
         /\ controller'[k] = "none" => slotIdSimId'[k] = INVALID_SIM_ID
    BY <1>1, <1>8 DEF ServiceInv, SlotsOK
<1>10. added' # {} => netUp'
    BY <1>1 DEF ProcessStarts, InitSucceeds, AsynchronousRegister, RegisterEvents, slotVars, ServiceInv,
                SlotsOK
<1>11. state' \in {"dead", "created"} => \A k \in Slots : controller'[k] = "none"
    BY DEF ProcessStarts, InitSucceeds, AsynchronousRegister, RegisterEvents, slotVars, lifeVars, ServiceInv,
           ServiceTyped, SlotsOK
<1>12. SlotsOK' BY <1>1, <1>9, <1>10, <1>11 DEF ServiceInv, SlotsOK
<1> QED BY <1>6, <1>7, <1>12 DEF ServiceInv

-----------------------------------------------------------------------------
\* A step of the application or of its client: the service is as it was, but for the default slot.
Bystands ==
    /\ UNCHANGED <<netVars, lifeVars, agentVars, slotVars, sim, simId>>
    /\ slips \subseteq slips' /\ slips' \subseteq slips \cup {"overtaken", "unheard"}

LEMMA CallBystands ==
    ASSUME ServiceInv, CallStep
    PROVE  Bystands /\ budget' \in [changes : Nat, faults : Nat, calls : Nat]
<1> USE DEF Bystands, coreVars, serviceVars, Storing
<1>0. budget \in [changes : Nat, faults : Nat, calls : Nat] BY ServiceTypes
<1>1. CASE Registered BY <1>0, <1>1 DEF Registered
<1>2. CASE ReadsCache BY <1>0, <1>2 DEF ReadsCache
<1>3. CASE AsksSim BY <1>0, <1>3 DEF AsksSim
<1>4. ASSUME NEW ok \in BOOLEAN, RegisterSimAccountCallback(ok)
      PROVE  Bystands /\ budget' \in [changes : Nat, faults : Nat, calls : Nat]
    <2>1. UNCHANGED budget \/ Spend("faults") BY <1>4 DEF RegisterSimAccountCallback
    <2>2. budget' \in [changes : Nat, faults : Nat, calls : Nat] BY <1>0, <2>1, SpendTyped
    <2> QED BY <1>4, <2>2 DEF RegisterSimAccountCallback
<1>5. ASSUME NEW ok \in BOOLEAN, Send(ok)
      PROVE  Bystands /\ budget' \in [changes : Nat, faults : Nat, calls : Nat]
    <2>1. UNCHANGED budget \/ Spend("faults") BY <1>5 DEF Send
    <2>2. budget' \in [changes : Nat, faults : Nat, calls : Nat] BY <1>0, <2>1, SpendTyped
    <2> QED BY <1>5, <2>2 DEF Send
<1>6. ASSUME NEW ok \in BOOLEAN, Reply(ok)
      PROVE  Bystands /\ budget' \in [changes : Nat, faults : Nat, calls : Nat]
    BY <1>0, <1>6 DEF Reply
<1>7. ASSUME NEW ok \in BOOLEAN, SimReply(ok)
      PROVE  Bystands /\ budget' \in [changes : Nat, faults : Nat, calls : Nat]
    BY <1>0, <1>7 DEF SimReply
<1> QED BY <1>1, <1>2, <1>3, <1>4, <1>5, <1>6, <1>7 DEF CallStep

LEMMA OthersBystand ==
    ASSUME ServiceInv,
           \/ UpdateStep \/ UNCHANGED vars
           \/ \E e \in deaths : OnRemoteDied(e)
           \/ \E k \in Slots : DefaultSlotChanges(k)
           \/ \E api \in Apis, who \in Callers, k \in Slots \cup {INVALID_SLOT}, ok \in BOOLEAN :
                 Invoke(api, who, k, ok)
    PROVE  Bystands /\ budget' \in [changes : Nat, faults : Nat, calls : Nat]
<1> USE DEF Bystands, coreVars, serviceVars
<1>0. budget \in [changes : Nat, faults : Nat, calls : Nat] BY ServiceTypes
<1>1. CASE UpdateStep
    BY <1>0, <1>1 DEF UpdateStep, UpdateDefaultCellularDataSlotId, UpdateAsks, UpdateStores
<1>2. CASE UNCHANGED vars BY <1>0, <1>2 DEF vars
<1>3. CASE \E e \in deaths : OnRemoteDied(e) BY <1>0, <1>3 DEF OnRemoteDied
<1>4. CASE \E k \in Slots : DefaultSlotChanges(k)
    <2>1. Spend("changes") BY <1>4 DEF DefaultSlotChanges
    <2>2. budget' \in [changes : Nat, faults : Nat, calls : Nat] BY <2>1, SpendTyped
    <2> QED BY <1>4, <2>2 DEF DefaultSlotChanges
<1>5. ASSUME NEW api \in Apis, NEW who \in Callers, NEW k \in Slots \cup {INVALID_SLOT}, NEW ok \in BOOLEAN,
             Invoke(api, who, k, ok)
      PROVE  Bystands /\ budget' \in [changes : Nat, faults : Nat, calls : Nat]
    <2>1. /\ budget.calls > 0 /\ (ok \/ budget.faults > 0)
          /\ budget' = [budget EXCEPT !.calls = @ - 1, !.faults = IF ok THEN @ ELSE @ - 1]
        BY <1>5 DEF Invoke
    <2>2. budget.calls - 1 \in Nat /\ (~ok => budget.faults - 1 \in Nat) BY <1>0, <2>1
    <2>3. CASE ok
        <3>1. budget' = [budget EXCEPT !.calls = budget.calls - 1] BY <1>0, <2>1, <2>3
        <3> QED BY <1>0, <1>5, <2>2, <3>1 DEF Invoke
    <2>4. CASE ~ok
        <3>1. budget' = [budget EXCEPT !.calls = budget.calls - 1, !.faults = budget.faults - 1]
            BY <1>0, <2>1, <2>4
        <3> QED BY <1>0, <1>5, <2>2, <2>4, <3>1 DEF Invoke
    <2> QED BY <2>3, <2>4
<1> QED BY <1>1, <1>2, <1>3, <1>4, <1>5

(* Different slots have different cards at first. *)
LEMMA CardsDiffer ==
    ASSUME NEW j \in Slots, NEW k \in Slots, Card(j) = Card(k)
    PROVE  j = k
<1>1. \E s \in Sims : Cardinality({r \in Sims : r < s}) = j BY ServiceAssumption
<1>2. Cardinality({r \in Sims : r < Card(j)}) = j BY <1>1 DEF Card
<1>3. \E s \in Sims : Cardinality({r \in Sims : r < s}) = k BY ServiceAssumption
<1>4. Cardinality({r \in Sims : r < Card(k)}) = k BY <1>3 DEF Card
<1> QED BY <1>2, <1>4

LEMMA ServiceInvInit ==
    ASSUME Init
    PROVE  ServiceInv
<1>1. 0 \in Slots /\ \A k \in Slots : Card(k) \in Sims BY Numbers
<1>2. \A k \in Slots : Card(k) # INVALID_SIM_ID BY <1>1, ServiceAssumption DEF INVALID_SIM_ID
<1>3. queue = [k \in Slots |-> <<>>] BY DEF Init, ServiceInit, AtRest
<1>4. queue \in [Slots -> Seq(Events)] /\ \A k \in Slots : queue[k] = <<>>
    <2>1. <<>> \in Seq(Events) OBVIOUS
    <2> QED BY <1>3, <2>1
<1>5. /\ timer = [k \in Slots |-> 0] /\ added = {} /\ wanted = [k \in Slots |-> {}] /\ slips = {}
      /\ asked = {} /\ defaultSlot = 0 /\ epoch \in {0, 1}
      /\ loaded \in [Slots -> BOOLEAN] /\ netUp \in BOOLEAN /\ isInitSuccess \in BOOLEAN
      /\ state \in {"dead", "running"}
      /\ controller \in [Slots -> {"none", "waiting", "inited", "ready"}]
    <2>1. CASE ServiceInit
        <3>1. /\ timer = [k \in Slots |-> 0] /\ added = {} /\ wanted = [k \in Slots |-> {}] /\ slips = {}
              /\ asked = {} /\ defaultSlot = 0 /\ epoch = 0 /\ state = "dead"
              /\ controller = [k \in Slots |-> "none"]
            BY <2>1 DEF ServiceInit
        <3>2. loaded = [k \in Slots |-> FALSE] /\ netUp \in BOOLEAN /\ isInitSuccess = FALSE
            BY <2>1 DEF ServiceInit
        <3>3. loaded \in [Slots -> BOOLEAN] BY <3>2
        <3> QED BY <3>1, <3>2, <3>3
    <2>2. CASE AtRest
        <3>1. /\ timer = [k \in Slots |-> 0] /\ added = {} /\ wanted = [k \in Slots |-> {}] /\ slips = {}
              /\ asked = {} /\ defaultSlot = 0 /\ epoch = 1 /\ state = "running"
              /\ controller = [k \in Slots |-> "ready"]
            BY <2>2 DEF AtRest
        <3>2. loaded = [k \in Slots |-> k # 0] /\ netUp = TRUE /\ isInitSuccess = TRUE
            BY <2>2 DEF AtRest
        <3>3. loaded \in [Slots -> BOOLEAN] BY <3>2
        <3> QED BY <3>1, <3>2, <3>3
    <2> QED BY <2>1, <2>2 DEF Init
<1>6. budget \in [changes : Nat, faults : Nat, calls : Nat]
    BY ServiceAssumption, ClientAssumption DEF Init, ServiceInit, AtRest
<1>7. timer \in [Slots -> 0 .. LoadRetryTimes] /\ \A k \in Slots : timer[k] = 0
    BY <1>5, ServiceAssumption
<1>8. /\ sim \in [Slots -> SimIds] /\ \A k \in Slots : sim[k] \in {INVALID_SIM_ID, Card(k)}
    BY <1>1 DEF Init, ServiceInit, AtRest, SimIds
<1>9. simId \in [Slots -> SimIds] /\ \A k \in Slots : simId[k] \in {INVALID_SIM_ID, sim[k]}
    BY <1>8 DEF Init, ServiceInit, AtRest, SimIds
<1>10. CardsOK
    <2> SUFFICES ASSUME NEW j \in Slots, NEW k \in Slots, j # k, sim[j] # INVALID_SIM_ID, sim[j] = sim[k]
                 PROVE  FALSE
        BY <1>9 DEF CardsOK
    <2>1. sim[j] = Card(j) /\ sim[k] = Card(k) BY <1>8
    <2> QED BY <2>1, CardsDiffer
<1> DEFINE g == Agent(queue)
<1>11. g.tab = netSuppliers /\ g.map = slotIdSimId /\ g.net = suppliers /\ g.queue = queue /\ g.slip = {}
       /\ (netSuppliers \in [Slots -> [Caps -> Entries]] /\ slotIdSimId \in [Slots -> SimIds]
             /\ suppliers \subseteq Sims \X Caps => g \in Agents)
    BY <1>4 DEF Agent, Agents
<1> HIDE DEF g
<1>12. Booked(g) /\ SlotsOK
    <2>1. CASE ServiceInit
        <3>1. /\ netSuppliers = [k \in Slots |-> [c \in Caps |-> NoSupplier]] /\ suppliers = {}
              /\ slotIdSimId = [k \in Slots |-> INVALID_SIM_ID] /\ state = "dead"
              /\ controller = [k \in Slots |-> "none"]
            BY <2>1 DEF ServiceInit
        <3>2. NoSupplier \in Entries /\ NoSupplier.simId = INVALID_SIM_ID /\ NoSupplier.listed = FALSE
            BY DEF NoSupplier, Entries, SimIds
        <3>3. \A k \in Slots, c \in Caps : netSuppliers[k][c] = NoSupplier BY <3>1
        <3>4. netSuppliers \in [Slots -> [Caps -> Entries]] BY <3>1, <3>2
        <3>5. g \in Agents BY <1>11, <3>1, <3>4 DEF SimIds
        <3>6. Serving = FALSE BY <3>1 DEF Serving
        <3>7. Booked(g) BY <1>11, <3>2, <3>3, <3>5, <3>6 DEF Booked, Ent
        <3>8. SlotsOK BY <1>4, <1>5, <1>7, <3>1, <3>2, <3>3 DEF SlotsOK
        <3> QED BY <3>7, <3>8
    <2>2. CASE AtRest
        <3>1. /\ netSuppliers = [k \in Slots |-> [c \in Caps |->
                                   [simId |-> sim[k], supplierId |-> sim[k], listed |-> TRUE]]]
              /\ suppliers = {<<sim[k], c>> : k \in Slots \ {0}, c \in Caps}
              /\ slotIdSimId = sim /\ state = "running"
              /\ controller = [k \in Slots |-> "ready"]
              /\ \A k \in Slots \ {0} : sim[k] = Card(k)
            BY <2>2 DEF AtRest
        <3>2. \A k \in Slots, c \in Caps :
                netSuppliers[k][c] = [simId |-> sim[k], supplierId |-> sim[k], listed |-> TRUE]
            BY <3>1
        <3>3. netSuppliers \in [Slots -> [Caps -> Entries]] BY <1>8, <3>1 DEF Entries
        <3>4. suppliers \subseteq Sims \X Caps BY <1>1, <3>1
        <3>5. g \in Agents BY <1>8, <1>11, <3>1, <3>3, <3>4
        <3>6. Serving = TRUE BY <3>1 DEF Serving
        <3>7. ASSUME NEW k \in Slots, NEW c \in Caps
              PROVE  netSuppliers[k][c].listed = TRUE /\ netSuppliers[k][c].supplierId = netSuppliers[k][c].simId
            <4> DEFINE t == TRUE
                       s == sim[k]
            <4>1. netSuppliers[k][c] = [simId |-> s, supplierId |-> s, listed |-> t] BY <3>2
            <4> HIDE DEF t, s
            <4>2. netSuppliers[k][c].listed = t /\ netSuppliers[k][c].supplierId = netSuppliers[k][c].simId
                BY <4>1
            <4> QED BY <4>2 DEF t
        <3>9. Booked(g) BY <1>11, <3>5, <3>6, <3>7 DEF Booked, Ent
        <3>10. SlotsOK BY <1>4, <1>5, <1>7, <3>1 DEF SlotsOK
        <3> QED BY <3>9, <3>10
    <2> QED BY <2>1, <2>2 DEF Init
<1>13. ServiceTyped
    BY <1>1, <1>4, <1>5, <1>6, <1>7, <1>8, <1>9, <1>12 DEF ServiceTyped, g
<1> QED BY <1>10, <1>12, <1>13 DEF ServiceInv

LEMMA ServiceInvNext ==
    ASSUME ServiceInv, defaultSlot' \in Slots, [Next]_vars
    PROVE  ServiceInv'
<1>1. CASE StartStep BY <1>1, OnStartKeeps, StartKeeps DEF StartStep
<1>2. CASE EnvironmentStep
    BY <1>2, OnStopKeeps, NetManagerKeeps, DataShareKeeps, SimInsertedKeeps, RequestNetworkKeeps,
       ReleaseNetworkKeeps DEF EnvironmentStep
<1>3. CASE NetManagerStarts BY <1>3, NetManagerKeeps
<1>4. CASE \E k \in Slots : HandlerStep(k) \/ AbilityStep(k)
    BY <1>4, StateChangedKeeps, MsgRequestKeeps, AccountLoadedKeeps, RetryKeeps, AbilityKeeps
       DEF HandlerStep, AbilityStep
<1>5. CASE \E k \in Slots : AccountStep(k) BY <1>5, SimIdLoadedKeeps DEF AccountStep
<1>6. CASE \E k \in Slots : SimRemoved(k) BY <1>6, SimRemovedKeeps
<1>7. CASE ProcessDies BY <1>7, CrashKeeps DEF ProcessDies
<1>8. CASE \/ UpdateStep \/ UNCHANGED vars
           \/ \E e \in deaths : OnRemoteDied(e)
           \/ \E k \in Slots : DefaultSlotChanges(k)
           \/ \E api \in Apis, who \in Callers, k \in Slots \cup {INVALID_SLOT}, ok \in BOOLEAN :
                 Invoke(api, who, k, ok)
           \/ CallStep
    <2>1. Bystands /\ budget' \in [changes : Nat, faults : Nat, calls : Nat]
        BY <1>8, OthersBystand, CallBystands
    <2>2. slips' \subseteq Slips BY <2>1, ServiceTypes DEF Bystands, Slips
    <2> QED BY <2>1, <2>2, BystanderKeeps DEF Bystands
<1> QED BY <1>1, <1>2, <1>3, <1>4, <1>5, <1>6, <1>7, <1>8 DEF Next

-----------------------------------------------------------------------------
(* Suppliers.                                                              *)

\* Every supplier has an entry, a card is in the entries of one slot, and the card of a supplier is
\* routed to the slot of its entry.
Tabled(g) ==
    /\ \A p \in g.net : \E k \in Slots : Ent(g, k, p[2]) = p[1]
    /\ \A j, k \in Slots : \A c \in Caps :
         j # k /\ Ent(g, j, c) # INVALID_SIM_ID => Ent(g, j, c) # Ent(g, k, c)
    /\ \A k \in Slots, c \in Caps : Live(g, k, c) => g.map[k] = Ent(g, k, c)

\* The agent takes back what slot k has, or nothing.
Lost(g, u, k) ==
    /\ Booked(u) /\ u.queue = g.queue /\ u.slip = g.slip
    /\ \A j \in Slots \ {k} : u.tab[j] = g.tab[j] /\ u.map[j] = g.map[j]
    /\ \A c \in Caps : \/ Ent(u, k, c) = Ent(g, k, c)
                       \/ Ent(u, k, c) = INVALID_SIM_ID /\ <<Ent(g, k, c), c>> \notin u.net
    /\ u.net \subseteq g.net
    /\ \A p \in g.net \ u.net : Ent(g, k, p[2]) = p[1]
    /\ u.map[k] \in {INVALID_SIM_ID, g.map[k]}
    /\ \A c \in Caps : Live(u, k, c) => u.map[k] = g.map[k]

LEMMA DroppedIsLost ==
    ASSUME NEW g, NEW u, NEW k \in Slots, Dropped(g, u, k)
    PROVE  Lost(g, u, k)
<1>1. u.map[k] \in {INVALID_SIM_ID, g.map[k]} BY DEF Dropped
<1>2. \A c \in Caps : \/ Ent(u, k, c) = Ent(g, k, c)
                      \/ Ent(u, k, c) = INVALID_SIM_ID /\ <<Ent(g, k, c), c>> \notin u.net
    BY DEF Dropped
<1> QED BY <1>1, <1>2 DEF Dropped, Lost

LEMMA NothingIsLost ==
    ASSUME NEW g, NEW k \in Slots, Booked(g)
    PROVE  Lost(g, g, k)
BY DEF Lost

LEMMA LostKeepsTable ==
    ASSUME NEW g, Booked(g), Tabled(g), NEW k \in Slots, NEW u, Lost(g, u, k)
    PROVE  Tabled(u)
<1>1. \A j \in Slots \ {k} : \A c \in Caps : Ent(u, j, c) = Ent(g, j, c) BY DEF Lost, Ent
<1>2. \A c \in Caps : \/ Ent(u, k, c) = Ent(g, k, c)
                      \/ Ent(u, k, c) = INVALID_SIM_ID /\ <<Ent(g, k, c), c>> \notin u.net
    BY DEF Lost
<1>3. u.net \subseteq g.net /\ g.net \subseteq Sims \X Caps BY DEF Lost, Booked, Agents
<1>4. ASSUME NEW p \in u.net PROVE \E j \in Slots : Ent(u, j, p[2]) = p[1]
    <2>1. PICK j \in Slots : Ent(g, j, p[2]) = p[1] BY <1>3 DEF Tabled
    <2>2. p[2] \in Caps /\ p = <<p[1], p[2]>> BY <1>3
    <2>3. Ent(u, j, p[2]) = p[1] BY <1>1, <1>2, <2>1, <2>2
    <2> QED BY <2>3
<1>5. \A j, i \in Slots : \A c \in Caps :
         j # i /\ Ent(u, j, c) # INVALID_SIM_ID => Ent(u, j, c) # Ent(u, i, c)
    <2> SUFFICES ASSUME NEW j \in Slots, NEW i \in Slots, NEW c \in Caps, j # i,
                        Ent(u, j, c) # INVALID_SIM_ID, Ent(u, j, c) = Ent(u, i, c)
                 PROVE  FALSE
        OBVIOUS
    <2>1. Ent(u, j, c) = Ent(g, j, c) /\ Ent(u, i, c) = Ent(g, i, c) BY <1>1, <1>2
    <2>2. Ent(g, j, c) # INVALID_SIM_ID => Ent(g, j, c) # Ent(g, i, c) BY DEF Tabled
    <2> QED BY <2>1, <2>2
<1>6. ASSUME NEW j \in Slots, NEW c \in Caps, Live(u, j, c) PROVE u.map[j] = Ent(u, j, c)
    <2>1. CASE j # k
        <3>1. Ent(u, j, c) = Ent(g, j, c) /\ u.map[j] = g.map[j] BY <1>1, <2>1 DEF Lost
        <3>2. Live(g, j, c) BY <1>3, <1>6, <3>1 DEF Live
        <3> QED BY <3>1, <3>2 DEF Tabled
    <2>2. CASE j = k
        <3>1. Ent(u, k, c) = Ent(g, k, c) /\ u.map[k] = g.map[k] BY <1>2, <1>6, <2>2 DEF Lost, Live
        <3>2. Live(g, k, c) BY <1>3, <1>6, <2>2, <3>1 DEF Live
        <3> QED BY <2>2, <3>1, <3>2 DEF Tabled
    <2> QED BY <2>1, <2>2
<1> QED BY <1>4, <1>5, <1>6 DEF Tabled

LEMMA EnrolledKeepsTable ==
    ASSUME NEW g, Booked(g), Tabled(g), NEW k \in Slots, NEW acc \in SUBSET Caps, NEW r,
           Enrolled(g, r, k, acc), "crossed" \notin r.slip, simId \in [Slots -> SimIds],
           simId[k] # INVALID_SIM_ID
    PROVE  Tabled(r)
<1> DEFINE s == simId[k]
<1>1. \A j \in Slots \ {k} : \A c \in Caps : Ent(r, j, c) = Ent(g, j, c) BY DEF Enrolled, Ent
<1>2. \A c \in Caps : Ent(r, k, c) = IF c \in acc THEN s ELSE Ent(g, k, c) BY DEF Enrolled
<1>3. r.net = g.net \cup ({s} \X acc) /\ g.net \subseteq Sims \X Caps /\ s # INVALID_SIM_ID
    BY DEF Enrolled, Booked, Agents
<1>4. ~Crossing(g, k) BY DEF Enrolled
<1>5. \A c \in Caps, j \in Slots \ {k} : Ent(g, j, c) # s BY <1>4 DEF Crossing, Ent
<1>6. \A c \in Caps : <<Ent(g, k, c), c>> \in g.net => Ent(g, k, c) = s BY <1>4 DEF Crossing, Ent
<1>7. g.map \in [Slots -> SimIds] BY DEF Booked, Agents
<1>8. r.map[k] = s /\ \A j \in Slots \ {k} : r.map[j] = g.map[j] BY <1>7 DEF Enrolled
<1> HIDE DEF s
<1>9. ASSUME NEW p \in r.net PROVE \E j \in Slots : Ent(r, j, p[2]) = p[1]
    <2>1. CASE p \in g.net
        <3>1. PICK j \in Slots : Ent(g, j, p[2]) = p[1] BY <2>1 DEF Tabled
        <3>2. p[2] \in Caps /\ p = <<p[1], p[2]>> BY <1>3, <2>1
        <3>3. CASE j # k BY <1>1, <3>1, <3>2, <3>3
        <3>4. CASE j = k
            <4>1. p[1] = s BY <1>6, <2>1, <3>1, <3>2, <3>4
            <4>2. Ent(r, k, p[2]) = p[1] BY <1>2, <3>1, <3>2, <3>4, <4>1
            <4> QED BY <4>2
        <3> QED BY <3>3, <3>4
    <2>2. CASE p \in {s} \X acc
        <3>1. p[1] = s /\ p[2] \in acc /\ p[2] \in Caps BY <2>2
        <3> QED BY <1>2, <3>1
    <2> QED BY <1>3, <1>9, <2>1, <2>2
<1>10. \A j, i \in Slots : \A c \in Caps :
         j # i /\ Ent(r, j, c) # INVALID_SIM_ID => Ent(r, j, c) # Ent(r, i, c)
    BY <1>1, <1>2, <1>5 DEF Tabled
<1>11. ASSUME NEW j \in Slots, NEW c \in Caps, Live(r, j, c) PROVE r.map[j] = Ent(r, j, c)
    <2>1. CASE j # k
        <3>1. Ent(r, j, c) = Ent(g, j, c) /\ r.map[j] = g.map[j] BY <1>1, <1>8, <2>1
        <3>2. <<Ent(g, j, c), c>> \in g.net BY <1>3, <1>5, <1>11, <2>1, <3>1 DEF Live
        <3>3. Live(g, j, c) BY <1>11, <3>1, <3>2 DEF Live
        <3> QED BY <3>1, <3>3 DEF Tabled
    <2>2. CASE j = k
        <3>1. CASE c \in acc BY <1>2, <1>8, <2>2, <3>1
        <3>2. CASE c \notin acc
            <4>1. Ent(r, k, c) = Ent(g, k, c) BY <1>2, <3>2
            <4>2. <<Ent(g, k, c), c>> \in g.net BY <1>3, <1>11, <2>2, <3>2, <4>1 DEF Live
            <4> QED BY <1>6, <1>8, <2>2, <4>1, <4>2
        <3> QED BY <3>1, <3>2
    <2> QED BY <2>1, <2>2
<1> QED BY <1>9, <1>10, <1>11 DEF Tabled

\* The slot has what its card needs.
Holds(g, k) ==
    g.map[k] = simId[k] /\ \A c \in Caps : Live(g, k, c) /\ Ent(g, k, c) = simId[k]

\* The account of the slot is there, and nothing is on its way that would register it.
Attentive(k) ==
    /\ Serving /\ Inited(k) /\ netUp /\ simId[k] # INVALID_SIM_ID
    /\ k \notin added /\ ~Has(k, "ACCOUNT_LOADED") /\ timer[k] = 0

\* Between the removal of a card and the event of it there may be suppliers without a card; a
\* service that does not serve has none; a slot to which nothing more comes has all of its own.
SupplyOK ==
    /\ Tabled(Agent(queue))
    /\ ~Serving => suppliers = {}
    /\ \A k \in Slots : sim[k] = INVALID_SIM_ID /\ (\E c \in Caps : Live(Agent(queue), k, c))
                           => Has(k, "SIM_STATE")
    /\ \A k \in Slots : Attentive(k) => Holds(Agent(queue), k)

\* So may be a route.
RouteOK == \A k \in Slots : sim[k] = INVALID_SIM_ID /\ slotIdSimId[k] # INVALID_SIM_ID => Has(k, "SIM_STATE")

Supplying == slips \cap {"refused", "crossed", "missed"} = {}

SupplyInv == Supplying => SupplyOK /\ ("kept" \notin slips => RouteOK)

(* The agent of the next state. *)
LEMMA AgentNext ==
    ASSUME NEW g, netSuppliers' = g.tab, slotIdSimId' = g.map, suppliers' = g.net
    PROVE  /\ Agent(queue)'.map = g.map /\ Agent(queue)'.net = g.net /\ Agent(queue)'.tab = g.tab
           /\ \A k, c : /\ Ent(Agent(queue)', k, c) = Ent(g, k, c)
                        /\ Live(Agent(queue)', k, c) <=> Live(g, k, c)
           /\ Tabled(Agent(queue)') <=> Tabled(g)
<1> DEFINE a == Agent(queue)'
<1>1. a.map = g.map /\ a.net = g.net /\ a.tab = g.tab BY DEF Agent
<1> HIDE DEF a
<1>2. \A k, c : Ent(a, k, c) = Ent(g, k, c) BY <1>1 DEF Ent
<1>3. \A k, c : Live(a, k, c) <=> Live(g, k, c) BY <1>1, <1>2 DEF Live
<1>4. Tabled(a) <=> Tabled(g) BY <1>1, <1>2, <1>3 DEF Tabled
<1> QED BY <1>1, <1>2, <1>3, <1>4 DEF a

(* A step of the agent for slot k that leaves the other slots what they have. *)
LEMMA SupplyNext ==
    ASSUME ServiceInv, SupplyOK, NEW k \in Slots, NEW g, Tabled(g), SetAgent(g),
           UNCHANGED <<sim, simId, netUp, state, controller>>,
           ~Serving => g.net = {},
           \A j \in Slots \ {k} : /\ g.map[j] = slotIdSimId[j]
                                  /\ \A c \in Caps : /\ Ent(g, j, c) = Ent(Agent(queue), j, c)
                                                     /\ Live(g, j, c) <=> Live(Agent(queue), j, c),
           \A j \in Slots \ {k} : /\ \A t : Has(j, t) => (Has(j, t))'
                                  /\ timer'[j] = timer[j] /\ (j \in added => j \in added'),
           sim[k] = INVALID_SIM_ID /\ (\E c \in Caps : Live(g, k, c)) => (Has(k, "SIM_STATE"))',
           Attentive(k)' => Holds(g, k)
    PROVE  SupplyOK'
<1> DEFINE a == Agent(queue)'
<1>1. netSuppliers' = g.tab /\ slotIdSimId' = g.map /\ suppliers' = g.net BY DEF SetAgent
<1>2. /\ a.map = g.map /\ Tabled(a)
      /\ \A j, c : Ent(a, j, c) = Ent(g, j, c) /\ (Live(a, j, c) <=> Live(g, j, c))
    BY <1>1, AgentNext
<1>3. Serving' = Serving /\ (\A j \in Slots : Inited(j)' = Inited(j)) BY DEF Serving, Inited
<1>4. ~Serving' => suppliers' = {} BY <1>1, <1>3
<1> HIDE DEF a
<1>5. ASSUME NEW j \in Slots, sim'[j] = INVALID_SIM_ID, \E c \in Caps : Live(a, j, c)
      PROVE  (Has(j, "SIM_STATE"))'
    <2>1. CASE j = k BY <1>2, <1>5, <2>1
    <2>2. CASE j # k
        <3>1. \E c \in Caps : Live(Agent(queue), j, c) BY <1>2, <1>5, <2>2
        <3>2. Has(j, "SIM_STATE") BY <1>5, <3>1 DEF SupplyOK
        <3> QED BY <2>2, <3>2
    <2> QED BY <2>1, <2>2
<1>6. ASSUME NEW j \in Slots, Attentive(j)' PROVE Holds(Agent(queue), j)'
    <2>1. CASE j = k
        <3>1. Holds(g, k) BY <1>6, <2>1
        <3> QED BY <1>2, <2>1, <3>1 DEF Holds, a
    <2>2. CASE j # k
        <3>1. ~Has(j, "ACCOUNT_LOADED") /\ timer[j] = 0 /\ j \notin added BY <1>6, <2>2 DEF Attentive
        <3>2. Attentive(j) BY <1>3, <1>6, <3>1 DEF Attentive
        <3>3. Holds(Agent(queue), j) BY <3>2 DEF SupplyOK
        <3>4. slotIdSimId[j] = simId[j] BY <3>3 DEF Holds, Agent
        <3>5. \A c \in Caps : Live(g, j, c) /\ Ent(g, j, c) = simId[j] BY <2>2, <3>3 DEF Holds
        <3>6. g.map[j] = simId[j] BY <2>2, <3>4
        <3> QED BY <1>2, <3>5, <3>6 DEF Holds, a
    <2> QED BY <2>1, <2>2
<1>7. Tabled(Agent(queue))' BY <1>2 DEF a
<1>8. \A j \in Slots : sim'[j] = INVALID_SIM_ID /\ (\E c \in Caps : Live(Agent(queue)', j, c))
                          => (Has(j, "SIM_STATE"))'
    BY <1>5 DEF a
<1> QED BY <1>4, <1>6, <1>7, <1>8 DEF SupplyOK

(* A step that leaves the tables alone. *)
LEMMA SupplyStays ==
    ASSUME ServiceInv, SupplyOK, UNCHANGED <<netSuppliers, slotIdSimId, suppliers>>, Serving' = Serving,
           \A k \in Slots : /\ sim'[k] = INVALID_SIM_ID /\ (\E c \in Caps : Live(Agent(queue), k, c))
                                 => (Has(k, "SIM_STATE"))'
                            /\ Attentive(k)' => Attentive(k) /\ simId'[k] = simId[k]
    PROVE  SupplyOK'
<1> DEFINE g == Agent(queue)
           a == Agent(queue)'
<1>1. netSuppliers' = g.tab /\ slotIdSimId' = g.map /\ suppliers' = g.net BY DEF Agent
<1> HIDE DEF g
<1>2. /\ a.map = g.map /\ (Tabled(a) <=> Tabled(g))
      /\ \A j, c : Ent(a, j, c) = Ent(g, j, c) /\ (Live(a, j, c) <=> Live(g, j, c))
    BY <1>1, AgentNext
<1> HIDE DEF a
<1>3. Tabled(g) /\ (~Serving => suppliers = {}) BY DEF SupplyOK, g
<1>4. ASSUME NEW j \in Slots, sim'[j] = INVALID_SIM_ID, \E c \in Caps : Live(a, j, c)
      PROVE  (Has(j, "SIM_STATE"))'
    <2>1. \E c \in Caps : Live(g, j, c) BY <1>2, <1>4
    <2> QED BY <1>4, <2>1 DEF g
<1>5. ASSUME NEW j \in Slots, Attentive(j)' PROVE Holds(Agent(queue), j)'
    <2>1. Holds(g, j) /\ simId'[j] = simId[j] BY <1>5 DEF SupplyOK, g
    <2> QED BY <1>2, <2>1 DEF Holds, a
<1>6. Tabled(Agent(queue))' BY <1>2, <1>3 DEF a
<1>7. \A j \in Slots : sim'[j] = INVALID_SIM_ID /\ (\E c \in Caps : Live(Agent(queue)', j, c))
                          => (Has(j, "SIM_STATE"))'
    BY <1>4 DEF a
<1> QED BY <1>3, <1>5, <1>6, <1>7 DEF SupplyOK

\* What a call of the agent for slot k, which may take back what the slot has and may register its
\* card, makes of the agent o.
Supplied(o, g, k) ==
    /\ Tabled(g)
    /\ \A j \in Slots \ {k} : /\ g.map[j] = o.map[j]
                              /\ \A c \in Caps : /\ Ent(g, j, c) = Ent(o, j, c)
                                                 /\ Live(g, j, c) <=> Live(o, j, c)
    /\ ~Serving /\ o.net = {} => g.net = {}
    /\ Serving /\ simId[k] # INVALID_SIM_ID /\ netUp => Holds(g, k)
    /\ g.map[k] \in {INVALID_SIM_ID, o.map[k], simId[k]}
    /\ simId[k] = INVALID_SIM_ID => \A c \in Caps : Live(g, k, c) => Live(o, k, c)

LEMMA LostSupplies ==
    ASSUME NEW o, Booked(o), Tabled(o), NEW k \in Slots, NEW u, Lost(o, u, k)
    PROVE  /\ Tabled(u) /\ u.net \subseteq o.net /\ u.map[k] \in {INVALID_SIM_ID, o.map[k]}
           /\ \A j \in Slots \ {k} : /\ u.map[j] = o.map[j]
                                     /\ \A c \in Caps : /\ Ent(u, j, c) = Ent(o, j, c)
                                                        /\ Live(u, j, c) <=> Live(o, j, c)
           /\ \A c \in Caps : Live(u, k, c) => Live(o, k, c)
<1>1. Tabled(u) BY LostKeepsTable
<1>2. /\ u.net \subseteq o.net /\ u.map[k] \in {INVALID_SIM_ID, o.map[k]}
      /\ \A j \in Slots \ {k} : u.map[j] = o.map[j] /\ u.tab[j] = o.tab[j]
    BY DEF Lost
<1>3. ASSUME NEW j \in Slots \ {k}, NEW c \in Caps
      PROVE  Ent(u, j, c) = Ent(o, j, c) /\ (Live(u, j, c) <=> Live(o, j, c))
    <2>1. Ent(u, j, c) = Ent(o, j, c) BY <1>2 DEF Ent
    <2>2. ASSUME Live(o, j, c) PROVE <<Ent(o, j, c), c>> \in u.net
        <3> DEFINE p == <<Ent(o, j, c), c>>
        <3>1. p \in o.net /\ Ent(o, j, c) # INVALID_SIM_ID BY <2>2 DEF Live
        <3>2. Ent(o, j, c) # Ent(o, k, c) BY <3>1 DEF Tabled
        <3>3. p[1] = Ent(o, j, c) /\ p[2] = c OBVIOUS
        <3> HIDE DEF p
        <3>4. p \in u.net BY <3>1, <3>2, <3>3 DEF Lost
        <3> QED BY <3>4 DEF p
    <2> QED BY <1>2, <2>1, <2>2 DEF Live
<1>4. \A c \in Caps : Live(u, k, c) => Live(o, k, c)
    <2> SUFFICES ASSUME NEW c \in Caps, Live(u, k, c) PROVE Live(o, k, c) OBVIOUS
    <2>1. Ent(u, k, c) = Ent(o, k, c) BY DEF Lost, Live
    <2> QED BY <1>2, <2>1 DEF Live
<1> QED BY <1>1, <1>2, <1>3, <1>4

LEMMA RegisterSupplies ==
    ASSUME ServiceInv, NEW o, Booked(o), Tabled(o), NEW k \in Slots, NEW u, Lost(o, u, k),
           NEW acc \in Accepted, NEW g, g = RegisterNetSupplier(u, k, acc),
           "refused" \notin g.slip, "crossed" \notin g.slip
    PROVE  Supplied(o, g, k)
<1>1. /\ Tabled(u) /\ u.net \subseteq o.net /\ u.map[k] \in {INVALID_SIM_ID, o.map[k]} /\ Booked(u)
      /\ \A j \in Slots \ {k} : /\ u.map[j] = o.map[j]
                                /\ \A c \in Caps : /\ Ent(u, j, c) = Ent(o, j, c)
                                                   /\ Live(u, j, c) <=> Live(o, j, c)
      /\ \A c \in Caps : Live(u, k, c) => Live(o, k, c)
    BY LostSupplies DEF Lost
<1>2. CASE simId[k] = INVALID_SIM_ID \/ ~Serving
    <2>1. g = u BY <1>1, <1>2, EnrollsNothing
    <2> QED BY <1>1, <1>2, <2>1 DEF Supplied
<1>3. CASE ~(simId[k] = INVALID_SIM_ID \/ ~Serving)
    <2>1. acc \in SUBSET Caps /\ (netUp /\ ~Refused(acc) => acc = Caps) BY AcceptedCaps
    <2>2. simId \in [Slots -> SimIds] BY ServiceTypes
    <2>3. Enrolled(u, g, k, acc) BY <1>1, <1>3, <2>1, <2>2, CapsExist, Enrolls
    <2>4. Tabled(g) BY <1>1, <1>3, <2>1, <2>2, <2>3, EnrolledKeepsTable
    <2>5. ~Refused(acc) /\ ~Crossing(u, k) BY <2>3 DEF Enrolled
    <2>6. u.map \in [Slots -> SimIds] BY <1>1 DEF Booked, Agents
    <2>7. g.map[k] = simId[k] /\ \A j \in Slots \ {k} : g.map[j] = u.map[j] BY <2>3, <2>6 DEF Enrolled
    <2>8. g.net = u.net \cup ({simId[k]} \X acc)
          /\ \A c \in Caps : Ent(g, k, c) = IF c \in acc THEN simId[k] ELSE Ent(u, k, c)
        BY <2>3 DEF Enrolled
    <2>9. ASSUME NEW j \in Slots \ {k}, NEW c \in Caps
          PROVE  Ent(g, j, c) = Ent(u, j, c) /\ (Live(g, j, c) <=> Live(u, j, c))
        <3>1. Ent(g, j, c) = Ent(u, j, c) BY <2>3 DEF Enrolled, Ent
        <3>2. Ent(u, j, c) # simId[k] BY <2>5 DEF Crossing, Ent
        <3>3. <<Ent(u, j, c), c>> \in g.net <=> <<Ent(u, j, c), c>> \in u.net BY <2>8, <3>2
        <3> QED BY <3>1, <3>3 DEF Live
    <2>10. netUp => Holds(g, k)
        <3> SUFFICES ASSUME netUp PROVE Holds(g, k) OBVIOUS
        <3>1. acc = Caps BY <2>1, <2>5
        <3>2. \A c \in Caps : Ent(g, k, c) = simId[k] /\ <<simId[k], c>> \in g.net BY <2>8, <3>1
        <3>3. \A c \in Caps : Live(g, k, c) BY <1>3, <3>2 DEF Live
        <3> QED BY <2>7, <3>2, <3>3 DEF Holds
    <2> QED BY <1>1, <1>3, <2>4, <2>7, <2>9, <2>10 DEF Supplied
<1> QED BY <1>2, <1>3

(* The route of a slot without a card is not made, only kept. *)
LEMMA RouteNext ==
    ASSUME ServiceInv, RouteOK, NEW k \in Slots, NEW g, SetAgent(g), UNCHANGED <<sim, simId>>,
           \A j \in Slots \ {k} : /\ g.map[j] = slotIdSimId[j]
                                  /\ \A t : Has(j, t) => (Has(j, t))',
           Has(k, "SIM_STATE") => (Has(k, "SIM_STATE"))',
           g.map[k] \in {INVALID_SIM_ID, slotIdSimId[k], simId[k]}
    PROVE  RouteOK'
<1>1. slotIdSimId' = g.map BY DEF SetAgent
<1>2. ASSUME NEW j \in Slots, sim'[j] = INVALID_SIM_ID, slotIdSimId'[j] # INVALID_SIM_ID
      PROVE  (Has(j, "SIM_STATE"))'
    <2>1. simId[j] = INVALID_SIM_ID BY <1>2 DEF ServiceInv, CardsOK
    <2>2. slotIdSimId[j] # INVALID_SIM_ID BY <1>1, <1>2, <2>1
    <2>3. Has(j, "SIM_STATE") BY <1>2, <2>2 DEF RouteOK
    <2> QED BY <2>3
<1> QED BY <1>2 DEF RouteOK

LEMMA SlipsOfAgent ==
    ASSUME NEW g, SetAgent(g), Supplying'
    PROVE  /\ "refused" \notin g.slip /\ "crossed" \notin g.slip /\ "missed" \notin g.slip /\ Supplying
           /\ slips \subseteq slips' /\ g.slip \subseteq slips'
BY DEF SetAgent, Supplying

(* An account is loaded, by an event or by the timer. *)
LEMMA AccountSupplies ==
    ASSUME ServiceInv, SupplyInv, Supplying', NEW k \in Slots, NEW acc \in Accepted,
           NEW q \in [Slots -> Seq(Events)], \A j \in Slots \ {k} : q[j] = queue[j],
           In(queue[k], "SIM_STATE") => In(q[k], "SIM_STATE"),
           SimAccountLoaded(k, acc, q),
           UNCHANGED <<sim, simId, netUp, state, controller, added>>,
           timer' = [timer EXCEPT ![k] = 0]
    PROVE  SupplyOK' /\ ("kept" \notin slips' => RouteOK')
<1> DEFINE o == Agent(q)
           u == UnregisterNetSupplierForSimUpdate(o, k)
           g == RegisterNetSupplier(u, k, acc)
<1>1. /\ Booked(o) /\ o.queue = q /\ o.tab = netSuppliers /\ o.map = slotIdSimId /\ o.net = suppliers
    BY BookedRest
<1>2. SetAgent(g) BY DEF SimAccountLoaded
<1>3. g = RegisterNetSupplier(u, k, acc) OBVIOUS
<1>4. u = UnregisterNetSupplierForSimUpdate(o, k) OBVIOUS
<1> HIDE DEF o, u, g
<1>5. Dropped(o, u, k) BY <1>1, <1>4, Drops
<1>6. Lost(o, u, k) /\ Booked(u) /\ u.queue = q BY <1>1, <1>5, DroppedIsLost DEF Dropped
<1>7. /\ "refused" \notin g.slip /\ "crossed" \notin g.slip /\ Supplying /\ slips \subseteq slips'
    BY <1>2, SlipsOfAgent
<1>8. SupplyOK /\ ("kept" \notin slips' => RouteOK) BY <1>7 DEF SupplyInv
<1> DEFINE a == Agent(queue)
<1>9. a.tab = netSuppliers /\ a.map = slotIdSimId /\ a.net = suppliers BY DEF Agent
<1>10. Tabled(a) BY <1>8 DEF SupplyOK
<1> HIDE DEF a
<1>11. \A j, c : Ent(a, j, c) = Ent(o, j, c) BY <1>1, <1>9 DEF Ent
<1>12. \A j, c : Live(a, j, c) <=> Live(o, j, c) BY <1>1, <1>9, <1>11 DEF Live
<1>13. Tabled(o) BY <1>1, <1>9, <1>10, <1>11, <1>12 DEF Tabled
<1>14. Supplied(o, g, k) BY <1>1, <1>3, <1>6, <1>7, <1>13, RegisterSupplies
<1>15. \A j \in Slots : \A t : In(q[j], t) => (Has(j, t))'
    <2>1. \A j \in Slots : \A t : In(u.queue[j], t) => In(g.queue[j], t) BY <1>3, <1>6, RegisterKeeps
    <2>2. queue' = g.queue BY <1>2 DEF SetAgent
    <2>3. \A j \in Slots : \A t : (Has(j, t))' <=> In(queue'[j], t) BY DEF Has, In
    <2> QED BY <1>6, <2>1, <2>2, <2>3
<1>16. \A j \in Slots \ {k} : \A t : Has(j, t) => (Has(j, t))'
    <2>1. \A j \in Slots : \A t : Has(j, t) <=> In(queue[j], t) BY DEF Has, In
    <2> QED BY <1>15, <2>1
<1>17. Has(k, "SIM_STATE") => (Has(k, "SIM_STATE"))'
    <2>1. Has(k, "SIM_STATE") <=> In(queue[k], "SIM_STATE") BY DEF Has, In
    <2> QED BY <1>15, <2>1
<1>18. \A j \in Slots \ {k} : timer'[j] = timer[j] BY ServiceTypes
<1>19. SupplyOK'
    <2>1. ~Serving => g.net = {} BY <1>1, <1>8, <1>14 DEF SupplyOK, Supplied
    <2>2. \A j \in Slots \ {k} : /\ g.map[j] = slotIdSimId[j]
                                 /\ \A c \in Caps : /\ Ent(g, j, c) = Ent(Agent(queue), j, c)
                                                    /\ Live(g, j, c) <=> Live(Agent(queue), j, c)
        BY <1>1, <1>11, <1>12, <1>14 DEF Supplied, a
    <2>3. ASSUME sim[k] = INVALID_SIM_ID, \E c \in Caps : Live(g, k, c) PROVE (Has(k, "SIM_STATE"))'
        <3>1. simId[k] = INVALID_SIM_ID BY <2>3 DEF ServiceInv, CardsOK
        <3>2. \E c \in Caps : Live(Agent(queue), k, c) BY <1>12, <1>14, <2>3, <3>1 DEF Supplied, a
        <3>3. Has(k, "SIM_STATE") BY <1>8, <2>3, <3>2 DEF SupplyOK
        <3> QED BY <1>17, <3>3
    <2>4. ASSUME Attentive(k)' PROVE Holds(g, k)
        <3>1. Serving /\ simId[k] # INVALID_SIM_ID /\ netUp BY <2>4 DEF Attentive, Serving
        <3> QED BY <1>14, <3>1 DEF Supplied
    <2>5. Tabled(g) BY <1>14 DEF Supplied
    <2> QED BY <1>2, <1>8, <1>16, <1>18, <2>1, <2>2, <2>3, <2>4, <2>5, SupplyNext
<1>20. ASSUME "kept" \notin slips' PROVE RouteOK'
    <2>1. RouteOK BY <1>8, <1>20
    <2>2. g.map[k] \in {INVALID_SIM_ID, slotIdSimId[k], simId[k]}
          /\ \A j \in Slots \ {k} : g.map[j] = slotIdSimId[j]
        BY <1>1, <1>14 DEF Supplied
    <2> QED BY <1>2, <1>16, <1>17, <2>1, <2>2, RouteNext
<1> QED BY <1>19, <1>20

LEMMA AccountLoadedSupplies ==
    ASSUME ServiceInv, SupplyInv, NEW k \in Slots, NEW acc \in Accepted, HandleSimAccountLoaded(k, acc)
    PROVE  SupplyInv'
<1> SUFFICES ASSUME Supplying' PROVE SupplyOK' /\ ("kept" \notin slips' => RouteOK') BY DEF SupplyInv
<1>1. Takes(k, "ACCOUNT_LOADED") /\ SimAccountLoaded(k, acc, Rest(k)) /\ timer' = [timer EXCEPT ![k] = 0]
    BY DEF HandleSimAccountLoaded
<1>2. UNCHANGED <<sim, simId, netUp, state, controller, added>> BY <1>1 DEF Takes, coreVars, lifeVars
<1>3. /\ Rest(k) \in [Slots -> Seq(Events)] /\ \A j \in Slots \ {k} : Rest(k)[j] = queue[j]
      /\ \A t : Has(k, t) <=> t = "ACCOUNT_LOADED" \/ In(Rest(k)[k], t)
    BY <1>1, TakesRest
<1>4. Has(k, "SIM_STATE") <=> In(queue[k], "SIM_STATE") BY DEF Has, In
<1>5. In(queue[k], "SIM_STATE") => In(Rest(k)[k], "SIM_STATE") BY <1>3, <1>4
<1> QED BY <1>1, <1>2, <1>3, <1>5, AccountSupplies

LEMMA RetrySupplies ==
    ASSUME ServiceInv, SupplyInv, NEW k \in Slots, NEW acc \in Accepted, HandleRetryLoadSimAccount(k, acc)
    PROVE  SupplyInv'
<1> SUFFICES ASSUME Supplying' PROVE SupplyOK' /\ ("kept" \notin slips' => RouteOK') BY DEF SupplyInv
<1>1. /\ timer[k] > 0 /\ timer' = [timer EXCEPT ![k] = IF simId[k] = INVALID_SIM_ID THEN @ - 1 ELSE 0]
      /\ UNCHANGED <<sim, simId, netUp, state, controller, added>>
    BY DEF HandleRetryLoadSimAccount, coreVars, lifeVars
<1>2. queue \in [Slots -> Seq(Events)] /\ timer \in [Slots -> 0 .. LoadRetryTimes] BY ServiceTypes
<1>3. ~loaded[k] BY <1>1 DEF ServiceInv, SlotsOK
<1>4. CASE simId[k] # INVALID_SIM_ID /\ ~loaded[k] /\ ~Has(k, "ACCOUNT_LOADED")
    <2>1. SimAccountLoaded(k, acc, queue) /\ timer' = [timer EXCEPT ![k] = 0]
        BY <1>1, <1>4 DEF HandleRetryLoadSimAccount
    <2> QED BY <1>1, <1>2, <2>1, AccountSupplies
<1>5. CASE ~(simId[k] # INVALID_SIM_ID /\ ~loaded[k] /\ ~Has(k, "ACCOUNT_LOADED"))
    <2>1. UNCHANGED <<netSuppliers, slotIdSimId, suppliers, queue, slips>>
        BY <1>5 DEF HandleRetryLoadSimAccount, agentVars
    <2>2. Supplying /\ SupplyOK /\ ("kept" \notin slips' => RouteOK) BY <2>1 DEF Supplying, SupplyInv
    <2>3. \A j \in Slots : \A t : (Has(j, t))' <=> Has(j, t) BY <2>1 DEF Has
    <2>4. Serving' = Serving BY <1>1 DEF Serving
    <2>5. \A j \in Slots \ {k} : timer'[j] = timer[j] BY <1>1, <1>2
    <2>6. ASSUME NEW j \in Slots, Attentive(j)' PROVE Attentive(j) /\ simId'[j] = simId[j]
        <3>1. j # k BY <1>1, <1>3, <1>5, <2>3, <2>6 DEF Attentive
        <3> QED BY <1>1, <2>3, <2>4, <2>5, <2>6, <3>1 DEF Attentive, Inited
    <2>7. \A j \in Slots : sim'[j] = INVALID_SIM_ID /\ (\E c \in Caps : Live(Agent(queue), j, c))
                              => (Has(j, "SIM_STATE"))'
        BY <1>1, <2>2, <2>3 DEF SupplyOK
    <2>8. SupplyOK' BY <2>1, <2>2, <2>4, <2>6, <2>7, SupplyStays
    <2>9. RouteOK => RouteOK' BY <1>1, <2>1, <2>3 DEF RouteOK
    <2> QED BY <2>2, <2>8, <2>9
<1> QED BY <1>4, <1>5

LEMMA AbilitySupplies ==
    ASSUME ServiceInv, SupplyInv, NEW k \in Slots, NEW acc \in Accepted, OnAddSystemAbility(k, acc)
    PROVE  SupplyInv'
<1> SUFFICES ASSUME Supplying' PROVE SupplyOK' /\ ("kept" \notin slips' => RouteOK') BY DEF SupplyInv
<1> DEFINE o == Agent(queue)
           g == RegisterNetSupplier(o, k, acc)
<1>1. /\ k \in added /\ added' = added \ {k} /\ SetAgent(g)
      /\ UNCHANGED <<sim, simId, netUp, state, controller, timer>>
    BY DEF OnAddSystemAbility, coreVars, lifeVars
<1>2. queue \in [Slots -> Seq(Events)] BY ServiceTypes
<1>3. /\ Booked(o) /\ o.queue = queue /\ o.map = slotIdSimId /\ o.net = suppliers BY <1>2, BookedRest
<1>4. g = RegisterNetSupplier(o, k, acc) OBVIOUS
<1> HIDE DEF g
<1>5. /\ "refused" \notin g.slip /\ "crossed" \notin g.slip /\ Supplying /\ slips \subseteq slips'
    BY <1>1, SlipsOfAgent
<1>6. SupplyOK /\ ("kept" \notin slips' => RouteOK) BY <1>5 DEF SupplyInv
<1>7. Tabled(o) BY <1>6 DEF SupplyOK
<1>8. Lost(o, o, k) BY <1>3, NothingIsLost
<1> HIDE DEF o
<1>9. Supplied(o, g, k) BY <1>3, <1>4, <1>5, <1>7, <1>8, RegisterSupplies
<1>10. \A j \in Slots : \A t : Has(j, t) => (Has(j, t))'
    <2>1. \A j \in Slots : \A t : In(o.queue[j], t) => In(g.queue[j], t) BY <1>3, <1>4, RegisterKeeps
    <2>2. queue' = g.queue BY <1>1 DEF SetAgent
    <2>3. \A j \in Slots : \A t : (Has(j, t))' <=> In(queue'[j], t) BY DEF Has, In
    <2>4. \A j \in Slots : \A t : Has(j, t) <=> In(queue[j], t) BY DEF Has, In
    <2> QED BY <1>3, <2>1, <2>2, <2>3, <2>4
<1>11. SupplyOK'
    <2>1. ~Serving => g.net = {} BY <1>3, <1>6, <1>9 DEF SupplyOK, Supplied
    <2>2. \A j \in Slots \ {k} : /\ g.map[j] = slotIdSimId[j]
                                 /\ \A c \in Caps : /\ Ent(g, j, c) = Ent(Agent(queue), j, c)
                                                    /\ Live(g, j, c) <=> Live(Agent(queue), j, c)
        BY <1>3, <1>9 DEF Supplied, o
    <2>3. ASSUME sim[k] = INVALID_SIM_ID, \E c \in Caps : Live(g, k, c) PROVE (Has(k, "SIM_STATE"))'
        <3>1. simId[k] = INVALID_SIM_ID BY <2>3 DEF ServiceInv, CardsOK
        <3>2. \E c \in Caps : Live(Agent(queue), k, c) BY <1>9, <2>3, <3>1 DEF Supplied, o
        <3>3. Has(k, "SIM_STATE") BY <1>6, <2>3, <3>2 DEF SupplyOK
        <3> QED BY <1>10, <3>3
    <2>4. ASSUME Attentive(k)' PROVE Holds(g, k)
        <3>1. Serving /\ simId[k] # INVALID_SIM_ID /\ netUp BY <1>1, <2>4 DEF Attentive, Serving
        <3> QED BY <1>9, <3>1 DEF Supplied
    <2>5. Tabled(g) BY <1>9 DEF Supplied
    <2>6. \A j \in Slots \ {k} : timer'[j] = timer[j] /\ (j \in added => j \in added') BY <1>1
    <2> QED BY <1>1, <1>6, <1>10, <2>1, <2>2, <2>3, <2>4, <2>5, <2>6, SupplyNext
<1>12. ASSUME "kept" \notin slips' PROVE RouteOK'
    <2>1. RouteOK BY <1>6, <1>12
    <2>2. g.map[k] \in {INVALID_SIM_ID, slotIdSimId[k], simId[k]}
          /\ \A j \in Slots \ {k} : g.map[j] = slotIdSimId[j]
        BY <1>3, <1>9 DEF Supplied
    <2> QED BY <1>1, <1>10, <2>1, <2>2, RouteNext
<1> QED BY <1>11, <1>12

LEMMA MsgRequestSupplies ==
    ASSUME ServiceInv, SupplyInv, NEW k \in Slots, MsgRequestNetwork(k)
    PROVE  SupplyInv'
<1> SUFFICES ASSUME Supplying' PROVE SupplyOK' /\ ("kept" \notin slips' => RouteOK') BY DEF SupplyInv
<1>1. PICK t \in {"REQUEST", "RELEASE"} : Takes(k, t) BY DEF MsgRequestNetwork
<1>2. UNCHANGED <<sim, simId, netUp, state, controller, added>> BY <1>1 DEF Takes, coreVars, lifeVars
<1>3. UNCHANGED <<suppliers, netSuppliers, slotIdSimId, timer, slips>> /\ queue' = Rest(k)
    BY DEF MsgRequestNetwork, agentVars
<1>4. /\ \A j \in Slots \ {k} : Rest(k)[j] = queue[j]
      /\ \A x : Has(k, x) <=> x = t \/ In(Rest(k)[k], x)
    BY <1>1, TakesRest
<1>5. \A j \in Slots : \A x : (Has(j, x))' <=> In(Rest(k)[j], x) BY <1>3 DEF Has, In
<1>6. \A j \in Slots : \A x : Has(j, x) <=> In(queue[j], x) BY DEF Has, In
<1>7. \A j \in Slots : \A x \in {"SIM_STATE", "ACCOUNT_LOADED"} : (Has(j, x))' <=> Has(j, x)
    BY <1>1, <1>4, <1>5, <1>6
<1>8. Supplying /\ SupplyOK /\ ("kept" \notin slips' => RouteOK) BY <1>3 DEF Supplying, SupplyInv
<1>9. Serving' = Serving BY <1>2 DEF Serving
<1>10. \A j \in Slots : Attentive(j)' => Attentive(j) /\ simId'[j] = simId[j]
    BY <1>2, <1>3, <1>7, <1>9 DEF Attentive, Inited
<1>11. \A j \in Slots : sim'[j] = INVALID_SIM_ID /\ (\E c \in Caps : Live(Agent(queue), j, c))
                           => (Has(j, "SIM_STATE"))'
    BY <1>2, <1>7, <1>8 DEF SupplyOK
<1>12. SupplyOK' BY <1>3, <1>8, <1>9, <1>10, <1>11, SupplyStays
<1>13. RouteOK => RouteOK' BY <1>2, <1>3, <1>7 DEF RouteOK
<1> QED BY <1>8, <1>12, <1>13

LEMMA StateChangedSupplies ==
    ASSUME ServiceInv, SupplyInv, NEW k \in Slots, HandleSimStateChanged(k)
    PROVE  SupplyInv'
<1> SUFFICES ASSUME Supplying' PROVE SupplyOK' /\ ("kept" \notin slips' => RouteOK') BY DEF SupplyInv
<1>1. Takes(k, "SIM_STATE") /\ UNCHANGED timer BY DEF HandleSimStateChanged
<1>2. UNCHANGED <<sim, simId, netUp, state, controller, added>> BY <1>1 DEF Takes, coreVars, lifeVars
<1>3. /\ Rest(k) \in [Slots -> Seq(Events)] /\ \A j \in Slots \ {k} : Rest(k)[j] = queue[j]
      /\ \A t : Has(k, t) <=> t = "SIM_STATE" \/ In(Rest(k)[k], t)
    BY <1>1, TakesRest
<1>4. \A j \in Slots : \A t : Has(j, t) <=> In(queue[j], t) BY DEF Has, In
<1>5. Serving' = Serving BY <1>2 DEF Serving
<1>6. CASE sim[k] = INVALID_SIM_ID
    <2> DEFINE o == Agent(Rest(k))
               u == UnregisterNetSupplierForSimUpdate(o, k)
               s == (IF Has(k, "REQUEST") THEN {"late"} ELSE {})
                      \cup (IF u.map[k] # INVALID_SIM_ID THEN {"kept"} ELSE {})
               g == [u EXCEPT !.slip = s]
               a == Agent(queue)
    <2>1. /\ Booked(o) /\ o.queue = Rest(k) /\ o.tab = netSuppliers /\ o.map = slotIdSimId
          /\ o.net = suppliers
        BY <1>3, BookedRest
    <2>2. SetAgent(g) BY <1>6 DEF HandleSimStateChanged
    <2>3. u = UnregisterNetSupplierForSimUpdate(o, k) OBVIOUS
    <2>4. u.map[k] # INVALID_SIM_ID => "kept" \in s OBVIOUS
    <2> HIDE DEF o, u, s
    <2>5. Dropped(o, u, k) BY <2>1, <2>3, Drops
    <2>6. u \in Agents /\ Booked(u) /\ Lost(o, u, k) BY <2>5, DroppedIsLost DEF Dropped, Booked
    <2>7. g.tab = u.tab /\ g.map = u.map /\ g.net = u.net /\ g.queue = u.queue /\ g.slip = s
        BY <2>6 DEF Agents
    <2> HIDE DEF g
    <2>8. Supplying /\ slips \subseteq slips' /\ g.slip \subseteq slips' BY <2>2, SlipsOfAgent
    <2>9. SupplyOK /\ ("kept" \notin slips' => RouteOK) BY <2>8 DEF SupplyInv
    <2>10. a.tab = netSuppliers /\ a.map = slotIdSimId /\ a.net = suppliers BY DEF Agent
    <2>11. Tabled(a) BY <2>9 DEF SupplyOK
    <2> HIDE DEF a
    <2>12. \A j, c : Ent(a, j, c) = Ent(o, j, c) BY <2>1, <2>10 DEF Ent
    <2>13. \A j, c : Live(a, j, c) <=> Live(o, j, c) BY <2>1, <2>10, <2>12 DEF Live
    <2>14. Tabled(o) BY <2>1, <2>10, <2>11, <2>12, <2>13 DEF Tabled
    <2>15. /\ Tabled(u) /\ u.net \subseteq o.net
           /\ \A j \in Slots \ {k} : /\ u.map[j] = o.map[j]
                                     /\ \A c \in Caps : /\ Ent(u, j, c) = Ent(o, j, c)
                                                        /\ Live(u, j, c) <=> Live(o, j, c)
        BY <2>1, <2>6, <2>14, LostSupplies
    <2>16. \A j, c : Ent(g, j, c) = Ent(u, j, c) BY <2>7 DEF Ent
    <2>17. \A j, c : Live(g, j, c) <=> Live(u, j, c) BY <2>7, <2>16 DEF Live
    <2>18. Tabled(g) BY <2>7, <2>15, <2>16, <2>17 DEF Tabled
    <2>19. queue' = Rest(k)
        BY <2>1, <2>2, <2>5, <2>7 DEF SetAgent, Dropped
    <2>20. \A j \in Slots \ {k} : \A t : Has(j, t) => (Has(j, t))'
        <3>1. \A j \in Slots : \A t : (Has(j, t))' <=> In(queue'[j], t) BY DEF Has, In
        <3> QED BY <1>3, <1>4, <2>19, <3>1
    <2>21. SupplyOK'
        <3>1. ~Serving => g.net = {} BY <2>1, <2>7, <2>9, <2>15 DEF SupplyOK
        <3>2. \A j \in Slots \ {k} : /\ g.map[j] = slotIdSimId[j]
                                     /\ \A c \in Caps : /\ Ent(g, j, c) = Ent(Agent(queue), j, c)
                                                        /\ Live(g, j, c) <=> Live(Agent(queue), j, c)
            BY <2>1, <2>7, <2>12, <2>13, <2>15, <2>16, <2>17 DEF a
        <3>3. \A c \in Caps : ~Live(g, k, c) BY <2>5, <2>17 DEF Dropped
        <3>4. ~Attentive(k)' BY <1>2, <1>6 DEF Attentive, ServiceInv, CardsOK
        <3>5. \A j \in Slots \ {k} : timer'[j] = timer[j] /\ (j \in added => j \in added') BY <1>1, <1>2
        <3> QED BY <1>2, <2>2, <2>9, <2>18, <2>20, <3>1, <3>2, <3>3, <3>4, <3>5, SupplyNext
    <2>22. ASSUME "kept" \notin slips' PROVE RouteOK'
        <3>1. g.map[k] = INVALID_SIM_ID BY <2>4, <2>7, <2>8, <2>22
        <3>2. slotIdSimId' = g.map BY <2>2 DEF SetAgent
        <3>3. \A j \in Slots \ {k} : slotIdSimId'[j] = slotIdSimId[j] BY <2>1, <2>7, <2>15, <3>2
        <3> QED BY <1>2, <2>9, <2>20, <2>22, <3>1, <3>2, <3>3 DEF RouteOK
    <2> QED BY <2>21, <2>22
<1>7. CASE sim[k] # INVALID_SIM_ID
    <2>1. UNCHANGED <<netSuppliers, slotIdSimId, suppliers, slips>> /\ queue' = Rest(k)
        BY <1>7 DEF HandleSimStateChanged, agentVars
    <2>2. \A j \in Slots : \A t : (Has(j, t))' <=> In(Rest(k)[j], t) BY <2>1 DEF Has, In
    <2>3. \A j \in Slots \ {k} : \A t : (Has(j, t))' <=> Has(j, t) BY <1>3, <1>4, <2>2
    <2>4. (Has(k, "ACCOUNT_LOADED"))' <=> Has(k, "ACCOUNT_LOADED") BY <1>3, <2>2
    <2>5. Supplying /\ SupplyOK /\ ("kept" \notin slips' => RouteOK) BY <2>1 DEF Supplying, SupplyInv
    <2>6. \A j \in Slots : Attentive(j)' => Attentive(j) /\ simId'[j] = simId[j]
        BY <1>1, <1>2, <1>5, <2>3, <2>4 DEF Attentive, Inited
    <2>7. \A j \in Slots : sim'[j] = INVALID_SIM_ID /\ (\E c \in Caps : Live(Agent(queue), j, c))
                              => (Has(j, "SIM_STATE"))'
        BY <1>2, <1>7, <2>3, <2>5 DEF SupplyOK
    <2>8. SupplyOK' BY <1>5, <2>1, <2>5, <2>6, <2>7, SupplyStays
    <2>9. RouteOK => RouteOK' BY <1>2, <1>7, <2>1, <2>3 DEF RouteOK
    <2> QED BY <2>5, <2>8, <2>9
<1> QED BY <1>6, <1>7

(* A step that takes no event of the core service from a queue. *)
LEMMA SupplyWaits ==
    ASSUME ServiceInv, SupplyInv, UNCHANGED <<netSuppliers, slotIdSimId, suppliers, sim>>,
           Serving' = Serving, slips \subseteq slips',
           \A k \in Slots : Has(k, "SIM_STATE") => (Has(k, "SIM_STATE"))',
           \A k \in Slots : Supplying' /\ Attentive(k)' => Attentive(k) /\ simId'[k] = simId[k]
    PROVE  SupplyInv'
<1> SUFFICES ASSUME Supplying' PROVE SupplyOK' /\ ("kept" \notin slips' => RouteOK') BY DEF SupplyInv
<1>1. Supplying /\ SupplyOK /\ ("kept" \notin slips' => RouteOK) BY DEF Supplying, SupplyInv
<1>2. \A j \in Slots : sim'[j] = INVALID_SIM_ID /\ (\E c \in Caps : Live(Agent(queue), j, c))
                          => (Has(j, "SIM_STATE"))'
    BY <1>1 DEF SupplyOK
<1>3. SupplyOK' BY <1>1, <1>2, SupplyStays
<1>4. RouteOK => RouteOK' BY DEF RouteOK
<1> QED BY <1>1, <1>3, <1>4

LEMMA RoutedHas ==
    ASSUME ServiceInv, NEW p \in Sims \X Caps, NEW type \in EventTypes,
           queue' = Routed(queue, slotIdSimId, p[1], type, <<p[2]>>)
    PROVE  \A k \in Slots : \A t : Has(k, t) => (Has(k, t))'
<1> DEFINE d == <<Event(type, p[2])>>
<1>1. Delivered(queue, queue', slotIdSimId, p[1], d) /\ d \in Seq(Events) BY RoutedKeeps
<1> HIDE DEF d
<1>2. queue \in [Slots -> Seq(Events)] BY ServiceTypes
<1>3. \A k \in Slots : \A t : Has(k, t) <=> In(queue[k], t) BY DEF Has, In
<1>4. \A k \in Slots : \A t : (Has(k, t))' <=> In(queue'[k], t) BY DEF Has, In
<1>5. ASSUME NEW k \in Slots, NEW t, In(queue[k], t) PROVE In(queue'[k], t)
    <2>1. queue[k] \in Seq(Events) BY <1>2
    <2>2. In(queue[k] \o d, t) BY <1>1, <1>5, <2>1, AppendKeeps
    <2>3. queue'[k] = queue[k] \o d \/ queue'[k] = queue[k] BY <1>1 DEF Delivered
    <2> QED BY <1>5, <2>2, <2>3
<1> QED BY <1>3, <1>4, <1>5

LEMMA RequestSupplies ==
    ASSUME ServiceInv, SupplyInv,
           (\E p \in Sims \X Caps : RequestNetwork(p)) \/ (\E p \in asked : ReleaseNetwork(p))
    PROVE  SupplyInv'
<1>1. /\ UNCHANGED <<netSuppliers, slotIdSimId, suppliers, sim, simId, netUp, state, controller, timer, added>>
      /\ slips \subseteq slips'
    BY DEF RequestNetwork, ReleaseNetwork, agentVars, lifeVars, coreVars
<1>2. \A k \in Slots : \A t : Has(k, t) => (Has(k, t))'
    <2>1. ASSUME NEW p \in Sims \X Caps, RequestNetwork(p) PROVE \A k \in Slots : \A t : Has(k, t) => (Has(k, t))'
        <3>1. CASE p \in suppliers
            <4> DEFINE type == "REQUEST"
            <4>1. queue' = Routed(queue, slotIdSimId, p[1], type, <<p[2]>>)
                BY <2>1, <3>1 DEF RequestNetwork, RequestNet
            <4>2. type \in EventTypes BY DEF EventTypes
            <4> HIDE DEF type
            <4> QED BY <4>1, <4>2, RoutedHas
        <3>2. CASE p \notin suppliers BY <2>1, <3>2 DEF RequestNetwork, Has
        <3> QED BY <3>1, <3>2
    <2>2. ASSUME NEW p \in asked, ReleaseNetwork(p) PROVE \A k \in Slots : \A t : Has(k, t) => (Has(k, t))'
        <3>0. p \in Sims \X Caps BY ServiceTypes
        <3>1. CASE p \in suppliers
            <4> DEFINE type == "RELEASE"
            <4>1. queue' = Routed(queue, slotIdSimId, p[1], type, <<p[2]>>)
                BY <2>2, <3>1 DEF ReleaseNetwork, ReleaseNet
            <4>2. type \in EventTypes BY DEF EventTypes
            <4> HIDE DEF type
            <4> QED BY <3>0, <4>1, <4>2, RoutedHas
        <3>2. CASE p \notin suppliers BY <2>2, <3>2 DEF ReleaseNetwork, Has
        <3> QED BY <3>1, <3>2
    <2> QED BY <2>1, <2>2
<1>3. Serving' = Serving BY <1>1 DEF Serving
<1>4. \A k \in Slots : Attentive(k)' => Attentive(k) /\ simId'[k] = simId[k]
    BY <1>1, <1>2, <1>3 DEF Attentive, Inited
<1> QED BY <1>1, <1>2, <1>3, <1>4, SupplyWaits

LEMMA StartSupplies ==
    ASSUME ServiceInv, SupplyInv,
           ProcessStarts \/ InitSucceeds \/ \E k \in Slots : AsynchronousRegister(k) \/ RegisterEvents(k)
    PROVE  SupplyInv'
<1>1. UNCHANGED <<sim, simId, netUp, suppliers, netSuppliers, slotIdSimId, queue, timer, slips>>
    BY DEF ProcessStarts, InitSucceeds, AsynchronousRegister, RegisterEvents, coreVars, netVars, lifeVars,
           agentVars, slotVars
<1>2. Serving' = Serving
    BY DEF ProcessStarts, InitSucceeds, AsynchronousRegister, RegisterEvents, Serving, lifeVars
<1>3. \A j \in Slots : \A t : (Has(j, t))' <=> Has(j, t) BY <1>1 DEF Has
<1>4. \A j \in Slots : Inited(j)' /\ netUp /\ j \notin added' => Inited(j) /\ j \notin added
    <2>1. CASE ProcessStarts BY <2>1 DEF ProcessStarts, slotVars, Inited
    <2>2. CASE InitSucceeds BY <2>2 DEF InitSucceeds, slotVars, Inited
    <2>3. ASSUME NEW k \in Slots, AsynchronousRegister(k)
          PROVE  \A j \in Slots : Inited(j)' /\ netUp /\ j \notin added' => Inited(j) /\ j \notin added
        <3>1. /\ controller' = [controller EXCEPT ![k] = "inited"]
              /\ netUp => added' = added \cup {k}
            BY <2>3 DEF AsynchronousRegister
        <3> QED BY <3>1, ServiceTypes DEF Inited
    <2>4. ASSUME NEW k \in Slots, RegisterEvents(k)
          PROVE  \A j \in Slots : Inited(j)' /\ netUp /\ j \notin added' => Inited(j) /\ j \notin added
        <3>1. /\ controller' = [controller EXCEPT ![k] = "ready"] /\ controller[k] = "inited"
              /\ added' = added
            BY <2>4 DEF RegisterEvents
        <3> QED BY <3>1, ServiceTypes DEF Inited
    <2> QED BY <2>1, <2>2, <2>3, <2>4
<1>5. \A k \in Slots : Attentive(k)' => Attentive(k) /\ simId'[k] = simId[k]
    BY <1>1, <1>2, <1>3, <1>4 DEF Attentive
<1> QED BY <1>1, <1>2, <1>3, <1>5, SupplyWaits

LEMMA BystanderSupplies ==
    ASSUME ServiceInv, SupplyInv, Bystands
    PROVE  SupplyInv'
<1>1. UNCHANGED <<netSuppliers, slotIdSimId, state, controller, queue, suppliers, netUp, sim, simId, timer, added>>
      /\ slips \subseteq slips'
    BY DEF Bystands, agentVars, lifeVars, netVars, slotVars
<1>2. \A j \in Slots : \A t : (Has(j, t))' <=> Has(j, t) BY <1>1 DEF Has
<1>3. Serving' = Serving BY <1>1 DEF Serving
<1>4. \A k \in Slots : Attentive(k)' => Attentive(k) /\ simId'[k] = simId[k]
    BY <1>1, <1>2, <1>3 DEF Attentive, Inited
<1> QED BY <1>1, <1>2, <1>3, <1>4, SupplyWaits

LEMMA DataShareSupplies ==
    ASSUME ServiceInv, SupplyInv, NEW k \in Slots, OnDataShareReady(k)
    PROVE  SupplyInv'
<1>1. /\ UNCHANGED <<netSuppliers, slotIdSimId, state, controller, queue, suppliers, netUp, sim, simId, added,
                     slips>>
      /\ timer' = [timer EXCEPT ![k] = LoadRetryTimes]
    BY DEF OnDataShareReady, agentVars, lifeVars, netVars, coreVars
<1>2. \A j \in Slots : \A t : (Has(j, t))' <=> Has(j, t) BY <1>1 DEF Has
<1>3. Serving' = Serving BY <1>1 DEF Serving
<1>4. \A j \in Slots : timer'[j] = 0 => timer[j] = 0
    <2>1. timer \in [Slots -> 0 .. LoadRetryTimes] /\ LoadRetryTimes \in Nat
        BY ServiceTypes, ServiceAssumption
    <2> QED BY <1>1, <2>1
<1>5. \A j \in Slots : Attentive(j)' => Attentive(j) /\ simId'[j] = simId[j]
    BY <1>1, <1>2, <1>3, <1>4 DEF Attentive, Inited
<1> QED BY <1>1, <1>2, <1>3, <1>5, SupplyWaits

LEMMA NetManagerStartsSupplies ==
    ASSUME ServiceInv, SupplyInv, NetManagerStarts
    PROVE  SupplyInv'
<1>1. /\ UNCHANGED <<netSuppliers, slotIdSimId, state, controller, queue, suppliers, sim, simId, timer, slips>>
      /\ added' = {j \in Slots : Inited(j)}
    BY DEF NetManagerStarts, agentVars, lifeVars, coreVars, Inited
<1>2. \A j \in Slots : \A t : (Has(j, t))' <=> Has(j, t) BY <1>1 DEF Has
<1>3. Serving' = Serving BY <1>1 DEF Serving
<1>4. \A j \in Slots : ~Attentive(j)' BY <1>1 DEF Attentive, Inited
<1> QED BY <1>1, <1>2, <1>3, <1>4, SupplyWaits

LEMMA SimIdLoadedSupplies ==
    ASSUME ServiceInv, SupplyInv, NEW k \in Slots, NEW told \in BOOLEAN, SimIdLoaded(k, told)
    PROVE  SupplyInv'
<1>1. /\ UNCHANGED <<netSuppliers, slotIdSimId, state, controller, suppliers, netUp, sim, timer, added>>
      /\ simId' = [simId EXCEPT ![k] = sim[k]] /\ slips \subseteq slips'
    BY DEF SimIdLoaded, agentVars, lifeVars, netVars
<1>2. /\ \A j \in Slots \ {k} : queue'[j] = queue[j]
      /\ \A t : Has(k, t) => (Has(k, t))'
      /\ told /\ controller[k] = "ready" => (Has(k, "ACCOUNT_LOADED"))'
    <2>1. CASE told
        <3> DEFINE t == "ACCOUNT_LOADED"
        <3>1. Sends(k, t) /\ t \in {"SIM_STATE", "ACCOUNT_LOADED"} BY <2>1 DEF SimIdLoaded
        <3> HIDE DEF t
        <3>2. /\ \A j \in Slots \ {k} : queue'[j] = queue[j]
              /\ \A x : (Has(k, x))' <=> Has(k, x) \/ (controller[k] = "ready" /\ x = t)
            BY <3>1, SendsKeeps
        <3> QED BY <3>2 DEF t
    <2>2. CASE ~told
        <3>1. queue' = queue BY <2>2 DEF SimIdLoaded
        <3> QED BY <2>2, <3>1 DEF Has
    <2> QED BY <2>1, <2>2
<1>3. \A j \in Slots \ {k} : \A t : (Has(j, t))' <=> Has(j, t) BY <1>2 DEF Has
<1>4. Serving' = Serving BY <1>1 DEF Serving
<1>5. ASSUME NEW j \in Slots, Supplying', Attentive(j)' PROVE Attentive(j) /\ simId'[j] = simId[j]
    <2>1. CASE j # k
        <3>1. simId'[j] = simId[j] BY <1>1, <2>1, ServiceTypes
        <3> QED BY <1>1, <1>3, <1>4, <1>5, <2>1, <3>1 DEF Attentive, Inited
    <2>2. CASE j = k
        <3>1. timer[k] = 0 /\ k \notin added /\ netUp /\ controller[k] \in {"inited", "ready"}
            BY <1>1, <1>5, <2>2 DEF Attentive, Inited
        <3>2. ~(told /\ controller[k] = "ready") BY <1>2, <1>5, <2>2 DEF Attentive
        <3>3. "missed" \in slips' BY <3>1, <3>2 DEF SimIdLoaded
        <3> QED BY <1>5, <3>3 DEF Supplying
    <2> QED BY <2>1, <2>2
<1> QED BY <1>1, <1>2, <1>3, <1>4, <1>5, SupplyWaits

LEMMA SimInsertedSupplies ==
    ASSUME ServiceInv, SupplyInv, NEW k \in Slots, NEW s \in Sims, SimInserted(k, s)
    PROVE  SupplyInv'
<1> SUFFICES ASSUME Supplying' PROVE SupplyOK' /\ ("kept" \notin slips' => RouteOK') BY DEF SupplyInv
<1>1. /\ UNCHANGED <<netSuppliers, slotIdSimId, state, controller, suppliers, netUp, simId, timer, added>>
      /\ sim' = [sim EXCEPT ![k] = s] /\ slips \subseteq slips' /\ Sends(k, "SIM_STATE")
    BY DEF SimInserted, agentVars, lifeVars, netVars
<1>2. /\ \A j \in Slots \ {k} : queue'[j] = queue[j]
      /\ \A t : Has(k, t) => (Has(k, t))'
    BY <1>1, SendsKeeps
<1>3. \A j \in Slots : \A t : Has(j, t) => (Has(j, t))'
    <2>1. \A j \in Slots \ {k} : \A t : (Has(j, t))' <=> Has(j, t) BY <1>2 DEF Has
    <2> QED BY <1>2, <2>1
<1>4. Serving' = Serving BY <1>1 DEF Serving
<1>5. Supplying /\ SupplyOK /\ ("kept" \notin slips' => RouteOK) BY <1>1 DEF Supplying, SupplyInv
<1>6. \A j \in Slots : Attentive(j)' => Attentive(j) /\ simId'[j] = simId[j]
    BY <1>1, <1>3, <1>4 DEF Attentive, Inited
<1>7. \A j \in Slots : sim'[j] = INVALID_SIM_ID => sim[j] = INVALID_SIM_ID
    <2>1. s # INVALID_SIM_ID BY ServiceAssumption DEF INVALID_SIM_ID
    <2> QED BY <1>1, <2>1, ServiceTypes
<1>8. \A j \in Slots : sim'[j] = INVALID_SIM_ID /\ (\E c \in Caps : Live(Agent(queue), j, c))
                          => (Has(j, "SIM_STATE"))'
    BY <1>3, <1>5, <1>7 DEF SupplyOK
<1>9. SupplyOK' BY <1>1, <1>4, <1>5, <1>6, <1>8, SupplyStays
<1>10. RouteOK => RouteOK' BY <1>1, <1>3, <1>7 DEF RouteOK
<1> QED BY <1>5, <1>9, <1>10

LEMMA SimRemovedSupplies ==
    ASSUME ServiceInv, SupplyInv, NEW k \in Slots, SimRemoved(k)
    PROVE  SupplyInv'
<1> SUFFICES ASSUME Supplying' PROVE SupplyOK' /\ ("kept" \notin slips' => RouteOK') BY DEF SupplyInv
<1>1. /\ UNCHANGED <<netSuppliers, slotIdSimId, state, controller, suppliers, netUp, timer, added>>
      /\ sim' = [sim EXCEPT ![k] = INVALID_SIM_ID] /\ simId' = [simId EXCEPT ![k] = INVALID_SIM_ID]
      /\ slips \subseteq slips' /\ Sends(k, "SIM_STATE")
      /\ controller[k] = "inited" => "missed" \in slips'
      /\ controller[k] = "waiting" /\ slotIdSimId[k] # INVALID_SIM_ID => "kept" \in slips'
    BY DEF SimRemoved, agentVars, lifeVars, netVars
<1>2. /\ \A j \in Slots \ {k} : queue'[j] = queue[j]
      /\ \A t : Has(k, t) => (Has(k, t))'
      /\ controller[k] = "ready" => (Has(k, "SIM_STATE"))'
    <2> DEFINE t == "SIM_STATE"
    <2>1. Sends(k, t) /\ t \in {"SIM_STATE", "ACCOUNT_LOADED"} BY <1>1
    <2> HIDE DEF t
    <2>2. /\ \A j \in Slots \ {k} : queue'[j] = queue[j]
          /\ \A x : (Has(k, x))' <=> Has(k, x) \/ (controller[k] = "ready" /\ x = t)
        BY <2>1, SendsKeeps
    <2> QED BY <2>2 DEF t
<1>3. \A j \in Slots : \A t : Has(j, t) => (Has(j, t))'
    <2>1. \A j \in Slots \ {k} : \A t : (Has(j, t))' <=> Has(j, t) BY <1>2 DEF Has
    <2> QED BY <1>2, <2>1
<1>4. Serving' = Serving BY <1>1 DEF Serving
<1>5. Supplying /\ SupplyOK /\ ("kept" \notin slips' => RouteOK) BY <1>1 DEF Supplying, SupplyInv
<1>6. controller[k] # "inited" BY <1>1 DEF Supplying
<1>7. simId'[k] = INVALID_SIM_ID
      /\ \A j \in Slots \ {k} : simId'[j] = simId[j] /\ sim'[j] = sim[j]
    BY <1>1, ServiceTypes
<1>8. \A j \in Slots : Attentive(j)' => Attentive(j) /\ simId'[j] = simId[j]
    BY <1>1, <1>3, <1>4, <1>7 DEF Attentive, Inited
<1>9. controller[k] \in {"none", "waiting", "ready"} BY <1>6, ServiceTypes
<1>10. ASSUME NEW j \in Slots, sim'[j] = INVALID_SIM_ID, \E c \in Caps : Live(Agent(queue), j, c)
       PROVE  (Has(j, "SIM_STATE"))'
    <2>1. CASE j # k
        <3>1. Has(j, "SIM_STATE") BY <1>5, <1>7, <1>10, <2>1 DEF SupplyOK
        <3> QED BY <1>3, <3>1
    <2>2. CASE j = k
        <3>1. PICK c \in Caps : Live(Agent(queue), k, c) BY <1>10, <2>2
        <3>2. netSuppliers[k][c].simId # INVALID_SIM_ID BY <3>1 DEF Live, Ent, Agent
        <3>3. controller[k] = "ready" BY <1>9, <3>2 DEF ServiceInv, SlotsOK
        <3> QED BY <1>2, <2>2, <3>3
    <2> QED BY <2>1, <2>2
<1>11. SupplyOK' BY <1>1, <1>4, <1>5, <1>8, <1>10, SupplyStays
<1>12. ASSUME "kept" \notin slips', NEW j \in Slots, sim'[j] = INVALID_SIM_ID,
              slotIdSimId'[j] # INVALID_SIM_ID
       PROVE  (Has(j, "SIM_STATE"))'
    <2>1. CASE j # k
        <3>1. Has(j, "SIM_STATE") BY <1>1, <1>5, <1>7, <1>12, <2>1 DEF RouteOK
        <3> QED BY <1>3, <3>1
    <2>2. CASE j = k
        <3>1. slotIdSimId[k] # INVALID_SIM_ID BY <1>1, <1>12, <2>2
        <3>2. controller[k] = "ready" BY <1>1, <1>9, <1>12, <3>1 DEF ServiceInv, SlotsOK
        <3> QED BY <1>2, <2>2, <3>2
    <2> QED BY <2>1, <2>2
<1>13. "kept" \notin slips' => RouteOK' BY <1>12 DEF RouteOK
<1> QED BY <1>11, <1>13

(* No suppliers, and no slot that would have to have some. *)
LEMMA SupplyNone ==
    ASSUME suppliers' = {}, \A k \in Slots : ~Attentive(k)',
           \A j, k \in Slots : \A c \in Caps :
              j # k /\ netSuppliers'[j][c].simId # INVALID_SIM_ID
                 => netSuppliers'[j][c].simId # netSuppliers'[k][c].simId
    PROVE  SupplyOK'
<1> DEFINE a == Agent(queue)'
<1>1. a.net = {} /\ a.tab = netSuppliers' BY DEF Agent
<1> HIDE DEF a
<1>2. \A k \in Slots, c \in Caps : Ent(a, k, c) = netSuppliers'[k][c].simId /\ ~Live(a, k, c)
    BY <1>1 DEF Ent, Live
<1>3. Tabled(a) BY <1>1, <1>2 DEF Tabled
<1>4. Tabled(Agent(queue))' BY <1>3 DEF a
<1>5. \A k \in Slots : ~(\E c \in Caps : Live(Agent(queue)', k, c)) BY <1>2 DEF a
<1> QED BY <1>4, <1>5 DEF SupplyOK

LEMMA OnStartSupplies ==
    ASSUME ServiceInv, SupplyInv, OnStart
    PROVE  SupplyInv'
<1> SUFFICES ASSUME Supplying' PROVE SupplyOK' /\ ("kept" \notin slips' => RouteOK') BY DEF SupplyInv
<1>1. /\ controller' = [k \in Slots |-> "waiting"] /\ state \in {"created", "stopped"}
      /\ netSuppliers' = [k \in Slots |-> [c \in Caps |-> [NoSupplier EXCEPT !.listed = TRUE]]]
      /\ UNCHANGED <<sim, slotIdSimId, suppliers>> /\ slips \subseteq slips'
      /\ (\E k \in Slots : sim[k] = INVALID_SIM_ID /\ slotIdSimId[k] # INVALID_SIM_ID) => "kept" \in slips'
    BY DEF OnStart, InitModule, AddNetSupplier, coreVars, netVars
<1>2. suppliers' = {} BY <1>1 DEF Supplying, SupplyInv, SupplyOK, Serving
<1>3. \A k \in Slots : ~Attentive(k)' BY <1>1 DEF Attentive, Inited
<1>4. \A k \in Slots, c \in Caps : netSuppliers'[k][c].simId = INVALID_SIM_ID BY <1>1 DEF NoSupplier
<1>5. SupplyOK' BY <1>2, <1>3, <1>4, SupplyNone
<1>6. "kept" \notin slips' => RouteOK' BY <1>1 DEF RouteOK
<1> QED BY <1>5, <1>6

LEMMA CrashSupplies ==
    ASSUME ServiceInv, SupplyInv, Crash
    PROVE  SupplyInv'
<1>1. /\ state' = "dead" /\ suppliers' = {} /\ slotIdSimId' = [k \in Slots |-> INVALID_SIM_ID]
      /\ netSuppliers' = [k \in Slots |-> [c \in Caps |-> NoSupplier]]
    BY DEF Crash
<1>2. \A k \in Slots : ~Attentive(k)' BY <1>1 DEF Attentive, Serving
<1>3. \A k \in Slots, c \in Caps : netSuppliers'[k][c].simId = INVALID_SIM_ID BY <1>1 DEF NoSupplier
<1>4. SupplyOK' BY <1>1, <1>2, <1>3, SupplyNone
<1>5. RouteOK' BY <1>1 DEF RouteOK
<1> QED BY <1>4, <1>5 DEF SupplyInv

LEMMA OnStopSupplies ==
    ASSUME ServiceInv, SupplyInv, OnStop
    PROVE  SupplyInv'
<1> SUFFICES ASSUME Supplying' PROVE SupplyOK' /\ ("kept" \notin slips' => RouteOK') BY DEF SupplyInv
<1>1. state' = "stopped" /\ sim' = sim BY DEF OnStop, coreVars
<1>2. /\ netSuppliers' = [k \in Slots |-> [c \in Caps |-> NoSupplier]]
      /\ UNCHANGED <<slotIdSimId, queue, slips>> /\ suppliers' \subseteq suppliers
      /\ \A p \in suppliers' : \A k \in Slots : netSuppliers[k][p[2]].simId # p[1]
    BY OnStopDrops
<1>3. Supplying /\ SupplyOK /\ ("kept" \notin slips => RouteOK) BY <1>2 DEF Supplying, SupplyInv
<1>4. suppliers' = {}
    <2> DEFINE g == Agent(queue)
    <2>1. Tabled(g) /\ g.net = suppliers /\ g.tab = netSuppliers BY <1>3 DEF SupplyOK, Agent
    <2> HIDE DEF g
    <2>2. \A p \in suppliers : \E k \in Slots : netSuppliers[k][p[2]].simId = p[1]
        BY <2>1 DEF Tabled, Ent
    <2> QED BY <1>2, <2>2
<1>5. \A k \in Slots : ~Attentive(k)' BY <1>1 DEF Attentive, Serving
<1>6. \A k \in Slots, c \in Caps : netSuppliers'[k][c].simId = INVALID_SIM_ID BY <1>2 DEF NoSupplier
<1>7. SupplyOK' BY <1>4, <1>5, <1>6, SupplyNone
<1>8. \A j \in Slots : \A t : (Has(j, t))' <=> Has(j, t) BY <1>2 DEF Has
<1>9. RouteOK => RouteOK' BY <1>1, <1>2, <1>8 DEF RouteOK
<1> QED BY <1>2, <1>3, <1>7, <1>9

LEMMA NetManagerDiesSupplies ==
    ASSUME ServiceInv, SupplyInv, NetManagerDies
    PROVE  SupplyInv'
<1> SUFFICES ASSUME Supplying' PROVE SupplyOK' /\ ("kept" \notin slips' => RouteOK') BY DEF SupplyInv
<1>1. /\ netUp' = FALSE /\ suppliers' = {} /\ slips \subseteq slips'
      /\ UNCHANGED <<netSuppliers, slotIdSimId, sim, queue>>
    BY DEF NetManagerDies, agentVars, coreVars
<1>2. Supplying /\ SupplyOK /\ ("kept" \notin slips' => RouteOK) BY <1>1 DEF Supplying, SupplyInv
<1>3. \A k \in Slots : ~Attentive(k)' BY <1>1 DEF Attentive
<1>4. \A j, k \in Slots : \A c \in Caps :
         j # k /\ netSuppliers[j][c].simId # INVALID_SIM_ID
            => netSuppliers[j][c].simId # netSuppliers[k][c].simId
    <2> DEFINE g == Agent(queue)
    <2>1. Tabled(g) /\ g.tab = netSuppliers BY <1>2 DEF SupplyOK, Agent
    <2> HIDE DEF g
    <2> QED BY <2>1 DEF Tabled, Ent
<1>5. SupplyOK' BY <1>1, <1>3, <1>4, SupplyNone
<1>6. \A j \in Slots : \A t : (Has(j, t))' <=> Has(j, t) BY <1>1 DEF Has
<1>7. RouteOK => RouteOK' BY <1>1, <1>6 DEF RouteOK
<1> QED BY <1>2, <1>5, <1>7

LEMMA SupplyInvInit ==
    ASSUME Init
    PROVE  SupplyInv
<1> DEFINE g == Agent(queue)
<1>1. g.tab = netSuppliers /\ g.map = slotIdSimId /\ g.net = suppliers BY DEF Agent
<1>2. ServiceInv BY ServiceInvInit
<1> HIDE DEF g
<1>3. \A k \in Slots, c \in Caps : Ent(g, k, c) = netSuppliers[k][c].simId BY <1>1 DEF Ent
<1>4. CASE ServiceInit
    <2>1. /\ netSuppliers = [k \in Slots |-> [c \in Caps |-> NoSupplier]] /\ suppliers = {}
          /\ slotIdSimId = [k \in Slots |-> INVALID_SIM_ID] /\ state = "dead"
        BY <1>4 DEF ServiceInit
    <2>2. \A k \in Slots, c \in Caps : Ent(g, k, c) = INVALID_SIM_ID /\ ~Live(g, k, c)
        BY <1>3, <2>1 DEF NoSupplier, Live
    <2>3. Tabled(g) BY <1>1, <2>1, <2>2 DEF Tabled
    <2>4. \A k \in Slots : ~Attentive(k) BY <2>1 DEF Attentive, Serving
    <2>5. SupplyOK BY <2>1, <2>2, <2>3, <2>4 DEF SupplyOK, g
    <2>6. RouteOK BY <2>1 DEF RouteOK
    <2> QED BY <2>5, <2>6 DEF SupplyInv
<1>5. CASE AtRest
    <2>1. /\ netSuppliers = [k \in Slots |-> [c \in Caps |->
                               [simId |-> sim[k], supplierId |-> sim[k], listed |-> TRUE]]]
          /\ suppliers = {<<sim[k], c>> : k \in Slots \ {0}, c \in Caps}
          /\ slotIdSimId = sim /\ simId = sim /\ state = "running"
          /\ \A k \in Slots \ {0} : sim[k] = Card(k)
        BY <1>5 DEF AtRest
    <2>2. \A k \in Slots, c \in Caps : Ent(g, k, c) = sim[k] BY <1>3, <2>1
    <2>3. sim = [k \in Slots |-> IF k = 0 THEN INVALID_SIM_ID ELSE Card(k)] BY <1>5 DEF AtRest
    <2>4. \A k \in Slots : sim[k] # INVALID_SIM_ID => k \in Slots \ {0} BY <2>3
    <2>5. \A j, k \in Slots : j # k /\ sim[j] # INVALID_SIM_ID => sim[j] # sim[k]
        BY <1>2 DEF ServiceInv, CardsOK
    <2>6. \A p \in suppliers : \E k \in Slots : p[1] = sim[k] /\ p[2] \in Caps BY <2>1
    <2>7. \A k \in Slots : \A c \in Caps : sim[k] # INVALID_SIM_ID => <<sim[k], c>> \in suppliers
        BY <2>1, <2>4
    <2>8. \A k \in Slots, c \in Caps : Live(g, k, c) <=> sim[k] # INVALID_SIM_ID
        BY <1>1, <2>2, <2>7 DEF Live
    <2>9. Tabled(g) BY <1>1, <2>1, <2>2, <2>5, <2>6 DEF Tabled
    <2>10. \A k \in Slots : Attentive(k) => Holds(g, k)
        BY <1>1, <2>1, <2>2, <2>8 DEF Attentive, Holds
    <2>11. Serving BY <2>1 DEF Serving
    <2>12. SupplyOK BY <2>8, <2>9, <2>10, <2>11 DEF SupplyOK, g
    <2>13. RouteOK BY <2>1 DEF RouteOK
    <2> QED BY <2>12, <2>13 DEF SupplyInv
<1> QED BY <1>4, <1>5 DEF Init

LEMMA SupplyInvNext ==
    ASSUME ServiceInv, SupplyInv, [Next]_vars
    PROVE  SupplyInv'
<1>1. CASE StartStep BY <1>1, OnStartSupplies, StartSupplies DEF StartStep
<1>2. CASE EnvironmentStep
    BY <1>2, OnStopSupplies, NetManagerDiesSupplies, DataShareSupplies, SimInsertedSupplies, RequestSupplies
       DEF EnvironmentStep
<1>3. CASE NetManagerStarts BY <1>3, NetManagerStartsSupplies
<1>4. CASE \E k \in Slots : HandlerStep(k) \/ AbilityStep(k)
    BY <1>4, StateChangedSupplies, MsgRequestSupplies, AccountLoadedSupplies, RetrySupplies, AbilitySupplies
       DEF HandlerStep, AbilityStep
<1>5. CASE \E k \in Slots : AccountStep(k) BY <1>5, SimIdLoadedSupplies DEF AccountStep
<1>6. CASE \E k \in Slots : SimRemoved(k) BY <1>6, SimRemovedSupplies
<1>7. CASE ProcessDies BY <1>7, CrashSupplies DEF ProcessDies
<1>8. CASE \/ UpdateStep \/ UNCHANGED vars
           \/ \E e \in deaths : OnRemoteDied(e)
           \/ \E k \in Slots : DefaultSlotChanges(k)
           \/ \E api \in Apis, who \in Callers, k \in Slots \cup {INVALID_SLOT}, ok \in BOOLEAN :
                 Invoke(api, who, k, ok)
           \/ CallStep
    <2>1. Bystands BY <1>8, OthersBystand, CallBystands
    <2> QED BY <2>1, BystanderSupplies
<1> QED BY <1>1, <1>2, <1>3, <1>4, <1>5, <1>6, <1>7, <1>8 DEF Next

LEMMA SuppliersFollow ==
    ASSUME ServiceInv, SupplyInv
    PROVE  SuppliersFollowSims
<1> SUFFICES ASSUME Quiet, Supplying
             PROVE  /\ suppliers = {<<sim[k], c>> : k \in {j \in Slots : sim[j] # INVALID_SIM_ID}, c \in Caps}
                    /\ "kept" \notin slips =>
                         \A k \in Slots : sim[k] # INVALID_SIM_ID => GetSlotId(slotIdSimId, sim[k]) = k
    BY DEF SuppliersFollowSims, Supplying
<1> DEFINE g == Agent(queue)
<1>1. g.tab = netSuppliers /\ g.map = slotIdSimId /\ g.net = suppliers BY DEF Agent
<1>2. SupplyOK /\ ("kept" \notin slips => RouteOK) BY DEF SupplyInv
<1>3. /\ Tabled(g) /\ \A k \in Slots : Attentive(k) => Holds(g, k)
      /\ \A k \in Slots : sim[k] = INVALID_SIM_ID /\ (\E c \in Caps : Live(g, k, c)) => Has(k, "SIM_STATE")
    BY <1>2 DEF SupplyOK
<1> HIDE DEF g
<1>4. \A k \in Slots : \A t : ~Has(k, t) BY DEF Quiet, Has
<1>5. \A k \in Slots : sim[k] # INVALID_SIM_ID => Attentive(k)
    BY <1>4 DEF Quiet, Attentive, Serving, Inited
<1>6. \A k \in Slots : sim[k] # INVALID_SIM_ID => Holds(g, k) BY <1>3, <1>5
<1>7. \A k \in Slots : sim[k] = INVALID_SIM_ID => \A c \in Caps : ~Live(g, k, c) BY <1>3, <1>4
<1>8. suppliers \subseteq Sims \X Caps /\ simId = sim BY ServiceTypes DEF Quiet
<1>9. INVALID_SIM_ID \notin Sims BY ServiceAssumption DEF INVALID_SIM_ID
<1>10. ASSUME NEW p \in suppliers
       PROVE  \E k \in {j \in Slots : sim[j] # INVALID_SIM_ID}, c \in Caps : p = <<sim[k], c>>
    <2>1. p[1] \in Sims /\ p[2] \in Caps /\ p = <<p[1], p[2]>> BY <1>8
    <2>2. PICK k \in Slots : Ent(g, k, p[2]) = p[1] BY <1>1, <1>3 DEF Tabled
    <2>3. Live(g, k, p[2]) BY <1>1, <1>9, <2>1, <2>2 DEF Live
    <2>4. sim[k] # INVALID_SIM_ID BY <1>7, <2>1, <2>3
    <2>5. Ent(g, k, p[2]) = sim[k] BY <1>6, <1>8, <2>1, <2>4 DEF Holds
    <2> QED BY <2>1, <2>2, <2>4, <2>5
<1>11. ASSUME NEW k \in Slots, NEW c \in Caps, sim[k] # INVALID_SIM_ID PROVE <<sim[k], c>> \in suppliers
    <2>1. Live(g, k, c) /\ Ent(g, k, c) = sim[k] BY <1>6, <1>8, <1>11 DEF Holds
    <2> QED BY <1>1, <2>1 DEF Live
<1>12. suppliers = {<<sim[k], c>> : k \in {j \in Slots : sim[j] # INVALID_SIM_ID}, c \in Caps}
    BY <1>10, <1>11
<1>13. ASSUME "kept" \notin slips, NEW k \in Slots, sim[k] # INVALID_SIM_ID
       PROVE  GetSlotId(slotIdSimId, sim[k]) = k
    <2>1. slotIdSimId \in [Slots -> SimIds] /\ sim[k] \in Sims BY <1>13, ServiceTypes DEF SimIds
    <2>2. slotIdSimId[k] = sim[k] BY <1>1, <1>6, <1>8, <1>13 DEF Holds
    <2>3. ASSUME NEW j \in Slots, j # k, slotIdSimId[j] = sim[k] PROVE FALSE
        <3>1. CASE sim[j] = INVALID_SIM_ID BY <1>2, <1>4, <1>13, <2>3, <3>1 DEF RouteOK
        <3>2. CASE sim[j] # INVALID_SIM_ID
            <4>1. slotIdSimId[j] = sim[j] BY <1>1, <1>6, <1>8, <3>2 DEF Holds
            <4> QED BY <1>13, <2>3, <4>1 DEF ServiceInv, CardsOK
        <3> QED BY <3>1, <3>2
    <2>4. \A j \in Slots : j < k => j # k BY Numbers
    <2>5. Leads(slotIdSimId, sim[k], k) BY <2>2, <2>3, <2>4 DEF Leads
    <2> QED BY <2>1, <2>5, RouteLeads
<1> QED BY <1>12, <1>13

(* At rest the net manager has the suppliers of the cards that are in, no others, and
   finds the slot of each by its card: SuppliersFollowSims, however often cards, the
   net manager, the service and its process have come and gone, for every number of
   slots, cards and capabilities and every budget. *)
THEOREM SuppliersAlwaysFollow == Spec => []SuppliersFollowSims
<1> DEFINE I == CallInv /\ CacheInv /\ ServiceInv /\ SupplyInv
<1>1. Init => I BY CallInvInit, CacheInvInit, ServiceInvInit, SupplyInvInit
<1>2. I /\ [Next]_vars => I'
    <2> SUFFICES ASSUME I, [Next]_vars PROVE I' OBVIOUS
    <2>1. CallInv' /\ CacheInv' BY CallInvNext, CacheInvNext
    <2>2. defaultSlot' \in Slots BY <2>1 DEF CacheInv, LinkTypeOK
    <2>3. ServiceInv' BY <2>2, ServiceInvNext
    <2>4. SupplyInv' BY SupplyInvNext
    <2> QED BY <2>1, <2>3, <2>4
<1>3. I => SuppliersFollowSims BY SuppliersFollow
<1> QED BY <1>1, <1>2, <1>3, PTL DEF Spec

-----------------------------------------------------------------------------
(* Types.  A value has the type of the cache it is on its way to.          *)

Outcomes == {"none", "done", "not done", "value", "error"}

CallTyped ==
    /\ call.done \in 0 .. 1 /\ call.outcome \in Outcomes /\ call.otherwise \in Outcomes
    /\ call.pc = "reply" /\ call.method # "none" =>
         call.value \in IF call.method = "GetDefaultCellularDataSimId" THEN SimIds ELSE Slots
    /\ call.pc = "simReply" => call.value \in SimIds

CacheTyped ==
    /\ cacheSlot \in Slots \cup {INVALID_SLOT} /\ cacheSim \in SimIds /\ registered \in BOOLEAN
    /\ update.pc = "slotReply" => update.value \in Slots
    /\ update.pc = "simReply" => update.value \in SimIds

LEMMA SettlesTyped ==
    ASSUME NEW api, NEW code
    PROVE  Settles(api, code) \in Outcomes
<1>1. CASE code = "SUCCESS" BY <1>1 DEF Settles, Outcomes
<1>2. CASE code # "SUCCESS" BY <1>2 DEF Settles, Outcomes
<1> QED BY <1>1, <1>2

LEMMA SettledTyped ==
    ASSUME NEW api, NEW code, NEW done \in 0 .. 1, call' = Settled(api, code, done)
    PROVE  CallTyped'
<1>1. Settles(api, code) \in Outcomes BY SettlesTyped
<1>2. /\ call'.pc = "settled" /\ call'.done = done /\ call'.outcome = Settles(api, code)
      /\ call'.otherwise = "none"
    BY DEF Settled, Idle
<1> QED BY <1>1, <1>2 DEF CallTyped, Outcomes

LEMMA RequestTyped ==
    ASSUME LinkTypeOK, defaultSlot' \in Slots, NEW api, NEW who, NEW k, NEW ok \in BOOLEAN,
           Request(api, who, k, ok)
    PROVE  CallTyped'
<1>1. CASE ~Answers(GetProxy)
    <2>1. call' = Settled(api, "IPC", 0) BY <1>1 DEF Request
    <2>2. 0 \in 0 .. 1 OBVIOUS
    <2> QED BY <2>1, <2>2, SettledTyped
<1>2. CASE Answers(GetProxy)
    <2> DEFINE checked == Execute(api, who, k)
               does == checked = "SUCCESS" /\ api.sets
               code == IF does /\ ~ok THEN "FAIL" ELSE checked
               done == IF does /\ ok THEN 1 ELSE 0
               v == IF api.method = "GetDefaultCellularDataSimId" THEN simId[defaultSlot] ELSE defaultSlot'
    <2>1. done \in 0 .. 1 OBVIOUS
    <2>2. \/ call' = [Idle EXCEPT !.pc = "reply", !.remote = GetProxy, !.code = code,
                                  !.outcome = Settles(api, code), !.done = done,
                                  !.otherwise = Settles(api, "IPC")]
          \/ call' = [Idle EXCEPT !.pc = "reply", !.method = api.method, !.remote = GetProxy,
                                  !.code = code, !.done = done,
                                  !.otherwise = Settles(api, "IPC"), !.value = v]
        BY <1>2 DEF Request
    <2>3. Settles(api, code) \in Outcomes /\ Settles(api, "IPC") \in Outcomes BY SettlesTyped
    <2>4. v \in IF api.method = "GetDefaultCellularDataSimId" THEN SimIds ELSE Slots BY DEF LinkTypeOK
    <2> HIDE DEF code, done, v
    <2>5. CASE call' = [Idle EXCEPT !.pc = "reply", !.remote = GetProxy, !.code = code,
                                  !.outcome = Settles(api, code), !.done = done,
                                  !.otherwise = Settles(api, "IPC")]
        <3>1. /\ call'.pc = "reply" /\ call'.method = "none" /\ call'.done = done
              /\ call'.outcome = Settles(api, code) /\ call'.otherwise = Settles(api, "IPC")
            BY <2>5 DEF Idle
        <3> QED BY <2>1, <2>3, <3>1 DEF CallTyped
    <2>6. CASE call' = [Idle EXCEPT !.pc = "reply", !.method = api.method, !.remote = GetProxy,
                                  !.code = code, !.done = done,
                                  !.otherwise = Settles(api, "IPC"), !.value = v]
        <3>1. /\ call'.pc = "reply" /\ call'.method = api.method /\ call'.done = done
              /\ call'.outcome = "none" /\ call'.otherwise = Settles(api, "IPC") /\ call'.value = v
            BY <2>6 DEF Idle
        <3>2. "none" \in Outcomes BY DEF Outcomes
        <3> QED BY <2>1, <2>3, <2>4, <3>1, <3>2 DEF CallTyped
    <2> QED BY <2>2, <2>5, <2>6
<1> QED BY <1>1, <1>2

LEMMA InvokeTyped ==
    ASSUME LinkTypeOK, defaultSlot' \in Slots, NEW api, NEW who, NEW k, NEW ok \in BOOLEAN,
           Invoke(api, who, k, ok)
    PROVE  CallTyped'
<1> DEFINE valid == api.slotted => k \in Slots
<1>1. CASE ~valid \/ (api.probes /\ GetProxy = 0)
    <2>1. call' = Settled(api, "UNAVAILABLE", 0) BY <1>1 DEF Invoke
    <2>2. 0 \in 0 .. 1 OBVIOUS
    <2> QED BY <2>1, <2>2, SettledTyped
<1>2. CASE valid /\ api \in Keepers /\ (api.probes => GetProxy # 0)
    <2>1. call' = [Idle EXCEPT !.pc = "register", !.method = api.method, !.who = who, !.slot = k]
        BY <1>2 DEF Invoke
    <2> QED BY <2>1 DEF Idle, CallTyped, Outcomes
<1>3. CASE /\ ~(~valid \/ (api.probes /\ GetProxy = 0))
           /\ ~(valid /\ api \in Keepers /\ (api.probes => GetProxy # 0))
    <2>1. Request(api, who, k, ok) BY <1>3 DEF Invoke
    <2> QED BY <2>1, RequestTyped
<1> QED BY <1>1, <1>2, <1>3

LEMMA CallStepTyped ==
    ASSUME CallTypeOK, LinkTypeOK, defaultSlot' \in Slots, CallTyped, CallStep
    PROVE  CallTyped'
<1>1. CASE Registered
    BY <1>1 DEF Registered, Goes, CallTypeOK, CallTyped, CallFields
<1>2. CASE ReadsCache
    <2>1. \/ call' = SettledWith("SUCCESS") \/ call' = [call EXCEPT !.pc = "send"]
        BY <1>2 DEF ReadsCache
    <2>2. call.done \in 0 .. 1 BY DEF CallTyped
    <2>3. CASE call' = [call EXCEPT !.pc = "send"] BY <2>3 DEF CallTypeOK, CallTyped, CallFields
    <2> QED BY <2>1, <2>2, <2>3, SettledTyped DEF SettledWith
<1>3. CASE AsksSim
    <2>1. call.done \in 0 .. 1 BY DEF CallTyped
    <2>2. CASE call' = SettledWith("SUCCESS") BY <2>1, <2>2, SettledTyped DEF SettledWith
    <2>3. CASE call' = [call EXCEPT !.pc = "simReply", !.value = simId[defaultSlot], !.fresh = TRUE]
        <3> DEFINE v == simId[defaultSlot]
        <3>1. v \in SimIds BY DEF LinkTypeOK
        <3> HIDE DEF v
        <3>2. call' = [call EXCEPT !.pc = "simReply", !.value = v, !.fresh = TRUE] BY <2>3 DEF v
        <3> QED BY <3>1, <3>2 DEF CallTypeOK, CallTyped, CallFields
    <2> QED BY <1>3, <2>2, <2>3 DEF AsksSim
<1>4. ASSUME NEW ok \in BOOLEAN, RegisterSimAccountCallback(ok) PROVE CallTyped'
    <2>1. PICK pc \in {"registering", "cache"} : call' = [call EXCEPT !.pc = pc]
        BY <1>4 DEF RegisterSimAccountCallback, Goes
    <2> QED BY <2>1 DEF CallTypeOK, CallTyped, CallFields
<1>5. ASSUME NEW ok \in BOOLEAN, Send(ok) PROVE CallTyped'
    BY <1>5, RequestTyped DEF Send
<1>6. ASSUME NEW ok \in BOOLEAN, Reply(ok) PROVE CallTyped'
    <2>1. call.done \in 0 .. 1 BY DEF CallTyped
    <2>2. \/ call' = [call EXCEPT !.pc = "simSend"] \/ call' = SettledWith("SUCCESS")
          \/ call' = [Idle EXCEPT !.pc = "settled", !.done = call.done, !.lost = ~ok,
                                  !.outcome = IF ok THEN call.outcome ELSE call.otherwise]
        BY <1>6 DEF Reply
    <2>3. CASE call' = [call EXCEPT !.pc = "simSend"] BY <2>3 DEF CallTypeOK, CallTyped, CallFields
    <2>4. CASE call' = SettledWith("SUCCESS") BY <2>1, <2>4, SettledTyped DEF SettledWith
    <2>5. CASE call' = [Idle EXCEPT !.pc = "settled", !.done = call.done, !.lost = ~ok,
                                  !.outcome = IF ok THEN call.outcome ELSE call.otherwise]
        <3>1. /\ call'.pc = "settled" /\ call'.done = call.done /\ call'.otherwise = "none"
              /\ call'.outcome = IF ok THEN call.outcome ELSE call.otherwise
            BY <2>5 DEF Idle
        <3>2. "none" \in Outcomes BY DEF Outcomes
        <3>3. call'.outcome \in Outcomes BY <3>1 DEF CallTyped
        <3> QED BY <2>1, <3>1, <3>2, <3>3 DEF CallTyped
    <2> QED BY <2>2, <2>3, <2>4, <2>5
<1>7. ASSUME NEW ok \in BOOLEAN, SimReply(ok) PROVE CallTyped'
    <2>1. call.done \in 0 .. 1 /\ call' = SettledWith("SUCCESS") BY <1>7 DEF SimReply, CallTyped
    <2> QED BY <2>1, SettledTyped DEF SettledWith
<1> QED BY <1>1, <1>2, <1>3, <1>4, <1>5, <1>6, <1>7 DEF CallStep

LEMMA CallTypedNext ==
    ASSUME CallTypeOK, LinkTypeOK, defaultSlot' \in Slots, CallTyped, [Next]_vars
    PROVE  CallTyped'
<1>1. CASE UNCHANGED call BY <1>1 DEF CallTyped
<1>2. CASE \E b : call' = [call EXCEPT !.fresh = b]
    BY <1>2 DEF CallTypeOK, CallTyped, CallFields
<1>3. CASE CallStep BY <1>3, CallStepTyped
<1>4. CASE \E api \in Apis, who \in Callers, k \in Slots \cup {INVALID_SLOT}, ok \in BOOLEAN :
              Invoke(api, who, k, ok)
    BY <1>4, InvokeTyped
<1>5. CASE UNCHANGED clientVars BY <1>1, <1>5 DEF clientVars
<1>6. CASE Notified BY <1>1, <1>6 DEF Notified
<1>7. CASE ProcessDies BY <1>1, <1>7 DEF ProcessDies
<1>8. CASE \E e \in deaths : OnRemoteDied(e)
    <2>1. PICK e \in deaths : OnRemoteDied(e) BY <1>8
    <2>2. UNCHANGED call \/ call' = [call EXCEPT !.fresh = (call.value = INVALID_SLOT)]
        BY <2>1 DEF OnRemoteDied
    <2> QED BY <1>1, <1>2, <2>2
<1>9. CASE UpdateStep
    <2>1. UNCHANGED call \/ call' = [call EXCEPT !.fresh = (call.value = INVALID_SLOT)]
        BY <1>9 DEF UpdateStep, UpdateDefaultCellularDataSlotId, UpdateAsks, UpdateStores
    <2> QED BY <1>1, <1>2, <2>1
<1>10. CASE UNCHANGED vars BY <1>5, <1>10 DEF vars
<1> QED BY <1>3, <1>4, <1>5, <1>6, <1>7, <1>8, <1>9, <1>10 DEF Next

LEMMA CacheTypedNext ==
    ASSUME LinkTypeOK, CallTyped, CacheTyped, [Next]_vars
    PROVE  CacheTyped'
<1>0. INVALID_SIM_ID \in SimIds BY DEF SimIds
<1>1. CASE UNCHANGED <<cacheSlot, cacheSim, registered, update>> BY <1>1 DEF CacheTyped
<1>2. CASE CallStep
    <2>1. UNCHANGED update
        BY <1>2 DEF CallStep, Registered, ReadsCache, AsksSim, RegisterSimAccountCallback, Send, Reply, SimReply
    <2>2. CASE Registered BY <2>1, <2>2 DEF Registered, CacheTyped
    <2>3. ASSUME NEW ok \in BOOLEAN, Reply(ok) PROVE CacheTyped'
        <3>1. /\ UNCHANGED registered
              /\ cacheSlot' = cacheSlot \/ (cacheSlot' = call.value /\ call.pc = "reply" /\ call.method # "none"
                                              /\ call.method # "GetDefaultCellularDataSimId")
              /\ cacheSim' = cacheSim \/ (cacheSim' = call.value /\ call.pc = "reply" /\ call.method # "none"
                                              /\ call.method = "GetDefaultCellularDataSimId")
            BY <2>3 DEF Reply
        <3> QED BY <2>1, <3>1 DEF CacheTyped, CallTyped
    <2>4. ASSUME NEW ok \in BOOLEAN, SimReply(ok) PROVE CacheTyped'
        <3>1. /\ UNCHANGED <<registered, cacheSlot>>
              /\ cacheSim' = cacheSim \/ (cacheSim' = call.value /\ call.pc = "simReply")
            BY <2>4 DEF SimReply
        <3> QED BY <2>1, <3>1 DEF CacheTyped, CallTyped
    <2> QED BY <1>1, <1>2, <2>2, <2>3, <2>4
            DEF CallStep, ReadsCache, AsksSim, RegisterSimAccountCallback, Send
<1>3. CASE \E api \in Apis, who \in Callers, k \in Slots \cup {INVALID_SLOT}, ok \in BOOLEAN :
              Invoke(api, who, k, ok)
    BY <1>1, <1>3 DEF Invoke
<1>4. CASE UNCHANGED clientVars BY <1>1, <1>4 DEF clientVars
<1>5. CASE Notified BY <1>1, <1>5 DEF Notified
<1>6. CASE ProcessDies BY <1>1, <1>6 DEF ProcessDies
<1>7. CASE \E e \in deaths : OnRemoteDied(e) BY <1>0, <1>7 DEF OnRemoteDied, CacheTyped
<1>8. CASE UpdateDefaultCellularDataSlotId
    <2>1. UNCHANGED registered /\ cacheSlot' = INVALID_SLOT /\ cacheSim' = INVALID_SIM_ID
        BY <1>8 DEF UpdateDefaultCellularDataSlotId
    <2>2. update' = update \/ update' = [update EXCEPT !.pc = "slot", !.remote = GetProxy]
        BY <1>8 DEF UpdateDefaultCellularDataSlotId
    <2>3. update' = update \/ update'.pc = "slot" BY <2>2 DEF LinkTypeOK
    <2> QED BY <1>0, <2>1, <2>3 DEF CacheTyped
<1>9. CASE UpdateAsks
    <2> DEFINE v == IF update.pc = "slot" THEN defaultSlot ELSE simId[defaultSlot]
    <2>1. /\ UNCHANGED <<registered, cacheSlot, cacheSim>>
          /\ \/ update' = [update EXCEPT !.pc = "sim"] \/ update' = Resting
             \/ update' = [update EXCEPT !.pc = IF update.pc = "slot" THEN "slotReply" ELSE "simReply",
                                         !.value = v]
        BY <1>9 DEF UpdateAsks
    <2>2. update.pc = "slot" => v \in Slots BY DEF LinkTypeOK
    <2>3. update.pc # "slot" => v \in SimIds BY DEF LinkTypeOK
    <2> HIDE DEF v
    <2>4. \/ update'.pc = "sim" \/ update'.pc = "idle"
          \/ update'.pc = "slotReply" /\ update'.value \in Slots
          \/ update'.pc = "simReply" /\ update'.value \in SimIds
        <3>1. CASE update' = [update EXCEPT !.pc = "sim"] BY <3>1 DEF LinkTypeOK
        <3>2. CASE update' = Resting BY <3>2 DEF Resting
        <3>3. CASE update' = [update EXCEPT !.pc = IF update.pc = "slot" THEN "slotReply" ELSE "simReply",
                                            !.value = v]
            <4>1. update'.pc = (IF update.pc = "slot" THEN "slotReply" ELSE "simReply") /\ update'.value = v
                BY <3>3 DEF LinkTypeOK
            <4> QED BY <2>2, <2>3, <4>1
        <3> QED BY <2>1, <3>1, <3>2, <3>3
    <2> QED BY <2>1, <2>4 DEF CacheTyped
<1>10. ASSUME NEW arrived \in BOOLEAN, UpdateStores(arrived) PROVE CacheTyped'
    <2>1. /\ UNCHANGED registered
          /\ cacheSlot' = cacheSlot \/ (cacheSlot' = update.value /\ update.pc = "slotReply")
          /\ cacheSim' = cacheSim \/ (cacheSim' = update.value /\ update.pc = "simReply")
          /\ update' = [update EXCEPT !.pc = "sim"] \/ update' = Resting
        BY <1>10 DEF UpdateStores
    <2>2. update'.pc = "sim" \/ update'.pc = "idle" BY <2>1 DEF LinkTypeOK, Resting
    <2> QED BY <2>1, <2>2 DEF CacheTyped
<1>11. CASE UNCHANGED vars BY <1>4, <1>11 DEF vars
<1> QED BY <1>2, <1>3, <1>4, <1>5, <1>6, <1>7, <1>8, <1>9, <1>10, <1>11 DEF Next, UpdateStep

LEMMA TypesOf ==
    ASSUME CallInv, CacheInv, ServiceInv, CallTyped, CacheTyped
    PROVE  TypeOK
<1>1. Booked(Agent(queue)) /\ queue \in [Slots -> Seq(Events)] BY ServiceTypes DEF ServiceInv, ServiceTyped
<1>2. netSuppliers \in [Slots -> [Caps -> [simId : SimIds, supplierId : SimIds, listed : BOOLEAN]]]
    BY <1>1, ServiceTypes DEF Booked, Agents, Agent, Entries
<1>3. \A k \in Slots : \A i \in DOMAIN queue[k] : queue[k][i] \in Events BY <1>1
<1>4. ServiceTypeOK
    BY <1>2, <1>3, ServiceTypes DEF ServiceInv, ServiceTyped, ServiceTypeOK, Events, EventTypes, Slips
<1>5. \A e \in deaths : e \in 1 .. epoch BY DEF CacheInv, LinkOK
<1>6. update.pc \in {"idle", "slot", "slotReply", "sim", "simReply"} BY DEF CacheInv, LinkTypeOK
<1> QED BY <1>4, <1>5, <1>6 DEF TypeOK, CallInv, CallTypeOK, CacheInv, LinkTypeOK, CallTyped, CacheTyped, Outcomes

(* Every variable of the service, of its threads and of the application has a value that the
   code can give it, however long they run: TypeOK for every number of slots, cards and
   capabilities, every set of functions and every budget.  That a timer never has more than
   LOAD_RETRY_TIMES attempts left, or that the callback never caches a card as a slot, is part
   of it. *)
THEOREM ClientTypeCorrect == Spec => []TypeOK
<1> DEFINE I == CallInv /\ CacheInv /\ ServiceInv /\ CallTyped /\ CacheTyped
<1>1. Init => I
    <2> SUFFICES ASSUME Init PROVE I OBVIOUS
    <2>1. CallInv /\ CacheInv /\ ServiceInv BY CallInvInit, CacheInvInit, ServiceInvInit
    <2>2. CallTyped BY DEF Init, Idle, CallTyped, Outcomes
    <2>3. CacheTyped BY DEF Init, Resting, CacheTyped, SimIds
    <2> QED BY <2>1, <2>2, <2>3
<1>2. I /\ [Next]_vars => I'
    <2> SUFFICES ASSUME I, [Next]_vars PROVE I' OBVIOUS
    <2>1. CallInv' /\ CacheInv' BY CallInvNext, CacheInvNext
    <2>2. defaultSlot' \in Slots BY <2>1 DEF CacheInv, LinkTypeOK
    <2>3. ServiceInv' BY <2>2, ServiceInvNext
    <2>4. CallTypeOK /\ LinkTypeOK BY DEF CallInv, CacheInv
    <2>5. CallTyped' /\ CacheTyped' BY <2>2, <2>4, CallTypedNext, CacheTypedNext
    <2> QED BY <2>1, <2>3, <2>5
<1>3. I => TypeOK BY TypesOf
<1> QED BY <1>1, <1>2, <1>3, PTL DEF Spec

-----------------------------------------------------------------------------
(* Requests.                                                               *)

Tells(x, type, c) == x.type = type /\ x.cap = c

\* What a holder will be enabled for when the events e are taken: the last one decides.
Fin(e, w, c) ==
    \/ \E i \in DOMAIN e : /\ Tells(e[i], "REQUEST", c)
                           /\ \A j \in DOMAIN e : j > i => ~Tells(e[j], "RELEASE", c)
    \/ c \in w /\ \A j \in DOMAIN e : ~Tells(e[j], "RELEASE", c)

\* A request comes after a change of the card.
Overrun(e) == \E a, b \in DOMAIN e : a < b /\ e[a].type = "SIM_STATE" /\ e[b].type = "REQUEST"

LEMMA FinAppend ==
    ASSUME NEW e \in Seq(Events), NEW d \in Seq(Events), NEW w, NEW c
    PROVE  /\ (\A i \in DOMAIN d : ~Tells(d[i], "REQUEST", c) /\ ~Tells(d[i], "RELEASE", c))
                => (Fin(e \o d, w, c) <=> Fin(e, w, c))
           /\ (\E i \in DOMAIN d : Tells(d[i], "REQUEST", c)) /\ (\A i \in DOMAIN d : d[i].type = "REQUEST")
                => Fin(e \o d, w, c)
           /\ (\E i \in DOMAIN d : Tells(d[i], "RELEASE", c)) /\ (\A i \in DOMAIN d : d[i].type = "RELEASE")
                => ~Fin(e \o d, w, c)
<1> DEFINE f == e \o d
           n == Len(e)
           m == Len(d)
<1>1. /\ f \in Seq(Events) /\ Len(f) = n + m /\ n \in Nat /\ m \in Nat
      /\ \A i \in 1 .. Len(f) : f[i] = IF i <= n THEN e[i] ELSE d[i - n]
    BY ConcatProperties
<1>2. DOMAIN f = 1 .. (n + m) /\ DOMAIN e = 1 .. n /\ DOMAIN d = 1 .. m BY <1>1
<1> HIDE DEF f, n, m
<1>3. \A i \in DOMAIN e : i \in DOMAIN f /\ f[i] = e[i] BY <1>1, <1>2
<1>4. \A i \in DOMAIN d : n + i \in DOMAIN f /\ f[n + i] = d[i] BY <1>1, <1>2
<1>5. \A i \in DOMAIN f : \/ i \in DOMAIN e /\ f[i] = e[i]
                          \/ i > n /\ i - n \in DOMAIN d /\ f[i] = d[i - n]
    BY <1>1, <1>2
<1>6. ASSUME \A i \in DOMAIN d : ~Tells(d[i], "REQUEST", c) /\ ~Tells(d[i], "RELEASE", c)
      PROVE  Fin(f, w, c) <=> Fin(e, w, c)
    <2>1. \A i \in DOMAIN f : Tells(f[i], "REQUEST", c) => i \in DOMAIN e /\ Tells(e[i], "REQUEST", c)
        BY <1>5, <1>6
    <2>2. \A i \in DOMAIN f : Tells(f[i], "RELEASE", c) => i \in DOMAIN e /\ Tells(e[i], "RELEASE", c)
        BY <1>5, <1>6
    <2>3. \A i \in DOMAIN e : /\ i \in DOMAIN f
                              /\ Tells(e[i], "REQUEST", c) <=> Tells(f[i], "REQUEST", c)
                              /\ Tells(e[i], "RELEASE", c) <=> Tells(f[i], "RELEASE", c)
        BY <1>3
    <2>4. ASSUME Fin(f, w, c) PROVE Fin(e, w, c) BY <2>1, <2>2, <2>3, <2>4 DEF Fin
    <2>5. ASSUME Fin(e, w, c) PROVE Fin(f, w, c) BY <2>1, <2>2, <2>3, <2>5 DEF Fin
    <2> QED BY <2>4, <2>5
<1>7. ASSUME NEW i \in DOMAIN d, Tells(d[i], "REQUEST", c), \A k \in DOMAIN d : d[k].type = "REQUEST"
      PROVE  Fin(f, w, c)
    <2>1. n + i \in DOMAIN f /\ Tells(f[n + i], "REQUEST", c) BY <1>4, <1>7
    <2>2. ASSUME NEW j \in DOMAIN f, j > n + i PROVE ~Tells(f[j], "RELEASE", c)
        <3>1. j > n BY <1>1, <1>2, <1>7, <2>2
        <3>2. j - n \in DOMAIN d /\ f[j] = d[j - n] BY <1>1, <1>2, <1>5, <2>2, <3>1
        <3> QED BY <1>7, <3>2 DEF Tells
    <2> QED BY <2>1, <2>2 DEF Fin
<1>8. ASSUME NEW i \in DOMAIN d, Tells(d[i], "RELEASE", c), \A k \in DOMAIN d : d[k].type = "RELEASE"
      PROVE  ~Fin(f, w, c)
    <2>1. n + i \in DOMAIN f /\ Tells(f[n + i], "RELEASE", c) BY <1>4, <1>8
    <2>2. ASSUME NEW j \in DOMAIN f, Tells(f[j], "REQUEST", c) PROVE n + i > j
        <3>1. j \in DOMAIN e BY <1>5, <1>8, <2>2 DEF Tells
        <3> QED BY <1>1, <1>2, <1>8, <3>1
    <2> QED BY <2>1, <2>2 DEF Fin
<1> QED BY <1>6, <1>7, <1>8 DEF f

LEMMA FinTail ==
    ASSUME NEW e \in Seq(Events), e # <<>>, NEW w, NEW v, NEW c,
           c \in v <=> \/ Tells(Head(e), "REQUEST", c)
                       \/ c \in w /\ ~Tells(Head(e), "RELEASE", c)
    PROVE  Fin(Tail(e), v, c) <=> Fin(e, w, c)
<1> DEFINE f == Tail(e)
           n == Len(e)
<1>1. /\ f \in Seq(Events) /\ Head(e) = e[1] /\ n \in Nat \ {0} /\ DOMAIN e = 1 .. n
      /\ DOMAIN f = 1 .. (n - 1) /\ \A i \in 1 .. (n - 1) : f[i] = e[i + 1]
    OBVIOUS
<1> HIDE DEF f, n
<1>2. \A i \in DOMAIN f : i + 1 \in DOMAIN e /\ f[i] = e[i + 1] BY <1>1
<1>3. \A i \in DOMAIN e : i = 1 \/ (i > 1 /\ i - 1 \in DOMAIN f /\ e[i] = f[i - 1]) BY <1>1
<1>4. 1 \in DOMAIN e BY <1>1
<1>5. ASSUME Fin(f, v, c) PROVE Fin(e, w, c)
    <2>1. ASSUME NEW i \in DOMAIN f, Tells(f[i], "REQUEST", c),
                 \A j \in DOMAIN f : j > i => ~Tells(f[j], "RELEASE", c)
          PROVE  Fin(e, w, c)
        <3>1. i + 1 \in DOMAIN e /\ Tells(e[i + 1], "REQUEST", c) BY <1>2, <2>1
        <3>2. ASSUME NEW j \in DOMAIN e, j > i + 1 PROVE ~Tells(e[j], "RELEASE", c)
            <4>1. j - 1 \in DOMAIN f /\ j - 1 > i /\ e[j] = f[j - 1] BY <1>1, <1>3, <2>1, <3>2
            <4> QED BY <2>1, <4>1
        <3> QED BY <3>1, <3>2 DEF Fin
    <2>2. ASSUME c \in v, \A j \in DOMAIN f : ~Tells(f[j], "RELEASE", c) PROVE Fin(e, w, c)
        <3>1. ASSUME NEW j \in DOMAIN e, j > 1 PROVE ~Tells(e[j], "RELEASE", c)
            <4>1. j \in Nat BY <1>1
            <4>2. j - 1 \in DOMAIN f /\ e[j] = f[j - 1] BY <1>3, <3>1, <4>1
            <4> QED BY <2>2, <4>2
        <3>2. CASE Tells(e[1], "REQUEST", c) BY <1>4, <3>1, <3>2 DEF Fin
        <3>3. CASE c \in w /\ ~Tells(e[1], "RELEASE", c)
            <4>1. \A j \in DOMAIN e : ~Tells(e[j], "RELEASE", c) BY <1>3, <3>1, <3>3
            <4> QED BY <3>3, <4>1 DEF Fin
        <3> QED BY <1>1, <2>2, <3>2, <3>3
    <2> QED BY <1>5, <2>1, <2>2 DEF Fin
<1>6. ASSUME Fin(e, w, c) PROVE Fin(f, v, c)
    <2>1. ASSUME NEW i \in DOMAIN e, Tells(e[i], "REQUEST", c),
                 \A j \in DOMAIN e : j > i => ~Tells(e[j], "RELEASE", c)
          PROVE  Fin(f, v, c)
        <3>1. CASE i = 1
            <4>1. c \in v BY <1>1, <2>1, <3>1
            <4>2. ASSUME NEW j \in DOMAIN f PROVE ~Tells(f[j], "RELEASE", c)
                <5>1. j + 1 \in DOMAIN e /\ j + 1 > 1 /\ f[j] = e[j + 1] BY <1>1, <1>2
                <5> QED BY <2>1, <3>1, <5>1
            <4> QED BY <4>1, <4>2 DEF Fin
        <3>2. CASE i # 1
            <4>1. i - 1 \in DOMAIN f /\ Tells(f[i - 1], "REQUEST", c) BY <1>3, <2>1, <3>2
            <4>2. ASSUME NEW j \in DOMAIN f, j > i - 1 PROVE ~Tells(f[j], "RELEASE", c)
                <5>1. j + 1 \in DOMAIN e /\ j + 1 > i /\ f[j] = e[j + 1] BY <1>1, <1>2, <4>2
                <5> QED BY <2>1, <5>1
            <4> QED BY <4>1, <4>2 DEF Fin
        <3> QED BY <3>1, <3>2
    <2>2. ASSUME c \in w, \A j \in DOMAIN e : ~Tells(e[j], "RELEASE", c) PROVE Fin(f, v, c)
        <3>1. c \in v BY <1>1, <1>4, <2>2
        <3>2. \A j \in DOMAIN f : ~Tells(f[j], "RELEASE", c) BY <1>2, <2>2
        <3> QED BY <3>1, <3>2 DEF Fin
    <2> QED BY <1>6, <2>1, <2>2 DEF Fin
<1> QED BY <1>5, <1>6 DEF f

LEMMA OverrunAppend ==
    ASSUME NEW e \in Seq(Events), NEW d \in Seq(Events)
    PROVE  /\ Overrun(e) => Overrun(e \o d)
           /\ In(e, "SIM_STATE") /\ In(d, "REQUEST") => Overrun(e \o d)
<1> DEFINE f == e \o d
           n == Len(e)
           m == Len(d)
<1>1. /\ f \in Seq(Events) /\ Len(f) = n + m /\ n \in Nat /\ m \in Nat
      /\ \A i \in 1 .. Len(f) : f[i] = IF i <= n THEN e[i] ELSE d[i - n]
    BY ConcatProperties
<1>2. DOMAIN f = 1 .. (n + m) /\ DOMAIN e = 1 .. n /\ DOMAIN d = 1 .. m BY <1>1
<1> HIDE DEF f, n, m
<1>3. \A i \in DOMAIN e : i \in DOMAIN f /\ f[i] = e[i] BY <1>1, <1>2
<1>4. \A i \in DOMAIN d : n + i \in DOMAIN f /\ f[n + i] = d[i] BY <1>1, <1>2
<1>5. Overrun(e) => Overrun(f) BY <1>3 DEF Overrun
<1>6. ASSUME In(e, "SIM_STATE"), In(d, "REQUEST") PROVE Overrun(f)
    <2>1. PICK a \in DOMAIN e : e[a].type = "SIM_STATE" BY <1>6 DEF In
    <2>2. PICK b \in DOMAIN d : d[b].type = "REQUEST" BY <1>6 DEF In
    <2>3. a < n + b BY <1>1, <1>2
    <2> QED BY <1>3, <1>4, <2>1, <2>2, <2>3 DEF Overrun
<1> QED BY <1>5, <1>6 DEF f

LEMMA OverrunTail ==
    ASSUME NEW e \in Seq(Events), e # <<>>, Head(e).type # "SIM_STATE", Overrun(e)
    PROVE  Overrun(Tail(e))
<1> DEFINE f == Tail(e)
           n == Len(e)
<1>1. /\ f \in Seq(Events) /\ Head(e) = e[1] /\ n \in Nat \ {0} /\ DOMAIN e = 1 .. n
      /\ DOMAIN f = 1 .. (n - 1) /\ \A i \in 1 .. (n - 1) : f[i] = e[i + 1]
    OBVIOUS
<1> HIDE DEF f, n
<1>2. PICK a, b \in DOMAIN e : a < b /\ e[a].type = "SIM_STATE" /\ e[b].type = "REQUEST" BY DEF Overrun
<1>3. a # 1 BY <1>1, <1>2
<1>4. a \in 1 .. n /\ b \in 1 .. n /\ a < b BY <1>1, <1>2
<1>5. a - 1 \in 1 .. (n - 1) /\ b - 1 \in 1 .. (n - 1) /\ a - 1 < b - 1 BY <1>1, <1>3, <1>4
<1>6. (a - 1) + 1 = a /\ (b - 1) + 1 = b BY <1>4
<1>7. f[a - 1] = e[a] /\ f[b - 1] = e[b] BY <1>1, <1>5, <1>6
<1>8. a - 1 \in DOMAIN f /\ b - 1 \in DOMAIN f BY <1>1, <1>5
<1>9. Overrun(f)
    <2>1. f[a - 1].type = "SIM_STATE" /\ f[b - 1].type = "REQUEST" BY <1>2, <1>7
    <2> QED BY <1>5, <1>8, <2>1 DEF Overrun
<1> QED BY <1>9 DEF f

\* The step leaves what the events make of the holders, and asks for nothing new.
Same(e, w, f, v) ==
    /\ \A c \in Caps : Fin(f, v, c) <=> Fin(e, w, c)
    /\ w = {} /\ ~In(e, "REQUEST") => v = {} /\ ~In(f, "REQUEST")

\* Events of the card are not taken.
Kept(e, f) ==
    /\ In(e, "SIM_STATE") => In(f, "SIM_STATE")
    /\ Overrun(e) => Overrun(f)

LEMMA SameSelf ==
    ASSUME NEW e, NEW w
    PROVE  Same(e, w, e, w) /\ Kept(e, e)
BY DEF Same, Kept

LEMMA SentSame ==
    ASSUME NEW e \in Seq(Events), NEW w, NEW t, t \in {"SIM_STATE", "ACCOUNT_LOADED"}
    PROVE  Same(e, w, Append(e, Event(t, "none")), w) /\ Kept(e, Append(e, Event(t, "none")))
<1> DEFINE x == Event(t, "none")
           d == <<x>>
<1>1. x \in Events /\ x.type = t BY DEF Event, Events, EventTypes
<1> HIDE DEF x
<1>2. d \in Seq(Events) /\ DOMAIN d = {1} /\ d[1] = x BY <1>1
<1>3. Append(e, x) = e \o d BY <1>1
<1> HIDE DEF d
<1>4. \A i \in DOMAIN d : d[i].type = t BY <1>1, <1>2
<1>5. t # "REQUEST" /\ t # "RELEASE" OBVIOUS
<1>6. \A c : \A i \in DOMAIN d : ~Tells(d[i], "REQUEST", c) /\ ~Tells(d[i], "RELEASE", c)
    BY <1>4, <1>5 DEF Tells
<1>7. \A c \in Caps : Fin(e \o d, w, c) <=> Fin(e, w, c) BY <1>2, <1>6, FinAppend
<1>8. ~In(d, "REQUEST") BY <1>4, <1>5 DEF In
<1>9. \A y : In(e \o d, y) <=> In(e, y) \/ In(d, y) BY <1>2, AppendKeeps
<1>10. Overrun(e) => Overrun(e \o d) BY <1>2, OverrunAppend
<1> QED BY <1>3, <1>7, <1>8, <1>9, <1>10 DEF Same, Kept, x

LEMMA TakenSame ==
    ASSUME NEW e \in Seq(Events), e # <<>>, NEW w \in SUBSET Caps, NEW v,
           v = IF Head(e).type = "REQUEST" THEN w \cup {Head(e).cap}
               ELSE IF Head(e).type = "RELEASE" THEN w \ {Head(e).cap} ELSE w
    PROVE  Same(e, w, Tail(e), v) /\ (Head(e).type # "SIM_STATE" => Kept(e, Tail(e)))
<1>1. \A c \in Caps : Fin(Tail(e), v, c) <=> Fin(e, w, c)
    <2> SUFFICES ASSUME NEW c \in Caps PROVE Fin(Tail(e), v, c) <=> Fin(e, w, c) OBVIOUS
    <2>1. c \in v <=> Tells(Head(e), "REQUEST", c) \/ (c \in w /\ ~Tells(Head(e), "RELEASE", c))
        BY DEF Tells
    <2> QED BY <2>1, FinTail
<1>2. \A t : In(e, t) <=> Head(e).type = t \/ In(Tail(e), t) BY TailKeeps
<1>3. w = {} /\ ~In(e, "REQUEST") => v = {} /\ ~In(Tail(e), "REQUEST") BY <1>2
<1>4. Head(e).type # "SIM_STATE" /\ Overrun(e) => Overrun(Tail(e)) BY OverrunTail
<1> QED BY <1>1, <1>2, <1>3, <1>4 DEF Same, Kept

LEMMA RequestedFin ==
    ASSUME NEW e \in Seq(Events), NEW d \in Seq(Events), NEW w, NEW D,
           \A i \in DOMAIN d : d[i].type = "REQUEST" /\ d[i].cap \in D,
           \A c \in D : \E i \in DOMAIN d : d[i].cap = c
    PROVE  /\ \A c : Fin(e \o d, w, c) <=> c \in D \/ Fin(e, w, c)
           /\ Kept(e, e \o d)
           /\ In(e, "SIM_STATE") /\ D # {} => Overrun(e \o d)
<1>1. ASSUME NEW c, c \in D PROVE Fin(e \o d, w, c)
    <2>1. \E i \in DOMAIN d : Tells(d[i], "REQUEST", c) BY <1>1 DEF Tells
    <2> QED BY <2>1, FinAppend
<1>2. ASSUME NEW c, c \notin D PROVE Fin(e \o d, w, c) <=> Fin(e, w, c)
    <2>1. \A i \in DOMAIN d : ~Tells(d[i], "REQUEST", c) /\ ~Tells(d[i], "RELEASE", c) BY <1>2 DEF Tells
    <2> QED BY <2>1, FinAppend
<1>3. \A y : In(e \o d, y) <=> In(e, y) \/ In(d, y) BY AppendKeeps
<1>4. D # {} => In(d, "REQUEST") BY DEF In
<1>5. /\ Overrun(e) => Overrun(e \o d)
      /\ In(e, "SIM_STATE") /\ In(d, "REQUEST") => Overrun(e \o d)
    BY OverrunAppend
<1> QED BY <1>1, <1>2, <1>3, <1>4, <1>5 DEF Kept

LEMMA ReleasedFin ==
    ASSUME NEW e \in Seq(Events), NEW d \in Seq(Events), NEW w, NEW x,
           \A i \in DOMAIN d : d[i].type = "RELEASE" /\ d[i].cap = x, DOMAIN d # {}
    PROVE  /\ \A c : Fin(e \o d, w, c) <=> c # x /\ Fin(e, w, c)
           /\ Kept(e, e \o d)
           /\ In(e \o d, "REQUEST") => In(e, "REQUEST")
<1>1. ~Fin(e \o d, w, x)
    <2>1. \E i \in DOMAIN d : Tells(d[i], "RELEASE", x) BY DEF Tells
    <2> QED BY <2>1, FinAppend
<1>2. ASSUME NEW c, c # x PROVE Fin(e \o d, w, c) <=> Fin(e, w, c)
    <2>1. \A i \in DOMAIN d : ~Tells(d[i], "REQUEST", c) /\ ~Tells(d[i], "RELEASE", c) BY <1>2 DEF Tells
    <2> QED BY <2>1, FinAppend
<1>3. \A y : In(e \o d, y) <=> In(e, y) \/ In(d, y) BY AppendKeeps
<1>4. ~In(d, "REQUEST") BY DEF In
<1>5. Overrun(e) => Overrun(e \o d) BY OverrunAppend
<1> QED BY <1>1, <1>2, <1>3, <1>4, <1>5 DEF Kept

-----------------------------------------------------------------------------
\* The card of an entry of slot k, and whether the net manager knows its supplier.
Entry(k, c) == netSuppliers[k][c].simId
Known(k, c) == Entry(k, c) # INVALID_SIM_ID /\ <<Entry(k, c), c>> \in suppliers

\* The holder will be enabled; the net manager asks the slot for it.
Wants(k, c) == Fin(queue[k], wanted[k], c)
Owed(k, c) == <<sim[k], c>> \in asked /\ Entry(k, c) = sim[k] /\ Known(k, c)

\* A request that the handler of the slot takes after the removal of the card.
Late(k) == sim[k] = INVALID_SIM_ID /\ Overrun(queue[k])

Unasked(k) == wanted[k] = {} /\ ~In(queue[k], "REQUEST")

\* Until the handler takes the removal of a card, the slot keeps its route and its requests.
Routes(k) == slotIdSimId[k] # INVALID_SIM_ID =>
    slotIdSimId[k] = simId[k] \/ (sim[k] = INVALID_SIM_ID /\ In(queue[k], "SIM_STATE"))
Gone(k) == sim[k] = INVALID_SIM_ID => In(queue[k], "SIM_STATE") \/ Unasked(k)

\* A card that is routed to its slot has no entry elsewhere.
Apart(i, j) == slotIdSimId[i] # INVALID_SIM_ID /\ slotIdSimId[i] = sim[i] =>
    \A c \in Caps : Entry(j, c) # sim[i]

\* The holders of a slot with a card will be enabled for what its suppliers are asked for, and
\* what releases them will reach the slot.
Asks(k) == sim[k] # INVALID_SIM_ID =>
    \A c \in Caps : /\ Wants(k, c) <=> Owed(k, c)
                    /\ Wants(k, c) => Leads(slotIdSimId, sim[k], k)

RequestOK ==
    /\ \A k \in Slots : Routes(k) /\ Gone(k)
    /\ \A i, j \in Slots : i # j => Apart(i, j)
    /\ ~isInitSuccess => \A k \in Slots : Unasked(k)
    /\ ~netUp => suppliers = {}
    /\ Serving /\ (\A j \in Slots : ~Late(j)) => \A k \in Slots : Asks(k)

Requesting == slips \cap {"refused", "crossed", "missed", "kept", "forgotten", "early", "late", "swapped"} = {}

RequestInv == Requesting => RequestOK

(* What the suppliers and their entries have to do with the routes. *)
TableOK ==
    /\ \A p \in suppliers : \E k \in Slots : Entry(k, p[2]) = p[1]
    /\ \A k \in Slots, c \in Caps : Known(k, c) => slotIdSimId[k] = Entry(k, c)

LEMMA EntryIs ==
    /\ \A k, c : Entry(k, c) = Ent(Agent(queue), k, c)
    /\ \A k, c : Known(k, c) <=> Live(Agent(queue), k, c)
<1> DEFINE a == Agent(queue)
<1>1. a.tab = netSuppliers /\ a.net = suppliers BY DEF Agent
<1> HIDE DEF a
<1>2. \A k, c : Entry(k, c) = Ent(a, k, c) BY <1>1 DEF Entry, Ent
<1>3. \A k, c : Known(k, c) <=> Live(a, k, c) BY <1>1, <1>2 DEF Known, Live
<1> QED BY <1>2, <1>3 DEF a

LEMMA TableFacts ==
    ASSUME SupplyInv, Requesting
    PROVE  SupplyOK /\ RouteOK /\ TableOK
<1>1. Supplying /\ "kept" \notin slips BY DEF Requesting, Supplying
<1>2. SupplyOK /\ RouteOK BY <1>1 DEF SupplyInv
<1> DEFINE a == Agent(queue)
<1>3. a.map = slotIdSimId /\ a.net = suppliers BY DEF Agent
<1>4. Tabled(a) BY <1>2 DEF SupplyOK
<1>5. /\ \A k, c : Entry(k, c) = Ent(a, k, c)
      /\ \A k, c : Known(k, c) <=> Live(a, k, c)
    BY EntryIs
<1> HIDE DEF a
<1>6. TableOK BY <1>3, <1>4, <1>5 DEF Tabled, TableOK
<1> QED BY <1>2, <1>6

LEMMA RouteFacts ==
    ASSUME ServiceInv, RequestOK, NEW k \in Slots
    PROVE  /\ slotIdSimId[k] # INVALID_SIM_ID =>
                \/ slotIdSimId[k] = sim[k] /\ simId[k] = sim[k] /\ sim[k] # INVALID_SIM_ID
                \/ sim[k] = INVALID_SIM_ID /\ In(queue[k], "SIM_STATE")
           /\ \A j \in Slots : j # k /\ sim[k] # INVALID_SIM_ID /\ slotIdSimId[j] = sim[k] =>
                sim[j] = INVALID_SIM_ID /\ In(queue[j], "SIM_STATE")
<1>1. \A j \in Slots : simId[j] \in {INVALID_SIM_ID, sim[j]} BY DEF ServiceInv, CardsOK
<1>2. \A j \in Slots : j # k /\ sim[j] # INVALID_SIM_ID => sim[j] # sim[k]
    BY DEF ServiceInv, CardsOK
<1>3. \A j \in Slots : Routes(j) BY DEF RequestOK
<1> QED BY <1>1, <1>2, <1>3 DEF Routes

(* A step that leaves the tables, the cards and what applications ask for. *)
LEMMA RequestStays ==
    ASSUME ServiceInv, RequestOK, UNCHANGED <<netSuppliers, slotIdSimId, suppliers, asked, sim>>,
           Serving' => Serving, netUp => netUp', isInitSuccess => isInitSuccess',
           \A k \in Slots : slotIdSimId[k] # INVALID_SIM_ID /\ sim[k] # INVALID_SIM_ID => simId'[k] = simId[k],
           \A k \in Slots : Same(queue[k], wanted[k], queue'[k], wanted'[k]),
           \A k \in Slots : sim[k] = INVALID_SIM_ID => Kept(queue[k], queue'[k])
    PROVE  RequestOK'
<1>1. \A k, c : (Entry(k, c)' = Entry(k, c)) /\ (Known(k, c)' <=> Known(k, c)) BY DEF Entry, Known
<1>2. \A k, c : Owed(k, c)' <=> Owed(k, c) BY <1>1 DEF Owed
<1>3. \A k \in Slots : \A c \in Caps : Wants(k, c)' <=> Wants(k, c) BY DEF Wants, Same
<1>4. \A k \in Slots : Late(k) => Late(k)' BY DEF Late, Kept
<1>5. \A k \in Slots : Unasked(k) => Unasked(k)' BY DEF Unasked, Same
<1>6. \A k \in Slots : sim[k] = INVALID_SIM_ID /\ In(queue[k], "SIM_STATE") => In(queue'[k], "SIM_STATE")
    BY DEF Kept
<1>7. ASSUME NEW k \in Slots PROVE Routes(k)'
    <2>1. slotIdSimId[k] # INVALID_SIM_ID =>
                \/ slotIdSimId[k] = sim[k] /\ simId[k] = sim[k] /\ sim[k] # INVALID_SIM_ID
                \/ sim[k] = INVALID_SIM_ID /\ In(queue[k], "SIM_STATE")
        BY RouteFacts
    <2> QED BY <1>6, <2>1 DEF Routes
<1>8. ASSUME NEW k \in Slots PROVE Gone(k)'
    <2>1. Gone(k) BY DEF RequestOK
    <2> QED BY <1>5, <1>6, <2>1 DEF Gone
<1>9. ASSUME NEW i \in Slots, NEW j \in Slots, i # j PROVE Apart(i, j)'
    <2>1. Apart(i, j) BY <1>9 DEF RequestOK
    <2> QED BY <1>1, <2>1 DEF Apart
<1>10. ASSUME ~isInitSuccess' PROVE \A k \in Slots : Unasked(k)' BY <1>5, <1>10 DEF RequestOK
<1>11. ASSUME ~netUp' PROVE suppliers' = {} BY <1>11 DEF RequestOK
<1>12. ASSUME Serving', \A j \in Slots : ~Late(j)', NEW k \in Slots PROVE Asks(k)'
    <2>1. \A j \in Slots : ~Late(j) BY <1>4, <1>12
    <2>2. Asks(k) BY <1>12, <2>1 DEF RequestOK
    <2>3. \A c : Leads(slotIdSimId, sim[k], k)' <=> Leads(slotIdSimId, sim[k], k) BY DEF Leads
    <2> QED BY <1>2, <1>3, <2>2, <2>3 DEF Asks
<1> QED BY <1>7, <1>8, <1>9, <1>10, <1>11, <1>12 DEF RequestOK

LEMMA RequestingBefore ==
    ASSUME slips \subseteq slips', Requesting'
    PROVE  Requesting
BY DEF Requesting

LEMMA SentOr ==
    ASSUME ServiceInv, NEW k \in Slots, NEW t, t \in {"SIM_STATE", "ACCOUNT_LOADED"}, Sends(k, t)
    PROVE  \A j \in Slots : /\ Same(queue[j], wanted[j], queue'[j], wanted[j]) /\ Kept(queue[j], queue'[j])
                            /\ j # k => queue'[j] = queue[j]
<1>1. queue \in [Slots -> Seq(Events)] BY TableTypes
<1>2. CASE controller[k] = "ready"
    <2>1. queue' = [queue EXCEPT ![k] = Append(queue[k], Event(t, "none"))] BY <1>2 DEF Sends
    <2>2. queue'[k] = Append(queue[k], Event(t, "none")) BY <1>1, <2>1
    <2>3. \A j \in Slots : j # k => queue'[j] = queue[j] BY <1>1, <2>1
    <2>4. Same(queue[k], wanted[k], queue'[k], wanted[k]) /\ Kept(queue[k], queue'[k])
        BY <1>1, <2>2, SentSame
    <2> QED BY <2>3, <2>4, SameSelf
<1>3. CASE controller[k] # "ready"
    <2>1. queue' = queue BY <1>3 DEF Sends
    <2> QED BY <2>1, SameSelf
<1> QED BY <1>2, <1>3

LEMMA SimIdLoadedRequests ==
    ASSUME ServiceInv, SupplyInv, RequestInv, NEW k \in Slots, NEW told \in BOOLEAN, SimIdLoaded(k, told)
    PROVE  RequestInv'
<1> SUFFICES ASSUME Requesting' PROVE RequestOK' BY DEF RequestInv
<1>1. /\ slips \subseteq slips' /\ sim[k] # INVALID_SIM_ID /\ simId[k] = INVALID_SIM_ID
      /\ simId' = [simId EXCEPT ![k] = sim[k]]
      /\ UNCHANGED <<sim, netUp, suppliers, asked, state, isInitSuccess, netSuppliers, slotIdSimId, wanted>>
      /\ Sends(k, "ACCOUNT_LOADED") \/ queue' = queue
    BY DEF SimIdLoaded, netVars, lifeVars, agentVars
<1>2. RequestOK BY <1>1, RequestingBefore DEF RequestInv
<1>3. \A j \in Slots : Same(queue[j], wanted[j], queue'[j], wanted'[j]) /\ Kept(queue[j], queue'[j])
    <2>1. CASE Sends(k, "ACCOUNT_LOADED")
        <3> DEFINE t == "ACCOUNT_LOADED"
        <3>1. t \in {"SIM_STATE", "ACCOUNT_LOADED"} /\ Sends(k, t) BY <2>1
        <3> HIDE DEF t
        <3> QED BY <1>1, <3>1, SentOr
    <2>2. CASE queue' = queue BY <1>1, <2>2, SameSelf
    <2> QED BY <1>1, <2>1, <2>2
<1>4. \A j \in Slots : slotIdSimId[j] # INVALID_SIM_ID /\ sim[j] # INVALID_SIM_ID => simId'[j] = simId[j]
    <2> SUFFICES ASSUME NEW j \in Slots, slotIdSimId[j] # INVALID_SIM_ID, sim[j] # INVALID_SIM_ID
                 PROVE  simId'[j] = simId[j]
        OBVIOUS
    <2>1. simId[j] = sim[j] BY <1>2, RouteFacts
    <2>2. j # k BY <1>1, <2>1
    <2>3. simId \in [Slots -> SimIds] BY ServiceTypes
    <2> QED BY <1>1, <2>2, <2>3
<1>5. Serving' = Serving BY <1>1 DEF Serving
<1> QED BY <1>1, <1>2, <1>3, <1>4, <1>5, RequestStays

LEMMA StartRequests ==
    ASSUME ServiceInv, RequestInv,
           \/ ProcessStarts \/ InitSucceeds \/ NetManagerStarts \/ Bystands
           \/ \E k \in Slots : AsynchronousRegister(k) \/ RegisterEvents(k) \/ OnDataShareReady(k)
    PROVE  RequestInv'
<1> SUFFICES ASSUME Requesting' PROVE RequestOK' BY DEF RequestInv
<1>1. /\ UNCHANGED <<sim, simId, suppliers, asked, netSuppliers, slotIdSimId, queue, wanted>>
      /\ slips \subseteq slips'
      /\ netUp => netUp'
    BY DEF ProcessStarts, InitSucceeds, NetManagerStarts, Bystands, AsynchronousRegister, RegisterEvents,
           OnDataShareReady, coreVars, netVars, lifeVars, agentVars, slotVars
<1>2. /\ Serving' => Serving
      /\ isInitSuccess => isInitSuccess'
    BY DEF ProcessStarts, InitSucceeds, NetManagerStarts, Bystands, AsynchronousRegister, RegisterEvents,
           OnDataShareReady, lifeVars, Serving
<1>3. RequestOK BY <1>1, RequestingBefore DEF RequestInv
<1>4. \A j \in Slots : Same(queue[j], wanted[j], queue'[j], wanted'[j]) /\ Kept(queue[j], queue'[j])
    BY <1>1, SameSelf
<1> QED BY <1>1, <1>2, <1>3, <1>4, RequestStays

(* An event is taken that changes nothing but what the handler holds. *)
LEMMA TakenRequests ==
    ASSUME ServiceInv, RequestOK, NEW k \in Slots, NEW t, Takes(k, t), queue' = Rest(k),
           UNCHANGED <<suppliers, netSuppliers, slotIdSimId>>,
           \A j \in Slots \ {k} : wanted'[j] = wanted[j],
           wanted'[k] = IF t = "REQUEST" THEN wanted[k] \cup {Head(queue[k]).cap}
                        ELSE IF t = "RELEASE" THEN wanted[k] \ {Head(queue[k]).cap} ELSE wanted[k],
           t = "SIM_STATE" => sim[k] # INVALID_SIM_ID
    PROVE  RequestOK'
<1>1. UNCHANGED <<sim, simId, netUp, asked, state, isInitSuccess>> BY DEF Takes, coreVars, lifeVars
<1>2. queue \in [Slots -> Seq(Events)] /\ wanted[k] \in SUBSET Caps BY ServiceTypes
<1>3. queue[k] # <<>> /\ Head(queue[k]).type = t BY DEF Takes
<1>4. Rest(k)[k] = Tail(queue[k]) /\ \A j \in Slots \ {k} : Rest(k)[j] = queue[j] BY TakesRest
<1>5. /\ Same(queue[k], wanted[k], Tail(queue[k]), wanted'[k])
      /\ t # "SIM_STATE" => Kept(queue[k], Tail(queue[k]))
    <2> DEFINE e == queue[k]
               w == wanted[k]
               v == wanted'[k]
    <2>1. e \in Seq(Events) /\ e # <<>> /\ w \in SUBSET Caps /\ Head(e).type = t BY <1>2, <1>3
    <2>2. v = IF Head(e).type = "REQUEST" THEN w \cup {Head(e).cap}
              ELSE IF Head(e).type = "RELEASE" THEN w \ {Head(e).cap} ELSE w
        BY <1>3
    <2> HIDE DEF e, w, v
    <2>3. Same(e, w, Tail(e), v) /\ (Head(e).type # "SIM_STATE" => Kept(e, Tail(e)))
        BY <2>1, <2>2, TakenSame
    <2> QED BY <2>1, <2>3 DEF e, w, v
<1>6. \A j \in Slots : Same(queue[j], wanted[j], queue'[j], wanted'[j])
    <2>1. \A j \in Slots \ {k} : Same(queue[j], wanted[j], queue'[j], wanted'[j]) BY <1>4, SameSelf
    <2>2. Same(queue[k], wanted[k], queue'[k], wanted'[k]) BY <1>4, <1>5
    <2> QED BY <2>1, <2>2
<1>7. \A j \in Slots : sim[j] = INVALID_SIM_ID => Kept(queue[j], queue'[j])
    <2>1. \A j \in Slots \ {k} : Kept(queue[j], queue'[j]) BY <1>4, SameSelf
    <2>2. t # "SIM_STATE" => Kept(queue[k], queue'[k]) BY <1>4, <1>5
    <2> QED BY <2>1, <2>2
<1>8. Serving' = Serving BY <1>1 DEF Serving
<1> QED BY <1>1, <1>6, <1>7, <1>8, RequestStays

LEMMA MsgRequestRequests ==
    ASSUME ServiceInv, RequestInv, NEW k \in Slots, MsgRequestNetwork(k)
    PROVE  RequestInv'
<1> SUFFICES ASSUME Requesting' PROVE RequestOK' BY DEF RequestInv
<1>1. /\ UNCHANGED <<suppliers, netSuppliers, slotIdSimId, slips>> /\ queue' = Rest(k)
    BY DEF MsgRequestNetwork, agentVars
<1>2. RequestOK BY <1>1, RequestingBefore DEF RequestInv
<1>3. wanted \in [Slots -> SUBSET Caps] BY ServiceTypes
<1>4. CASE Takes(k, "REQUEST") /\ wanted' = [wanted EXCEPT ![k] = @ \cup {Head(queue[k]).cap}]
    <2> DEFINE t == "REQUEST"
    <2>1. /\ wanted'[k] = wanted[k] \cup {Head(queue[k]).cap}
          /\ \A j \in Slots \ {k} : wanted'[j] = wanted[j]
        BY <1>3, <1>4
    <2>2. Takes(k, t) /\ t = "REQUEST" /\ t # "SIM_STATE" BY <1>4
    <2> HIDE DEF t
    <2> QED BY <1>1, <1>2, <2>1, <2>2, TakenRequests
<1>5. CASE Takes(k, "RELEASE") /\ wanted' = [wanted EXCEPT ![k] = @ \ {Head(queue[k]).cap}]
    <2> DEFINE t == "RELEASE"
    <2>1. /\ wanted'[k] = wanted[k] \ {Head(queue[k]).cap}
          /\ \A j \in Slots \ {k} : wanted'[j] = wanted[j]
        BY <1>3, <1>5
    <2>2. Takes(k, t) /\ t = "RELEASE" /\ t # "SIM_STATE" /\ t # "REQUEST" BY <1>5
    <2> HIDE DEF t
    <2> QED BY <1>1, <1>2, <2>1, <2>2, TakenRequests
<1> QED BY <1>4, <1>5 DEF MsgRequestNetwork

(* Nothing is wanted and nothing is owed. *)
LEMMA NothingAsked ==
    ASSUME \A k \in Slots : Unasked(k)', \A k \in Slots, c \in Caps : ~Owed(k, c)'
    PROVE  \A k \in Slots : Asks(k)'
<1>1. \A k \in Slots : \A c : ~Fin(queue'[k], wanted'[k], c) BY DEF Unasked, In, Fin, Tells
<1> QED BY <1>1 DEF Asks, Wants

LEMMA OnStartRequests ==
    ASSUME ServiceInv, RequestInv, OnStart
    PROVE  RequestInv'
<1> SUFFICES ASSUME Requesting' PROVE RequestOK' BY DEF RequestInv
<1>1. /\ netSuppliers' = [k \in Slots |-> [c \in Caps |-> [NoSupplier EXCEPT !.listed = TRUE]]]
      /\ queue' = [k \in Slots |-> <<>>] /\ wanted' = [k \in Slots |-> {}]
      /\ UNCHANGED <<sim, simId, slotIdSimId, suppliers, netUp, asked>> /\ slips \subseteq slips'
      /\ (\E k \in Slots : sim[k] = INVALID_SIM_ID /\ slotIdSimId[k] # INVALID_SIM_ID) => "kept" \in slips'
    BY DEF OnStart, InitModule, AddNetSupplier, coreVars, netVars
<1>2. RequestOK BY <1>1, RequestingBefore DEF RequestInv
<1>3. \A k \in Slots : Unasked(k)' BY <1>1 DEF Unasked, In
<1>4. \A k \in Slots, c \in Caps : Entry(k, c)' = INVALID_SIM_ID BY <1>1 DEF NoSupplier, Entry
<1>5. \A k \in Slots, c \in Caps : ~Owed(k, c)' BY <1>4 DEF Owed, Known
<1>6. \A k \in Slots : sim[k] = INVALID_SIM_ID => slotIdSimId[k] = INVALID_SIM_ID BY <1>1 DEF Requesting
<1>7. \A k \in Slots : Routes(k)'
    <2>1. \A k \in Slots : Routes(k) BY <1>2 DEF RequestOK
    <2> QED BY <1>1, <1>6, <2>1 DEF Routes
<1>8. \A i, j \in Slots : Apart(i, j)' BY <1>1, <1>4 DEF Apart
<1>9. \A k \in Slots : Asks(k)' BY <1>3, <1>5, NothingAsked
<1>10. ~netUp' => suppliers' = {} BY <1>1, <1>2 DEF RequestOK
<1>11. \A k \in Slots : Gone(k)' BY <1>3 DEF Gone
<1> QED BY <1>3, <1>7, <1>8, <1>9, <1>10, <1>11 DEF RequestOK

LEMMA CrashRequests ==
    ASSUME ServiceInv, RequestInv, Crash
    PROVE  RequestInv'
<1>1. /\ netSuppliers' = [k \in Slots |-> [c \in Caps |-> NoSupplier]]
      /\ queue' = [k \in Slots |-> <<>>] /\ wanted' = [k \in Slots |-> {}]
      /\ slotIdSimId' = [k \in Slots |-> INVALID_SIM_ID] /\ suppliers' = {}
    BY DEF Crash
<1>2. \A k \in Slots : Unasked(k)' BY <1>1 DEF Unasked, In
<1>3. \A k \in Slots, c \in Caps : ~Owed(k, c)' BY <1>1 DEF Owed, Known
<1>4. \A k \in Slots : Routes(k)' /\ Gone(k)' /\ \A j \in Slots : Apart(k, j)'
    BY <1>1, <1>2 DEF Routes, Gone, Apart
<1>5. \A k \in Slots : Asks(k)' BY <1>2, <1>3, NothingAsked
<1> QED BY <1>1, <1>2, <1>4, <1>5 DEF RequestOK, RequestInv

LEMMA OnStopRequests ==
    ASSUME ServiceInv, SupplyInv, RequestInv, OnStop
    PROVE  RequestInv'
<1> SUFFICES ASSUME Requesting' PROVE RequestOK' BY DEF RequestInv
<1>1. /\ state' = "stopped" /\ UNCHANGED <<sim, simId, netUp, asked, isInitSuccess, wanted>>
    BY DEF OnStop, coreVars
<1>2. /\ netSuppliers' = [k \in Slots |-> [c \in Caps |-> NoSupplier]]
      /\ UNCHANGED <<slotIdSimId, queue, slips>> /\ suppliers' \subseteq suppliers
    BY OnStopDrops
<1>3. RequestOK BY <1>2, RequestingBefore DEF RequestInv
<1>4. \A k \in Slots : Routes(k)' /\ Gone(k)' BY <1>1, <1>2, <1>3 DEF RequestOK, Routes, Gone, Unasked
<1>5. ASSUME NEW i \in Slots, NEW j \in Slots PROVE Apart(i, j)' BY <1>1, <1>2 DEF Apart, Entry, NoSupplier
<1>6. ~Serving' BY <1>1 DEF Serving
<1>7. ~isInitSuccess' => \A k \in Slots : Unasked(k)' BY <1>1, <1>2, <1>3 DEF RequestOK, Unasked
<1>8. ~netUp' => suppliers' = {} BY <1>1, <1>2, <1>3 DEF RequestOK
<1> QED BY <1>4, <1>5, <1>6, <1>7, <1>8 DEF RequestOK

LEMMA NetManagerDiesRequests ==
    ASSUME ServiceInv, RequestInv, NetManagerDies
    PROVE  RequestInv'
<1> SUFFICES ASSUME Requesting' PROVE RequestOK' BY DEF RequestInv
<1>1. /\ suppliers' = {} /\ slips \subseteq slips'
      /\ UNCHANGED <<netSuppliers, slotIdSimId, sim, simId, queue, wanted>>
      /\ (\E k \in Slots : wanted[k] # {} \/ Has(k, "REQUEST")) => "forgotten" \in slips'
    BY DEF NetManagerDies, agentVars, coreVars
<1>2. RequestOK BY <1>1, RequestingBefore DEF RequestInv
<1>3. \A k \in Slots : wanted[k] = {} /\ ~Has(k, "REQUEST") BY <1>1 DEF Requesting
<1>4. \A k \in Slots : Unasked(k)
    <2>1. \A k \in Slots : Has(k, "REQUEST") <=> In(queue[k], "REQUEST") BY DEF Has, In
    <2> QED BY <1>3, <2>1 DEF Unasked
<1>5. \A k \in Slots : Unasked(k)' BY <1>1, <1>4 DEF Unasked
<1>6. \A k \in Slots, c \in Caps : ~Owed(k, c)' BY <1>1 DEF Owed, Known
<1>7. \A k \in Slots : Asks(k)' BY <1>5, <1>6, NothingAsked
<1>8. \A k \in Slots : Routes(k)' /\ Gone(k)' BY <1>1, <1>2, <1>5 DEF RequestOK, Routes, Gone
<1>9. ASSUME NEW i \in Slots, NEW j \in Slots, i # j PROVE Apart(i, j)'
    <2>1. Apart(i, j) BY <1>2, <1>9 DEF RequestOK
    <2> QED BY <1>1, <2>1 DEF Apart, Entry
<1> QED BY <1>1, <1>5, <1>7, <1>8, <1>9 DEF RequestOK

(* A card comes or goes: the tables stay. *)
LEMMA CardRequests ==
    ASSUME ServiceInv, RequestOK, NEW k \in Slots,
           UNCHANGED <<netSuppliers, slotIdSimId, suppliers, asked, netUp, state, isInitSuccess, wanted>>,
           \A j \in Slots \ {k} : sim'[j] = sim[j] /\ simId'[j] = simId[j] /\ queue'[j] = queue[j],
           \A j \in Slots : Same(queue[j], wanted[j], queue'[j], wanted[j]),
           Routes(k)', Gone(k)',
           slotIdSimId[k] # INVALID_SIM_ID => sim'[k] # slotIdSimId[k],
           ~Late(k), Asks(k)'
    PROVE  RequestOK'
<1>1. \A j, c : (Entry(j, c)' = Entry(j, c)) /\ (Known(j, c)' <=> Known(j, c)) BY DEF Entry, Known
<1>2. \A j \in Slots : Unasked(j) => Unasked(j)' BY DEF Unasked, Same
<1>3. \A j \in Slots \ {k} : Routes(j)' /\ Gone(j)' BY <1>2 DEF RequestOK, Routes, Gone
<1>4. ASSUME NEW i \in Slots, NEW j \in Slots, i # j PROVE Apart(i, j)'
    <2>1. Apart(i, j) BY <1>4 DEF RequestOK
    <2>2. CASE i = k BY <2>2 DEF Apart
    <2>3. CASE i # k BY <1>1, <2>1, <2>3 DEF Apart
    <2> QED BY <2>2, <2>3
<1>5. ~isInitSuccess' => \A j \in Slots : Unasked(j)' BY <1>2 DEF RequestOK
<1>6. ~netUp' => suppliers' = {} BY DEF RequestOK
<1>7. ASSUME Serving', \A j \in Slots : ~Late(j)', NEW j \in Slots, j # k PROVE Asks(j)'
    <2>1. \A i \in Slots \ {k} : Late(i)' <=> Late(i) BY DEF Late
    <2>2. Serving /\ \A i \in Slots : ~Late(i) BY <1>7, <2>1 DEF Serving
    <2>3. Asks(j) BY <2>2 DEF RequestOK
    <2>4. \A c : (Wants(j, c)' <=> Wants(j, c)) /\ (Owed(j, c)' <=> Owed(j, c)) BY <1>1, <1>7 DEF Wants, Owed
    <2>5. Leads(slotIdSimId, sim[j], j)' <=> Leads(slotIdSimId, sim[j], j) BY <1>7 DEF Leads
    <2>6. sim'[j] = sim[j] BY <1>7
    <2> QED BY <2>3, <2>4, <2>5, <2>6 DEF Asks
<1>8. Serving' /\ (\A j \in Slots : ~Late(j)') => \A j \in Slots : Asks(j)' BY <1>7
<1>9. \A j \in Slots : Routes(j)' /\ Gone(j)' BY <1>3
<1> QED BY <1>4, <1>5, <1>6, <1>8, <1>9 DEF RequestOK

LEMMA SimInsertedRequests ==
    ASSUME ServiceInv, SupplyInv, RequestInv, NEW k \in Slots, NEW s \in Sims, SimInserted(k, s)
    PROVE  RequestInv'
<1> SUFFICES ASSUME Requesting' PROVE RequestOK' BY DEF RequestInv
<1>1. /\ UNCHANGED <<netSuppliers, slotIdSimId, suppliers, asked, netUp, state, isInitSuccess, wanted, simId>>
      /\ sim[k] = INVALID_SIM_ID /\ sim' = [sim EXCEPT ![k] = s] /\ slips \subseteq slips'
      /\ Sends(k, "SIM_STATE")
      /\ Has(k, "SIM_STATE") => "swapped" \in slips'
    BY DEF SimInserted, netVars, lifeVars, agentVars
<1>2. Requesting BY <1>1, RequestingBefore
<1>3. RequestOK /\ TableOK BY <1>2, TableFacts DEF RequestInv
<1>4. ~In(queue[k], "SIM_STATE")
    <2>1. Has(k, "SIM_STATE") <=> In(queue[k], "SIM_STATE") BY DEF Has, In
    <2> QED BY <1>1, <2>1 DEF Requesting
<1>5. sim'[k] = s /\ s # INVALID_SIM_ID /\ \A j \in Slots \ {k} : sim'[j] = sim[j]
    BY <1>1, ServiceTypes, ServiceAssumption DEF INVALID_SIM_ID
<1>6. \A j \in Slots : /\ Same(queue[j], wanted[j], queue'[j], wanted[j])
                       /\ j # k => queue'[j] = queue[j]
    <2> DEFINE t == "SIM_STATE"
    <2>1. t \in {"SIM_STATE", "ACCOUNT_LOADED"} /\ Sends(k, t) BY <1>1
    <2> HIDE DEF t
    <2> QED BY <2>1, SentOr
<1>7. slotIdSimId[k] = INVALID_SIM_ID BY <1>1, <1>3, <1>4, RouteFacts
<1>8. Unasked(k) BY <1>1, <1>3, <1>4 DEF RequestOK, Gone
<1>9. Unasked(k)' BY <1>1, <1>6, <1>8 DEF Unasked, Same
<1>10. Routes(k)' /\ Gone(k)' BY <1>1, <1>5, <1>7 DEF Routes, Gone
<1>11. ~Late(k)
    <2>1. ~Overrun(queue[k]) BY <1>4 DEF Overrun, In
    <2> QED BY <2>1 DEF Late
<1>12. Asks(k)'
    <2>1. \A c \in Caps : ~Known(k, c)
        <3>1. \A c \in Caps : Known(k, c) => slotIdSimId[k] = Entry(k, c) BY <1>3 DEF TableOK
        <3> QED BY <1>7, <3>1 DEF Known
    <2>2. \A c \in Caps : ~Owed(k, c)' BY <1>1, <2>1 DEF Owed, Known, Entry
    <2>3. \A c : ~Fin(queue'[k], wanted'[k], c) BY <1>9 DEF Unasked, In, Fin, Tells
    <2> QED BY <2>2, <2>3 DEF Asks, Wants
<1>13. \A j \in Slots \ {k} : sim'[j] = sim[j] /\ simId'[j] = simId[j] /\ queue'[j] = queue[j]
    BY <1>1, <1>5, <1>6
<1> QED BY <1>1, <1>3, <1>6, <1>7, <1>10, <1>11, <1>12, <1>13, CardRequests

LEMMA SimRemovedRequests ==
    ASSUME ServiceInv, RequestInv, NEW k \in Slots, SimRemoved(k)
    PROVE  RequestInv'
<1> SUFFICES ASSUME Requesting' PROVE RequestOK' BY DEF RequestInv
<1>1. /\ UNCHANGED <<netSuppliers, slotIdSimId, suppliers, asked, netUp, state, isInitSuccess, wanted>>
      /\ sim[k] # INVALID_SIM_ID /\ sim' = [sim EXCEPT ![k] = INVALID_SIM_ID]
      /\ simId' = [simId EXCEPT ![k] = INVALID_SIM_ID]
      /\ slips \subseteq slips' /\ Sends(k, "SIM_STATE")
      /\ controller[k] = "inited" => "missed" \in slips'
      /\ controller[k] = "waiting" /\ slotIdSimId[k] # INVALID_SIM_ID => "kept" \in slips'
    BY DEF SimRemoved, netVars, lifeVars, agentVars
<1>2. RequestOK BY <1>1, RequestingBefore DEF RequestInv
<1>3. controller[k] # "inited" /\ ~(controller[k] = "waiting" /\ slotIdSimId[k] # INVALID_SIM_ID)
    BY <1>1 DEF Requesting
<1>4. sim'[k] = INVALID_SIM_ID /\ \A j \in Slots \ {k} : sim'[j] = sim[j] /\ simId'[j] = simId[j]
    BY <1>1, ServiceTypes
<1>5. \A j \in Slots : /\ Same(queue[j], wanted[j], queue'[j], wanted[j])
                       /\ j # k => queue'[j] = queue[j]
    <2> DEFINE t == "SIM_STATE"
    <2>1. t \in {"SIM_STATE", "ACCOUNT_LOADED"} /\ Sends(k, t) BY <1>1
    <2> HIDE DEF t
    <2> QED BY <2>1, SentOr
<1>6. controller[k] = "ready" => In(queue'[k], "SIM_STATE")
    <2> DEFINE t == "SIM_STATE"
    <2>1. t \in {"SIM_STATE", "ACCOUNT_LOADED"} /\ Sends(k, t) BY <1>1
    <2> HIDE DEF t
    <2>2. controller[k] = "ready" => (Has(k, t))' BY <2>1, SendsKeeps
    <2>3. (Has(k, t))' <=> In(queue'[k], t) BY DEF Has, In
    <2> QED BY <2>2, <2>3 DEF t
<1>7. controller[k] # "ready" => slotIdSimId[k] = INVALID_SIM_ID /\ queue[k] = <<>> /\ wanted[k] = {}
    <2>1. controller[k] # "ready" => controller[k] \in {"none", "waiting"} BY <1>3, ServiceTypes
    <2> QED BY <1>3, <2>1 DEF ServiceInv, SlotsOK
<1>8. Routes(k)' BY <1>1, <1>4, <1>6, <1>7 DEF Routes
<1>9. Gone(k)'
    <2>1. CASE controller[k] = "ready" BY <1>6, <2>1 DEF Gone
    <2>2. CASE controller[k] # "ready"
        <3>1. Unasked(k) BY <1>7, <2>2 DEF Unasked, In
        <3>2. Unasked(k)' BY <1>1, <1>5, <3>1 DEF Unasked, Same
        <3> QED BY <3>2 DEF Gone
    <2> QED BY <2>1, <2>2
<1>10. ~Late(k) /\ Asks(k)' BY <1>1, <1>4 DEF Late, Asks
<1>11. \A j \in Slots \ {k} : sim'[j] = sim[j] /\ simId'[j] = simId[j] /\ queue'[j] = queue[j]
    BY <1>4, <1>5
<1>12. slotIdSimId[k] # INVALID_SIM_ID => sim'[k] # slotIdSimId[k] BY <1>4
<1> QED BY <1>1, <1>2, <1>5, <1>8, <1>9, <1>10, <1>11, <1>12, CardRequests

LEMMA LeaderExists ==
    ASSUME NEW map \in [Slots -> SimIds], NEW s \in Sims, NEW i \in Slots, map[i] = s
    PROVE  GetSlotId(map, s) \in Slots /\ Leads(map, s, GetSlotId(map, s))
<1> DEFINE S == {k \in Slots : map[k] = s}
<1>1. S \subseteq Nat /\ i \in S BY Numbers
<1>2. Min(S) \in S BY <1>1, MinIsLeast
<1>3. GetSlotId(map, s) = Min(S) BY <1>1 DEF GetSlotId
<1>4. GetSlotId(map, s) \in Slots BY <1>2, <1>3
<1> QED BY <1>4, RouteLeads

LEMMA LeaderUnique ==
    ASSUME NEW map \in [Slots -> SimIds], NEW s \in Sims, NEW i, NEW j, Leads(map, s, i), Leads(map, s, j)
    PROVE  i = j
<1>1. GetSlotId(map, s) = i BY RouteLeads
<1>2. GetSlotId(map, s) = j BY RouteLeads
<1> QED BY <1>1, <1>2

\* The slot that a request for the supplier p goes to: that of the card, or one whose card has gone.
Serves(p, l) ==
    /\ l \in Slots /\ Leads(slotIdSimId, p[1], l) /\ Inited(l)
    /\ \/ sim[l] = p[1] /\ Entry(l, p[2]) = p[1] /\ Known(l, p[2])
       \/ sim[l] = INVALID_SIM_ID /\ In(queue[l], "SIM_STATE")

LEMMA SupplierServed ==
    ASSUME ServiceInv, RequestOK, TableOK, NEW p \in suppliers
    PROVE  Serves(p, GetSlotId(slotIdSimId, p[1]))
<1> DEFINE l == GetSlotId(slotIdSimId, p[1])
<1>1. p[1] \in Sims /\ p[2] \in Caps /\ p = <<p[1], p[2]>> BY ServiceTypes
<1>2. INVALID_SIM_ID \notin Sims BY ServiceAssumption DEF INVALID_SIM_ID
<1>3. PICK i \in Slots : Entry(i, p[2]) = p[1] BY DEF TableOK
<1>4. Known(i, p[2]) BY <1>1, <1>2, <1>3 DEF Known
<1>5. slotIdSimId[i] = p[1] BY <1>1, <1>3, <1>4 DEF TableOK
<1>6. slotIdSimId \in [Slots -> SimIds] BY ServiceTypes
<1>7. l \in Slots /\ Leads(slotIdSimId, p[1], l) BY <1>1, <1>5, <1>6, LeaderExists
<1> HIDE DEF l
<1>8. slotIdSimId[l] = p[1] /\ p[1] # INVALID_SIM_ID BY <1>1, <1>2, <1>7 DEF Leads
<1>9. \/ slotIdSimId[l] = sim[l] /\ sim[l] # INVALID_SIM_ID
      \/ sim[l] = INVALID_SIM_ID /\ In(queue[l], "SIM_STATE")
    BY <1>7, <1>8, RouteFacts
<1>10. CASE slotIdSimId[l] = sim[l] /\ sim[l] # INVALID_SIM_ID
    <2>1. i = l
        <3> SUFFICES ASSUME i # l PROVE FALSE OBVIOUS
        <3>1. Apart(l, i) BY <1>7 DEF RequestOK
        <3> QED BY <1>1, <1>3, <1>8, <1>10, <3>1 DEF Apart
    <2>2. netSuppliers[l][p[2]].simId # INVALID_SIM_ID BY <1>3, <1>8, <2>1 DEF Entry
    <2>3. Inited(l) BY <1>1, <1>7, <2>2, ServiceTypes DEF ServiceInv, SlotsOK, Inited
    <2> QED BY <1>3, <1>4, <1>7, <1>8, <1>10, <2>1, <2>3 DEF Serves, l
<1>11. CASE sim[l] = INVALID_SIM_ID /\ In(queue[l], "SIM_STATE")
    <2>1. queue[l] # <<>> BY <1>11 DEF In
    <2>2. Inited(l) BY <1>7, <2>1, ServiceTypes DEF ServiceInv, SlotsOK, Inited
    <2> QED BY <1>7, <1>11, <2>2 DEF Serves, l
<1> QED BY <1>9, <1>10, <1>11

(* Applications ask for more or for less: the tables stay. *)
LEMMA AskRequests ==
    ASSUME ServiceInv, RequestOK,
           UNCHANGED <<netSuppliers, slotIdSimId, suppliers, sim, simId, netUp, state, isInitSuccess, wanted>>,
           \A j \in Slots : Kept(queue[j], queue'[j]),
           \A j \in Slots : Unasked(j) => Unasked(j)' \/ (isInitSuccess /\ (sim[j] = INVALID_SIM_ID => In(queue[j], "SIM_STATE"))),
           Serving /\ (\A j \in Slots : ~Late(j) /\ ~Late(j)' /\ Asks(j)) => \A j \in Slots : Asks(j)'
    PROVE  RequestOK'
<1>1. \A j, c : Entry(j, c)' = Entry(j, c) BY DEF Entry
<1>2. \A j \in Slots : In(queue[j], "SIM_STATE") => In(queue'[j], "SIM_STATE") BY DEF Kept
<1>3. \A j \in Slots : Late(j) => Late(j)' BY DEF Late, Kept
<1>4. \A j \in Slots : Routes(j)' BY <1>2 DEF RequestOK, Routes
<1>5. \A j \in Slots : Gone(j)' BY <1>2 DEF RequestOK, Gone
<1>6. \A i, j \in Slots : i # j => Apart(i, j)' BY <1>1 DEF RequestOK, Apart
<1>7. ~isInitSuccess' => \A j \in Slots : Unasked(j)' BY DEF RequestOK
<1>8. ~netUp' => suppliers' = {} BY DEF RequestOK
<1>9. ASSUME Serving', \A j \in Slots : ~Late(j)' PROVE \A j \in Slots : Asks(j)'
    <2>1. Serving /\ \A j \in Slots : ~Late(j) BY <1>3, <1>9 DEF Serving
    <2>2. \A j \in Slots : Asks(j) BY <2>1 DEF RequestOK
    <2> QED BY <1>9, <2>1, <2>2
<1> QED BY <1>4, <1>5, <1>6, <1>7, <1>8, <1>9 DEF RequestOK

LEMMA RequestNetworkRequests ==
    ASSUME ServiceInv, SupplyInv, RequestInv, NEW p \in Sims \X Caps, RequestNetwork(p)
    PROVE  RequestInv'
<1> SUFFICES ASSUME Requesting' PROVE RequestOK' BY DEF RequestInv
<1> DEFINE s == p[1]
           x == p[2]
<1>1. /\ UNCHANGED <<netSuppliers, slotIdSimId, suppliers, sim, simId, netUp, state, isInitSuccess, wanted>>
      /\ asked' = asked \cup {p} /\ slips \subseteq slips' /\ p \notin asked
    BY DEF RequestNetwork, agentVars, lifeVars, coreVars
<1>2. Requesting BY <1>1, RequestingBefore
<1>3. RequestOK /\ TableOK BY <1>2, TableFacts DEF RequestInv
<1>4. s \in Sims /\ x \in Caps /\ p = <<s, x>> OBVIOUS
<1>5. \A j, c : Entry(j, c)' = Entry(j, c) /\ (Known(j, c)' <=> Known(j, c)) BY <1>1 DEF Entry, Known
<1>6. CASE p \notin suppliers
    <2>1. queue' = queue BY <1>6 DEF RequestNetwork
    <2> HIDE DEF s, x
    <2>2. ASSUME NEW j \in Slots, NEW c \in Caps PROVE Owed(j, c)' <=> Owed(j, c)
        <3>1. Known(j, c) /\ Entry(j, c) = sim[j] => <<sim[j], c>> \in suppliers BY DEF Known
        <3> QED BY <1>1, <1>5, <1>6, <3>1 DEF Owed
    <2>3. \A j \in Slots : Asks(j) => Asks(j)' BY <1>1, <2>1, <2>2 DEF Asks, Wants, Leads
    <2>4. \A j \in Slots : Kept(queue[j], queue'[j]) BY <2>1, SameSelf
    <2>5. \A j \in Slots : Unasked(j) => Unasked(j)' BY <1>1, <2>1 DEF Unasked
    <2> QED BY <1>1, <1>3, <2>3, <2>4, <2>5, AskRequests
<1>7. CASE p \in suppliers
    <2> DEFINE type == "REQUEST"
               d == <<Event(type, x)>>
    <2>1. queue' = Routed(queue, slotIdSimId, p[1], type, <<p[2]>>) BY <1>7 DEF RequestNetwork, RequestNet
    <2>2. type \in EventTypes BY DEF EventTypes
    <2>3. PICK l \in Slots : Serves(p, l) /\ l = GetSlotId(slotIdSimId, s)
        BY <1>3, <1>7, SupplierServed DEF Serves
    <2>4. isInitSuccess
        <3>1. slips' = slips \cup Early(slotIdSimId, s) BY <1>7 DEF RequestNetwork
        <3>2. ~isInitSuccess => "early" \in slips' BY <2>3, <3>1 DEF Early
        <3> QED BY <3>2 DEF Requesting
    <2>5. type = "REQUEST" OBVIOUS
    <2> HIDE DEF type
    <2>6. Delivered(queue, queue', slotIdSimId, s, d) /\ d \in Seq(Events) BY <2>1, <2>2, RoutedKeeps
    <2>7. DOMAIN d = {1} /\ d[1].type = type /\ d[1].cap = x BY DEF Event
    <2> HIDE DEF d, s, x
    <2>8. queue \in [Slots -> Seq(Events)] /\ slotIdSimId \in [Slots -> SimIds] BY ServiceTypes
    <2>9. l \in Slots /\ Leads(slotIdSimId, s, l) /\ Hears(l) BY <2>3, <2>4 DEF Serves, Hears, Inited, s
    <2>10. \A j \in Slots : j # l => ~Leads(slotIdSimId, s, j) BY <1>4, <2>8, <2>9, LeaderUnique
    <2>11. queue'[l] = queue[l] \o d /\ \A j \in Slots : j # l => queue'[j] = queue[j]
        BY <2>6, <2>9, <2>10 DEF Delivered
    <2>12. /\ \A c : Fin(queue'[l], wanted[l], c) <=> c \in {x} \/ Fin(queue[l], wanted[l], c)
           /\ Kept(queue[l], queue'[l])
           /\ In(queue[l], "SIM_STATE") => Overrun(queue'[l])
        <3> DEFINE e == queue[l]
                   D == {x}
                   w == wanted[l]
        <3>1. e \in Seq(Events) BY <2>8, <2>9
        <3>2. /\ \A i \in DOMAIN d : d[i].type = "REQUEST" /\ d[i].cap \in D
              /\ \A c \in D : \E i \in DOMAIN d : d[i].cap = c
            BY <2>5, <2>7
        <3>3. queue'[l] = e \o d /\ D # {} BY <2>11
        <3>4. \A c : c \in D <=> c \in {x} OBVIOUS
        <3> HIDE DEF e, D, w
        <3>5. /\ \A c : Fin(e \o d, w, c) <=> c \in D \/ Fin(e, w, c)
              /\ Kept(e, e \o d)
              /\ In(e, "SIM_STATE") /\ D # {} => Overrun(e \o d)
            BY <2>6, <3>1, <3>2, RequestedFin
        <3> QED BY <3>3, <3>5 DEF D, e, w
    <2>13. \A j \in Slots : Kept(queue[j], queue'[j]) BY <2>11, <2>12, SameSelf
    <2>14. \A j \in Slots : Unasked(j) => Unasked(j)' \/ (isInitSuccess /\ (sim[j] = INVALID_SIM_ID => In(queue[j], "SIM_STATE")))
        <3>1. \A j \in Slots : j # l /\ Unasked(j) => Unasked(j)' BY <1>1, <2>11 DEF Unasked
        <3>2. sim[l] = INVALID_SIM_ID => In(queue[l], "SIM_STATE")
            <4>1. s # INVALID_SIM_ID BY <1>4, ServiceAssumption DEF INVALID_SIM_ID
            <4> QED BY <2>3, <4>1 DEF Serves, s
        <3> QED BY <2>4, <3>1, <3>2
    <2>15. ASSUME \A j \in Slots : ~Late(j)', NEW j \in Slots, Asks(j) PROVE Asks(j)'
        <3>1. sim[l] = s /\ Entry(l, x) = s /\ Known(l, x)
            <4>1. sim[l] = INVALID_SIM_ID /\ In(queue[l], "SIM_STATE") => Late(l)' BY <1>1, <2>12 DEF Late
            <4> QED BY <2>3, <2>9, <2>15, <4>1 DEF Serves, s, x
        <3>2. CASE j # l
            <4>1. sim[j] # INVALID_SIM_ID => sim[j] # s BY <2>9, <3>1, <3>2, ServiceTypes DEF CardsOK
            <4>2. \A c : sim[j] # INVALID_SIM_ID => (Owed(j, c)' <=> Owed(j, c))
                BY <1>1, <1>4, <1>5, <4>1 DEF Owed
            <4>3. \A c : Wants(j, c)' <=> Wants(j, c) BY <1>1, <2>11, <3>2 DEF Wants
            <4> QED BY <1>1, <2>15, <4>2, <4>3 DEF Asks, Leads
        <3>3. CASE j = l
            <4>1. \A c : Owed(l, c)' <=> Owed(l, c) \/ c = x BY <1>1, <1>4, <1>5, <3>1 DEF Owed
            <4>2. \A c : Wants(l, c)' <=> Wants(l, c) \/ c = x BY <1>1, <2>12 DEF Wants
            <4>3. Leads(slotIdSimId, sim[l], l)' BY <1>1, <2>9, <3>1 DEF Leads
            <4>4. sim[l] = INVALID_SIM_ID \/ \A c \in Caps : Wants(l, c) <=> Owed(l, c) BY <2>15, <3>3 DEF Asks
            <4> QED BY <1>1, <3>3, <4>1, <4>2, <4>3, <4>4 DEF Asks
        <3> QED BY <3>2, <3>3
    <2>16. Serving /\ (\A j \in Slots : ~Late(j) /\ ~Late(j)' /\ Asks(j)) => \A j \in Slots : Asks(j)' BY <2>15
    <2> QED BY <1>1, <1>3, <2>13, <2>14, <2>16, AskRequests
<1> QED BY <1>6, <1>7

LEMMA ReleaseNetworkRequests ==
    ASSUME ServiceInv, SupplyInv, RequestInv, NEW p \in asked, ReleaseNetwork(p)
    PROVE  RequestInv'
<1> SUFFICES ASSUME Requesting' PROVE RequestOK' BY DEF RequestInv
<1> DEFINE s == p[1]
           x == p[2]
<1>0. p \in Sims \X Caps BY ServiceTypes
<1>1. /\ UNCHANGED <<netSuppliers, slotIdSimId, suppliers, sim, simId, netUp, state, isInitSuccess, wanted, slips>>
      /\ asked' = asked \ {p}
    BY DEF ReleaseNetwork, agentVars, lifeVars, coreVars
<1>2. Requesting BY <1>1, RequestingBefore
<1>3. RequestOK /\ TableOK BY <1>2, TableFacts DEF RequestInv
<1>4. s \in Sims /\ x \in Caps /\ p = <<s, x>> BY <1>0
<1>5. \A j, c : Entry(j, c)' = Entry(j, c) /\ (Known(j, c)' <=> Known(j, c)) BY <1>1 DEF Entry, Known
<1>6. CASE p \notin suppliers
    <2>1. queue' = queue BY <1>6 DEF ReleaseNetwork
    <2> HIDE DEF s, x
    <2>2. ASSUME NEW j \in Slots, NEW c \in Caps PROVE Owed(j, c)' <=> Owed(j, c)
        <3>1. Known(j, c) /\ Entry(j, c) = sim[j] => <<sim[j], c>> \in suppliers BY DEF Known
        <3> QED BY <1>1, <1>5, <1>6, <3>1 DEF Owed
    <2>3. \A j \in Slots : Asks(j) => Asks(j)' BY <1>1, <2>1, <2>2 DEF Asks, Wants, Leads
    <2>4. \A j \in Slots : Kept(queue[j], queue'[j]) BY <2>1, SameSelf
    <2>5. \A j \in Slots : Unasked(j) => Unasked(j)' BY <1>1, <2>1 DEF Unasked
    <2> QED BY <1>1, <1>3, <2>3, <2>4, <2>5, AskRequests
<1>7. CASE p \in suppliers
    <2> DEFINE type == "RELEASE"
               d == <<Event(type, x)>>
    <2>1. queue' = Routed(queue, slotIdSimId, p[1], type, <<p[2]>>) BY <1>7 DEF ReleaseNetwork, ReleaseNet
    <2>2. type \in EventTypes BY DEF EventTypes
    <2>5. type = "RELEASE" OBVIOUS
    <2> HIDE DEF type
    <2>6. Delivered(queue, queue', slotIdSimId, s, d) /\ d \in Seq(Events) BY <1>0, <2>1, <2>2, RoutedKeeps
    <2>7. DOMAIN d = {1} /\ d[1].type = type /\ d[1].cap = x BY DEF Event
    <2> HIDE DEF d, s, x
    <2>8. queue \in [Slots -> Seq(Events)] BY ServiceTypes
    <2>9. ASSUME NEW j \in Slots
          PROVE  /\ Kept(queue[j], queue'[j])
                 /\ In(queue'[j], "REQUEST") => In(queue[j], "REQUEST")
                 /\ \A c : Wants(j, c)' <=> Wants(j, c) /\ ~(c = x /\ Leads(slotIdSimId, s, j) /\ Hears(j))
        <3> DEFINE e == queue[j]
                   w == wanted[j]
        <3>1. e \in Seq(Events) BY <2>8
        <3>2. (\A i \in DOMAIN d : d[i].type = "RELEASE" /\ d[i].cap = x) /\ DOMAIN d # {} BY <2>5, <2>7
        <3> HIDE DEF e, w
        <3>3. /\ \A c : Fin(e \o d, w, c) <=> c # x /\ Fin(e, w, c)
              /\ Kept(e, e \o d)
              /\ In(e \o d, "REQUEST") => In(e, "REQUEST")
            BY <2>6, <3>1, <3>2, ReleasedFin
        <3>4. CASE Leads(slotIdSimId, s, j) /\ Hears(j)
            <4>1. queue'[j] = e \o d BY <2>6, <3>4 DEF Delivered, e
            <4>2. \A c : Wants(j, c)' <=> c # x /\ Wants(j, c) BY <1>1, <3>3, <4>1 DEF Wants, e, w
            <4> QED BY <3>3, <3>4, <4>1, <4>2 DEF e
        <3>5. CASE ~(Leads(slotIdSimId, s, j) /\ Hears(j))
            <4>1. queue'[j] = queue[j] BY <2>6, <3>5 DEF Delivered
            <4>2. \A c : Wants(j, c)' <=> Wants(j, c) BY <1>1, <4>1 DEF Wants
            <4> QED BY <3>5, <4>1, <4>2, SameSelf
        <3> QED BY <3>4, <3>5
    <2>10. \A j \in Slots : Unasked(j) => Unasked(j)' BY <1>1, <2>9 DEF Unasked
    <2>11. ASSUME NEW j \in Slots, Asks(j) PROVE Asks(j)'
        <3> SUFFICES ASSUME sim[j] # INVALID_SIM_ID, NEW c \in Caps
                     PROVE  /\ Wants(j, c)' <=> Owed(j, c)'
                            /\ Wants(j, c)' => Leads(slotIdSimId, sim[j], j)'
            BY <1>1 DEF Asks
        <3>1. (Wants(j, c) <=> Owed(j, c)) /\ (Wants(j, c) => Leads(slotIdSimId, sim[j], j))
            BY <2>11 DEF Asks
        <3>2. Leads(slotIdSimId, sim[j], j)' <=> Leads(slotIdSimId, sim[j], j) BY <1>1 DEF Leads
        <3>3. Owed(j, c)' <=> Owed(j, c) /\ ~(sim[j] = s /\ c = x) BY <1>1, <1>4, <1>5 DEF Owed
        <3>4. Wants(j, c)' <=> Wants(j, c) /\ ~(c = x /\ Leads(slotIdSimId, s, j) /\ Hears(j)) BY <2>9
        <3>5. ASSUME Wants(j, c), Leads(slotIdSimId, s, j) PROVE sim[j] = s
            BY <3>1, <3>5 DEF Leads
        <3>6. ASSUME Wants(j, c), sim[j] = s PROVE Leads(slotIdSimId, s, j) /\ Hears(j)
            <4>1. ~Unasked(j) BY <3>6 DEF Unasked, Wants, Fin, In, Tells
            <4>2. isInitSuccess BY <1>3, <4>1 DEF RequestOK
            <4>3. Inited(j)
                <5>1. wanted[j] # {} \/ queue[j] # <<>> BY <4>1 DEF Unasked, In
                <5> QED BY <5>1, ServiceTypes DEF ServiceInv, SlotsOK, Inited
            <4> QED BY <3>1, <3>6, <4>2, <4>3 DEF Hears, Inited
        <3> QED BY <3>1, <3>2, <3>3, <3>4, <3>5, <3>6
    <2> QED BY <1>1, <1>3, <2>9, <2>10, <2>11, AskRequests
<1> QED BY <1>6, <1>7

(* A call of the agent for slot k. *)
LEMMA AgentRequests ==
    ASSUME ServiceInv, RequestOK, NEW k \in Slots,
           UNCHANGED <<sim, simId, netUp, asked, state, isInitSuccess>>,
           \A j \in Slots \ {k} :
              /\ slotIdSimId'[j] = slotIdSimId[j] /\ wanted'[j] = wanted[j]
              /\ \A c \in Caps : Entry(j, c)' = Entry(j, c) /\ (Known(j, c)' <=> Known(j, c)),
           slotIdSimId'[k] \in {INVALID_SIM_ID, slotIdSimId[k], simId[k]},
           \A c \in Caps : Entry(k, c)' \in {INVALID_SIM_ID, Entry(k, c), simId[k]},
           slotIdSimId'[k] # INVALID_SIM_ID /\ slotIdSimId'[k] = sim[k] =>
              \A j \in Slots \ {k} : \A c \in Caps : Entry(j, c) # sim[k],
           \A j \in Slots \ {k} : /\ Kept(queue[j], queue'[j])
                                  /\ \/ queue'[j] = queue[j]
                                     \/ isInitSuccess /\ sim[j] = INVALID_SIM_ID /\ In(queue[j], "SIM_STATE"),
           Routes(k)', Gone(k)', ~isInitSuccess => Unasked(k)', ~netUp => suppliers' = {},
           Late(k) => Late(k)',
           Serving /\ Asks(k) /\ (\A j \in Slots : ~Late(j) /\ ~Late(j)') => Asks(k)'
    PROVE  RequestOK'
<1>1. \A j \in Slots \ {k} : In(queue[j], "SIM_STATE") => In(queue'[j], "SIM_STATE") BY DEF Kept
<1>2. \A j \in Slots : Late(j) => Late(j)'
    <2>1. \A j \in Slots \ {k} : Late(j) => Late(j)' BY DEF Late, Kept
    <2> QED BY <2>1
<1>3. \A j \in Slots : Routes(j)'
    <2>1. \A j \in Slots \ {k} : Routes(j)' BY <1>1 DEF RequestOK, Routes
    <2> QED BY <2>1
<1>4. \A j \in Slots : Gone(j)'
    <2>1. ASSUME NEW j \in Slots \ {k} PROVE Gone(j)'
        <3>1. Gone(j) BY DEF RequestOK
        <3>2. CASE queue'[j] = queue[j] BY <3>1, <3>2 DEF Gone, Unasked
        <3>3. CASE In(queue[j], "SIM_STATE") BY <1>1, <3>3 DEF Gone
        <3> QED BY <3>2, <3>3
    <2> QED BY <2>1
<1>5. \A j \in Slots : simId[j] \in {INVALID_SIM_ID, sim[j]} BY DEF ServiceInv, CardsOK
<1>6. \A i, j \in Slots : i # j /\ sim[i] # INVALID_SIM_ID => sim[i] # sim[j] BY DEF ServiceInv, CardsOK
<1>7. ASSUME NEW i \in Slots, NEW j \in Slots, i # j PROVE Apart(i, j)'
    <2>1. CASE i = k
        <3>1. \A c \in Caps : Entry(j, c)' = Entry(j, c) BY <1>7, <2>1
        <3> QED BY <2>1, <1>7, <3>1 DEF Apart
    <2>2. CASE i # k
        <3>1. Apart(i, j) BY <1>7 DEF RequestOK
        <3>2. slotIdSimId'[i] = slotIdSimId[i] BY <2>2
        <3>3. ASSUME NEW c \in Caps, sim[i] # INVALID_SIM_ID, Entry(j, c) # sim[i] PROVE Entry(j, c)' # sim[i]
            <4>1. CASE j # k BY <3>3, <4>1
            <4>2. CASE j = k BY <1>5, <1>6, <1>7, <3>3, <4>2
            <4> QED BY <4>1, <4>2
        <3> QED BY <3>1, <3>2, <3>3 DEF Apart
    <2> QED BY <2>1, <2>2
<1>8. ASSUME ~isInitSuccess' PROVE \A j \in Slots : Unasked(j)'
    <2>1. \A j \in Slots : Unasked(j) BY <1>8 DEF RequestOK
    <2>2. \A j \in Slots \ {k} : Unasked(j)' BY <1>8, <2>1 DEF Unasked
    <2> QED BY <1>8, <2>2
<1>9. ~netUp' => suppliers' = {} OBVIOUS
<1>10. ASSUME Serving', \A j \in Slots : ~Late(j)' PROVE \A j \in Slots : Asks(j)'
    <2>1. Serving /\ \A j \in Slots : ~Late(j) BY <1>2, <1>10 DEF Serving
    <2>2. \A j \in Slots : Asks(j) BY <2>1 DEF RequestOK
    <2>3. Asks(k)' BY <1>10, <2>1, <2>2
    <2>4. ASSUME NEW j \in Slots, j # k PROVE Asks(j)'
        <3> SUFFICES ASSUME sim[j] # INVALID_SIM_ID, NEW c \in Caps
                     PROVE  /\ Wants(j, c)' <=> Owed(j, c)'
                            /\ Wants(j, c)' => Leads(slotIdSimId, sim[j], j)'
            BY DEF Asks
        <3>1. queue'[j] = queue[j] /\ wanted'[j] = wanted[j] BY <2>4
        <3>2. Wants(j, c)' <=> Wants(j, c) BY <3>1 DEF Wants
        <3>3. Owed(j, c)' <=> Owed(j, c) BY <2>4 DEF Owed
        <3>4. (Wants(j, c) <=> Owed(j, c)) /\ (Wants(j, c) => Leads(slotIdSimId, sim[j], j)) BY <2>2 DEF Asks
        <3>5. ASSUME Leads(slotIdSimId, sim[j], j) PROVE Leads(slotIdSimId, sim[j], j)'
            <4>1. slotIdSimId'[j] = sim[j] BY <2>4, <3>5 DEF Leads
            <4>2. ASSUME NEW i \in Slots, i < j PROVE slotIdSimId'[i] # sim[j]
                <5>1. slotIdSimId[i] # sim[j] BY <3>5, <4>2 DEF Leads
                <5>2. CASE i # k BY <5>1, <5>2
                <5>3. CASE i = k BY <1>5, <1>6, <2>4, <5>1, <5>3
                <5> QED BY <5>2, <5>3
            <4> QED BY <4>1, <4>2 DEF Leads
        <3> QED BY <3>2, <3>3, <3>4, <3>5
    <2> QED BY <2>3, <2>4
<1> QED BY <1>3, <1>4, <1>7, <1>8, <1>9, <1>10 DEF RequestOK

\* What is due comes to the slot l.
Arrives(q, D, l) ==
    /\ \A j \in Slots \ {l} : queue'[j] = q[j]
    /\ \A c : Fin(queue'[l], wanted[l], c) <=> c \in D \/ Fin(q[l], wanted[l], c)
    /\ Kept(q[l], queue'[l])
    /\ In(q[l], "SIM_STATE") => Overrun(queue'[l])

LEMMA DueArrives ==
    ASSUME ServiceInv, RequestOK, NEW k \in Slots, Inited(k), simId[k] # INVALID_SIM_ID,
           NEW q \in [Slots -> Seq(Events)], NEW u, u.queue = q, NEW acc \in SUBSET Caps, NEW g,
           Enrolled(u, g, k, acc), SetAgent(g), "early" \notin g.slip, Due(u, k, acc) # {},
           \A j \in Slots \ {k} : u.map[j] = slotIdSimId[j], u.map \in [Slots -> SimIds]
    PROVE  /\ isInitSuccess
           /\ \E l \in Slots : /\ Arrives(q, Due(u, k, acc), l) /\ Leads(slotIdSimId', simId[k], l)
                               /\ l = k \/ (sim[l] = INVALID_SIM_ID /\ In(queue[l], "SIM_STATE"))
<1> DEFINE D == Due(u, k, acc)
           s == simId[k]
           m == g.map
           caps == SetToSeq(D)
           t == "REQUEST"
           d == Said(t, caps)
<1>1. isInitSuccess /\ D # {} BY DEF Enrolled
<1>2. simId \in [Slots -> SimIds] /\ s \in Sims /\ s = sim[k] /\ s # INVALID_SIM_ID
    BY ServiceTypes DEF SimIds, ServiceInv, CardsOK
<1>3. D \in SUBSET Caps BY DEF Due
<1>4. m = [u.map EXCEPT ![k] = s] /\ queue' = g.queue /\ slotIdSimId' = m BY DEF Enrolled, SetAgent
<1>5. queue' = Routed(q, m, s, t, caps)
    <2>1. g.queue = RequestNet(q, m, s, caps) BY DEF Enrolled
    <2> QED BY <1>4, <2>1 DEF RequestNet
<1>6. t \in EventTypes /\ t = "REQUEST" BY DEF EventTypes
<1> HIDE DEF D, s, m, t
<1>7. m \in [Slots -> SimIds] /\ m[k] = s /\ \A j \in Slots \ {k} : m[j] = slotIdSimId[j]
    <2>1. s \in SimIds BY <1>2 DEF SimIds
    <2> QED BY <1>4, <2>1
<1>8. IsFiniteSet(D) BY <1>3, CapsFinite, FS_Subset
<1>9. caps \in Seq(D) /\ \A c \in D : \E i \in DOMAIN caps : caps[i] = c BY <1>8, SetToSeqIsOnto
<1> HIDE DEF caps
<1>10. caps \in Seq(Caps) BY <1>3, <1>9
<1>11. d \in Seq(Events) /\ DOMAIN d = DOMAIN caps
       /\ \A i \in DOMAIN caps : d[i].type = t /\ d[i].cap = caps[i]
    BY <1>6, <1>10, SaidIs
<1>12. Delivered(q, queue', m, s, d) BY <1>2, <1>5, <1>6, <1>7, <1>10, RoutedIs
<1> HIDE DEF d
<1>13. /\ \A i \in DOMAIN d : d[i].type = "REQUEST" /\ d[i].cap \in D
       /\ \A c \in D : \E i \in DOMAIN d : d[i].cap = c
    <2>1. \A i \in DOMAIN caps : caps[i] \in D BY <1>9
    <2> QED BY <1>6, <1>9, <1>11, <2>1
<1>14. PICK l \in Slots : Leads(m, s, l) BY <1>2, <1>7, LeaderExists
<1>15. l = k \/ (sim[l] = INVALID_SIM_ID /\ In(queue[l], "SIM_STATE"))
    <2> SUFFICES ASSUME l # k PROVE sim[l] = INVALID_SIM_ID /\ In(queue[l], "SIM_STATE") OBVIOUS
    <2>1. slotIdSimId[l] = s BY <1>7, <1>14 DEF Leads
    <2> QED BY <1>2, <2>1, RouteFacts
<1>16. Hears(l)
    <2>1. Inited(l)
        <3>1. CASE l = k BY <3>1
        <3>2. CASE In(queue[l], "SIM_STATE")
            <4>1. queue[l] # <<>> BY <3>2 DEF In
            <4> QED BY <4>1, ServiceTypes DEF ServiceInv, SlotsOK, Inited
        <3> QED BY <1>15, <3>1, <3>2
    <2> QED BY <1>1, <2>1 DEF Hears, Inited
<1>17. \A j \in Slots \ {l} : queue'[j] = q[j]
    <2>1. \A j \in Slots \ {l} : ~Leads(m, s, j) BY <1>2, <1>7, <1>14, LeaderUnique
    <2> QED BY <1>12, <2>1 DEF Delivered
<1>18. queue'[l] = q[l] \o d BY <1>12, <1>14, <1>16 DEF Delivered
<1>19. Arrives(q, D, l)
    <2> DEFINE e == q[l]
               w == wanted[l]
    <2>1. e \in Seq(Events) BY <1>14
    <2> HIDE DEF e, w
    <2>2. /\ \A c : Fin(e \o d, w, c) <=> c \in D \/ Fin(e, w, c)
          /\ Kept(e, e \o d)
          /\ In(e, "SIM_STATE") /\ D # {} => Overrun(e \o d)
        BY <1>11, <1>13, <2>1, RequestedFin
    <2> QED BY <1>1, <1>17, <1>18, <2>2 DEF Arrives, e, w
<1>20. Leads(slotIdSimId', s, l) BY <1>4, <1>14
<1>21. Arrives(q, Due(u, k, acc), l) /\ Leads(slotIdSimId', simId[k], l) BY <1>19, <1>20 DEF D, s
<1> QED BY <1>1, <1>15, <1>21

(* The queues after a register: what was due has come, or will come too late to another slot. *)
Answered(k, D) ==
    /\ \A j \in Slots \ {k} : /\ Kept(queue[j], queue'[j])
                              /\ \/ queue'[j] = queue[j]
                                 \/ isInitSuccess /\ sim[j] = INVALID_SIM_ID /\ In(queue[j], "SIM_STATE")
    /\ ~isInitSuccess /\ Unasked(k) => Unasked(k)'
    /\ (\A j \in Slots : ~Late(j)') =>
         /\ \A c \in Caps : Wants(k, c)' <=> c \in D \/ Wants(k, c)
         /\ D # {} => Leads(slotIdSimId', simId[k], k)

LEMMA DueAnswered ==
    ASSUME ServiceInv, RequestOK, NEW k \in Slots, Inited(k), simId[k] # INVALID_SIM_ID,
           NEW q \in [Slots -> Seq(Events)], \A j \in Slots \ {k} : q[j] = queue[j],
           Same(queue[k], wanted[k], q[k], wanted[k]), Kept(queue[k], q[k]),
           NEW u, u.queue = q, NEW acc \in SUBSET Caps, NEW g,
           Enrolled(u, g, k, acc), SetAgent(g), "early" \notin g.slip,
           \A j \in Slots \ {k} : u.map[j] = slotIdSimId[j], u.map \in [Slots -> SimIds],
           UNCHANGED <<sim, wanted>>
    PROVE  Answered(k, Due(u, k, acc))
<1> DEFINE D == Due(u, k, acc)
<1>1. queue' = g.queue BY DEF SetAgent
<1>2. \A c \in Caps : Fin(q[k], wanted[k], c) <=> Wants(k, c) BY DEF Same, Wants
<1>3. CASE D = {}
    <2>1. queue' = q BY <1>1, <1>3 DEF Enrolled
    <2>2. Unasked(k) => Unasked(k)' BY <2>1 DEF Same, Unasked
    <2>3. \A c \in Caps : Wants(k, c)' <=> Wants(k, c) BY <1>2, <2>1 DEF Wants
    <2>4. \A j \in Slots \ {k} : queue'[j] = queue[j] /\ Kept(queue[j], queue'[j]) BY <2>1, SameSelf
    <2> QED BY <1>3, <2>2, <2>3, <2>4 DEF Answered
<1>4. CASE D # {}
    <2>1. isInitSuccess BY <1>4, DueArrives
    <2>2. PICK l \in Slots : /\ Arrives(q, D, l) /\ Leads(slotIdSimId', simId[k], l)
                             /\ l = k \/ (sim[l] = INVALID_SIM_ID /\ In(queue[l], "SIM_STATE"))
        BY <1>4, DueArrives
    <2> HIDE DEF D
    <2>3. ASSUME NEW j \in Slots \ {k}
          PROVE  /\ Kept(queue[j], queue'[j])
                 /\ \/ queue'[j] = queue[j]
                    \/ isInitSuccess /\ sim[j] = INVALID_SIM_ID /\ In(queue[j], "SIM_STATE")
        <3>1. CASE j = l
            <4>1. Kept(queue[j], queue'[j]) BY <2>2, <3>1 DEF Arrives
            <4> QED BY <2>1, <2>2, <3>1, <4>1
        <3>2. CASE j # l
            <4>1. queue'[j] = queue[j] BY <2>2, <3>2 DEF Arrives
            <4> QED BY <4>1, SameSelf
        <3> QED BY <3>1, <3>2
    <2>4. ASSUME \A j \in Slots : ~Late(j)' PROVE l = k
        <3> SUFFICES ASSUME l # k PROVE FALSE OBVIOUS
        <3>1. sim'[l] = INVALID_SIM_ID /\ In(q[l], "SIM_STATE") BY <2>2
        <3>2. Late(l)' BY <2>2, <3>1 DEF Arrives, Late
        <3> QED BY <2>4, <3>2
    <2>5. ASSUME \A j \in Slots : ~Late(j)'
          PROVE  (\A c \in Caps : Wants(k, c)' <=> c \in D \/ Wants(k, c)) /\ Leads(slotIdSimId', simId[k], k)
        <3>1. l = k BY <2>4, <2>5
        <3>2. \A c : Wants(k, c)' <=> c \in D \/ Fin(q[k], wanted[k], c) BY <2>2, <3>1 DEF Arrives, Wants
        <3> QED BY <1>2, <2>2, <3>1, <3>2
    <2>6. Answered(k, D) BY <2>1, <2>3, <2>5 DEF Answered
    <2> QED BY <2>6 DEF D
<1> QED BY <1>3, <1>4

LEMMA RegisterRequests ==
    ASSUME ServiceInv, SupplyOK, TableOK, RequestOK, NEW k \in Slots, Inited(k),
           NEW q \in [Slots -> Seq(Events)], \A j \in Slots \ {k} : q[j] = queue[j],
           Same(queue[k], wanted[k], q[k], wanted[k]), Kept(queue[k], q[k]),
           NEW u, Lost(Agent(q), u, k), NEW acc \in Accepted, NEW g, g = RegisterNetSupplier(u, k, acc),
           SetAgent(g), UNCHANGED <<sim, simId, netUp, asked, state, isInitSuccess, wanted>>, Requesting'
    PROVE  RequestOK'
<1> DEFINE o == Agent(q)
           a == Agent(queue)
<1>1. /\ Booked(o) /\ o.queue = q /\ o.tab = netSuppliers /\ o.map = slotIdSimId /\ o.net = suppliers
    BY BookedRest
<1>2. a.tab = netSuppliers /\ a.map = slotIdSimId /\ a.net = suppliers /\ Tabled(a) BY DEF Agent, SupplyOK
<1>3. Lost(o, u, k) OBVIOUS
<1> HIDE DEF o, a
<1>4. \A j, c : Ent(o, j, c) = Entry(j, c) /\ Ent(a, j, c) = Entry(j, c) BY <1>1, <1>2 DEF Ent, Entry
<1>5. \A j, c : (Live(o, j, c) <=> Known(j, c)) /\ (Live(a, j, c) <=> Known(j, c))
    BY <1>1, <1>2, <1>4 DEF Live, Known
<1>6. Tabled(o) BY <1>1, <1>2, <1>4, <1>5 DEF Tabled
<1>7. /\ "refused" \notin g.slip /\ "crossed" \notin g.slip /\ "early" \notin g.slip
    BY DEF SetAgent, Requesting
<1>8. Supplied(o, g, k) BY <1>1, <1>3, <1>6, <1>7, RegisterSupplies
<1>9. netSuppliers' = g.tab /\ slotIdSimId' = g.map /\ suppliers' = g.net /\ queue' = g.queue
    BY DEF SetAgent
<1>10. \A j, c : Entry(j, c)' = Ent(g, j, c) BY <1>9 DEF Entry, Ent
<1>11. \A j, c : Known(j, c)' <=> Live(g, j, c) BY <1>9, <1>10 DEF Known, Live
<1>12. \A j \in Slots \ {k} :
          /\ slotIdSimId'[j] = slotIdSimId[j] /\ wanted'[j] = wanted[j]
          /\ \A c \in Caps : Entry(j, c)' = Entry(j, c) /\ (Known(j, c)' <=> Known(j, c))
    BY <1>1, <1>4, <1>5, <1>8, <1>9, <1>10, <1>11 DEF Supplied
<1>13. /\ Booked(u) /\ u.queue = q /\ u.net \subseteq suppliers /\ u.map[k] \in {INVALID_SIM_ID, slotIdSimId[k]}
       /\ \A c \in Caps : Ent(u, k, c) \in {INVALID_SIM_ID, Entry(k, c)}
       /\ \A j \in Slots \ {k} : u.map[j] = slotIdSimId[j]
       /\ \A j \in Slots \ {k} : \A c \in Caps : Ent(u, j, c) = Entry(j, c)
    <2>1. \A j \in Slots \ {k} : \A c \in Caps : Ent(u, j, c) = Entry(j, c)
        <3>1. \A j \in Slots \ {k} : u.tab[j] = netSuppliers[j] BY <1>1, <1>3 DEF Lost
        <3> QED BY <3>1 DEF Ent, Entry
    <2>2. \A c \in Caps : Ent(u, k, c) \in {INVALID_SIM_ID, Entry(k, c)}
        <3>1. \A c \in Caps : Ent(u, k, c) = Ent(o, k, c) \/ Ent(u, k, c) = INVALID_SIM_ID BY <1>3 DEF Lost
        <3> QED BY <1>4, <3>1
    <2> QED BY <1>1, <1>3, <2>1, <2>2 DEF Lost
<1>14. sim[k] # INVALID_SIM_ID /\ simId[k] = INVALID_SIM_ID => slotIdSimId[k] = INVALID_SIM_ID BY RouteFacts
<1>15. simId[k] \in {INVALID_SIM_ID, sim[k]} BY DEF ServiceInv, CardsOK
<1>16. CASE simId[k] = INVALID_SIM_ID \/ ~Serving
    <2>1. g = u BY <1>13, <1>16, EnrollsNothing
    <2>2. queue' = q BY <1>9, <1>13, <2>1
    <2>3. slotIdSimId'[k] \in {INVALID_SIM_ID, slotIdSimId[k]} BY <1>9, <1>13, <2>1
    <2>4. \A c \in Caps : Entry(k, c)' \in {INVALID_SIM_ID, Entry(k, c)} BY <1>10, <1>13, <2>1
    <2>5. slotIdSimId'[k] # INVALID_SIM_ID /\ slotIdSimId'[k] = sim[k] =>
             \A j \in Slots \ {k} : \A c \in Caps : Entry(j, c) # sim[k]
        <3>1. \A j \in Slots \ {k} : Apart(k, j) BY DEF RequestOK
        <3> QED BY <2>3, <3>1 DEF Apart
    <2>6. \A j \in Slots \ {k} : Kept(queue[j], queue'[j]) /\ queue'[j] = queue[j] BY <2>2, SameSelf
    <2>7. Routes(k)'
        <3>1. Routes(k) BY DEF RequestOK
        <3> QED BY <2>2, <2>3, <3>1 DEF Routes, Kept
    <2>8. Unasked(k) => Unasked(k)' BY <2>2 DEF Unasked, Same
    <2>9. Gone(k)'
        <3>1. Gone(k) BY DEF RequestOK
        <3> QED BY <2>2, <2>8, <3>1 DEF Gone, Kept
    <2>10. ~isInitSuccess => Unasked(k)' BY <2>8 DEF RequestOK
    <2>11. ~netUp => suppliers' = {} BY <1>9, <1>13, <2>1 DEF RequestOK
    <2>12. Late(k) => Late(k)' BY <2>2 DEF Late, Kept
    <2>13. ASSUME Serving, Asks(k) PROVE Asks(k)'
        <3> SUFFICES ASSUME sim[k] # INVALID_SIM_ID, NEW c \in Caps PROVE ~Wants(k, c)' /\ ~Owed(k, c)'
            BY DEF Asks
        <3>1. slotIdSimId[k] = INVALID_SIM_ID BY <1>14, <1>16, <2>13
        <3>2. ~Known(k, c) BY <3>1 DEF TableOK, Known
        <3>3. ~Wants(k, c) BY <2>13, <3>2 DEF Asks, Owed
        <3>4. ~Wants(k, c)' BY <2>2, <3>3 DEF Wants, Same
        <3>5. ~Known(k, c)' BY <1>5, <1>8, <1>11, <1>16, <2>13, <3>2 DEF Supplied
        <3> QED BY <3>4, <3>5 DEF Owed
    <2> QED BY <1>12, <2>3, <2>4, <2>5, <2>6, <2>7, <2>9, <2>10, <2>11, <2>12, <2>13, AgentRequests
<1>17. CASE ~(simId[k] = INVALID_SIM_ID \/ ~Serving)
    <2> DEFINE s == simId[k]
               D == Due(u, k, acc)
    <2>1. acc \in SUBSET Caps /\ (netUp => acc = Caps \/ Refused(acc)) /\ (~netUp => acc = {})
        BY AcceptedCaps DEF Accepted
    <2>2. Enrolled(u, g, k, acc) BY <1>13, <1>17, <2>1, ServiceTypes, CapsExist, Enrolls
    <2>3. ~Refused(acc) /\ ~Crossing(u, k) BY <1>7, <2>2 DEF Enrolled
    <2>4. u.map \in [Slots -> SimIds] BY <1>13 DEF Booked, Agents
    <2>5. slotIdSimId'[k] = s /\ s = sim[k] /\ s # INVALID_SIM_ID
        BY <1>9, <1>15, <1>17, <2>2, <2>4 DEF Enrolled
    <2>6. \A c \in Caps : Entry(k, c)' \in {INVALID_SIM_ID, Entry(k, c), s}
        BY <1>10, <1>13, <2>2 DEF Enrolled
    <2>7. \A j \in Slots \ {k} : \A c \in Caps : Entry(j, c) # s
        <3>1. \A j \in Slots \ {k} : \A c \in Caps : Ent(u, j, c) # s BY <2>3 DEF Crossing, Ent
        <3> QED BY <1>13, <3>1
    <2>8. Answered(k, D) BY <1>7, <1>13, <1>17, <2>1, <2>2, <2>4, DueAnswered
    <2>9. Routes(k)' BY <2>5 DEF Routes
    <2>10. Gone(k)' BY <2>5 DEF Gone
    <2>11. ~isInitSuccess => Unasked(k)' BY <2>8 DEF Answered, RequestOK
    <2>12. ~netUp => suppliers' = {} /\ D = {}
        <3> SUFFICES ASSUME ~netUp PROVE suppliers' = {} /\ D = {} OBVIOUS
        <3>1. acc = {} /\ suppliers = {} BY <2>1 DEF RequestOK
        <3>2. g.net = u.net \cup ({s} \X acc) BY <2>2 DEF Enrolled
        <3> QED BY <1>9, <1>13, <3>1, <3>2 DEF Due
    <2>13. \A c \in Caps : c \in D <=> c \in acc /\ <<s, c>> \notin u.net /\ <<s, c>> \in asked BY DEF Due
    <2>14. ASSUME Asks(k), \A j \in Slots : ~Late(j)' PROVE Asks(k)'
        <3> SUFFICES ASSUME NEW c \in Caps
                     PROVE  /\ Wants(k, c)' <=> Owed(k, c)'
                            /\ Wants(k, c)' => Leads(slotIdSimId, sim[k], k)'
            BY DEF Asks
        <3>1. (Wants(k, c) <=> Owed(k, c)) /\ (Wants(k, c) => Leads(slotIdSimId, s, k)) BY <2>5, <2>14 DEF Asks
        <3>2. (Wants(k, c)' <=> c \in D \/ Wants(k, c)) /\ (D # {} => Leads(slotIdSimId', s, k))
            BY <2>8, <2>14 DEF Answered
        <3>3. Leads(slotIdSimId, sim[k], k)' <=> Leads(slotIdSimId', s, k) BY <2>5
        <3>4. Leads(slotIdSimId, s, k) => Leads(slotIdSimId', s, k)
            <4>1. \A j \in Slots : j < k => j # k BY Numbers
            <4> QED BY <1>12, <2>5, <4>1 DEF Leads
        <3>5. CASE ~netUp
            <4>1. ~Owed(k, c) /\ ~Owed(k, c)' /\ D = {} BY <2>12, <3>5 DEF Owed, Known, RequestOK
            <4> QED BY <3>1, <3>2, <4>1
        <3>6. CASE netUp
            <4>1. Holds(g, k) BY <1>8, <1>17, <3>6 DEF Supplied
            <4>2. Entry(k, c)' = s /\ Known(k, c)' BY <1>10, <1>11, <4>1 DEF Holds
            <4>3. Owed(k, c)' <=> <<s, c>> \in asked BY <2>5, <4>2 DEF Owed
            <4>4. acc = Caps BY <2>1, <2>3, <3>6
            <4>5. ASSUME <<s, c>> \in asked, <<s, c>> \in u.net PROVE Wants(k, c)
                <5>1. <<s, c>> \in suppliers BY <1>13, <4>5
                <5>2. \E j \in Slots : Entry(j, c) = s BY <5>1 DEF TableOK
                <5>3. Entry(k, c) = s BY <2>7, <5>2
                <5>4. Owed(k, c) BY <2>5, <4>5, <5>1, <5>3 DEF Owed, Known
                <5> QED BY <3>1, <5>4
            <4>6. Owed(k, c) => <<s, c>> \in asked BY <2>5 DEF Owed
            <4>7. c \in D <=> <<s, c>> \notin u.net /\ <<s, c>> \in asked BY <2>13, <4>4
            <4>8. c \in D => D # {} OBVIOUS
            <4> HIDE DEF D, s
            <4> QED BY <3>1, <3>2, <3>3, <3>4, <4>3, <4>5, <4>6, <4>7, <4>8
        <3> QED BY <3>5, <3>6
    <2>15. ~Late(k) BY <2>5 DEF Late
    <2>16. \A j \in Slots \ {k} : /\ Kept(queue[j], queue'[j])
                                  /\ \/ queue'[j] = queue[j]
                                     \/ isInitSuccess /\ sim[j] = INVALID_SIM_ID /\ In(queue[j], "SIM_STATE")
        BY <2>8 DEF Answered
    <2>17. ~netUp => suppliers' = {} BY <2>12
    <2>18. slotIdSimId'[k] # INVALID_SIM_ID /\ slotIdSimId'[k] = sim[k] =>
             \A j \in Slots \ {k} : \A c \in Caps : Entry(j, c) # sim[k]
        BY <2>5, <2>7
    <2>19. slotIdSimId'[k] \in {INVALID_SIM_ID, slotIdSimId[k], simId[k]} BY <2>5
    <2>20. \A c \in Caps : Entry(k, c)' \in {INVALID_SIM_ID, Entry(k, c), simId[k]} BY <2>6
    <2> HIDE DEF s, D
    <2> QED BY <1>12, <2>9, <2>10, <2>11, <2>14, <2>15, <2>16, <2>17, <2>18, <2>19, <2>20, AgentRequests
<1> QED BY <1>16, <1>17

LEMMA AccountRequests ==
    ASSUME ServiceInv, SupplyInv, RequestInv, NEW k \in Slots, Inited(k), NEW acc \in Accepted,
           NEW q \in [Slots -> Seq(Events)], \A j \in Slots \ {k} : q[j] = queue[j],
           Same(queue[k], wanted[k], q[k], wanted[k]), Kept(queue[k], q[k]),
           SimAccountLoaded(k, acc, q), Requesting',
           UNCHANGED <<sim, simId, netUp, asked, state, isInitSuccess, wanted>>
    PROVE  RequestOK'
<1> DEFINE o == Agent(q)
           u == UnregisterNetSupplierForSimUpdate(o, k)
           g == RegisterNetSupplier(u, k, acc)
<1>1. SetAgent(g) BY DEF SimAccountLoaded
<1>2. Booked(o) BY BookedRest
<1>3. g = RegisterNetSupplier(u, k, acc) OBVIOUS
<1>4. u = UnregisterNetSupplierForSimUpdate(o, k) OBVIOUS
<1>5. o = Agent(q) OBVIOUS
<1> HIDE DEF o, u, g
<1>6. Dropped(o, u, k) BY <1>2, <1>4, Drops
<1>7. Lost(o, u, k) BY <1>6, DroppedIsLost
<1>8. Lost(Agent(q), u, k) BY <1>5, <1>7
<1>9. slips \subseteq slips' BY <1>1 DEF SetAgent
<1>10. Requesting BY <1>9, RequestingBefore
<1>11. SupplyOK /\ TableOK /\ RequestOK BY <1>10, TableFacts DEF RequestInv
<1> QED BY <1>1, <1>3, <1>8, <1>11, RegisterRequests

LEMMA AccountLoadedRequests ==
    ASSUME ServiceInv, SupplyInv, RequestInv, NEW k \in Slots, NEW acc \in Accepted,
           HandleSimAccountLoaded(k, acc)
    PROVE  RequestInv'
<1> SUFFICES ASSUME Requesting' PROVE RequestOK' BY DEF RequestInv
<1> DEFINE t == "ACCOUNT_LOADED"
           e == queue[k]
           w == wanted[k]
           q == Rest(k)
<1>1. Takes(k, t) /\ SimAccountLoaded(k, acc, q) /\ UNCHANGED wanted BY DEF HandleSimAccountLoaded
<1>2. t # "REQUEST" /\ t # "RELEASE" /\ t # "SIM_STATE" OBVIOUS
<1> HIDE DEF t
<1>3. UNCHANGED <<sim, simId, netUp, asked, state, isInitSuccess>> BY <1>1 DEF Takes, coreVars, lifeVars
<1>4. /\ q \in [Slots -> Seq(Events)] /\ q[k] = Tail(e) /\ \A j \in Slots \ {k} : q[j] = queue[j]
      /\ Inited(k)
    BY <1>1, TakesRest
<1>5. e \in Seq(Events) /\ e # <<>> /\ Head(e).type = t /\ w \in SUBSET Caps
    BY <1>1, ServiceTypes DEF Takes
<1> HIDE DEF q, e, w
<1>6. w = IF Head(e).type = "REQUEST" THEN w \cup {Head(e).cap}
          ELSE IF Head(e).type = "RELEASE" THEN w \ {Head(e).cap} ELSE w
    BY <1>2, <1>5
<1>7. Same(e, w, Tail(e), w) /\ Kept(e, Tail(e)) BY <1>2, <1>5, <1>6, TakenSame
<1>8. Same(queue[k], wanted[k], q[k], wanted[k]) /\ Kept(queue[k], q[k]) BY <1>4, <1>7 DEF e, w
<1> QED BY <1>1, <1>3, <1>4, <1>8, AccountRequests

LEMMA RetryRequests ==
    ASSUME ServiceInv, SupplyInv, RequestInv, NEW k \in Slots, NEW acc \in Accepted,
           HandleRetryLoadSimAccount(k, acc)
    PROVE  RequestInv'
<1> SUFFICES ASSUME Requesting' PROVE RequestOK' BY DEF RequestInv
<1>1. timer[k] > 0 /\ UNCHANGED <<sim, simId, netUp, asked, state, isInitSuccess, wanted>>
    BY DEF HandleRetryLoadSimAccount, coreVars, lifeVars
<1>2. Inited(k)
    <2>1. timer[k] # 0 BY <1>1
    <2> QED BY <2>1, ServiceTypes DEF ServiceInv, SlotsOK, Inited
<1>3. queue \in [Slots -> Seq(Events)] BY ServiceTypes
<1>4. Same(queue[k], wanted[k], queue[k], wanted[k]) /\ Kept(queue[k], queue[k]) BY SameSelf
<1>5. CASE SimAccountLoaded(k, acc, queue) BY <1>1, <1>2, <1>3, <1>4, <1>5, AccountRequests
<1>6. CASE UNCHANGED <<agentVars, suppliers, queue, slips, budget, loaded>>
    <2>1. UNCHANGED <<netSuppliers, slotIdSimId, suppliers, queue, slips>> BY <1>6 DEF agentVars
    <2>2. RequestOK BY <2>1, RequestingBefore DEF RequestInv
    <2>3. Serving' = Serving BY <1>1 DEF Serving
    <2>4. \A j \in Slots : Same(queue[j], wanted[j], queue'[j], wanted'[j]) /\ Kept(queue[j], queue'[j])
        BY <1>1, <2>1, SameSelf
    <2> QED BY <1>1, <2>1, <2>2, <2>3, <2>4, RequestStays
<1> QED BY <1>5, <1>6 DEF HandleRetryLoadSimAccount

LEMMA AbilityRequests ==
    ASSUME ServiceInv, SupplyInv, RequestInv, NEW k \in Slots, NEW acc \in Accepted,
           OnAddSystemAbility(k, acc)
    PROVE  RequestInv'
<1> SUFFICES ASSUME Requesting' PROVE RequestOK' BY DEF RequestInv
<1> DEFINE o == Agent(queue)
           g == RegisterNetSupplier(o, k, acc)
<1>1. /\ k \in added /\ SetAgent(g) /\ UNCHANGED <<sim, simId, netUp, asked, state, isInitSuccess, wanted>>
    BY DEF OnAddSystemAbility, coreVars, lifeVars
<1>2. Inited(k) /\ queue \in [Slots -> Seq(Events)] BY <1>1, ServiceTypes
<1>3. Booked(o) BY <1>2, BookedRest
<1>4. g = RegisterNetSupplier(o, k, acc) /\ o = Agent(queue) OBVIOUS
<1> HIDE DEF o, g
<1>5. Lost(o, o, k) BY <1>3, NothingIsLost
<1>6. Lost(Agent(queue), o, k) BY <1>4, <1>5
<1>7. slips \subseteq slips' BY <1>1 DEF SetAgent
<1>8. Requesting BY <1>7, RequestingBefore
<1>9. SupplyOK /\ TableOK /\ RequestOK BY <1>8, TableFacts DEF RequestInv
<1>10. Same(queue[k], wanted[k], queue[k], wanted[k]) /\ Kept(queue[k], queue[k]) BY SameSelf
<1> QED BY <1>1, <1>2, <1>4, <1>6, <1>9, <1>10, RegisterRequests

LEMMA StateChangedRequests ==
    ASSUME ServiceInv, SupplyInv, RequestInv, NEW k \in Slots, HandleSimStateChanged(k)
    PROVE  RequestInv'
<1> SUFFICES ASSUME Requesting' PROVE RequestOK' BY DEF RequestInv
<1>1. Takes(k, "SIM_STATE") BY DEF HandleSimStateChanged
<1>2. UNCHANGED <<sim, simId, netUp, asked, state, isInitSuccess>> BY <1>1 DEF Takes, coreVars, lifeVars
<1>3. /\ Rest(k) \in [Slots -> Seq(Events)] /\ \A j \in Slots \ {k} : Rest(k)[j] = queue[j]
      /\ \A t : Has(k, t) <=> t = "SIM_STATE" \/ In(Rest(k)[k], t)
    BY <1>1, TakesRest
<1>4. CASE sim[k] # INVALID_SIM_ID
    <2> DEFINE t == "SIM_STATE"
    <2>1. UNCHANGED <<netSuppliers, slotIdSimId, suppliers, slips, wanted>> /\ queue' = Rest(k)
        BY <1>4 DEF HandleSimStateChanged, agentVars
    <2>2. RequestOK BY <2>1, RequestingBefore DEF RequestInv
    <2>3. Takes(k, t) /\ t # "REQUEST" /\ t # "RELEASE" BY <1>1
    <2> HIDE DEF t
    <2> QED BY <1>4, <2>1, <2>2, <2>3, TakenRequests
<1>5. CASE sim[k] = INVALID_SIM_ID
    <2> DEFINE o == Agent(Rest(k))
               u == UnregisterNetSupplierForSimUpdate(o, k)
               s == (IF Has(k, "REQUEST") THEN {"late"} ELSE {})
                      \cup (IF u.map[k] # INVALID_SIM_ID THEN {"kept"} ELSE {})
               g == [u EXCEPT !.slip = s]
    <2>1. /\ Booked(o) /\ o.queue = Rest(k) /\ o.tab = netSuppliers /\ o.map = slotIdSimId
          /\ o.net = suppliers
        BY <1>3, BookedRest
    <2>2. SetAgent(g) /\ wanted' = [wanted EXCEPT ![k] = {}] BY <1>5 DEF HandleSimStateChanged
    <2>3. u = UnregisterNetSupplierForSimUpdate(o, k) OBVIOUS
    <2>4. (u.map[k] # INVALID_SIM_ID => "kept" \in s) /\ (Has(k, "REQUEST") => "late" \in s) OBVIOUS
    <2> HIDE DEF o, u, s
    <2>5. Dropped(o, u, k) BY <2>1, <2>3, Drops
    <2>6. u \in Agents /\ Lost(o, u, k) BY <2>5, DroppedIsLost DEF Dropped, Booked
    <2>7. g.tab = u.tab /\ g.map = u.map /\ g.net = u.net /\ g.queue = u.queue /\ g.slip = s
        BY <2>6 DEF Agents
    <2> HIDE DEF g
    <2>8. /\ netSuppliers' = u.tab /\ slotIdSimId' = u.map /\ suppliers' = u.net /\ queue' = Rest(k)
          /\ slips' = slips \cup s
        BY <2>1, <2>2, <2>5, <2>7 DEF SetAgent, Dropped
    <2>9. Requesting BY <2>8, RequestingBefore
    <2>10. SupplyOK /\ TableOK /\ RequestOK BY <2>9, TableFacts DEF RequestInv
    <2>11. slotIdSimId'[k] = INVALID_SIM_ID /\ ~Has(k, "REQUEST") BY <2>4, <2>8 DEF Requesting
    <2>12. \A j, c : Ent(o, j, c) = Entry(j, c) BY <2>1 DEF Ent, Entry
    <2>13. \A j, c : Live(o, j, c) <=> Known(j, c) BY <2>1, <2>12 DEF Live, Known
    <2>14. \A j, c : Entry(j, c)' = Ent(u, j, c) BY <2>8 DEF Ent, Entry
    <2>15. \A j, c : Known(j, c)' <=> Live(u, j, c) BY <2>8, <2>14 DEF Live, Known
    <2>16. Tabled(o)
        <3> DEFINE a == Agent(queue)
        <3>1. a.tab = netSuppliers /\ a.map = slotIdSimId /\ a.net = suppliers /\ Tabled(a)
            BY <2>10 DEF Agent, SupplyOK
        <3> HIDE DEF a
        <3>2. \A j, c : Ent(a, j, c) = Ent(o, j, c) BY <2>1, <3>1 DEF Ent
        <3>3. \A j, c : Live(a, j, c) <=> Live(o, j, c) BY <2>1, <3>1, <3>2 DEF Live
        <3> QED BY <2>1, <3>1, <3>2, <3>3 DEF Tabled
    <2>17. /\ u.net \subseteq o.net
           /\ \A j \in Slots \ {k} : /\ u.map[j] = o.map[j]
                                     /\ \A c \in Caps : /\ Ent(u, j, c) = Ent(o, j, c)
                                                        /\ Live(u, j, c) <=> Live(o, j, c)
        BY <2>1, <2>6, <2>16, LostSupplies
    <2>18. \A j \in Slots \ {k} :
              /\ slotIdSimId'[j] = slotIdSimId[j] /\ wanted'[j] = wanted[j]
              /\ \A c \in Caps : Entry(j, c)' = Entry(j, c) /\ (Known(j, c)' <=> Known(j, c))
        BY <2>1, <2>2, <2>8, <2>12, <2>13, <2>14, <2>15, <2>17, ServiceTypes
    <2>19. \A c \in Caps : Entry(k, c)' \in {INVALID_SIM_ID, Entry(k, c), simId[k]}
        <3>1. \A c \in Caps : Ent(u, k, c) \in {INVALID_SIM_ID, Ent(o, k, c)} BY <2>5 DEF Dropped
        <3> QED BY <2>12, <2>14, <3>1
    <2>20. \A j \in Slots \ {k} : Kept(queue[j], queue'[j]) /\ queue'[j] = queue[j] BY <1>3, <2>8, SameSelf
    <2>21. Unasked(k)'
        <3>1. wanted'[k] = {} BY <2>2, ServiceTypes
        <3>2. ~In(queue'[k], "REQUEST") BY <1>3, <2>8, <2>11
        <3> QED BY <3>1, <3>2 DEF Unasked
    <2>22. Routes(k)' /\ Gone(k)' BY <2>11, <2>21 DEF Routes, Gone
    <2>23. ~netUp => suppliers' = {} BY <2>1, <2>8, <2>10, <2>17 DEF RequestOK
    <2>24. ~Late(k)
        <3>1. ~In(queue[k], "REQUEST") BY <2>11 DEF Has, In
        <3> QED BY <3>1 DEF Late, Overrun, In
    <2>25. Asks(k)' BY <1>2, <1>5 DEF Asks
    <2>26. slotIdSimId'[k] \in {INVALID_SIM_ID, slotIdSimId[k], simId[k]} BY <2>11
    <2> QED BY <1>2, <2>10, <2>11, <2>18, <2>19, <2>20, <2>21, <2>22, <2>23, <2>24, <2>25, <2>26,
               AgentRequests
<1> QED BY <1>4, <1>5

LEMMA RequestInvInit ==
    ASSUME Init
    PROVE  RequestInv
<1>1. ServiceInv BY ServiceInvInit
<1>2. /\ queue = [k \in Slots |-> <<>>] /\ wanted = [k \in Slots |-> {}] /\ asked = {}
      /\ \A k \in Slots : slotIdSimId[k] \in {INVALID_SIM_ID, simId[k]}
      /\ \A k \in Slots, c \in Caps : Entry(k, c) \in {INVALID_SIM_ID, sim[k]}
      /\ netUp \/ suppliers = {}
    <2>1. CASE ServiceInit BY <2>1 DEF ServiceInit, NoSupplier, Entry
    <2>2. CASE AtRest BY <2>2 DEF AtRest, Entry
    <2> QED BY <2>1, <2>2 DEF Init
<1>3. \A k \in Slots : Unasked(k) BY <1>2 DEF Unasked, In
<1>4. \A k \in Slots : Routes(k) /\ Gone(k) BY <1>2, <1>3 DEF Routes, Gone
<1>5. \A i, j \in Slots : i # j => Apart(i, j) BY <1>1, <1>2 DEF Apart, ServiceInv, CardsOK
<1>6. \A k \in Slots : Asks(k)
    <2>1. \A k \in Slots : \A c : ~Fin(queue[k], wanted[k], c) BY <1>3 DEF Unasked, In, Fin, Tells
    <2> QED BY <1>2, <2>1 DEF Asks, Wants, Owed
<1> QED BY <1>2, <1>3, <1>4, <1>5, <1>6 DEF RequestInv, RequestOK

LEMMA RequestInvNext ==
    ASSUME ServiceInv, SupplyInv, RequestInv, [Next]_vars
    PROVE  RequestInv'
<1>1. CASE StartStep BY <1>1, OnStartRequests, StartRequests DEF StartStep
<1>2. CASE EnvironmentStep
    BY <1>2, OnStopRequests, NetManagerDiesRequests, StartRequests, SimInsertedRequests,
       RequestNetworkRequests, ReleaseNetworkRequests
       DEF EnvironmentStep
<1>3. CASE NetManagerStarts BY <1>3, StartRequests
<1>4. CASE \E k \in Slots : HandlerStep(k) \/ AbilityStep(k)
    BY <1>4, StateChangedRequests, MsgRequestRequests, AccountLoadedRequests, RetryRequests, AbilityRequests
       DEF HandlerStep, AbilityStep
<1>5. CASE \E k \in Slots : AccountStep(k) BY <1>5, SimIdLoadedRequests DEF AccountStep
<1>6. CASE \E k \in Slots : SimRemoved(k) BY <1>6, SimRemovedRequests
<1>7. CASE ProcessDies BY <1>7, CrashRequests DEF ProcessDies
<1>8. CASE \/ UpdateStep \/ UNCHANGED vars
           \/ \E e \in deaths : OnRemoteDied(e)
           \/ \E k \in Slots : DefaultSlotChanges(k)
           \/ \E api \in Apis, who \in Callers, k \in Slots \cup {INVALID_SLOT}, ok \in BOOLEAN :
                 Invoke(api, who, k, ok)
           \/ CallStep
    <2>1. Bystands BY <1>8, OthersBystand, CallBystands
    <2> QED BY <2>1, StartRequests
<1> QED BY <1>1, <1>2, <1>3, <1>4, <1>5, <1>6, <1>7, <1>8 DEF Next

LEMMA RequestsFollow ==
    ASSUME ServiceInv, SupplyInv, RequestInv
    PROVE  RequestsFollowNet
<1> SUFFICES ASSUME Quiet, Requesting, NEW k \in Slots
             PROVE  wanted[k] = {p[2] : p \in {q \in asked : q[1] = sim[k]}}
    BY DEF RequestsFollowNet, Requesting
<1>1. SupplyOK /\ RequestOK BY TableFacts DEF RequestInv
<1>2. \A j \in Slots : queue[j] = <<>> BY DEF Quiet
<1>3. \A j \in Slots : \A t : ~In(queue[j], t) /\ ~Has(j, t) BY <1>2 DEF In, Has
<1>4. INVALID_SIM_ID \notin Sims BY ServiceAssumption DEF INVALID_SIM_ID
<1>5. asked \subseteq Sims \X Caps /\ wanted[k] \subseteq Caps BY ServiceTypes
<1>6. CASE sim[k] = INVALID_SIM_ID
    <2>1. wanted[k] = {} BY <1>1, <1>3, <1>6 DEF RequestOK, Gone, Unasked
    <2>2. \A q \in asked : q[1] # sim[k] BY <1>4, <1>5, <1>6
    <2> QED BY <2>1, <2>2
<1>7. CASE sim[k] # INVALID_SIM_ID
    <2>1. Serving BY DEF Quiet, Serving
    <2>2. \A j \in Slots : ~Late(j) BY <1>2 DEF Late, Overrun
    <2>3. Asks(k) BY <1>1, <2>1, <2>2 DEF RequestOK
    <2>4. Attentive(k) BY <1>3, <1>7, <2>1 DEF Attentive, Quiet, Inited
    <2>5. Holds(Agent(queue), k) BY <1>1, <2>4 DEF SupplyOK
    <2>6. \A c \in Caps : Entry(k, c) = sim[k] /\ Known(k, c)
        <3>1. \A c \in Caps : Live(Agent(queue), k, c) /\ Ent(Agent(queue), k, c) = simId[k] BY <2>5 DEF Holds
        <3>2. simId = sim BY DEF Quiet
        <3> QED BY <3>1, <3>2, EntryIs
    <2>7. \A c \in Caps : c \in wanted[k] <=> <<sim[k], c>> \in asked
        <3>1. \A c : Fin(queue[k], wanted[k], c) <=> c \in wanted[k] BY <1>2 DEF Fin
        <3>2. \A c \in Caps : c \in wanted[k] <=> Owed(k, c) BY <1>7, <2>3, <3>1 DEF Asks, Wants
        <3> QED BY <2>6, <3>2 DEF Owed
    <2>8. \A c \in wanted[k] : \E q \in asked : q[1] = sim[k] /\ q[2] = c
        <3> SUFFICES ASSUME NEW c \in wanted[k] PROVE \E q \in asked : q[1] = sim[k] /\ q[2] = c OBVIOUS
        <3> DEFINE q == <<sim[k], c>>
        <3>1. q \in asked /\ q[1] = sim[k] /\ q[2] = c BY <1>5, <2>7
        <3> QED BY <3>1
    <2>9. \A q \in asked : q[1] = sim[k] => q[2] \in wanted[k]
        <3> SUFFICES ASSUME NEW q \in asked, q[1] = sim[k] PROVE q[2] \in wanted[k] OBVIOUS
        <3>1. q = <<sim[k], q[2]>> /\ q[2] \in Caps BY <1>5
        <3> QED BY <2>7, <3>1
    <2> QED BY <2>8, <2>9
<1> QED BY <1>6, <1>7

(* At rest the holders of every slot are enabled for exactly what applications have asked the net
   manager for: RequestsFollowNet, whatever requests and releases have been routed to a slot whose
   card has meanwhile gone, moved or come back, for every number of slots, cards and capabilities. *)
THEOREM RequestsAlwaysFollow == Spec => []RequestsFollowNet
<1> DEFINE I == CallInv /\ CacheInv /\ ServiceInv /\ SupplyInv /\ RequestInv
<1>1. Init => I BY CallInvInit, CacheInvInit, ServiceInvInit, SupplyInvInit, RequestInvInit
<1>2. I /\ [Next]_vars => I'
    <2> SUFFICES ASSUME I, [Next]_vars PROVE I' OBVIOUS
    <2>1. CallInv' /\ CacheInv' BY CallInvNext, CacheInvNext
    <2>2. defaultSlot' \in Slots BY <2>1 DEF CacheInv, LinkTypeOK
    <2>3. ServiceInv' BY <2>2, ServiceInvNext
    <2>4. SupplyInv' BY SupplyInvNext
    <2>5. RequestInv' BY RequestInvNext
    <2> QED BY <2>1, <2>3, <2>4, <2>5
<1>3. I => RequestsFollowNet BY RequestsFollow
<1> QED BY <1>1, <1>2, <1>3, PTL DEF Spec
=============================================================================

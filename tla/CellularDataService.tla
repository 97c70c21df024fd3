------------------------- MODULE CellularDataService -------------------------
(***************************************************************************)
(* The service process: its life cycle, the controller of every SIM slot,  *)
(* the suppliers that CellularDataNetAgent keeps at the net manager, and   *)
(* the requests that come back from there.                                 *)
(*                                                                         *)
(* Three threads touch the agent: the handler of each slot (SIM events),   *)
(* the listener of the system-ability manager (the net manager came up)    *)
(* and the binder threads of the net manager's callbacks.  What a handler  *)
(* does with a request is modelled in CellularDataHandler and DataSwitch;  *)
(* here it is remembered as dataCallEnabled_ of its holder.                *)
(***************************************************************************)
EXTENDS Integers, Sequences, FiniteSets, SequencesExt

CONSTANTS
    Slots,         \* the SIM slots, 0 .. n
    Sims,          \* SIM cards, by their simId
    Capability,    \* the capabilities with a supplier, in the order of FindBestCapability
    LoadRetryTimes,\* LOAD_RETRY_TIMES
    BootBudgets    \* bound: the changes, faults and calls of a behaviour that begins at boot

ASSUME ServiceAssumption ==
    /\ IsFiniteSet(Slots) /\ Slots # {} /\ Slots = 0 .. Cardinality(Slots) - 1
    /\ Sims \subseteq Nat \ {0}
    /\ \A k \in Slots : \E s \in Sims : Cardinality({r \in Sims : r < s}) = k
    /\ Capability \in Seq(Range(Capability)) /\ Capability # <<>> /\ LoadRetryTimes \in Nat
    /\ BootBudgets \subseteq [changes : Nat, faults : Nat, calls : Nat]

INVALID_SIM_ID == 0
SimIds == Sims \cup {INVALID_SIM_ID}

\* The card that is in slot k at first, if there is one.
Card(k) == CHOOSE s \in Sims : Cardinality({r \in Sims : r < s}) = k

Caps == Range(Capability)

VARIABLES
    sim,           \* the card in each slot
    simId,         \* CoreManagerInner::GetSimId of each slot
    defaultSlot,   \* CoreManagerInner::GetDefaultCellularDataSlotId
    netUp,         \* the net manager runs
    suppliers,     \* the suppliers the net manager knows, <<simId, capability>>
    asked,         \* the networks that applications have asked the net manager for
    epoch,         \* the number of the service process: identifies the published object
    state,         \* "dead", "created", "published", "running" or "stopped"
    isInitSuccess, \* isInitSuccess_
    controller,    \* of each slot: "none", "waiting", "inited" or "ready"
    netSuppliers,  \* netSuppliers_: simId and supplierId by slot and capability, if it is listed
    slotIdSimId,   \* slotIdSimId_, INVALID_SIM_ID for a slot without an entry
    queue,         \* events of the handler of each slot
    timer,         \* MSG_RETRY_TO_LOAD_SIM_ACCOUNT of each slot: the times left, 0 if not pending
    loaded,        \* isSimAccountLoaded_ of each slot
    added,         \* slots whose listener is to hear that the net manager is up
    wanted,        \* dataCallEnabled_ of the holder by slot and capability
    budget,        \* the changes, faults and calls that are left
    slips          \* orders of events that the properties excuse (not a variable of the code)

coreVars == <<sim, simId, defaultSlot>>
netVars == <<netUp, suppliers, asked>>
lifeVars == <<epoch, state, isInitSuccess>>
agentVars == <<netSuppliers, slotIdSimId>>
slotVars == <<controller, queue, timer, loaded, added, wanted>>
serviceVars == <<coreVars, netVars, lifeVars, agentVars, slotVars, budget, slips>>

NoSupplier == [simId |-> INVALID_SIM_ID, supplierId |-> INVALID_SIM_ID, listed |-> FALSE]

Spend(kind) == budget[kind] > 0 /\ budget' = [budget EXCEPT ![kind] = @ - 1]

Alive == state # "dead"

-----------------------------------------------------------------------------
(* A request of the net manager: NetManagerCallBack, on a binder thread.     *)

Event(type, cap) == [type |-> type, cap |-> cap]

GetCellularDataController(k) == isInitSuccess /\ k \in Slots /\ controller[k] # "none"

\* The first slot of the map that has the card.
GetSlotId(map, s) == IF \E k \in Slots : map[k] = s THEN Min({k \in Slots : map[k] = s}) ELSE -1

FindBestCapability(caps) == Capability[Max({i \in DOMAIN Capability : Capability[i] \in caps})]

\* What the net manager says of card s, one event for each capability of caps, goes to the slot of
\* the card, the controller and the handler: the queues q with the events, or as they were if the
\* card has no slot or the slot no handler.
Routed(q, map, s, type, caps) ==
    LET k == GetSlotId(map, s)
        events == [i \in DOMAIN caps |-> Event(type, FindBestCapability({caps[i]}))]
    IN  IF GetCellularDataController(k) /\ controller[k] \in {"inited", "ready"}
        THEN [q EXCEPT ![k] = @ \o events] ELSE q

RequestNet(q, map, s, caps) == Routed(q, map, s, "REQUEST", caps)
ReleaseNet(q, map, s, caps) == Routed(q, map, s, "RELEASE", caps)

\* A request that comes before Init is through is refused.
Early(map, s) == IF GetSlotId(map, s) \in Slots /\ ~isInitSuccess THEN {"early"} ELSE {}

-----------------------------------------------------------------------------
(* CellularDataNetAgent.  The net manager gives the same supplier id to the  *)
(* same ident and capability, so that the id is written as that pair, of     *)
(* which the agent's table holds the first half.                             *)

\* What a call of the agent may change, with q for the queues.
Agent(q) == [tab |-> netSuppliers, map |-> slotIdSimId, net |-> suppliers, queue |-> q, slip |-> {}]

SetAgent(g) == /\ netSuppliers' = g.tab /\ slotIdSimId' = g.map /\ suppliers' = g.net
               /\ queue' = g.queue /\ slips' = slips \cup g.slip

\* The net manager asks the suppliers of card s that have just registered, one for each capability
\* of new, for what applications wait for.
Asked(g, s, new) ==
    LET due == {c \in new : <<s, c>> \in asked}
    IN  IF due = {} THEN g
        ELSE [g EXCEPT !.queue = RequestNet(@, g.map, s, SetToSeq(due)),
                       !.slip = @ \cup Early(g.map, s)]

\* The capabilities that the net manager lets register: all, or none when it is down, or some.
Accepted == IF ~netUp THEN {{}} ELSE IF budget.faults > 0 THEN SUBSET Caps ELSE {Caps}

Refused(acc) == netUp /\ acc # Caps

Cost(acc) == IF Refused(acc) THEN Spend("faults") ELSE UNCHANGED budget

\* An entry of another slot still holds the card that is registered for slot k, or the entry of k
\* another card that the net manager knows.
Crossing(g, k) == \E c \in Caps :
    \/ \E j \in Slots \ {k} : g.tab[j][c].simId = simId[k]
    \/ g.tab[k][c].simId # simId[k] /\ <<g.tab[k][c].simId, c>> \in g.net

\* Mutant: the entry does not remember the card it was registered for.
RegisterNetSupplier_NoSimId(g, k, acc) ==
    LET done == {c \in acc : g.tab[k][c].listed}
        new == {c \in done : <<simId[k], c>> \notin g.net}
    IN  IF simId[k] = INVALID_SIM_ID \/ ~\E c \in Caps : g.tab[k][c].listed THEN g
        ELSE Asked([g EXCEPT !.map[k] = simId[k],
                             !.tab[k] = [c \in Caps |-> IF c \in done
                                           THEN [@[c] EXCEPT !.supplierId = simId[k]] ELSE @[c]],
                             !.net = @ \cup ({simId[k]} \X done)], simId[k], new)

\* The route is set before the outcome is known.
RegisterNetSupplier(g, k, acc) ==
    LET done == {c \in acc : g.tab[k][c].listed}
        new == {c \in done : <<simId[k], c>> \notin g.net}
    IN  IF simId[k] = INVALID_SIM_ID \/ ~\E c \in Caps : g.tab[k][c].listed THEN g
        ELSE Asked([g EXCEPT !.map[k] = simId[k],
                             !.tab[k] = [c \in Caps |-> IF c \in done
                                           THEN [@[c] EXCEPT !.simId = simId[k], !.supplierId = simId[k]]
                                           ELSE @[c]],
                             !.net = @ \cup ({simId[k]} \X done),
                             !.slip = @ \cup (IF Refused(acc) THEN {"refused"} ELSE {})
                                        \cup (IF Crossing(g, k) THEN {"crossed"} ELSE {})],
                   simId[k], new)

\* An entry forgets its card only when the net manager confirms; the route is dropped anyway, but
\* only if some entry was registered.
UnregisterNetSupplierForSimUpdate(g, k) ==
    LET held == {c \in Caps : g.tab[k][c].listed /\ g.tab[k][c].simId # INVALID_SIM_ID}
        gone == {<<g.tab[k][c].supplierId, c>> : c \in held} \cap g.net
    IN  IF held = {} THEN g
        ELSE [g EXCEPT !.map[k] = INVALID_SIM_ID,
                       !.net = @ \ gone,
                       !.tab[k] = [c \in Caps |-> IF c \in held /\ <<@[c].supplierId, c>> \in gone
                                     THEN [@[c] EXCEPT !.simId = INVALID_SIM_ID] ELSE @[c]]]

UnregisterAllNetSupplier(g) ==
    LET gone == {<<g.tab[k][c].supplierId, c>> : k \in Slots, c \in Caps} \cap g.net
    IN  [g EXCEPT !.net = @ \ gone,
                  !.tab = [k \in Slots |-> [c \in Caps |-> NoSupplier]]]

-----------------------------------------------------------------------------
(* Life cycle.                                                               *)

\* A new process: nothing of the old one is left.
ProcessStarts ==
    /\ state = "dead"
    /\ state' = "created" /\ epoch' = epoch + 1
    /\ UNCHANGED <<coreVars, netVars, isInitSuccess, agentVars, slotVars, budget, slips>>

\* The entries of a slot.
AddNetSupplier == [c \in Caps |-> [NoSupplier EXCEPT !.listed = TRUE]]

\* New controllers and suppliers take the place of the old ones, but slotIdSimId_ is kept.
InitModule ==
    /\ controller' = [k \in Slots |-> "waiting"]
    /\ netSuppliers' = [k \in Slots |-> AddNetSupplier]
    /\ UNCHANGED slotIdSimId

\* OnStart up to Publish.  The route of a card that has gone meanwhile is kept.
OnStart ==
    /\ state \in {"created", "stopped"}
    /\ state' = "published"
    /\ InitModule
    /\ queue' = [k \in Slots |-> <<>>] /\ timer' = [k \in Slots |-> 0]
    /\ loaded' = [k \in Slots |-> FALSE] /\ added' = {}
    /\ wanted' = [k \in Slots |-> {}]
    /\ slips' = IF \E k \in Slots : sim[k] = INVALID_SIM_ID /\ slotIdSimId[k] # INVALID_SIM_ID
                THEN slips \cup {"kept"} ELSE slips
    /\ UNCHANGED <<coreVars, netVars, epoch, isInitSuccess, budget>>

\* The rest of Init: the controllers go on by themselves.
InitSucceeds ==
    /\ state = "published"
    /\ state' = "running" /\ isInitSuccess' = TRUE
    /\ UNCHANGED <<coreVars, netVars, epoch, agentVars, slotVars, budget, slips>>

\* AsynchronousRegister polls until the core service is ready: Init of the controller makes the
\* handler and subscribes to the net manager, which is announced at once if it runs.
AsynchronousRegister(k) ==
    /\ state \in {"published", "running", "stopped"} /\ controller[k] = "waiting"
    /\ controller' = [controller EXCEPT ![k] = "inited"]
    /\ added' = IF netUp THEN added \cup {k} ELSE added
    /\ UNCHANGED <<coreVars, netVars, lifeVars, agentVars, queue, timer, loaded, wanted, budget, slips>>

RegisterEvents(k) ==
    /\ Alive /\ controller[k] = "inited"
    /\ controller' = [controller EXCEPT ![k] = "ready"]
    /\ UNCHANGED <<coreVars, netVars, lifeVars, agentVars, queue, timer, loaded, added, wanted, budget,
                   slips>>

\* The handlers live on and keep taking events.
OnStop ==
    /\ state = "running" /\ Spend("faults")
    /\ state' = "stopped"
    /\ SetAgent(UnregisterAllNetSupplier(Agent(queue)))
    /\ UNCHANGED <<coreVars, netUp, asked, epoch, isInitSuccess, controller, timer, loaded, added, wanted>>

\* The process dies, and with it the core service, which has to load the accounts of the cards
\* again; the net manager drops the suppliers whose callback died.
Crash ==
    /\ Alive /\ Spend("faults")
    /\ state' = "dead" /\ isInitSuccess' = FALSE
    /\ simId' = [k \in Slots |-> INVALID_SIM_ID]
    /\ controller' = [k \in Slots |-> "none"]
    /\ netSuppliers' = [k \in Slots |-> [c \in Caps |-> NoSupplier]]
    /\ slotIdSimId' = [k \in Slots |-> INVALID_SIM_ID]
    /\ queue' = [k \in Slots |-> <<>>] /\ timer' = [k \in Slots |-> 0]
    /\ loaded' = [k \in Slots |-> FALSE] /\ added' = {} /\ wanted' = [k \in Slots |-> {}]
    /\ suppliers' = {}
    /\ UNCHANGED <<sim, defaultSlot, netUp, asked, epoch, slips>>

-----------------------------------------------------------------------------
(* The handler of a slot.                                                    *)

Has(k, type) == \E i \in DOMAIN queue[k] : queue[k][i].type = type

\* The queues after the handler of slot k has taken an event of the type.
Takes(k, type) ==
    /\ Alive /\ queue[k] # <<>> /\ Head(queue[k]).type = type
    /\ UNCHANGED <<coreVars, netUp, asked, lifeVars, controller, added>>

Rest(k) == [queue EXCEPT ![k] = Tail(@)]

\* Mutant: the requests outlive the card.
HandleSimStateChanged_KeepsRequests(k) ==
    /\ Takes(k, "SIM_STATE")
    /\ IF sim[k] = INVALID_SIM_ID
       THEN /\ loaded' = [loaded EXCEPT ![k] = FALSE]
            /\ LET g == UnregisterNetSupplierForSimUpdate(Agent(Rest(k)), k)
               IN  SetAgent([g EXCEPT !.slip = (IF Has(k, "REQUEST") THEN {"late"} ELSE {})
                                 \cup (IF g.map[k] # INVALID_SIM_ID THEN {"kept"} ELSE {})])
            /\ UNCHANGED wanted
       ELSE queue' = Rest(k) /\ UNCHANGED <<loaded, agentVars, suppliers, slips, wanted>>
    /\ UNCHANGED <<timer, budget>>

\* The state of the card is read when the event is taken.
HandleSimStateChanged(k) ==
    /\ Takes(k, "SIM_STATE")
    /\ IF sim[k] = INVALID_SIM_ID
       THEN /\ loaded' = [loaded EXCEPT ![k] = FALSE]
            /\ LET g == UnregisterNetSupplierForSimUpdate(Agent(Rest(k)), k)
               IN  SetAgent([g EXCEPT !.slip = (IF Has(k, "REQUEST") THEN {"late"} ELSE {})
                                 \cup (IF g.map[k] # INVALID_SIM_ID THEN {"kept"} ELSE {})])
            /\ wanted' = [wanted EXCEPT ![k] = {}]
       ELSE queue' = Rest(k) /\ UNCHANGED <<loaded, agentVars, suppliers, slips, wanted>>
    /\ UNCHANGED <<timer, budget>>

SimAccountLoaded(k, acc, q) ==
    LET u == UnregisterNetSupplierForSimUpdate(Agent(q), k)
        g == RegisterNetSupplier(u, k, acc)
    IN  /\ SetAgent(g) /\ Cost(acc)
        /\ loaded' = [loaded EXCEPT ![k] = simId[k] # INVALID_SIM_ID
                                             /\ \E c \in acc : g.tab[k][c].listed]

HandleSimAccountLoaded(k, acc) ==
    /\ Takes(k, "ACCOUNT_LOADED")
    /\ SimAccountLoaded(k, acc, Rest(k))
    /\ timer' = [timer EXCEPT ![k] = 0]
    /\ UNCHANGED wanted

HandleRetryLoadSimAccount(k, acc) ==
    /\ Alive /\ timer[k] > 0
    /\ timer' = [timer EXCEPT ![k] = IF simId[k] = INVALID_SIM_ID THEN @ - 1 ELSE 0]
    /\ IF simId[k] # INVALID_SIM_ID /\ ~loaded[k] /\ ~Has(k, "ACCOUNT_LOADED")
       THEN SimAccountLoaded(k, acc, queue)
       ELSE acc \in {{}, Caps} /\ UNCHANGED <<agentVars, suppliers, queue, slips, budget, loaded>>
    /\ UNCHANGED <<coreVars, netUp, asked, lifeVars, controller, added, wanted>>

\* Mutant: one attempt more.
OnDataShareReady_OneMore(k) ==
    /\ Spend("changes")
    /\ controller[k] = "ready" /\ ~loaded[k] /\ ~Has(k, "ACCOUNT_LOADED")
    /\ timer' = [timer EXCEPT ![k] = LoadRetryTimes + 1]
    /\ UNCHANGED <<coreVars, netVars, lifeVars, agentVars, controller, queue, loaded, added, wanted, slips>>

\* The common event DATA_SHARE_READY: the settings database is there.
OnDataShareReady(k) ==
    /\ Spend("changes")
    /\ controller[k] = "ready" /\ ~loaded[k] /\ ~Has(k, "ACCOUNT_LOADED")
    /\ timer' = [timer EXCEPT ![k] = LoadRetryTimes]
    /\ UNCHANGED <<coreVars, netVars, lifeVars, agentVars, controller, queue, loaded, added, wanted, slips>>

\* MSG_REQUEST_NETWORK.
MsgRequestNetwork(k) ==
    /\ \/ /\ Takes(k, "REQUEST")
          /\ wanted' = [wanted EXCEPT ![k] = @ \cup {Head(queue[k]).cap}]
       \/ /\ Takes(k, "RELEASE")
          /\ wanted' = [wanted EXCEPT ![k] = @ \ {Head(queue[k]).cap}]
    /\ queue' = Rest(k)
    /\ UNCHANGED <<suppliers, agentVars, timer, loaded, budget, slips>>

\* Mutant: only for a slot whose account had been registered before.
OnAddSystemAbility_IfLoaded(k, acc) ==
    /\ k \in added
    /\ added' = added \ {k}
    /\ SetAgent(IF loaded[k] THEN RegisterNetSupplier(Agent(queue), k, acc) ELSE Agent(queue)) /\ Cost(acc)
    /\ UNCHANGED <<coreVars, netUp, asked, lifeVars, controller, timer, loaded, wanted>>

\* Controller::SystemAbilityStatusChangeListener, on the thread of the system-ability manager.
OnAddSystemAbility(k, acc) ==
    /\ k \in added
    /\ added' = added \ {k}
    /\ SetAgent(RegisterNetSupplier(Agent(queue), k, acc)) /\ Cost(acc)
    /\ UNCHANGED <<coreVars, netUp, asked, lifeVars, controller, timer, loaded, wanted>>

-----------------------------------------------------------------------------
(* The net manager and the applications that ask it for networks.            *)

RequestNetwork(p) ==
    /\ Spend("changes")
    /\ netUp /\ p \notin asked
    /\ asked' = asked \cup {p}
    /\ IF p \in suppliers
       THEN /\ queue' = RequestNet(queue, slotIdSimId, p[1], <<p[2]>>)
            /\ slips' = slips \cup Early(slotIdSimId, p[1])
       ELSE UNCHANGED <<queue, slips>>
    /\ UNCHANGED <<coreVars, netUp, suppliers, lifeVars, agentVars, controller, timer, loaded, added, wanted>>

ReleaseNetwork(p) ==
    /\ p \in asked
    /\ asked' = asked \ {p}
    /\ queue' = IF p \in suppliers THEN ReleaseNet(queue, slotIdSimId, p[1], <<p[2]>>) ELSE queue
    /\ UNCHANGED <<coreVars, netUp, suppliers, lifeVars, agentVars, controller, timer, loaded, added,
                   wanted, budget, slips>>

\* The requests of the applications die with the net manager; those of the handlers stay.
NetManagerDies ==
    /\ netUp /\ Spend("faults")
    /\ netUp' = FALSE /\ suppliers' = {} /\ asked' = {} /\ added' = {}
    /\ slips' = IF asked # {} \/ \E k \in Slots : wanted[k] # {} \/ Has(k, "REQUEST")
                THEN slips \cup {"forgotten"} ELSE slips
    /\ UNCHANGED <<coreVars, lifeVars, agentVars, controller, queue, timer, loaded, wanted>>

NetManagerStarts ==
    /\ ~netUp
    /\ netUp' = TRUE
    /\ added' = {k \in Slots : controller[k] \in {"inited", "ready"}}
    /\ UNCHANGED <<coreVars, suppliers, asked, lifeVars, agentVars, controller, queue, timer, loaded,
                   wanted, budget, slips>>

-----------------------------------------------------------------------------
(* The core service and the user.                                            *)

Sends(k, type) == queue' = IF controller[k] = "ready"
                           THEN [queue EXCEPT ![k] = Append(@, Event(type, "none"))] ELSE queue

\* The core service forgets the account with the card.  A controller that does not hear of it leaves
\* what it has of the card: its suppliers, or the route of the service before.
SimRemoved(k) ==
    /\ Spend("changes")
    /\ sim[k] # INVALID_SIM_ID
    /\ sim' = [sim EXCEPT ![k] = INVALID_SIM_ID] /\ simId' = [simId EXCEPT ![k] = INVALID_SIM_ID]
    /\ Sends(k, "SIM_STATE")
    /\ slips' = slips \cup (IF controller[k] = "inited" THEN {"missed"} ELSE {})
                      \cup (IF controller[k] = "waiting" /\ slotIdSimId[k] # INVALID_SIM_ID
                            THEN {"kept"} ELSE {})
    /\ UNCHANGED <<defaultSlot, netVars, lifeVars, agentVars, controller, timer, loaded, added,
                   wanted>>

\* Before the removal of the last card was handled, the handler will not see it.
SimInserted(k, s) ==
    /\ Spend("changes")
    /\ sim[k] = INVALID_SIM_ID /\ \A j \in Slots : sim[j] # s
    /\ sim' = [sim EXCEPT ![k] = s]
    /\ Sends(k, "SIM_STATE")
    /\ slips' = IF Has(k, "SIM_STATE") THEN slips \cup {"swapped"} ELSE slips
    /\ UNCHANGED <<simId, defaultSlot, netVars, lifeVars, agentVars, controller, timer, loaded, added,
                   wanted>>

\* The account of the card is there; the notice may get lost.
SimIdLoaded(k, told) ==
    /\ Alive /\ sim[k] # INVALID_SIM_ID /\ simId[k] = INVALID_SIM_ID
    /\ simId' = [simId EXCEPT ![k] = sim[k]]
    /\ IF told THEN Sends(k, "ACCOUNT_LOADED") /\ UNCHANGED budget ELSE Spend("faults") /\ UNCHANGED queue
    /\ slips' = slips \cup
         (IF /\ timer[k] = 0
             /\ \/ ~told /\ controller[k] = "ready"
                \/ controller[k] = "inited" /\ k \notin added /\ netUp
          THEN {"missed"} ELSE {})
    /\ UNCHANGED <<sim, defaultSlot, netVars, lifeVars, agentVars, controller, timer, loaded, added, wanted>>

\* The user, or another process, chooses the slot for data.
DefaultSlotChanges(k) ==
    /\ Alive /\ Spend("changes")
    /\ k # defaultSlot
    /\ defaultSlot' = k
    /\ UNCHANGED <<sim, simId, netVars, lifeVars, agentVars, slotVars, slips>>

-----------------------------------------------------------------------------
(* The methods of the service.  Each answers with the code of the first      *)
(* check that fails, a pair of a condition and the code.  who is the caller: *)
(* a system application or not, its permissions, and whether the policy of   *)
(* the device allows what it asks for; k is the slot of the request.         *)

Verdict(checks) ==
    LET failed == {i \in DOMAIN checks : ~checks[i][1]}
    IN  IF failed = {} THEN "SUCCESS" ELSE checks[Min(failed)][2]

CheckCallerIsSystemApp(who) == <<who.system, "ILLEGAL_USE_OF_SYSTEM_API">>
CheckPermission(who, p) == <<p \in who.granted, "PERMISSION_ERR">>
Controls(k, code) == <<GetCellularDataController(k), code>>

\* cellularDataHandler_ of the controller is there.
Handles(k, code) == <<k \in Slots /\ controller[k] \in {"inited", "ready"}, code>>

IsCellularDataEnabled(who, k) ==
    Verdict(<<CheckPermission(who, "GET_NETWORK_INFO"),
              Controls(0, "LOCAL_PTR_NULL"), Handles(0, "LOCAL_PTR_NULL")>>)

EnableCellularData(who, k) ==
    Verdict(<<CheckCallerIsSystemApp(who), CheckPermission(who, "SET_TELEPHONY_STATE"),
              Controls(0, "LOCAL_PTR_NULL"), <<who.policy, "POLICY_DISABLED">>,
              Handles(0, "LOCAL_PTR_NULL")>>)

EnableIntelligenceSwitch(who, k) ==
    Verdict(<<CheckCallerIsSystemApp(who), CheckPermission(who, "SET_TELEPHONY_STATE"),
              Controls(0, "LOCAL_PTR_NULL"), Handles(0, "LOCAL_PTR_NULL")>>)

GetIntelligenceSwitchState(who, k) ==
    Verdict(<<CheckCallerIsSystemApp(who), CheckPermission(who, "GET_TELEPHONY_STATE"),
              Controls(0, "LOCAL_PTR_NULL"), Handles(0, "LOCAL_PTR_NULL")>>)

\* Without a handler the state is FAILED, and the answer a success.
GetCellularDataState(who, k) ==
    Verdict(<<CheckPermission(who, "GET_NETWORK_INFO"), Controls(defaultSlot, "INVALID_PARAM")>>)

GetCellularDataFlowType(who, k) ==
    Verdict(<<CheckPermission(who, "GET_NETWORK_INFO"), Controls(defaultSlot, "INVALID_PARAM")>>)

IsCellularDataRoamingEnabled(who, k) ==
    Verdict(<<CheckPermission(who, "GET_NETWORK_INFO"),
              Controls(k, "INVALID_PARAM"), Handles(k, "LOCAL_PTR_NULL")>>)

EnableCellularDataRoaming(who, k) ==
    Verdict(<<CheckCallerIsSystemApp(who), CheckPermission(who, "SET_TELEPHONY_STATE"),
              Controls(k, "SLOTID_INVALID"), Handles(k, "LOCAL_PTR_NULL")>>)

SetDefaultCellularDataSlotId(who, k) ==
    Verdict(<<CheckCallerIsSystemApp(who), CheckPermission(who, "SET_TELEPHONY_STATE"),
              <<sim[k] # INVALID_SIM_ID, "NO_SIM_CARD">>,
              <<simId[k] # INVALID_SIM_ID, "SLOTID_INVALID">>>>)

GetDefaultCellularDataSimId(who, k) ==
    Verdict(<<<<simId[defaultSlot] # INVALID_SIM_ID, "FAIL">>>>)

QueryApnIds(who, k) == Verdict(<<CheckPermission(who, "MANAGE_APN_SETTING")>>)

SetPreferApn(who, k) ==
    Verdict(<<CheckPermission(who, "MANAGE_APN_SETTING"),
              <<simId[defaultSlot] # INVALID_SIM_ID, "FAIL">>>>)

QueryAllApnInfo(who, k) == Verdict(<<CheckPermission(who, "MANAGE_APN_SETTING")>>)

GetActiveApnName(who, k) == Verdict(<<CheckPermission(who, "GET_NETWORK_INFO")>>)

-----------------------------------------------------------------------------
ServiceInit ==
    /\ sim \in {f \in [Slots -> SimIds] : \A k \in Slots : f[k] \in {INVALID_SIM_ID, Card(k)}}
    /\ simId = [k \in Slots |-> INVALID_SIM_ID] /\ defaultSlot = 0
    /\ netUp \in BOOLEAN /\ suppliers = {} /\ asked = {}
    /\ epoch = 0 /\ state = "dead" /\ isInitSuccess = FALSE
    /\ controller = [k \in Slots |-> "none"]
    /\ netSuppliers = [k \in Slots |-> [c \in Caps |-> NoSupplier]]
    /\ slotIdSimId = [k \in Slots |-> INVALID_SIM_ID]
    /\ queue = [k \in Slots |-> <<>>] /\ timer = [k \in Slots |-> 0]
    /\ loaded = [k \in Slots |-> FALSE] /\ added = {} /\ wanted = [k \in Slots |-> {}]
    /\ budget \in BootBudgets /\ slips = {}

\* The steps of the handler threads and their timers.
HandlerStep(k) ==
    \/ HandleSimStateChanged(k) \/ MsgRequestNetwork(k)
    \/ \E acc \in Accepted : HandleSimAccountLoaded(k, acc) \/ HandleRetryLoadSimAccount(k, acc)

\* The steps that start a service and its controllers.
StartStep ==
    \/ ProcessStarts \/ OnStart \/ InitSucceeds
    \/ \E k \in Slots : AsynchronousRegister(k) \/ RegisterEvents(k)

\* What the core service does by itself: accounts follow the cards.
AccountStep(k) == \E told \in BOOLEAN : SimIdLoaded(k, told)

AbilityStep(k) == \E acc \in Accepted : OnAddSystemAbility(k, acc)

\* What the environment may do, as long as the budget lasts.
EnvironmentStep ==
    \/ OnStop \/ NetManagerDies
    \/ \E k \in Slots : OnDataShareReady(k) \/ \E s \in Sims : SimInserted(k, s)
    \/ \E p \in Sims \X Caps : RequestNetwork(p)
    \/ \E p \in asked : ReleaseNetwork(p)

-----------------------------------------------------------------------------
(* Properties.                                                               *)

\* Every variable of the service has a value the code can give it.
ServiceTypeOK ==
    /\ sim \in [Slots -> SimIds] /\ simId \in [Slots -> SimIds] /\ defaultSlot \in Slots
    /\ netUp \in BOOLEAN /\ suppliers \subseteq Sims \X Caps /\ asked \subseteq Sims \X Caps
    /\ epoch \in Nat /\ state \in {"dead", "created", "published", "running", "stopped"}
    /\ isInitSuccess \in BOOLEAN
    /\ controller \in [Slots -> {"none", "waiting", "inited", "ready"}]
    /\ netSuppliers \in [Slots -> [Caps -> [simId : SimIds, supplierId : SimIds, listed : BOOLEAN]]]
    /\ slotIdSimId \in [Slots -> SimIds]
    /\ \A k \in Slots : \A i \in DOMAIN queue[k] :
          queue[k][i] \in [type : {"SIM_STATE", "ACCOUNT_LOADED", "REQUEST", "RELEASE"},
                           cap : Caps \cup {"none"}]
    /\ timer \in [Slots -> 0 .. LoadRetryTimes] /\ loaded \in [Slots -> BOOLEAN]
    /\ added \subseteq Slots /\ wanted \in [Slots -> SUBSET Caps]
    /\ budget \in [changes : Nat, faults : Nat, calls : Nat]
    /\ slips \subseteq {"refused", "crossed", "missed", "forgotten",
                     "early", "late", "kept", "swapped", "overtaken", "unheard"}

\* Nothing is on its way: every event, timer and announcement has been taken.
Quiet ==
    /\ state = "running" /\ netUp /\ added = {} /\ simId = sim
    /\ \A k \in Slots : controller[k] = "ready" /\ queue[k] = <<>> /\ timer[k] = 0

\* At rest the net manager knows the suppliers of the cards that are in, no others, and a request
\* for one of them reaches the slot of its card.
SuppliersFollowSims ==
    Quiet /\ slips \cap {"refused", "crossed", "missed"} = {} =>
        /\ suppliers = {<<sim[k], c>> : k \in {j \in Slots : sim[j] # INVALID_SIM_ID}, c \in Caps}
        /\ "kept" \notin slips =>
             \A k \in Slots : sim[k] # INVALID_SIM_ID => GetSlotId(slotIdSimId, sim[k]) = k

\* At rest the holders of a slot are enabled for exactly what the net manager has asked for.
RequestsFollowNet ==
    /\ Quiet
    /\ slips \cap {"refused", "crossed", "missed", "kept", "forgotten", "early", "late", "swapped"} = {}
    =>
        \A k \in Slots : wanted[k] = {p[2] : p \in {q \in asked : q[1] = sim[k]}}
=============================================================================

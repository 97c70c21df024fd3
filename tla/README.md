# Cellular data: a TLA+ verification project

This directory specifies the core of the cellular data service
(`services/`): how a request for a network becomes a data call at the modem,
how the call ends, and what every part of the service believes meanwhile. The
specifications are checked by TLC on small instances, and the properties that
matter most are proved by TLAPS for all instances. Paths below are relative to
`services/src/` unless they say otherwise.

## 1. Inventory

| Component | State it keeps | Operations | Threads |
| --- | --- | --- | --- |
| `state_machine/` (`CellularDataStateMachine`, `Inactive`, `Activating`, `Active`, `Disconnecting`, `Default`) | current state, `connectId_` (number of the cycle), `cid_`, `apnId_`, result of the last disconnection, CHDATA error count, deferred events, timers in its queue | connect, disconnect, radio answers, time-outs, lost connection, death of the RIL host | one queue per machine; link-state callback on a binder thread |
| `cellular_data_handler.cpp` | pending establish and retry events, physical link state, call state, reason of the last disconnection | request and release, establish, clear, retry, reports, APN changes, host death, settings, SIM, roaming, DSDS, calls | its own queue; some functions are called from IPC and observer threads |
| `apn_manager/` (`ApnManager`, `ApnHolder`, `ApnItem`) | per APN type: state, machine, request; order by priority; matched and bad APNs | set state, release, overall state, matching | called by the handler |
| `data_connection_manager.cpp` | machines, map from cid to the active machine | add, remove, data-call-list events, link capability | its own queue |
| `apn_manager/connection_retry_policy.cpp` | next APN and delay | classify errors, choose the next APN and delay | called by the handler |
| `data_connection_monitor.cpp` | stall detection timer, packets without answer, recovery level, flow type | start, stop, tick, four recovery levels | its own queue, started and stopped from others |
| `state_machine/incall_data_state_machine.cpp` | state, call state | use the secondary card during an IMS call and give it back | its own queue, with the observer and the handler acting on it |
| `data_switch_settings.cpp`, settings database, observers | copies of the user and roaming switches, the airplane flag, policy and internal switches | read, write with roll-back, notify the handler | callers of the API, data-share callbacks, the handler |
| `cellular_data_power_save_mode_subscriber.cpp` | last message, power-save flag, open common event | clear all connections, answer the event in time, establish again | common-event thread |
| `utils/cellular_data_net_agent.cpp`, net-manager callbacks | table of suppliers, map from slot to card | register, unregister, route requests and releases | handlers, system-ability listener, binder threads |
| `cellular_data_controller.cpp`, `cellular_data_service.cpp` | life cycle, a controller per slot, whether a SIM account is loaded, retry timer | start, stop, subscribe, check permissions, forward | binder threads, system-ability listener |
| `frameworks/native/cellular_data_client.cpp` | proxy, cached default slot and card, whether the callback is registered | connect, ask, keep answers, forget them | pool threads, callback and death threads of the application |
| `frameworks/js/napi` | pending promises | check, queue work, settle | the application's threads |
| `utils/cellular_data_rdb_helper.cpp` | none; the APN table is behind it | queries for APNs, MVNO rows, the preferred APN; writes | called by the APN manager and the handler |
| state notification, dump, hisysevent | none of interest | output | - |

How they interact. The net manager's request sets a holder's
`dataCallEnabled_` and queues `MSG_ESTABLISH_DATA_CONNECTION`. The handler
checks its conditions, looks for a compatible or idle machine or creates one,
hands it to the holder and sends it `MSG_SM_CONNECT`. The machine asks the
radio, arms a timer and waits; it reports `MSG_ESTABLISH_DATA_CONNECTION_COMPLETE`
and finally `MSG_DISCONNECT_DATA_COMPLETE`. The second report makes the handler
take the machine from the holder, forget the cid and decide whether to retry,
clear or set up another call. `DataConnectionManager` hears from the modem which
contexts are gone and tells the machine that holds the cid. Nobody waits for
anybody: all of this is messages between queues, and `currentState_` is read
across threads.

Around this core: the APN manager turns rows of the APN table into the items a
call is set up with, and the handler writes the item it connected with back to
the table, whose observer tells the handler. Switches and phone state decide
whether a call may be up; none of them is polled, a change arrives as an event
or as a call from another thread. The net manager knows the service as one
supplier per card and capability; SIM events and the net manager's own restarts
make the service register and unregister them. An application reaches the
service over IPC and keeps the default slot and card it was told.

What is hard: an answer that comes after the timer of its request; answers out
of order; commands that are deferred in one state and dispatched in another; a
report that is in flight when the holder changes its mind; the `currentState_`
of a machine read before it is set; a cid the modem has given to somebody else;
retry events removed for everybody; a restart of the RIL host; a link callback
that re-arms a timer while the machine leaves the state; two threads that
initialise and de-initialise the in-call machine; a wake-up that is lost because
a condition was out of date when its event was handled; a write-back that wakes
its own writer; a card that changes slots while suppliers are registered from two
threads; an answer that is stored after the cache it belongs to was emptied.
`PROJECT.json` lists each
hazard at its line, with the properties that would notice it, or why none does.

## 2. Modules

| Module | Models |
| --- | --- |
| `DataCall` | abstract: what a machine promises to the handler |
| `CellularDataStateMachine` | the machines, their queues, the radio interface |
| `CellularDataHandler` | handler, holders, manager and modem, composed with the machines |
| `IncallDataStateMachine` | data over the secondary card during a call, with the handler's and the observer's side of it |
| `DataConnectionMonitor` | stall detection and recovery, started and stopped from three threads |
| `ApnManager` | from the APN table over the retry policy to the APN of a call, and back |
| `DataSwitch` | switches, settings database, observers, phone events and power-save mode: whether a call may be up |
| `CellularDataService` | life cycle of the service, controllers, suppliers and requests |
| `CellularDataClient` | an application, composed with `CellularDataService` |
| `MCStateMachine`, `MCHandler`, `MCIncall`, `MCMonitor`, `MCApn`, `MCSwitch`, `MCService` | instances for TLC |
| `Lists` | loops over a vector that copy some of its elements |
| `ListProofs` | induction for loops, and what such a loop leaves of a vector of any length |
| `CellularDataStateMachineProofs` | the machines: types, every wait has a timer; the context a machine holds and deactivates is its own; it reports its own answers and implements `DataCall` |
| `CellularDataHandlerProofs` | types of the composition; every call has one owner, a retry has an event, one call at a time; the manager's map and the physical link are those of the calls that are up |
| `ApnManagerProofs` | types; merging loses nothing, the retry policy is fair, a call gets an APN that fits |
| `IncallDataProofs` | types; data on another card is watched |
| `DataConnectionMonitorProofs` | types; a connected call is monitored and detection is armed |
| `DataSwitchProofs` | types; the copies of the switches follow the database, the default call follows the switches and the phone |
| `CellularDataClientProofs` | types of service and client; suppliers follow the cards, handlers follow the requests; what an application is told is true, what it remembers is current |

### CellularDataStateMachine

One action dispatches one event: `DispatchImmediate` for deferred events that
were re-sent, `DispatchQueued` for timers and radio answers, `DispatchCommand`
for what others send. Each goes through the state's `StateProcess` and then
`Default`, as in `StateMachineEventHandler::ProcessMsg`, and includes
`ProcessTransitions` with the `StateBegin` of the new state and the re-sending
of deferred events. The module is open: any command may come at any time, so
that what holds here holds for every handler. `OnInterfaceLinkStateChanged`
runs on a binder thread and is three actions (find the timer, remove it, arm it
again), because the machine can take a step between any two of them.

The radio (external) answers a set-up with a result (`active`, `rejected`) or
with an error (`error`, `chdata`), late, in any order or never; a request that
the RIL adapter refuses is one that is never answered. `granted` is a history
variable: the contexts the modem gave, with the request it gave them for.

### CellularDataHandler

A handler function runs to completion on the handler's thread, so each is an
operator from handler state to handler state and each event is one action:
`RequestNetwork`, `MsgEstablishDataConnection`, `RetryToSetupDatacall`,
`EstablishDataConnectionComplete`, `DisconnectDataComplete` (with retry or
clear, physical link and the sorted establishment at its end), `ClearAll`,
`EstablishAll`, `HandleApnChanged`, `OnRilAdapterHostDied`, and for the manager
`RadioDataCallListChanged`. Commands go through the `inbox` of a machine and
reports through its `outbox`. `currentState_` is a variable of its own that
follows the machine's state one step later (`SetCurrentState`), because
`Inactive::StateBegin` reports before it sets it. Types have a `Priority`, which
several may share, and `HasAnyHigherPriorityConnection` compares it strictly.
`displaced` is a history variable: the machines whose call another machine took out
of the manager's map, by connecting with the same cid or by ending while it
remembered that cid (nothing clears `cid_`). Whether the phone permits a
call (slot, attach, SIM, roaming, airplane, power-save mode) is an outcome
chosen freely at each attempt; `DataSwitch` says what it is.

### IncallDataStateMachine

`HandleCallChanged` is three steps of the observer's thread: it initialises the
machine if need be, updates its call state, and sends the event after giving up
`initMutex_`. `IncallDataComplete` is the handler's and takes no lock. Two
properties of the code are kept as they are: a `TransitionTo` inside
`DeactivatingSecondaryState::StateBegin` makes the machine idle without
`IdleState::StateBegin`; after `DeInit` the current state and all state objects
are null, and `IsSecondaryActiveState` compares null with null. `crossed` is a
history variable: a `MSG_INCALL_DATA_COMPLETE` was handled although a later
call had begun. DSDS mode, primary SIM and radio technology are one free
answer; IMS of slot -1 is not registered.

### DataConnectionMonitor

Handler, observers and the monitor's own thread work on `stallDetectionEnabled_`
and on the timer event without a lock, so a start (`enable`, `check`, `send`), a
stop (`disable`, `remove`) and the end of a tick (`rearm`, `send`) are sequences
of steps in `todo`, and the threads interleave between any two. A tick counts
packets and may take a step of recovery; the two steps that clear all
connections stop detection on the monitor's thread. The data calls are two
numbers, `live` and `dying` (holders CONNECTED and DISCONNECTING), without MMS
holders, which `ClearAllConnections` spares. `HandleCallChanged` stops and
starts detection only for calls on GSM (`gsm`). `exempt` is a history variable:
a start or a stop began while another one was under way, or a voice call that
had stopped detection ended on another technology, where the code does not
start it again; the next start or stop
that nobody overlaps clears it. None of the three properties holds without it:
both are real in the code, and the properties say that there is no third way to
lose detection, and for how long it is lost.

### ApnManager

`rows` and `prefer` are the table; `h` holds the APN items and, per holder, the
retry policy and what of the holder matters to it. One action is one event of
the handler: `HandleApnChanged` reads the table, which may fail at each stage
(`Stages`), merges similar rows (`TryMergeSimilarPdpProfile`, the double loop as
two recursive functions), puts the preferred item first, compares the attach APN with
the last one, clears connections, and writes the preferred APN back;
`MsgEstablishDataConnection` filters by type (`FilterMatchedApns`, `FetchDunApns`),
releases the calls of bip and dun if it is for default (`CheckMultiApnState`) and
asks `GetNextRetryApnItem`; reports of a call bring success, failure,
permanent rejection or the end of clearing. Items are objects that holders keep
while a new list exists, so an item carries the generation of its list. `run`
and `src` inside `h`, and `created`, are history.

### DataSwitch

One slot; every set-up that is tried succeeds, so that a call that is down is
down for a reason. `db` are the rows of the settings database, `cache` the copies
in memory, `setter` a caller in the middle of a setter (query, write, store are
separate steps), `notices` what the database tells the observers, `observed` the
rows that have one, `queue` the handler's events. Every handler of a SIM,
roaming, radio, attach, emergency, default-slot, resident-network or settings
event is one action and evaluates `ChecksPass`
(`AttemptEstablishDataConnection`) with what the handler knows at that moment.
Another card brings its own row of the roaming switch (`NewCard`); its id may not be
known yet when an event is handled, and its attach APN may be the last card's (free
choices of `HandleRecordsChanged` and `HandleSimStateChanged`).
`slips` is a history variable: it collects what goes past the design, one name
for each line of the code that lets it happen, and the properties excuse exactly
those:

- `fault`: an access to the database failed (`cellular_data_handler.cpp:2525`
  and the queries of `data_switch_settings.cpp`: the handler goes on with a default);
- `overtaken`: an event was handled while a setter had written one of copy and
  row but not the other (`data_switch_settings.cpp:161`);
- `airplaneLate`: an attempt was refused by an airplane flag whose notice was
  still on its way (`cellular_data_handler.cpp:739`); nothing tries again;
- `savingLate`: power-save mode began while a call was being set up and had no
  address yet (`cellular_data_power_save_mode_subscriber.cpp:52`);
- `crossed`: the end of roaming was handled after the roaming switch came on;
  each of the two handlers leaves the calls to the other
  (`cellular_data_handler.cpp:426`);
- `swallowed`: after a change of APN an attempt was dropped because one for
  another type was pending (`cellular_data_handler.cpp:669`);
- `swapped`: a card was replaced before the removal of the last one was handled: the
  handler asks for the state of the SIM when it takes the event
  (`cellular_data_handler.cpp:1674`) and finds the new card, so it clears nothing and
  its observer of the roaming switch stays on the row of the old one.

### CellularDataService

`state` and `epoch` are the process: dead, created, published (the ability can
be found), running, stopped. `controller` is per slot: it waits for the core
service, has its handler (`inited`), hears events (`ready`). `netSuppliers` and
`slotIdSimId` are the agent's tables, `suppliers` and `asked` the net manager's
side. Three threads change the tables: `HandleSimStateChanged`,
`HandleSimAccountLoaded` and the retry timer on the handlers,
`OnAddSystemAbility` on the listener, `RequestNetwork` and `ReleaseNetwork` on
binder threads. Either process may die at any step, the net manager may refuse a
registration, a notice may be lost. The methods of the service are operators
that return the code of the first check that fails. Its `slips`:

- `refused`: the net manager refused a registration; the route is set all the
  same and nothing tries again (`utils/cellular_data_net_agent.cpp:60`);
- `crossed`: a card was registered for one slot while the entry of another slot
  still held it: unregistering the old entry drops the new supplier
  (`utils/cellular_data_net_agent.cpp:121`);
- `missed`: a card came or went while the controller had its handler but no
  events yet, or the notice of the account was lost (`cellular_data_controller.cpp:160`, `:334`);
- `kept`: the route of a removed card stays: the card had no entry, or it was
  removed while the service was stopped or its controller had no handler yet
  (`slotIdSimId_` outlives both);
- `forgotten`: the net manager died and with it the requests the handlers still
  hold;
- `early`: a request came before `Init` was through
  (`cellular_data_service.cpp:145`) and was refused;
- `late`: a request was queued behind the removal of its card;
- `swapped`: a card was inserted before the removal of the last one was handled:
  the handler asks for the state of the SIM when it takes the event
  (`cellular_data_handler.cpp:1674`), finds a card and never sees the removal, so
  the requests for the old card stay.

`swapped` and the last two cases of `kept` were found by the proofs of
`RequestsFollowNet` and `SuppliersFollowSims`. Without `swapped` in its list TLC finds
`RequestsFollowNet` violated within the bounds of `service`.

### CellularDataClient

A JavaScript function is a record: the method it calls, which checks come first
and how an error settles it. An IPC is two steps, execution and answer, and the
answer is lost if the process died. The pool thread (`call`), the binder thread of
`OnSimAccountChanged` (`update`) and `OnRemoteDied` share the cached slot and
card under no lock. `Invoke` takes the local steps up to the first one that
another thread can see. Its slips are `overtaken`, an answer stored after the
cache had been emptied for a newer one (`cellular_data_client.cpp:168`), and
`unheard`, an answer stored when no core service will call back: `registerStatus_`
was set for a service that had died meanwhile (`cellular_data_client.cpp:130`), or
an update of the callback stored what it had asked for although the client is no
longer registered (`cellular_data_client.cpp:206`, which does not test it).

## 3. What is checked

| Run | Shows | States |
| --- | --- | --- |
| `machine` | types; `ContextOfThisCycle`, `DeactivatesOwnContext`, `WaitIsTimed` with a radio in any order; `WaitsEnd`: every wait ends | 0.2 M |
| `machine_in_order` | `ReportsOwnAnswer`, and the refinement `ImplementsDataCall` | 0.5 M |
| `handler_two` | `OwnerOfEveryCall`, `ConnectFindsInactive`, `MapFollowsCalls`, `LinkFollowsCalls` with two types that share an APN item and a modem that gives a cid again at any time | 0.9 M |
| `handler_single` | types; `SingleCall` in single-connection mode with three types, two of equal priority, `RetryIsScheduled` with failing set-ups and changing APNs | 0.6 M |
| `handler_live` | `HoldersSettle`, releases and host deaths included | 37 k |
| `incall` | types, `SecondaryIsWatched`, `CurrentStateTellsInit`, `DataReturns` | 0.8 M |
| `monitor` | types, `DetectionIsArmed`, `ConnectedIsMonitored`, `StallIsRecovered` | 0.4 M |
| `apn` | types; `ListMatchesTable`: merging loses no type; `RotationIsFair`, `ChosenFits`: which APN a call gets; `PreferSettles`: the write-back comes to rest; `DefaultConnects` | 174 k |
| `switch` | types; `WantedIsUp`: no wake-up is lost; `ForbiddenIsDown`: no call outlives its permission; `CacheFollowsDb`; `HoldsEnd` | 369 k |
| `service` | types; `SuppliersFollowSims`, `RequestsFollowNet`, `CardsAreServed` across deaths of both processes and changes of cards; `CacheIsCurrent`, `AnswerIsTrue` for the application | 373 k |
| `apn_similar`, `handler_stale_cid` | violations: see Findings | - |

Every property of a passing run has a mutant: the same definition with a
plausible mistake, kept beside it and marked `Mutant`, for which TLC finds the
property violated.

### Bounds and assumptions, all of them constants

- `MaxConnectId`: cycles of a machine; in the handler runs, how many cycles may
  have ended, over all machines, before no new call is permitted. Two, because a
  stale answer or timer needs an earlier cycle and the comparison of `flag` and
  `connectId_` only tells equal from different; one in `handler_two`, where
  both machines are in a cycle at once, and in `handler_live`.
- `MaxDeferred`: events a machine keeps deferred. Two is a CONNECT and a
  DISCONNECT, the two commands that are deferred; one in `machine`, whose radio
  is the freest.
- `Machines`, `Apns`, `Cids`: as many as it takes to have an owner and a rival. One
  cid in `handler_single`, which has one call at a time, and in `handler_stale_cid`, whose
  trace needs no more. `handler_two` treats its two cids as symmetric: nothing compares
  them but for equality. `MaxErrSetChdataCnt` is 2 where the count matters and 5, as in
  the code, elsewhere.
- `InOrder` (the radio answers set-ups in order): `ReportsOwnAnswer` and
  `ImplementsDataCall` need it, because `Active` takes any set-up result
  without comparing its flag (`state_machine/active.cpp:253`).
- `ClockSteady`: without it the connect timer can be dropped, as
  `Activating::ProcessConnectTimeout` compares wall-clock times and does not
  re-arm. `WaitIsTimed` and `WaitsEnd` need it; `machine_in_order` does without.
- `RadioPrompt`: the radio answers before the timer; used to make room in the
  runs with several types, while `handler_live` and the machine runs do without.
- `CidReuse`: TRUE in `handler_two` and `handler_live`, where the modem may give any
  cid for which it has no context, also one whose last use the phone still works on. The runs without it
  (`handler_single`, `handler_stale_cid`) leave out the answers whose
  cid is in a machine's call, or in one about to begin, or in one whose end the handler
  or the manager has not heard of (`IsWoundUp`); a cid whose last call has ended may be
  given to any machine. A machine stores the cid before it looks at the result
  (`state_machine/activating.cpp`), so that rejections count too.
- `Requests`, `Disturbances`, `MaxHostDeaths`: what the environment does in a
  run; between them the runs contain all of it. The two passing runs with several
  types request and never release: there it is the handler that takes calls down, for a
  takeover, a change of APN or the establishment of default. `MaxCallChanges` and
  `MaxDisturbances` bound the in-call runs: DIALING, DISCONNECTED, IDLE and the
  beginning of the next call are four changes, enough for what is left of one
  call to meet the next.
- `RECOVERY_TRIGGER_PACKET` is 1 (10 in the code) and a stalled tick counts one
  packet, so that it takes more than one tick to recover. `MaxCalls` is 2, for a
  call that ends while another goes on; four disturbances are a change of flow
  and three of calls, screen or technology.
- `Tables` of `ApnManager`: one with rows that merge, types in several rows and an
  edited row, one with MVNO rows and a wildcard. `MaxEdits` and `MaxFaults` are one
  each: the write-back adds further changes by itself. `MaxCount` 2 tells the
  first, a repeated and the next try apart, `CreateRetries` 1 the last retry from
  the others. `FaultSets` are the ways one reading fails: none, or the two
  queries for rows.
- `MaxChanges` of `DataSwitch` is 3 out of all kinds of change, `MaxFaults` 1: two
  changes can cross, and a third shows what they left behind. There are the
  holders of default and MMS.
- `service` has two slots, two cards and one capability. `BootBudgets` start from
  nothing and spend two changes, or one change and one fault; `RestBudgets` start
  with a service that is up, a card in slot 1, and spend a fault and a call, a
  change and two calls, or four changes (a card swapped for another and back). A fault is a death, a stop, a refusal or a loss.
  `LoadRetryTimes` is 2 (3 in the code). The application is a system application
  with every permission or one with none.

The environments of the runs `incall`, `monitor`, `apn`, `switch` and `service`
stop when their bounds are used up, so these runs do not check deadlock; the
others do.

### Fairness

Except where this section says so, nothing is assumed of radio, modem, user,
settings or calls. A queue is served:
weak fairness for re-sent events, reports, the machine's own steps and the link
callback; strong fairness for timers and for the inbox, because an event of
higher priority can go first but not for ever. This is what the event runner of
a `TelEventHandler` does. In `FairSpec` of the in-call machine the three queues
get weak fairness. `StallIsRecovered` is about data that is wanted and a radio
that obeys: `FairSpec` of the monitor also says that calls that were cleared come
down (`HoldersSettle` shows this of the handler), that a call is established
again when there is none, and that the radio answers a restart. `FairSpec` of
`ApnManager` says that pending events are handled, with a table that answers in
the end, and that a call that is being set up or cleared is reported on; the weak
fairness is written out, as `ENABLED` would compute the list again and again.
`FairSpec` of `DataSwitch` covers the handler's thread and its timers only.
`Fairness` of the service says that as long as the service, the system-ability
manager (which restarts what died and announces it) or the core service (which
loads the account of a card that is in) has work, one of them works.

### Findings

`apn_similar`. A comment at `apn_manager/apn_manager.cpp:697` says that similar
APNs are coalesced "to prevent bringing up two data calls with same interface".
Each row is compared once with each later one. With rows for the same access
point over IPv6, IPv4 and both, the first takes over the third and with it its
protocol; now it is similar to the second, with which it was compared before. Both
stay in the list, and the third, merged already, is merged into the second too.

`handler_stale_cid`. `interfaces/innerkits/cellular_data_client.h:137` says of
`HasInternetCapability` "Whether cellular data has internet capability", "Return 1 if
has, 0 if hasn't". It looks the cid up in the manager's map, and
`DisconnectDataComplete` (`cellular_data_handler.cpp:1087`) removes from that map the
cid that the ended machine remembers, which can be that of an earlier call: nothing
clears `cid_`, and a set-up that fails with an error of the radio brings no new one. In
the trace the first machine runs a call of default with cid 1 and ends it in the regular
way; default connects over the second machine, which the modem gives the free cid 1;
the first then fails to set up MMS, and its end erases the entry of the live call.
Default is connected and the function answers 0. A loss of that context is not passed on
either (`data_connection_manager.cpp:236`), and if no other call is up the physical link
is reported as gone. The modem does nothing unusual.

Behaviour that is in the models and that no property excludes, because nothing
in the repository promises otherwise:

- a set-up that succeeds after its timer leaves a context nobody deactivates;
- the loss of a context that is reported before the machine took the answer is
  dropped by the manager;
- a `COMPLETE` that is handled during the next call leaves data on the
  secondary card (`crossed`), and so does an end of call delivered while IMS is
  not registered followed by a change of the setting (`CallStateIsStale`).
  `DataReturns` names these two cases and shows that there is no third;
- `IncallDataComplete` de-initialises the in-call machine and keeps it, so that
  `SetDataPermittedForMms` refuses after the first completed IMS call, and calls
  without IMS take the IMS branch (`cellular_data_handler.cpp:1567`). Of two unit tests one
  expects the pointer to be null (`test/cellular_data_handler_test.cpp:506`), the other
  that it is not (`test/cellular_data_handler_branch_test.cpp:283`);
- the slips of `DataSwitch`, `CellularDataService` and `CellularDataClient`
  listed in section 2: the properties excuse each by name and show that there are
  no others;
- a preferred APN that the network does not accept is tried for ever, and an APN
  that is rejected for good ends the retries of its holder: the two exceptions of
  `DefaultConnects`.

Noticed while reading, and outside the models: a `napi_queue_async_work` that
fails leaves its promise unsettled; `GetInternalActReportInfo` of the proxy does
not write its result; `GetCellularDataFlowType` returns the type as an error code;
`IsCellularDataRoamingEnabledSync` can read a slot id that was never set;
`IsNeedDoRecovery` and `SetPolicyDataOn` report success without a handler;
`lastMsg_` of the power-save subscriber is static and shared by the slots.

## 4. What is proved

The theorems hold for all values of the constants that satisfy the named
assumptions: `ConstantsAssumption` for the machines, with `HandlerAssumption` for
the handler, `IncallAssumption`, `MonitorAssumption`, `ApnAssumption`,
`SwitchAssumption`, and `ServiceAssumption` with `ClientAssumption` for the client.
They say what kind of value a constant is, in `DataSwitch` which orders of the two
holders exist, and in `ApnManager` that a row has an id of its own, as the table's
primary key. Two theorems about machines also assume `InOrder`, as their runs do;
`WaitIsTimed` names `ClockSteady` itself. The theorems on context ids assume nothing of
the modem.

The library's induction theorems take a predicate as a parameter and cannot be
cited. `ListProofs` restates induction for sets of numbers (`NatBySet`); `LoopStays`
and `LoopRuns` apply it to a loop whose step keeps a set of states, and
`WhereElements` and `WhereIndexes` say what is left of a vector by a loop that copies
some of its elements. Loops in the models are therefore recursive functions.

Machines.

- `TypeCorrect` (`Spec => []TypeOK`). `TypeOK` is inductive. One lemma per state
  shows that dispatching an event there keeps the types, from lemmas on the
  helpers (`TransitionTo`, `EnterInactive`, `SendTimer`, `RemoveEvent`). The
  CHDATA error count stays below its limit.
- `ContextIsOfThisCycle` and `OnlyOwnContextIsDeactivated`. Inductive invariant
  `ContextInv`: every answer that is queued, deferred or re-sent reports a
  context that was granted to the request it names (`AnswersAreGranted`), the
  context held is that of this cycle, and every deactivation request names a
  granted context. The first part is needed because the answer is compared with
  `connectId_` only when it is dispatched.
- `WaitIsAlwaysTimed`. `WaitIsTimed` is inductive together with `TypeOK`: the
  link callback that removed a timer counts as the timer until it re-arms, and
  it re-arms with the cycle of the event it removed.
- `ReportsAreOwn`. `Active` takes any set-up answer for the one it re-sent to
  itself. Inductive invariant `OrderInv`: queued answers and open requests carry
  ascending numbers, none of them later than this cycle, a connected machine has
  none left (`Ordered`), and what a machine re-sends to itself is a command it
  deferred or the one answer of this cycle (`ResentOK`). The numbers of the queue
  are needed because a late answer is only harmless while it precedes the answer
  of this cycle.
- `MachinesImplementDataCall` (`Spec => ImplementsDataCall`). Initial states map to
  initial states, and under `OrderInv` every step to a step of `DataCall` or to a
  stutter. `Outcome` classifies what dispatching one event can do to a machine:
  nothing that `DataCall` sees, the beginning of a cycle, its establishment report
  or its end. It is proved once for each state, and the mapping follows from it.

Handler. `HandlerTypeCorrect`, `EveryCallHasOwner`, `ConnectAlwaysFindsInactive`,
`AlwaysSingleCall` and `RetryAlwaysScheduled`, for any APN types, machines, requests,
disturbances and host deaths, with any radio and any modem. One inductive invariant
serves all five: a machine with a holder is, for the APN of this holder, in exactly
one of three places (a `CONNECT` in its inbox; not `Inactive`; a `DISCONNECTED` last
in its outbox), a machine without a holder is in none (`Working`), no two holders
share a machine and a holder has one exactly if it is neither `IDLE` nor `RETRYING`
(`Owned`); a `CONNECT` is never re-sent or deferred (`Quiet`). `OwnerOfEveryCall` is
not inductive by itself because a call has no owner to lose while its `CONNECT` or
its `DISCONNECTED` is under way, and `ConnectFindsInactive` because nothing in it
says that a machine whose `DISCONNECTED` is pending has been sent no `CONNECT`.
The invariant is a predicate `Good` on handler states, since the handler's functions
are operators on them; one lemma per function shows that it is kept.

`MapAlwaysFollows` and `LinkAlwaysFollows`, whether `CidReuse` is TRUE or FALSE. The
manager's map has one machine per cid, and the handler removes entries by the cid that a
machine remembers, which may be that of an earlier call. `CidInv`: an answer that will
connect a machine carries the cid of a context. `LinkInv`: a machine that is up, or
whose establishment report is pending, is the one in the map under its cid or is
`displaced`; so is the machine of a connected holder, and if it is in the map the
physical link is on; what the map has is a machine in use under its own cid, and while
the link is on some machine is in use. The parameter `up` of `Good` (with `KeepsCalls`)
carries through the handler's functions which calls they left alone, since it is the end
of one call that could unmap another. That `displaced` cannot be dropped from either
property is what `handler_stale_cid` shows.

APN manager. `ApnTypeCorrect`, `ListAlwaysMatchesTable`, `RotationAlwaysFair` and
`ChosenAlwaysFits`, for tables of any length, any types, holders and failures. Merging
works in place on the list it walks: `Merged` is kept by every round of both loops
(each id at most once; a profile that was merged into another serves no default, and
so is never kept again; every type of every row is with some profile that is left, of
the same access point). `TryMergeServes` concludes what the list has, `Good` carries it
in `h`. `RotationIsFair` is not inductive: `PolicyOK` adds that the profile returned
last is at the current index, was returned no more often than `tryCount_` says, and
that a list has no id twice, so that coming round to the same index means that all
others are bad (`NextGoodIs`). `ChosenFits` is an action property: `Starts` says that
a function begins no call but with an item that fits; it is shown for
`EstablishDataConnection` and carried through the loop over the holders, past the marks
that `ClearAllApnBad` and `Forget` remove.

In-call machine. `IncallTypeCorrect`, `SecondaryAlwaysWatched` and
`CurrentStateAlwaysTells`. Inductive invariant `IncallInv`: while another card is used no INIT is pending and the state
that `GetCurrentState` answers is that of the event handler; a machine that was
never created is empty. Without the first part an INIT would make a machine idle
that uses another card.

Monitor. `MonitorTypeCorrect`, `DetectionAlwaysArmed` and `ConnectedAlwaysMonitored`.
Inductive invariant `MonitorInv`: where each of the three threads can be (`PlansOK`);
unless `exempt`, at most one of them is inside a start or a stop (`OneSwitches`), one
that is about to remove the event has cleared the flag (`RemovesWhenOff`), one that
will leave detection off has a reason (`StopsForAReason`), a flag without an event
has a thread that has still to look for it (`Armed`), and a call without the flag
one that will set it (`Guarded`). The properties speak of moments of rest; the
invariant says what each thread still owes.

Switches. `CacheAlwaysFollowsDb`. Inductive invariant `FollowInv`: the copy of the
user switch is ahead of the row while a setter runs and what the setter would put
back is the row, or a change of the row is being told; the copy of the roaming
switch is behind it. Without the value to be put back a failed write would restore
a row that has changed.

`SwitchTypeCorrect`, `WantedAlwaysUp` and `ForbiddenAlwaysDown`, for any number of
changes. The two properties speak of moments when nothing is on its way to the
handler. Inductive invariant `SwitchInv`, on top of `FollowInv`: a call that is up and
not wanted is about to be cleared, and there is none without observers (`Held`); the
end of roaming is queued after its beginning (`Ordered`); each condition of a call that
is up holds, or an event is on its way that will clear the call (`DownInv`); a call that
is idle, wanted and allowed has an event, a notice or an establishment coming that will
try it (`UpInv`). The order is needed because a handler reads the roaming state when it
takes the event, not when the event was sent.

Service. `ClientTypeCorrect` types service, net manager and application together.
`SuppliersAlwaysFollow` and `RequestsAlwaysFollow`, for any slots, cards, capabilities,
deaths and restarts. `ServiceInv` says which controllers and handlers there are in each
state of the process. `SupplyInv`: the agent's table and the net manager agree
(`Tabled`); a controller that is there holds the suppliers of its card, or an event, the
retry timer or the listener will register them (`Holds`, `Attentive`); a route without a
card has the removal queued (`RouteOK`). `RequestInv`: for each slot and capability the
last event about it in the queue decides what the holder will be (`Fin`, `Wants`), and
this is what the net manager was asked for and the slot supplies (`Owed`); a slot
without a card has the removal queued or no requests (`Gone`), two slots never supply
the same card (`Apart`), and nothing is asked before the service is up. It is suspended
while a request overruns a removal (`Late`), until the removal is handled, which records
the slip.

Client. `AnswerAlwaysTrue`, with `CallInv`: what was done and what the answer or its
loss will tell the application, at each stage of a call. `CacheAlwaysCurrent`, with
`CacheInv`: a cached value, an answer that will be stored and an update of the
callback are each current, or a notice is on its way that will empty the cache, or
the object that would send it has died. The second case of `unheard` was found by
this proof: a step of the update that was not covered.

Only model-checked, and why: liveness (`WaitsEnd`, `HoldersSettle`, `DataReturns`,
`StallIsRecovered`, `PreferSettles`, `DefaultConnects`, `HoldsEnd`, `CardsAreServed`)
is out of the prover's reach. Every invariant and every action property that a passing
run checks is proved.

## 5. What is left out, and why

- Effects without influence on what is modelled: network information, bandwidth
  and NR events, statistics, logging, hisysevent, the notification of states.
- `MSG_SM_DISCONNECT_ALL` has no sender. `PROFILE_STATE_FAILED` is never set on
  the modelled paths.
- The early return of `ClearAllConnections` after a failed hand-over
  deactivation is the behaviour in which the call was not made.
- In the monitor: flow statistics, the period of the timer, the extension library
  that may replace the count of packets, MMS calls (they are not cleared with the
  others, yet detection is stopped for all), and answers to the re-registration.
- In the handler: bad-APN marks and the choice of the next APN (they are in
  `ApnManager`), the length of delays and the hand-over of the MMS permission.
- In `ApnManager`: user, password and proxies of a profile, beyond what the
  comparison for similarity tells apart; APN items from the extension library.
- In `DataSwitch`: the hand-over deactivation in `ClearAllConnections`, DSDS mode,
  operator configuration, 5G parameters and other slots. The functions that
  other threads call on the handler are one step.
- In the service: the slots of VSIM and the third card, `UpdateNetSupplierInfo`
  and the reuse of a supplier, the policy callback, and the methods for system
  services that only forward.
- In the client: the parsing of arguments, the synchronous variants of the
  JavaScript functions, which make the same request, and the ArkTS and Cangjie
  bindings, which call the same client.
- Events with equal parameters that are pending at once are one event where the
  code tests for or removes all of them (establish and retry events, timers).
- A data-call list is taken one cid at a time. An answer with neither object in
  it is one that never came, except in `Disconnecting`, which handles it.
- Functions that other threads call on the handler (`ClearAllConnections` from
  the controller) run on the handler's thread in the model.
- A machine that has not run `DoConnect` has no APN item, and the code would
  dereference null while it looks for a compatible machine
  (`cellular_data_handler.cpp:2782`); the model leaves such machines out.
- In the in-call module an event is dispatched in one step although `DeInit`
  may run during it, and the user changes the default slot only back to the
  primary one. The primary slot does not change.

## 6. Plan

Every safety property that the runs check is proved. What could come next:

1. Calls of handler functions from other threads, unsynchronised with the
   handler's own (`ClearAllConnections` from the controller and the observers).
2. The composition of `DataConnectionMonitor` with the handler, whose holders it
   counts now; its flow statistics.
3. The hand-over of the MMS permission and DSDS mode, with two slots in
   `DataSwitch`; the reuse of a supplier.

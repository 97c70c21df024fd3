----------------------------- MODULE DataSwitch -----------------------------
(***************************************************************************)
(* What decides whether the data calls of one slot may be up: the switches *)
(* of DataSwitchSettings with the settings database and its observers, and *)
(* the conditions AttemptEstablishDataConnection checks (power-save mode,  *)
(* airplane mode, default slot, attach, SIM, roaming, a GSM call, a change *)
(* of country).                                                            *)
(*                                                                         *)
(* No condition is polled.  A change of one reaches the handler as an      *)
(* event, or as a call from another thread, and the handler then clears or *)
(* establishes every call by what the conditions are at that moment.  The  *)
(* switches are read from copies that the callers of the setters, the      *)
(* observers and the handler's thread all write.                           *)
(*                                                                         *)
(* The calls themselves are those of CellularDataHandler, reduced to the   *)
(* states of their holders; every set-up succeeds.                         *)
(***************************************************************************)
EXTENDS Integers, Sequences, FiniteSets, SequencesExt

CONSTANTS
    SortApnHolder, \* the APN types with a holder, the highest priority first
    Policies,      \* values of persist.edm.mobile_data_policy: "", "disallow", "force_open"
    Changes,       \* what may change: a subset of ChangeKinds
    MaxChanges,    \* bound: changes in all
    MaxFaults      \* bound: accesses to the settings database that fail

Holders == Range(SortApnHolder)

\* The first of some holders in apnHolders_: InitApnHolders adds default before MMS.
FirstAdded(S) == IF "default" \in S THEN "default" ELSE "mms"

ChangeKinds == {"user", "otherUser", "roamingSwitch", "factoryReset", "airplane", "policy",
                "internal", "defaultSlot", "attach", "roaming", "sim", "call", "emergency",
                "border", "powerSave", "request"}

ASSUME SwitchAssumption ==
    /\ SortApnHolder \in {<<"default">>, <<"default", "mms">>, <<"mms", "default">>}
    /\ Policies \subseteq {"", "disallow", "force_open"} /\ Policies # {}
    /\ Changes \subseteq ChangeKinds
    /\ MaxChanges \in Nat /\ MaxFaults \in Nat

VARIABLES
    db,       \* rows of the settings database: user, roam (of the card in the slot), airplane
    cache,    \* userDataOn_, userDataRoaming_ and the airplane observer's isAirplaneModeOn_
    setter,   \* the caller that is in the middle of a setter, if any
    notices,  \* change notifications on their way to the observers
    observed, \* the rows whose observers are registered
    policy,   \* persist.edm.mobile_data_policy
    policyDataOn, internalDataOn,
    phone,    \* what the core service answers: attached, roaming, sim, default slot; and lastCallState_ on GSM
    abroad,   \* isMccChanged_
    saving,   \* powerSaveModeFlag_
    lastMsg,  \* CellularDataPowerSaveModeSubscriber::lastMsg_
    entering, \* the ENTER common event is not finished yet
    timers,   \* pending delayed events: "mccDelay", "replyCommonEvent"
    queue,    \* the other events of the handler, in the order they were sent
    holder,   \* apnState_, dataCallEnabled_ and the reason of the disconnect, by APN type
    establishEvents, retryEvents,  \* pending MSG_ESTABLISH_DATA_CONNECTION, MSG_RETRY_TO_SETUP_DATACALL
    changes, faults,  \* bounds
    slips     \* history: what has gone past the design so far, see Slips

dbVars     == <<db, setter, notices, observed>>
powerVars  == <<saving, lastMsg, entering>>
switchVars == <<policy, policyDataOn, internalDataOn>>
callVars   == <<holder, establishEvents, retryEvents>>
vars == <<dbVars, cache, switchVars, phone, abroad, powerVars, timers, queue, callVars,
          changes, faults, slips>>

\* What excuses a call that is up or down against the switches: a failed access to the
\* database, an event handled in the middle of a setter, an attempt refused by an
\* airplane flag that was out of date, a set-up under way when power-save mode began, the end
\* of roaming that is handled when the roaming switch has just come on: RoamingStateOff leaves
\* the calls to the switch's event, and that one to the end of roaming; an attempt dropped
\* while the call goes down for a change of APN because one for another type is pending; a card
\* that is replaced before the removal of the last one is handled.
Slips == {"fault", "overtaken", "airplaneLate", "savingLate", "crossed", "swallowed", "swapped"}

NoSetter == [key |-> "none", value |-> FALSE, old |-> FALSE, stage |-> "none"]

Events == {"ENABLE_CHANGED", "ROAMING_CHANGED", "ESTABLISH_ALL", "PS_ATTACHED", "ROAMING_ON",
           "ROAMING_OFF", "EMERGENCY_ON", "EMERGENCY_OFF", "RADIO_OFF", "RADIO_ON",
           "SIM_STATE", "RECORDS_LOADED", "ACCOUNT_LOADED", "DEFAULT_SLOT", "RESIDENT",
           "FACTORY_RESET"}

-----------------------------------------------------------------------------
(* The checks of AttemptEstablishDataConnection.  `w' is what the handler's  *)
(* own copies say: the cache, policyDataOn_, isMccChanged_, the power-save   *)
(* flag and lastCallState_.                                                  *)

CheckCellularDataSlotId(a) == phone.default \/ a # "default"

CheckAttachAndSimState(mcc) == ~mcc /\ phone.attached /\ phone.sim \in {"READY", "LOADED"}

IsAllowActiveData(w) == w.cache.user /\ w.policy /\ internalDataOn

\* Mutant: the roaming switch is not looked at.
CheckRoamingState_NoRoaming(a, w) ==
    /\ a = "mms" \/ IsAllowActiveData(w)
    /\ ~w.gsmCall

\* An MMS call needs no data switch, but the roaming switch when roaming.
CheckRoamingState(a, w) ==
    /\ ~phone.roaming \/ w.cache.roam
    /\ a = "mms" \/ IsAllowActiveData(w)
    /\ ~w.gsmCall

ChecksPass(a, w) ==
    /\ ~w.saving /\ ~w.cache.airplane
    /\ CheckCellularDataSlotId(a) /\ CheckAttachAndSimState(w.abroad) /\ CheckRoamingState(a, w)

-----------------------------------------------------------------------------
(* The calls, as functions from [h |-> holder, est |-> establishEvents] to   *)
(* the same.                                                                 *)

Calls == [h |-> holder, est |-> establishEvents]

\* What a loop over the holders, in the order of their priority, makes of s.
ForEachHolder(Body(_, _), s) ==
    LET after[i \in 0 .. Len(SortApnHolder)] ==
            IF i = 0 THEN s ELSE Body(after[i - 1], SortApnHolder[i])
    IN  after[Len(SortApnHolder)]

ClearConnection(s, a, reason) ==
    IF s.h[a].state \in {"IDLE", "DISCONNECTING", "RETRYING"} THEN s
    ELSE [s EXCEPT !.h[a].state = "DISCONNECTING", !.h[a].reason = reason]

ClearAllConnections(s, reason) ==
    ForEachHolder(LAMBDA t, a : IF a = "mms" THEN t ELSE ClearConnection(t, a, reason), s)

AttemptEstablishDataConnection(s, a, w) ==
    IF ~ChecksPass(a, w) THEN s
    ELSE IF s.h[a].state = "DISCONNECTING" /\ s.est = {} THEN [s EXCEPT !.est = {a}]
    ELSE IF s.h[a].state = "IDLE" THEN [s EXCEPT !.h[a].state = "CONNECTING"] ELSE s

EstablishAllApnsIfConnectable(s, w) ==
    ForEachHolder(LAMBDA t, a : IF t.h[a].wanted THEN AttemptEstablishDataConnection(t, a, w) ELSE t, s)

SetCalls(s) == holder' = s.h /\ establishEvents' = s.est

\* GetOverallApnState is CONNECTING or CONNECTED.
OverallUp == \E a \in Holders : holder[a].state # "IDLE"

-----------------------------------------------------------------------------
(* DataSwitchSettings and the settings database.  `ok' tells whether an      *)
(* access to the database succeeds.                                          *)

Access == IF faults < MaxFaults THEN BOOLEAN ELSE {TRUE}

QueryUserDataStatus(c, ok) == [c EXCEPT !.user = IF ok THEN db.user ELSE @]

QueryUserDataRoamingStatus(c, ok) == [c EXCEPT !.roam = IF ok THEN db.roam ELSE @]

LoadSwitchValue(c, ok) == QueryUserDataRoamingStatus(QueryUserDataStatus(c, ok), ok)

Count(ok) == faults' = IF ok THEN faults ELSE faults + 1

Slip(ok, more) == slips' = slips \cup more \cup (IF ok THEN {} ELSE {"fault"})

\* PutValue notifies the observers of the row.
Notify(row) == notices' = notices \cup ({row} \cap observed)

Spend(kind) == kind \in Changes /\ changes < MaxChanges /\ changes' = changes + 1

\* SetCellularDataEnable on a caller's thread, up to the write: it queries the switch, and
\* if that is to change sets userDataOn_ before the database.
SetCellularDataEnable(v, ok) ==
    LET c == QueryUserDataStatus(cache, ok)
    IN  /\ Spend("user") /\ setter = NoSetter
        /\ Count(ok) /\ Slip(ok, {})
        /\ IF ok /\ c.user # v
           THEN /\ cache' = [c EXCEPT !.user = v]
                /\ setter' = [key |-> "user", value |-> v, old |-> c.user, stage |-> "write"]
           ELSE cache' = c /\ UNCHANGED setter
        /\ UNCHANGED <<db, notices, observed, switchVars, phone, abroad, powerVars, timers, queue,
                       callVars>>

\* Mutant: a failed write leaves userDataOn_ as it was set.
SetUserDataOn_NoRestore(ok) ==
    /\ setter.key = "user"
    /\ IF ok THEN db' = [db EXCEPT !.user = setter.value] /\ Notify("user")
       ELSE UNCHANGED <<db, notices>>
    /\ setter' = NoSetter
    /\ UNCHANGED cache

\* The write of SetUserDataOn; userDataOn_ is restored if it fails.
SetUserDataOn(ok) ==
    /\ setter.key = "user"
    /\ IF ok THEN db' = [db EXCEPT !.user = setter.value] /\ Notify("user") /\ UNCHANGED cache
       ELSE cache' = [cache EXCEPT !.user = setter.old] /\ UNCHANGED <<db, notices>>
    /\ setter' = NoSetter

\* SetCellularDataRoamingEnabled up to the write; a failed query counts as the default, off.
SetCellularDataRoamingEnabled(v, ok) ==
    LET c == QueryUserDataRoamingStatus(cache, ok)
    IN  /\ Spend("roamingSwitch") /\ setter = NoSetter
        /\ Count(ok) /\ Slip(ok, {})
        /\ cache' = c
        /\ setter' = IF v # (ok /\ db.roam) /\ phone.sim # "ABSENT"
                     THEN [key |-> "roam", value |-> v, old |-> FALSE, stage |-> "write"] ELSE setter
        /\ UNCHANGED <<db, notices, observed, switchVars, phone, abroad, powerVars, timers, queue,
                       callVars>>

\* SetUserDataRoamingOn: the write with its notification, and only then userDataRoaming_.
SetUserDataRoamingOn(ok) ==
    /\ setter.key = "roam"
    /\ \/ /\ setter.stage = "write"
          /\ IF ok THEN /\ db' = [db EXCEPT !.roam = setter.value] /\ Notify("roam")
                        /\ setter' = [setter EXCEPT !.stage = "store"]
             ELSE setter' = NoSetter /\ UNCHANGED <<db, notices>>
          /\ UNCHANGED cache
       \/ /\ setter.stage = "store" /\ ok
          /\ cache' = [cache EXCEPT !.roam = setter.value]
          /\ setter' = NoSetter
          /\ UNCHANGED <<db, notices>>

SetterContinues(ok) ==
    /\ SetUserDataOn(ok) \/ SetUserDataRoamingOn(ok)
    /\ Count(ok)
    /\ UNCHANGED <<observed, switchVars, phone, abroad, powerVars, timers, queue, callVars, changes, slips>>

\* The handler of another slot, or the settings application, writes the row.
OtherWrites(v) ==
    /\ Spend("otherUser") /\ db.user # v
    /\ db' = [db EXCEPT !.user = v] /\ Notify("user")
    /\ UNCHANGED <<setter, observed, cache, switchVars, phone, abroad, powerVars, timers, queue,
                   callVars, faults, slips>>

\* OnChange of the observers: an event for the handler, or the airplane flag itself.
OnChange(row, ok) ==
    /\ row \in notices
    /\ notices' = notices \ {row}
    /\ Count(ok) /\ Slip(ok, {})
    /\ IF ok /\ row = "airplane" THEN cache' = [cache EXCEPT !.airplane = db.airplane]
       ELSE UNCHANGED cache
    /\ queue' = IF ~ok \/ row = "airplane" THEN queue
                ELSE Append(queue, IF row = "user" THEN "ENABLE_CHANGED" ELSE "ROAMING_CHANGED")
    /\ UNCHANGED <<db, setter, observed, switchVars, phone, abroad, powerVars, timers, callVars, changes>>

-----------------------------------------------------------------------------
(* Events of the handler *)

View(c) == [cache |-> c, policy |-> policyDataOn, abroad |-> abroad, saving |-> saving,
            gsmCall |-> phone.gsmCall]

\* The handler takes an event.
Late == (IF setter = NoSetter THEN {} ELSE {"overtaken"})
            \cup (IF cache.airplane /\ ~db.airplane THEN {"airplaneLate"} ELSE {})

Crossed(e, ok) ==
    IF e = "ROAMING_OFF" /\ ok /\ db.roam /\ (\E a \in Holders : holder[a].wanted /\ holder[a].state = "IDLE")
    THEN {"crossed"} ELSE {}

Take(e, ok) ==
    /\ queue # <<>> /\ Head(queue) = e
    /\ Count(ok) /\ Slip(ok, Late \cup Crossed(e, ok))
    /\ UNCHANGED <<db, setter, phone, powerVars, policy, internalDataOn, retryEvents, changes>>

Rest == queue' = Tail(queue) /\ UNCHANGED <<notices, observed, policyDataOn>>

Establish(s, c) == SetCalls(EstablishAllApnsIfConnectable(s, View(c)))

Clear(s, reason) == SetCalls(ClearAllConnections(s, reason))

\* A query that fails leaves dataEnabled true.
HandleDBSettingEnableChanged(ok) ==
    LET c  == QueryUserDataStatus(cache, ok)
        on == (IF ok THEN db.user ELSE TRUE) /\ phone.default
    IN  /\ Take("ENABLE_CHANGED", ok) /\ Rest
        /\ cache' = c
        /\ IF on /\ policy # "disallow" THEN Establish(Calls, c)
           ELSE IF ~on /\ policy # "force_open" THEN Clear(Calls, "CLEAR") ELSE SetCalls(Calls)
        /\ UNCHANGED <<abroad, timers>>

\* This one looks at the copy.
HandleDBSettingRoamingChanged ==
    /\ Take("ROAMING_CHANGED", TRUE) /\ Rest
    /\ IF ~phone.roaming THEN SetCalls(Calls)
       ELSE IF cache.roam THEN Establish(Calls, cache) ELSE Clear(Calls, "CLEAR")
    /\ UNCHANGED <<cache, abroad, timers>>

HandleEstablishAllApnsIfConnectable ==
    /\ Take("ESTABLISH_ALL", TRUE) /\ Rest
    /\ Establish(Calls, cache)
    /\ UNCHANGED <<cache, abroad, timers>>

RadioPsConnectionAttached ==
    /\ Take("PS_ATTACHED", TRUE) /\ Rest
    /\ abroad' = FALSE
    /\ SetCalls(EstablishAllApnsIfConnectable(Calls, [View(cache) EXCEPT !.abroad = FALSE]))
    /\ UNCHANGED <<cache, timers>>

\* IsCellularDataRoamingEnabled counts a query that fails as the default, off.
RoamingStateOn(ok) ==
    LET c == QueryUserDataRoamingStatus(cache, ok)
        s == IF OverallUp /\ ~(ok /\ db.roam) THEN ClearAllConnections(Calls, "RETRY") ELSE Calls
    IN  /\ Take("ROAMING_ON", ok) /\ Rest
        /\ abroad' = FALSE
        /\ IF phone.roaming
           THEN /\ cache' = c
                /\ SetCalls(EstablishAllApnsIfConnectable(s, [View(c) EXCEPT !.abroad = FALSE]))
           ELSE SetCalls(Calls) /\ UNCHANGED cache
        /\ UNCHANGED timers

RoamingStateOff(ok) ==
    LET c == QueryUserDataRoamingStatus(cache, ok)
        s == IF OverallUp THEN ClearAllConnections(Calls, "RETRY") ELSE Calls
    IN  /\ Take("ROAMING_OFF", ok) /\ Rest
        /\ cache' = c
        /\ IF ok /\ db.roam THEN SetCalls(Calls) ELSE Establish(s, c)
        /\ UNCHANGED <<abroad, timers>>

PsRadioEmergencyStateOpen ==
    /\ Take("EMERGENCY_ON", TRUE) /\ Rest
    /\ IF OverallUp THEN Clear(Calls, "CLEAR") ELSE SetCalls(Calls)
    /\ UNCHANGED <<cache, abroad, timers>>

PsRadioEmergencyStateClose ==
    /\ Take("EMERGENCY_OFF", TRUE) /\ Rest
    /\ IF OverallUp THEN SetCalls(Calls) ELSE Establish(Calls, cache)
    /\ UNCHANGED <<cache, abroad, timers>>

HandleRadioStateChanged ==
    /\ \/ /\ Take("RADIO_OFF", TRUE)
          /\ IF OverallUp THEN Clear(Calls, "CLEAR") ELSE SetCalls(Calls)
       \/ /\ Take("RADIO_ON", TRUE)
          /\ Establish(Calls, cache)
    /\ Rest
    /\ UNCHANGED <<cache, abroad, timers>>

\* ReleaseAllNetworkRequest
ReleaseAll(s) == [s EXCEPT !.h = [a \in Holders |-> [s.h[a] EXCEPT !.wanted = FALSE]]]

\* Every SIM event reads the switches again.
HandleSimEvent(e, ok) == Take(e, ok) /\ cache' = LoadSwitchValue(cache, ok)

\* The rows with an observer once the card has an id; without one only the first is unregistered.
RegisterDataSettingObserver == {"user", "roam", "airplane"}
UnRegisterDataSettingObserver(simId) == IF simId THEN {} ELSE observed \ {"user"}

\* RADIO_SIM_STATE_CHANGE.  `simId' tells whether a removed SIM still has its id, `iccId' whether
\* the core service can give that of a ready one.
HandleSimStateChanged(ok, simId, iccId) ==
    LET c == LoadSwitchValue(cache, ok)
        s == ClearAllConnections(Calls, "CLEAR")
    IN  /\ HandleSimEvent("SIM_STATE", ok)
        /\ CASE phone.sim = "READY" /\ iccId /\ ~phone.newCard -> Establish(Calls, c)
             [] phone.sim = "LOCKED" -> SetCalls(s)
             [] phone.sim = "ABSENT" -> SetCalls(ReleaseAll(s))
             [] OTHER -> SetCalls(Calls)
        /\ observed' = IF phone.sim = "ABSENT" THEN UnRegisterDataSettingObserver(simId) ELSE observed
        /\ queue' = Tail(queue)
        /\ UNCHANGED <<notices, policyDataOn, abroad, timers>>

\* ClearConnectionsOnUpdateApns: the calls go down if the attach APN is not the last one.
ClearConnectionsOnUpdateApns(sameApn) ==
    IF sameApn THEN Calls ELSE ClearAllConnections(Calls, "CHANGE")

\* HandleSimEvent, RADIO_SIM_RECORDS_LOADED: a card whose id is known and new resets the policy;
\* without an id nothing more than the switches is read.
HandleRecordsChanged(ok, iccId, sameApn) ==
    LET c == LoadSwitchValue(cache, ok)
        fresh == iccId /\ phone.newCard
    IN  /\ queue # <<>> /\ Head(queue) = "RECORDS_LOADED"
        /\ queue' = Tail(queue)
        /\ Count(ok) /\ Slip(ok, Late)
        /\ cache' = c
        /\ policyDataOn' = (policyDataOn \/ fresh)
        /\ phone' = [phone EXCEPT !.newCard = @ /\ ~iccId]
        /\ SetCalls(IF iccId THEN EstablishAllApnsIfConnectable(ClearConnectionsOnUpdateApns(sameApn),
                                                                [View(c) EXCEPT !.policy = @ \/ fresh])
                    ELSE Calls)
        /\ UNCHANGED <<dbVars, policy, internalDataOn, abroad, powerVars, timers, retryEvents, changes>>

\* RADIO_SIM_ACCOUNT_LOADED
HandleSimAccountLoaded(ok) ==
    /\ HandleSimEvent("ACCOUNT_LOADED", ok)
    /\ observed' = RegisterDataSettingObserver
    /\ IF phone.default THEN Establish(Calls, LoadSwitchValue(cache, ok)) ELSE Clear(Calls, "CLEAR")
    /\ queue' = Tail(queue)
    /\ UNCHANGED <<notices, policyDataOn, abroad, timers>>

HandleDefaultDataSubscriptionChanged(ok) ==
    /\ Take("DEFAULT_SLOT", ok)
    /\ cache' = LoadSwitchValue(cache, ok)
    /\ IF phone.default THEN SetCalls(Calls) ELSE Clear(Calls, "CLEAR")
    /\ queue' = IF phone.default THEN Append(Tail(queue), "ESTABLISH_ALL") ELSE Tail(queue)
    /\ UNCHANGED <<notices, observed, policyDataOn, abroad, timers>>

\* The phone has left the country without the roaming switch: no attempt for a while.
HandleResidentNetworkChanged ==
    /\ Take("RESIDENT", TRUE) /\ Rest
    /\ abroad' = (abroad \/ ~cache.roam)
    /\ timers' = IF cache.roam THEN timers ELSE timers \cup {"mccDelay"}
    /\ UNCHANGED <<cache, holder, establishEvents>>

\* Data on and roaming off, written by the handler itself; a failed query ends both setters.
HandleFactoryReset(ok) ==
    LET changed == {r \in {"user", "roam"} : ok /\ db[r] # (r = "user")}
    IN  /\ queue # <<>> /\ Head(queue) = "FACTORY_RESET"
        /\ queue' = Tail(queue)
        /\ Count(ok) /\ Slip(ok, Late)
        /\ IF ok THEN /\ db' = [db EXCEPT !.user = TRUE, !.roam = FALSE]
                      /\ cache' = [cache EXCEPT !.user = TRUE, !.roam = FALSE]
           ELSE UNCHANGED <<db, cache>>
        /\ notices' = notices \cup (changed \cap observed)
        /\ UNCHANGED <<setter, observed, switchVars, phone, abroad, powerVars, timers, callVars, changes>>

\* MsgEstablishDataConnection
MsgEstablishDataConnection(a) ==
    LET s == [Calls EXCEPT !.est = @ \ {a}]
    IN  /\ a \in establishEvents
        /\ SetCalls(IF s.h[a].wanted THEN AttemptEstablishDataConnection(s, a, View(cache))
                    ELSE ClearConnection(s, a, "CLEAR"))
        /\ Slip(TRUE, Late)
        /\ UNCHANGED <<dbVars, cache, switchVars, phone, abroad, powerVars, timers, queue, retryEvents,
                       changes, faults>>

RetryToSetupDatacall(a) ==
    /\ a \in retryEvents
    /\ retryEvents' = retryEvents \ {a}
    /\ IF holder[a].state = "RETRYING"
       THEN SetCalls([h |-> [holder EXCEPT ![a].state = "IDLE"], est |-> establishEvents \cup {a}])
       ELSE SetCalls(Calls)
    /\ UNCHANGED <<dbVars, cache, switchVars, phone, abroad, powerVars, timers, queue, changes, faults, slips>>

EstablishDataConnectionComplete(a) ==
    /\ holder[a].state = "CONNECTING"
    /\ holder' = [holder EXCEPT ![a].state = "CONNECTED"]
    /\ UNCHANGED <<dbVars, cache, switchVars, phone, abroad, powerVars, timers, queue, establishEvents,
                   retryEvents, changes, faults, slips>>

\* ReplyCommonEvent with isNeedCheck: no default call is up or going down, and the timer runs.
ReplyNow(s) ==
    /\ s.h["default"].state \notin {"CONNECTED", "DISCONNECTING"}
    /\ "replyCommonEvent" \in timers

\* Mutant: a call that is to be retried leaves the holder in PROFILE_STATE_FAILED.
RetryOrClearConnection_Failed(s, a, reason) ==
    LET wanted == {i \in DOMAIN SortApnHolder : s.h[SortApnHolder[i]].wanted}
    IN  CASE s.h[a].wanted /\ reason = "CLEAR" -> EstablishAllApnsIfConnectable(s, View(cache))
          [] s.h[a].wanted /\ reason = "RETRY" -> [s EXCEPT !.h[a].state = "FAILED"]
          [] reason = "CHANGE" /\ wanted # {} /\ (\A b \in Holders : s.h[b].state = "IDLE") ->
                 [s EXCEPT !.est = @ \cup {SortApnHolder[Min(wanted)]}]
          [] OTHER -> s

\* RetryOrClearConnection, and HandleSortConnection after CHANGE.
RetryOrClearConnection(s, a, reason) ==
    LET wanted == {i \in DOMAIN SortApnHolder : s.h[SortApnHolder[i]].wanted}
    IN  CASE s.h[a].wanted /\ reason = "CLEAR" -> EstablishAllApnsIfConnectable(s, View(cache))
          [] s.h[a].wanted /\ reason = "RETRY" -> [s EXCEPT !.h[a].state = "RETRYING"]
          [] reason = "CHANGE" /\ wanted # {} /\ (\A b \in Holders : s.h[b].state = "IDLE") ->
                 [s EXCEPT !.est = @ \cup {SortApnHolder[Min(wanted)]}]
          [] OTHER -> s

DisconnectDataComplete(a) ==
    LET reason == holder[a].reason
        s == [Calls EXCEPT !.h[a].state = "IDLE", !.h[a].reason = "NONE"]
        t == RetryOrClearConnection(s, a, reason)
    IN  /\ holder[a].state = "DISCONNECTING"
        /\ SetCalls(t)
        /\ retryEvents' = IF t.h[a].state = "RETRYING" THEN retryEvents \cup {a} ELSE retryEvents
        /\ IF ReplyNow(s) THEN entering' = FALSE /\ timers' = timers \ {"replyCommonEvent"}
           ELSE UNCHANGED <<entering, timers>>
        /\ Slip(TRUE, Late \cup (IF reason = "CHANGE" /\ s.h[a].wanted /\ a \notin t.est
                                THEN {"swallowed"} ELSE {}))
        /\ UNCHANGED <<dbVars, cache, switchVars, phone, abroad, saving, lastMsg, queue, changes, faults>>

-----------------------------------------------------------------------------
(* Delayed events *)

\* Mutant: the attempts are not made up for.
HandleMccChangeDelay_Quiet ==
    /\ "mccDelay" \in timers
    /\ timers' = timers \ {"mccDelay"}
    /\ abroad' = FALSE
    /\ SetCalls(Calls)
    /\ Slip(TRUE, Late)
    /\ UNCHANGED <<dbVars, cache, switchVars, phone, powerVars, queue, retryEvents, changes, faults>>

HandleMccChangeDelay ==
    /\ "mccDelay" \in timers
    /\ timers' = timers \ {"mccDelay"}
    /\ abroad' = FALSE
    /\ SetCalls(EstablishAllApnsIfConnectable(Calls, [View(cache) EXCEPT !.abroad = FALSE]))
    /\ Slip(TRUE, Late)
    /\ UNCHANGED <<dbVars, cache, switchVars, phone, powerVars, queue, retryEvents, changes, faults>>

HandleReplyCommonEvent ==
    /\ "replyCommonEvent" \in timers
    /\ timers' = timers \ {"replyCommonEvent"}
    /\ entering' = FALSE
    /\ UNCHANGED <<dbVars, cache, switchVars, phone, abroad, saving, lastMsg, queue, callVars, changes,
                   faults, slips>>

-----------------------------------------------------------------------------
(* Calls from other threads *)

SetPolicyDataOn(v) ==
    /\ Spend("policy") /\ policyDataOn # v
    /\ policyDataOn' = v
    /\ SetCalls(IF v THEN Calls ELSE ClearAllConnections(Calls, "CLEAR"))
    /\ queue' = IF v THEN Append(queue, "ESTABLISH_ALL") ELSE queue
    /\ UNCHANGED <<dbVars, cache, policy, internalDataOn, phone, abroad, powerVars, timers, retryEvents,
                   faults, slips>>

\* The handler of a slot that sends an MMS takes the data away and gives it back.
ChangeConnectionForDsds(v) ==
    /\ Spend("internal") /\ internalDataOn # v
    /\ internalDataOn' = v
    /\ SetCalls(IF v THEN Calls ELSE ClearAllConnections(Calls, "CLEAR"))
    /\ queue' = IF v THEN Append(queue, "ESTABLISH_ALL") ELSE queue
    /\ UNCHANGED <<dbVars, cache, policy, policyDataOn, phone, abroad, powerVars, timers, retryEvents,
                   faults, slips>>

\* GetDataConnIpType: the first wanted holder with a machine decides, in the order the holders
\* were added.  A machine that is setting up or going down may have no address, or the one of
\* its last call.
IpTypes ==
    LET with == {a \in Holders : holder[a].wanted /\ holder[a].state \notin {"IDLE", "RETRYING"}}
    IN  IF with = {} THEN {FALSE}
        ELSE IF holder[FirstAdded(with)].state = "CONNECTED" THEN {TRUE} ELSE BOOLEAN

\* Mutant: the event is kept open without the timer that answers it.
OnHandleEnterStrEvent_NoTimer(hasIp) ==
    /\ saving' = TRUE
    /\ IF hasIp THEN SetCalls(ClearAllConnections(Calls, "CLEAR")) /\ entering' = TRUE
       ELSE SetCalls(Calls) /\ UNCHANGED entering
    /\ UNCHANGED timers

\* The ENTER event stays open until the calls are down, three seconds at most.
OnHandleEnterStrEvent(hasIp) ==
    /\ saving' = TRUE
    /\ IF hasIp THEN /\ SetCalls(ClearAllConnections(Calls, "CLEAR"))
                     /\ timers' = timers \cup {"replyCommonEvent"} /\ entering' = TRUE
       ELSE SetCalls(Calls) /\ UNCHANGED <<timers, entering>>

\* The event is ordered: the next one comes when this one is finished.
EnterPowerSave(hasIp) ==
    /\ Spend("powerSave") /\ ~entering /\ hasIp \in IpTypes
    /\ lastMsg' = "ENTER"
    /\ IF lastMsg = "ENTER" THEN SetCalls(Calls) /\ UNCHANGED <<saving, timers, entering>>
       ELSE OnHandleEnterStrEvent(hasIp)
    /\ Slip(TRUE, IF ~hasIp /\ holder["default"].state = "CONNECTING" THEN {"savingLate"} ELSE {})
    /\ UNCHANGED <<dbVars, cache, switchVars, phone, abroad, queue, retryEvents, faults>>

OnHandleExitStrEvent ==
    /\ Spend("powerSave") /\ lastMsg # "EXIT"
    /\ lastMsg' = "EXIT"
    /\ saving' = FALSE
    /\ SetCalls(EstablishAllApnsIfConnectable(Calls, [View(cache) EXCEPT !.saving = FALSE]))
    /\ Slip(TRUE, Late)
    /\ UNCHANGED <<dbVars, cache, switchVars, phone, abroad, entering, timers, queue, retryEvents, faults>>

\* RequestNet and ReleaseNet, with MsgRequestNetwork.  The net manager knows the supplier from
\* the time the SIM account is loaded; in power-save mode a request is refused.
RequestNetwork(a, on) ==
    /\ Spend("request") /\ "user" \in observed
    /\ on => ~saving
    /\ holder' = [holder EXCEPT ![a].wanted = on]
    /\ establishEvents' = establishEvents \cup {a}
    /\ UNCHANGED <<dbVars, cache, switchVars, phone, abroad, powerVars, timers, queue, retryEvents,
                   faults, slips>>

\* HandleCallChanged without IMS, on GSM: the end of the call lets the data back.
HandleVoiceCallChanged ==
    /\ Spend("call")
    /\ phone' = [phone EXCEPT !.gsmCall = ~@]
    /\ SetCalls(IF phone.gsmCall
                THEN EstablishAllApnsIfConnectable(Calls, [View(cache) EXCEPT !.gsmCall = FALSE])
                ELSE Calls)
    /\ Slip(TRUE, Late)
    /\ UNCHANGED <<dbVars, cache, switchVars, abroad, powerVars, timers, queue, retryEvents, faults>>

-----------------------------------------------------------------------------
(* The core service: it changes what it answers, then sends the event.       *)

PhoneChanges(kind, p, events) ==
    /\ Spend(kind)
    /\ phone' = p
    /\ queue' = queue \o events
    /\ UNCHANGED <<cache, switchVars, abroad, powerVars, timers, callVars, faults, slips>>

Attach == PhoneChanges("attach", [phone EXCEPT !.attached = TRUE], <<"PS_ATTACHED">>)
             /\ ~phone.attached /\ ~db.airplane /\ UNCHANGED dbVars

Detach == PhoneChanges("attach", [phone EXCEPT !.attached = FALSE], <<>>)
             /\ phone.attached /\ UNCHANGED dbVars

Roams == PhoneChanges("roaming", [phone EXCEPT !.roaming = ~@],
                      IF phone.roaming THEN <<"ROAMING_OFF">> ELSE <<"ROAMING_ON">>)
             /\ UNCHANGED dbVars

DefaultSlotChanges == PhoneChanges("defaultSlot", [phone EXCEPT !.default = ~@], <<"DEFAULT_SLOT">>)
                          /\ UNCHANGED dbVars

SimChanges(s) == PhoneChanges("sim", [phone EXCEPT !.sim = s], <<"SIM_STATE">>)
                     /\ phone.sim = "LOADED" /\ s \in {"LOCKED", "ABSENT"} /\ UNCHANGED dbVars

SimReady == PhoneChanges("sim", [phone EXCEPT !.sim = "READY"], <<"SIM_STATE">>)
                /\ phone.sim \in {"LOCKED", "ABSENT"} /\ UNCHANGED dbVars

\* Another card brings its own row of the roaming switch; the observer stays on the last one's.
NewCard(roam) ==
    /\ Spend("sim") /\ phone.sim = "ABSENT"
    /\ phone' = [phone EXCEPT !.sim = "READY", !.newCard = TRUE]
    /\ queue' = Append(queue, "SIM_STATE")
    /\ db' = [db EXCEPT !.roam = roam]
    /\ observed' = observed \ {"roam"}
    /\ Slip(TRUE, IF "user" \in observed THEN {"swapped"} ELSE {})
    /\ UNCHANGED <<setter, notices, cache, switchVars, abroad, powerVars, timers, callVars, faults>>

\* The records and then the account of a SIM that is ready are loaded.
SimLoads ==
    /\ phone.sim = "READY"
    /\ phone' = [phone EXCEPT !.sim = "LOADED"]
    /\ queue' = queue \o <<"RECORDS_LOADED", "ACCOUNT_LOADED">>
    /\ UNCHANGED <<dbVars, cache, switchVars, abroad, powerVars, timers, callVars, changes, faults, slips>>

\* Airplane mode: the row, and the radio goes off or on.
AirplaneChanges ==
    /\ PhoneChanges("airplane", [phone EXCEPT !.attached = FALSE],
                    IF db.airplane THEN <<"RADIO_ON">> ELSE <<"RADIO_OFF">>)
    /\ db' = [db EXCEPT !.airplane = ~@]
    /\ Notify("airplane")
    /\ UNCHANGED <<setter, observed>>

Emergency(e) == PhoneChanges("emergency", phone, <<e>>) /\ UNCHANGED dbVars

CrossesBorder == PhoneChanges("border", phone, <<"RESIDENT">>) /\ UNCHANGED dbVars

FactoryReset == PhoneChanges("factoryReset", phone, <<"FACTORY_RESET">>) /\ UNCHANGED dbVars

Environment ==
    \/ Attach \/ Detach \/ Roams \/ DefaultSlotChanges \/ AirplaneChanges \/ CrossesBorder \/ FactoryReset
    \/ \E s \in {"LOCKED", "ABSENT"} : SimChanges(s)
    \/ SimReady \/ \E roam \in BOOLEAN : NewCard(roam)
    \/ \E e \in {"EMERGENCY_ON", "EMERGENCY_OFF"} : Emergency(e)
    \/ \E v \in BOOLEAN : OtherWrites(v) \/ SetPolicyDataOn(v) \/ ChangeConnectionForDsds(v)
    \/ \E v \in BOOLEAN, ok \in Access : SetCellularDataEnable(v, ok) \/ SetCellularDataRoamingEnabled(v, ok)
    \/ \E hasIp \in BOOLEAN : EnterPowerSave(hasIp)
    \/ OnHandleExitStrEvent
    \/ \E a \in Holders, on \in BOOLEAN : RequestNetwork(a, on)
    \/ HandleVoiceCallChanged

-----------------------------------------------------------------------------
\* A slot in service with its default call up.
Init ==
    /\ db = [user |-> TRUE, roam |-> FALSE, airplane |-> FALSE]
    /\ cache = db
    /\ setter = NoSetter /\ notices = {} /\ observed = {"user", "roam", "airplane"}
    /\ policy \in Policies /\ policyDataOn = TRUE /\ internalDataOn = TRUE
    /\ phone = [attached |-> TRUE, roaming |-> FALSE, sim |-> "LOADED", newCard |-> FALSE,
                default |-> TRUE, gsmCall |-> FALSE]
    /\ abroad = FALSE
    /\ saving = FALSE /\ lastMsg = "" /\ entering = FALSE
    /\ timers = {} /\ queue = <<>>
    /\ holder = [a \in Holders |-> [state |-> IF a = "default" THEN "CONNECTED" ELSE "IDLE",
                                     wanted |-> a = "default", reason |-> "NONE"]]
    /\ establishEvents = {} /\ retryEvents = {}
    /\ changes = 0 /\ faults = 0 /\ slips = {}

HandleEvent ==
    \/ \E ok \in Access : \/ HandleDBSettingEnableChanged(ok) \/ RoamingStateOn(ok) \/ RoamingStateOff(ok)
                          \/ HandleDefaultDataSubscriptionChanged(ok) \/ HandleFactoryReset(ok)
                          \/ HandleSimAccountLoaded(ok)
                          \/ \E iccId, other \in BOOLEAN : \/ HandleRecordsChanged(ok, iccId, other)
                                                         \/ HandleSimStateChanged(ok, other, iccId)
    \/ HandleDBSettingRoamingChanged \/ HandleEstablishAllApnsIfConnectable
    \/ RadioPsConnectionAttached \/ PsRadioEmergencyStateOpen \/ PsRadioEmergencyStateClose
    \/ HandleRadioStateChanged \/ HandleResidentNetworkChanged

HandleCall(a) ==
    \/ MsgEstablishDataConnection(a) \/ RetryToSetupDatacall(a)
    \/ EstablishDataConnectionComplete(a) \/ DisconnectDataComplete(a)

Setter == \E ok \in Access : SetterContinues(ok)

Observer == \E row \in {"user", "roam", "airplane"}, ok \in Access : OnChange(row, ok)

Next ==
    \/ Environment \/ SimLoads \/ Setter \/ Observer \/ HandleEvent
    \/ \E a \in Holders : HandleCall(a)
    \/ HandleMccChangeDelay \/ HandleReplyCommonEvent

Spec == Init /\ [][Next]_vars

\* The handler's thread works off its events and its timers run out.  Nothing is assumed of
\* the callers, the observers or the phone.
FairSpec ==
    /\ Spec
    /\ WF_vars(HandleEvent)
    /\ \A a \in Holders : WF_vars(HandleCall(a))
    /\ WF_vars(HandleMccChangeDelay) /\ WF_vars(HandleReplyCommonEvent)

-----------------------------------------------------------------------------
(* Properties *)

SwitchTypeOK ==
    /\ db \in [user : BOOLEAN, roam : BOOLEAN, airplane : BOOLEAN]
    /\ cache \in [user : BOOLEAN, roam : BOOLEAN, airplane : BOOLEAN]
    /\ setter.key \in {"none", "user", "roam"} /\ setter.stage \in {"none", "write", "store"}
    /\ notices \subseteq {"user", "roam", "airplane"} /\ observed \subseteq {"user", "roam", "airplane"}
    /\ timers \subseteq {"mccDelay", "replyCommonEvent"}
    /\ Range(queue) \subseteq Events
    /\ \A a \in Holders : holder[a].state \in {"IDLE", "CONNECTING", "CONNECTED", "DISCONNECTING", "RETRYING"}
    /\ establishEvents \subseteq Holders /\ retryEvents \subseteq Holders
    /\ slips \subseteq Slips

\* Nothing is on its way to the handler and no call is changing.
Quiet ==
    /\ queue = <<>> /\ notices = {} /\ setter = NoSetter
    /\ establishEvents = {} /\ retryEvents = {}
    /\ \A a \in Holders : holder[a].state \in {"IDLE", "CONNECTED"}

\* The switches, and the state of the phone that the handler is told of, allow the default call.
SwitchesAllow ==
    /\ db.user /\ policyDataOn /\ internalDataOn
    /\ phone.roaming => db.roam
    /\ ~db.airplane /\ ~saving
    /\ phone.default /\ phone.sim \in {"READY", "LOADED"}

\* No wake-up is lost: when nothing is pending, a default call that is wanted and that the
\* switches, the attach state and the call state allow is up, whatever the order in which the
\* conditions came true (AttemptEstablishDataConnection is tried once per event and never polled).
\* Excused: a database read that failed, an event handled in the middle of a setter, an
\* airplane flag that was late, the end of roaming crossing the roaming switch, an attempt
\* swallowed by one for another type.
WantedIsUp ==
    (/\ Quiet /\ slips \subseteq {"savingLate", "swapped"} /\ policy # "disallow"
     /\ holder["default"].wanted
     /\ SwitchesAllow /\ phone.sim = "LOADED" /\ phone.attached /\ ~phone.gsmCall /\ ~abroad
     /\ observed = {"user", "roam", "airplane"})
    => holder["default"].state = "CONNECTED"

\* No call outlives its permission: when nothing is pending, a default call that is up is one
\* the switches allow.  Excused as above, and by a set-up that was under way when power-save mode
\* began or a card that was replaced unnoticed.
ForbiddenIsDown ==
    (/\ Quiet /\ slips = {} /\ policy # "force_open"
     /\ holder["default"].state = "CONNECTED")
    => SwitchesAllow

\* The copies of the data and roaming switches agree with the database once no setter runs and no
\* change is being told, even if writes failed: SetUserDataOn sets its copy before the write and
\* puts it back.
CacheFollowsDb ==
    (/\ setter = NoSetter /\ notices = {} /\ "ENABLE_CHANGED" \notin Range(queue)
     /\ slips \cap {"fault", "overtaken"} = {} /\ observed = {"user", "roam", "airplane"})
    => cache.user = db.user /\ cache.roam = db.roam

\* What is held is let go: the ENTER event of power-save mode is answered and the halt after a
\* change of country ends, though the calls that would end them may never come or go.
HoldsEnd == (entering ~> ~entering) /\ (abroad ~> ~abroad)

=============================================================================

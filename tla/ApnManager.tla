----------------------------- MODULE ApnManager -----------------------------
(***************************************************************************)
(* From the APN table to the APN a data call is set up with.               *)
(*                                                                         *)
(* CellularDataRdbHelper reads the rows of the operator, ApnManager merges *)
(* similar rows into APN items and puts the preferred one first, the       *)
(* ConnectionRetryPolicy of a holder walks through the items that fit its  *)
(* type, and CellularDataHandler writes the APN it connected with back as  *)
(* the preferred one, which the observer of the table reports to it.  The  *)
(* table may fail to answer, and the user may edit it, at any time.        *)
(*                                                                         *)
(* The machine behind a holder is reduced to its reports; it is modelled   *)
(* in CellularDataStateMachine and CellularDataHandler.                    *)
(***************************************************************************)
EXTENDS Integers, Sequences, FiniteSets, FiniteSetsExt, Functions, Lists

CONSTANTS
    SortApnHolder, \* the APN types with a holder, the highest priority first
    Tables,        \* what the APN table may hold: sequences of PDP profiles
    Works,         \* the access points that the network accepts
    Rejects,       \* the network rejects an access point for good
    MaxCount,      \* ConnectionRetryPolicy::maxCount_
    CreateRetries, \* APN_CREATE_RETRY_TIMES
    FaultSets,     \* the sets of stages at which a reading of the table may fail
    MaxEdits,      \* bound: edits of the table or of the preferred APN, and changes of roaming
    MaxFaults      \* bound: failed readings of the table and failures of accepted calls

Roles == Range(SortApnHolder)

\* Where a reading of the table can fail.
Stages == {"numeric", "prefer", "mvno", "apns"}

ASSUME ApnAssumption ==
    /\ MaxCount \in Nat \ {0} /\ CreateRetries \in Nat
    /\ FaultSets \subseteq SUBSET Stages /\ {} \in FaultSets
    /\ MaxEdits \in Nat /\ MaxFaults \in Nat /\ Rejects \in BOOLEAN
    /\ SortApnHolder \in Seq(Roles)
    /\ \A t \in Tables :
         /\ t \in Seq([id : Nat \ {0}, apn : STRING, types : SUBSET STRING, proto : STRING,
                       opt : STRING, mvno : BOOLEAN, edited : BOOLEAN])
         /\ \A i, j \in DOMAIN t : t[i].id = t[j].id => i = j

VARIABLES
    rows,          \* the APN table, for the operator of the SIM
    prefer,        \* the profile id under CELLULAR_DATA_RDB_PREFER, 0 if there is none
    apnChanged,    \* MSG_APN_CHANGED is pending
    createPending, \* MSG_RETRY_TO_CREATE_APN is pending
    createTimes,   \* retryCreateApnTimes_
    lastApn,       \* lastApnItem_, the attach APN that the connections were last checked with
    roaming,       \* GetPsRoamingState(slotId_) > 0
    h,             \* the APN items and the holders, see Empty
    retryEvents,   \* pending MSG_RETRY_TO_SETUP_DATACALL
    edits, faults, \* the budgets spent
    created        \* the last CreateApnItem found APN items (not a variable of the code)

vars == <<rows, prefer, apnChanged, createPending, createTimes, lastApn, roaming, h, retryEvents,
          edits, faults, created>>

-----------------------------------------------------------------------------
(* PDP profiles: id, the access point, its types, the protocol (home and     *)
(* roaming protocol are treated alike), `opt' for the properties that may be *)
(* empty (proxy, home URL, MMS address), whether it is for an MVNO, and      *)
(* whether the user edited it.                                               *)

NoId == -1

\* apnTypes.find("default") is a search for a substring, and case sensitive.
HasDefault(p) == p.types \cap {"default", "internal_default"} # {}

\* CanDealWithType lets the case go.
Lower(t) == IF t = "DEFAULT" THEN "default" ELSE t

CanDealWithType(p, type) ==
    \E t \in {Lower(u) : u \in p.types} :
        \/ t = type
        \/ type = "internal_default" /\ t = "default"
        \/ type # "ia" /\ t = "*"

IsSimilarProtocol(x, y) == x = y \/ (x = "IPV4V6" /\ y \in {"IP", "IPV6"})
                                 \/ (y = "IPV4V6" /\ x \in {"IP", "IPV6"})

IsSimilarProperty(x, y) == x = y \/ x = "" \/ y = ""

IsSimilarPdpProfile(new, old) ==
    /\ ~(HasDefault(new) /\ HasDefault(old))
    /\ new.apn = old.apn /\ new.mvno = old.mvno
    /\ IsSimilarProtocol(new.proto, old.proto)
    /\ IsSimilarProperty(new.opt, old.opt)

\* Mutant: the profile that is kept does not take over the types of the other.
MergePdpProfile_Drop(new, old) ==
    LET kept == IF HasDefault(old) THEN old ELSE new
        gone == IF HasDefault(old) THEN new ELSE old
    IN  [kept |-> [kept EXCEPT !.proto = IF @ = "IPV4V6" THEN @ ELSE gone.proto],
         gone |-> gone]

\* The profile with type default is the one that is kept.
MergePdpProfile(new, old) ==
    LET kept == IF HasDefault(old) THEN old ELSE new
        gone == IF HasDefault(old) THEN new ELSE old
    IN  [kept |-> [kept EXCEPT !.types = @ \cup gone.types,
                               !.proto = IF @ = "IPV4V6" THEN @ ELSE gone.proto,
                               !.opt   = IF @ = "" THEN gone.opt ELSE @],
         gone |-> gone]

\* One round of the two loops of TryMergeSimilarPdpProfile.
MergePair(m, i, j) ==
    LET new == m.vec[i]
        old == m.vec[j]
        r   == MergePdpProfile(new, old)
    IN  IF new.id = NoId \/ ~IsSimilarPdpProfile(new, old) THEN m
        ELSE [vec |-> [m.vec EXCEPT ![i] = r.kept, ![j] = [r.gone EXCEPT !.id = NoId]],
              preferId |-> IF m.preferId = r.gone.id THEN r.kept.id ELSE m.preferId]

\* The inner loop: the i-th profile with each of the later ones.
MergeLater(m, i) ==
    LET after[j \in 0 .. Len(m.vec)] ==
            IF j = 0 THEN m ELSE IF i < j THEN MergePair(after[j - 1], i, j) ELSE after[j - 1]
    IN  after[Len(m.vec)]

MergeAll(vec, preferId) ==
    LET after[i \in 0 .. Len(vec)] ==
            IF i = 0 THEN [vec |-> vec, preferId |-> preferId] ELSE MergeLater(after[i - 1], i)
    IN  after[Len(vec)]

TryMergeSimilarPdpProfile(vec, preferId) ==
    [MergeAll(vec, preferId) EXCEPT !.vec = Where(@, {p \in Range(@) : p.id # NoId})]

\* ReadApnResult: the rows of an MVNO are left out unless the user edited them.
ReadApnResult(t) == Where(t, {p \in Range(t) : ~p.mvno \/ p.edited})

\* QueryMvnoApnsByType for SPN, IMSI, GID1 and ICCID: the rows that match the SIM.
QueryMvnoApns(t) == Where(t, {p \in Range(t) : p.mvno})

-----------------------------------------------------------------------------
(* APN items and holders.  An item is an object: the holders share it, and   *)
(* it outlives its list while a holder refers to it.  `gen' tells the objects *)
(* of two lists apart.  s.items and s.preferId are allApnItem_ and preferId_, *)
(* s.bad the items that are marked bad; per holder, s.matched, s.index and    *)
(* s.tries are the retry policy's matchedApns_, currentApnIndex_ and          *)
(* tryCount_, s.cur, s.st and s.en the holder's apnItem_, apnState_ and       *)
(* dataCallEnabled_, s.est the pending MSG_ESTABLISH_DATA_CONNECTION.  s.src  *)
(* (the rows the list is made of) and s.run (how often the policy returned    *)
(* the same profile in a row) are not variables of the code.                  *)

NoItem == [gen |-> 0, p |-> [id |-> 0]]
NoRun  == [id |-> 0, n |-> 0]

Empty == [items |-> <<>>, preferId |-> 0, bad |-> {}, src |-> <<>>,
          matched |-> [r \in Roles |-> <<>>], index |-> [r \in Roles |-> 0],
          tries |-> [r \in Roles |-> 0], run |-> [r \in Roles |-> NoRun],
          cur |-> [r \in Roles |-> NoItem], st |-> [r \in Roles |-> "IDLE"],
          en |-> [r \in Roles |-> TRUE], est |-> Roles]

Held(s) == UNION {Range(s.matched[r]) \cup {s.cur[r]} : r \in Roles}

FreshGen(s) == Min({g \in 1 .. Cardinality(Held(s)) + 1 : \A i \in Held(s) : i.gen # g})

\* The mark of an object that nobody refers to any more is forgotten.
Forget(s) == [s EXCEPT !.bad = @ \cap (Held(s) \cup Range(s.items))]

PreferredFirst(items, id) ==
    Where(items, {i \in Range(items) : i.p.id = id}) \o Where(items, {i \in Range(items) : i.p.id # id})

\* MakeApn for the profiles that are left after merging.
MakeItems(s, vec, merged, g) ==
    LET MakeApn(p) == IF p.id = merged.preferId /\ p.types = {}
                      THEN [p EXCEPT !.types = {"default"}] ELSE p
    IN  [s EXCEPT !.items = PreferredFirst([k \in DOMAIN merged.vec |->
                                               [gen |-> g, p |-> MakeApn(merged.vec[k])]],
                                           merged.preferId),
                  !.preferId = merged.preferId, !.src = vec]

MakeSpecificApnItem(s, vec) ==
    MakeItems(s, vec, TryMergeSimilarPdpProfile(vec, s.preferId), FreshGen(s))

\* GetPreferId: QueryPreferApn reads the row with ReadApnResult.
GetPreferId(s) ==
    [s EXCEPT !.preferId =
        IF \E p \in Range(ReadApnResult(rows)) : p.id = prefer THEN prefer ELSE 0]

\* The rows that are for no MVNO, at the end of CreateAllApnItemByDatabase.
CreateGeneralApnItems(s, failed) ==
    IF "apns" \in failed THEN [s |-> s, count |-> 0]
    ELSE LET made == MakeSpecificApnItem(s, ReadApnResult(rows))
         IN  [s |-> made, count |-> Len(made.items)]

\* A query for the rows of the MVNO that fails leaves the list alone; one without result
\* empties it.
CreateMvnoApnItems(s, failed) ==
    IF "mvno" \in failed THEN s ELSE MakeSpecificApnItem(s, QueryMvnoApns(rows))

UnlessMvno(s, failed) ==
    IF "mvno" \notin failed /\ s.items # <<>> THEN [s |-> s, count |-> Len(s.items)]
    ELSE CreateGeneralApnItems(s, failed)

\* `failed' is the set of stages at which the table does not answer.
CreateAllApnItemByDatabase(s, failed) ==
    IF "numeric" \in failed THEN [s |-> s, count |-> 0]
    ELSE IF "prefer" \in failed THEN [s |-> [s EXCEPT !.preferId = 0], count |-> 0]
    ELSE UnlessMvno(CreateMvnoApnItems(GetPreferId(s), failed), failed)

\* CreateApnItem reads the table DEFAULT_READ_APN_TIME times if need be.
Again(first, failed) ==
    IF first.count # 0 THEN first ELSE CreateAllApnItemByDatabase(first.s, failed)

ReadTable(s, failed1, failed2) == Again(CreateAllApnItemByDatabase(s, failed1), failed2)

\* The end of CreateApnItem; `pending' tells whether MSG_RETRY_TO_CREATE_APN is pending.
ScheduleCreate(count, pending) ==
    LET again == count = 0 /\ ~pending /\ createTimes < CreateRetries
    IN  /\ createPending' = (count = 0 /\ (pending \/ again))
        /\ createTimes' = IF again THEN createTimes + 1
                          ELSE IF count = 0 /\ pending THEN createTimes ELSE 0

-----------------------------------------------------------------------------
(* ApnManager: what the list is used for *)

First(items, S) == LET good == {k \in DOMAIN items : items[k] \in S}
                   IN  IF good = {} THEN NoItem ELSE items[Min(good)]

ItemById(s, id) == First(s.items, {i \in Range(s.items) : i.p.id = id})

\* The items of the list that serve a type.
Serving(s, type) == {i \in Range(s.items) : CanDealWithType(i.p, type)}

\* FetchDunApns
FetchDunApns(s) ==
    LET preferred == ItemById(s, s.preferId)
    IN  IF roaming /\ ~(preferred # NoItem /\ preferred.p.edited) THEN <<>>
        ELSE IF preferred # NoItem /\ CanDealWithType(preferred.p, "dun") THEN <<preferred>>
        ELSE Where(s.items, Serving(s, "dun"))

\* Mutant: the items that do not serve the type are matched too.
FilterMatchedApns_All(s, r) == s.items

\* FilterMatchedApns, FetchBipApns
FilterMatchedApns(s, r) ==
    LET fit == Where(s.items, Serving(s, r))
    IN  CASE r = "dun" -> FetchDunApns(s)
          [] r = "bip" -> SubSeq(fit, 1, IF fit = <<>> THEN 0 ELSE 1)
          [] OTHER     -> fit

\* GetRilAttachApn: the first item if there is a preferred APN, else the first that
\* serves ia, else the first that serves default, else the first.
GetRilAttachApn(s) ==
    LET ia  == First(s.items, Serving(s, "ia"))
        def == First(s.items, Serving(s, "default"))
    IN  IF s.items = <<>> THEN NoItem
        ELSE IF s.preferId # 0 THEN Head(s.items)
        ELSE IF ia # NoItem THEN ia
        ELSE IF def # NoItem THEN def ELSE Head(s.items)

\* ApnHolder::IsCompatibleApnItem compares every attribute but the edited mark.
IsCompatibleApnItem(p, q) ==
    p.id # 0 /\ q.id # 0 /\ [p EXCEPT !.edited = FALSE] = [q EXCEPT !.edited = FALSE]

ClearAllApnBad(s) == [s EXCEPT !.bad = @ \ {s.cur[r] : r \in Roles}]

-----------------------------------------------------------------------------
(* ConnectionRetryPolicy *)

Ids(items) == [k \in DOMAIN items |-> items[k].p.id]

SetMatchedApns(s, r, apns) ==
    IF Ids(apns) = Ids(s.matched[r]) THEN [s EXCEPT !.matched[r] = apns]
    ELSE [s EXCEPT !.matched[r] = apns, !.index[r] = 0, !.run[r] = NoRun]

\* The first index after k, around the end, of an item that is not bad.
NextGood(s, r, k) ==
    LET good == {j \in 0 .. Len(s.matched[r]) - 1 : s.matched[r][j + 1] \notin s.bad}
        later == {j \in good : j > k}
    IN  IF later # {} THEN Min(later) ELSE Min(good)

\* Mutant: the count of tries is not compared.
NextIndex_NoLimit(s, r, k, n) ==
    IF s.matched[r][k + 1] \notin s.bad THEN [index |-> k, tries |-> n]
    ELSE [index |-> NextGood(s, r, k), tries |-> 1]

\* Mutant: the count starts again without going to the next item.
NextIndex_Stay(s, r, k, n) ==
    IF s.matched[r][k + 1] \notin s.bad
    THEN [index |-> k, tries |-> IF n <= MaxCount THEN n ELSE 1]
    ELSE [index |-> NextGood(s, r, k), tries |-> 1]

\* GetNextRetryApnItem from index k on, at the n-th try: the same item again, or the next
\* one that is not bad.  Its recursion ends there because maxCount_ is positive.
NextIndex(s, r, k, n) ==
    IF s.matched[r][k + 1] \notin s.bad /\ n <= MaxCount THEN [index |-> k, tries |-> n]
    ELSE [index |-> NextGood(s, r, k), tries |-> 1]

IsAllBadApn(s, r) == Range(s.matched[r]) \subseteq s.bad

GetNextRetryApnItem(s, r) ==
    LET out  == s.index[r] >= Len(s.matched[r])
        next == NextIndex(s, r, IF out THEN 0 ELSE s.index[r], IF out THEN 1 ELSE s.tries[r] + 1)
    IN  IF IsAllBadApn(s, r) THEN [s |-> s, item |-> NoItem]
        ELSE [s    |-> [s EXCEPT !.index[r] = next.index, !.tries[r] = next.tries],
              item |-> s.matched[r][next.index + 1]]

InitialRetryCountValue(s, r) == [s EXCEPT !.tries[r] = 0, !.run[r] = NoRun]

-----------------------------------------------------------------------------
(* CellularDataHandler *)

InUse(s, r) == s.st[r] \in {"CONNECTING", "CONNECTED", "DISCONNECTING"}

ClearAllConnections(s) ==
    [s EXCEPT !.st = [r \in Roles |-> IF r # "mms" /\ s.st[r] \in {"CONNECTING", "CONNECTED"}
                                      THEN "DISCONNECTING" ELSE s.st[r]]]

\* CheckForCompatibleDataConnection: the holders whose call serves r as well.
CompatibleHolders(s, r) ==
    LET dun == FetchDunApns(s)
    IN  {q \in Roles : /\ InUse(s, q)
                       /\ IF r = "dun" /\ dun # <<>>
                          THEN \E i \in Range(dun) : IsCompatibleApnItem(s.cur[q].p, i.p)
                          ELSE CanDealWithType(s.cur[q].p, r)}

\* Counted, up to the first that is too many, while the policy has another item to return.
CountRun(s, r, item) ==
    LET run == s.run[r]
    IN  IF \A i \in Range(s.matched[r]) : i \in s.bad \/ i.p.id = item.p.id THEN NoRun
        ELSE IF run.id # item.p.id THEN [id |-> item.p.id, n |-> 1]
        ELSE [run EXCEPT !.n = IF @ > MaxCount THEN @ ELSE @ + 1]

\* The preferred APN of the table, whatever the type of the holder; without one, what
\* the retry policy gives.
EstablishDataConnection(s, r) ==
    LET byId   == IF prefer = 0 THEN NoItem ELSE ItemById(s, prefer)
        next   == GetNextRetryApnItem(s, r)
        s1     == IF byId # NoItem THEN [s EXCEPT !.run[r] = NoRun]
                  ELSE [next.s EXCEPT !.run[r] = CountRun(s, r, next.item)]
        item   == IF byId # NoItem THEN byId ELSE next.item
        others == IF r \in {"default", "internal_default"} THEN {} ELSE CompatibleHolders(s1, r)
    IN  IF item = NoItem THEN s
        ELSE IF \E q \in others : s1.st[q] = "CONNECTED" THEN [s1 EXCEPT !.en[r] = FALSE]
        ELSE IF others # {} THEN [s1 EXCEPT !.est = @ \cup {r}]
        ELSE [s1 EXCEPT !.cur[r] = item, !.st[r] = "CONNECTING"]

\* CheckMultiApnState: an attempt of the default holder releases the calls of the holders that
\* share its APNs, and goes on without waiting for them.
CheckMultiApnState(s, r) ==
    [s EXCEPT !.st = [q \in Roles |-> IF /\ r = "default" /\ q \in {"bip", "dun"}
                                         /\ s.st[q] \in {"CONNECTING", "CONNECTED"}
                                      THEN "DISCONNECTING" ELSE s.st[q]]]

\* AttemptEstablishDataConnection with CheckApnState; the checks of SIM, attach and
\* switches are those of DataSwitch.
Attempt(s, r) ==
    LET apns == FilterMatchedApns(s, r)
    IN  IF s.st[r] = "DISCONNECTING" /\ s.est = {} THEN [s EXCEPT !.est = {r}]
        ELSE IF s.st[r] # "IDLE" \/ apns = <<>> THEN s
        ELSE EstablishDataConnection(CheckMultiApnState(SetMatchedApns(s, r, apns), r), r)

EstablishAllApnsIfConnectable(s) ==
    LET after[i \in 0 .. Len(SortApnHolder)] ==
            IF i = 0 THEN ClearAllApnBad(s)
            ELSE IF after[i - 1].en[SortApnHolder[i]] THEN Attempt(after[i - 1], SortApnHolder[i])
            ELSE after[i - 1]
    IN  after[Len(SortApnHolder)]

\* Mutant: written even if it is the preferred APN already.
UpdateApnInfo_Same(item, pending) ==
    LET write == item # NoItem /\ prefer # 0
    IN  /\ prefer' = IF write THEN item.p.id ELSE prefer
        /\ apnChanged' = (pending \/ write)

\* UpdateApnInfo: written only if the table has a preferred APN, and another one; the
\* table tells its observers of the write.  `pending': MSG_APN_CHANGED is pending already.
UpdateApnInfo(item, pending) ==
    LET write == item # NoItem /\ prefer \notin {0, item.p.id}
    IN  /\ prefer' = IF write THEN item.p.id ELSE prefer
        /\ apnChanged' = (pending \/ write)

-----------------------------------------------------------------------------
Init ==
    /\ rows \in Tables
    /\ prefer \in {0} \cup {p.id : p \in Range(rows)}
    /\ h = Empty /\ lastApn = NoItem.p
    /\ apnChanged = TRUE /\ createPending = FALSE /\ createTimes = 0 /\ created = TRUE
    /\ roaming = FALSE /\ retryEvents = {}
    /\ edits = 0 /\ faults = 0

unchangedTable == UNCHANGED <<rows, prefer, apnChanged, createPending, createTimes, lastApn, created,
                              roaming, edits>>

\* HandleApnChanged after CreateApnItem, with ClearConnectionsOnUpdateApns.
Reload(read) ==
    LET attach   == GetRilAttachApn(read.s)
        same     == IsCompatibleApnItem(lastApn, attach.p)
        s1       == ClearAllApnBad(IF same THEN read.s ELSE ClearAllConnections(read.s))
        retrying == {r \in Roles : s1.st[r] = "RETRYING"}
        s2       == [s1 EXCEPT !.st  = [r \in Roles |-> IF r \in retrying THEN "IDLE" ELSE @[r]],
                               !.tries = [r \in Roles |-> IF r \in retrying THEN 0 ELSE @[r]],
                               !.run = [r \in Roles |-> IF r \in retrying THEN NoRun ELSE @[r]],
                               !.est = Roles]
    IN  /\ h' = Forget(s2)
        /\ lastApn' = IF same \/ attach = NoItem THEN lastApn ELSE attach.p
        /\ retryEvents' = IF retrying # {} THEN {} ELSE retryEvents

\* MSG_APN_CHANGED and, if `retry', MSG_RETRY_TO_CREATE_APN.
HandleApnChanged(retry, failed1, failed2) ==
    LET read   == ReadTable(h, failed1, failed2)
        attach == GetRilAttachApn(read.s)
    IN  /\ IF retry THEN createPending ELSE apnChanged
        /\ IF failed1 \cup failed2 = {} THEN UNCHANGED faults
           ELSE faults < MaxFaults /\ faults' = faults + 1
        /\ Reload(read)
        /\ ScheduleCreate(read.count, createPending /\ ~retry)
        /\ created' = (read.count # 0)
        /\ UpdateApnInfo(attach, retry /\ apnChanged)
        /\ UNCHANGED <<rows, roaming, edits>>

\* MSG_ESTABLISH_DATA_CONNECTION
MsgEstablishDataConnection(r) ==
    /\ r \in h.est
    /\ LET s == [h EXCEPT !.est = @ \ {r}]
       IN  h' = Forget(IF s.en[r] THEN Attempt(s, r)
                       ELSE IF s.st[r] \in {"CONNECTING", "CONNECTED"}
                            THEN [s EXCEPT !.st[r] = "DISCONNECTING"] ELSE s)
    /\ UNCHANGED <<retryEvents, faults>> /\ unchangedTable

RetryToSetupDatacall(r) ==
    /\ r \in retryEvents
    /\ retryEvents' = retryEvents \ {r}
    /\ h' = IF h.st[r] = "RETRYING" THEN [h EXCEPT !.st[r] = "IDLE", !.est = @ \cup {r}] ELSE h
    /\ UNCHANGED faults /\ unchangedTable

\* A phone event after which every wanted holder is tried: attached, radio on ...
EstablishAll ==
    /\ h' = Forget(EstablishAllApnsIfConnectable(h))
    /\ UNCHANGED <<retryEvents, faults>> /\ unchangedTable

\* EstablishDataConnectionComplete
EstablishDataConnectionComplete(r) ==
    /\ h.st[r] = "CONNECTING" /\ h.cur[r].p.apn \in Works
    /\ h' = [InitialRetryCountValue(h, r) EXCEPT !.st[r] = "CONNECTED"]
    /\ IF r = "default" THEN UpdateApnInfo(h.cur[r], apnChanged) ELSE UNCHANGED <<prefer, apnChanged>>
    /\ retryEvents' = retryEvents \cup (IF r = "default" THEN Roles \cap {"internal_default"} ELSE {})
    /\ UNCHANGED <<rows, createPending, createTimes, lastApn, created, roaming, edits, faults>>

\* DisconnectDataComplete with REASON_RETRY_CONNECTION: the set-up failed or the call was lost.
CallFails(r) ==
    /\ h.st[r] \in {"CONNECTING", "CONNECTED"}
    /\ LET fault == h.cur[r].p.apn \in Works
       IN  /\ fault => faults < MaxFaults
           /\ faults' = IF fault THEN faults + 1 ELSE faults
    /\ h' = [h EXCEPT !.st[r] = IF h.en[r] THEN "RETRYING" ELSE "IDLE"]
    /\ retryEvents' = IF h.en[r] THEN retryEvents \cup {r} ELSE retryEvents
    /\ unchangedTable

\* DisconnectDataComplete with REASON_PERMANENT_REJECT.
CallRejected(r) ==
    /\ Rejects /\ h.st[r] = "CONNECTING" /\ h.cur[r].p.apn \notin Works
    /\ h' = [h EXCEPT !.st[r] = "IDLE", !.bad = IF h.en[r] THEN @ \cup {h.cur[r]} ELSE @]
    /\ UNCHANGED <<retryEvents, faults>> /\ unchangedTable

\* DisconnectDataComplete with REASON_CLEAR_CONNECTION.
CallCleared(r) ==
    /\ h.st[r] = "DISCONNECTING"
    /\ LET s == [h EXCEPT !.st[r] = "IDLE"]
       IN  h' = Forget(IF s.en[r] THEN EstablishAllApnsIfConnectable(s) ELSE s)
    /\ UNCHANGED <<retryEvents, faults>> /\ unchangedTable

\* MsgRequestNetwork: a request for the type of a holder.
RequestNetwork(r) ==
    /\ ~h.en[r]
    /\ h' = [h EXCEPT !.en[r] = TRUE, !.est = @ \cup {r}]
    /\ UNCHANGED <<retryEvents, faults>> /\ unchangedTable

\* CellularDataRdbObserver::OnChange after the user edited the table, SetPreferApn or
\* ResetApns.
EditTable(t, id) ==
    /\ edits < MaxEdits /\ edits' = edits + 1
    /\ <<t, id>> # <<rows, prefer>>
    /\ rows' = t /\ prefer' = id /\ apnChanged' = TRUE
    /\ UNCHANGED <<createPending, createTimes, lastApn, created, roaming, h, retryEvents, faults>>

RoamingChanges ==
    /\ edits < MaxEdits /\ edits' = edits + 1
    /\ "dun" \in Roles /\ roaming' = ~roaming
    /\ UNCHANGED <<rows, prefer, apnChanged, createPending, createTimes, lastApn, created, h,
                   retryEvents, faults>>

Own(r) == MsgEstablishDataConnection(r) \/ RetryToSetupDatacall(r)

Answer(r) == EstablishDataConnectionComplete(r) \/ CallFails(r) \/ CallRejected(r) \/ CallCleared(r)

Next ==
    \/ \E retry \in BOOLEAN, f1, f2 \in FaultSets : HandleApnChanged(retry, f1, f2)
    \/ \E r \in Roles : Own(r) \/ Answer(r) \/ RequestNetwork(r)
    \/ EstablishAll
    \/ \E t \in Tables : \E id \in {0} \cup {p.id : p \in Range(t)} : EditTable(t, id)
    \/ RoamingChanges

Spec == Init /\ [][Next]_vars

\* The handler's thread takes every event, and a machine reports on every call.  Weak
\* fairness with the enabling conditions written out: ENABLED would compute the APN list
\* over and over.
FairSpec ==
    /\ Spec
    /\ []<>~apnChanged \/ []<><<HandleApnChanged(FALSE, {}, {})>>_vars
    /\ []<>~createPending \/ []<><<HandleApnChanged(TRUE, {}, {})>>_vars
    /\ \A r \in Roles :
         /\ []<>(r \notin h.est) \/ []<><<MsgEstablishDataConnection(r)>>_vars
         /\ []<>(r \notin retryEvents) \/ []<><<RetryToSetupDatacall(r)>>_vars
         /\ []<>(h.st[r] \notin {"CONNECTING", "DISCONNECTING"}) \/ []<><<Answer(r)>>_vars

-----------------------------------------------------------------------------
Profiles == UNION {Range(t) : t \in Tables}
States   == {"IDLE", "CONNECTING", "CONNECTED", "DISCONNECTING", "RETRYING"}

(* The retry policy's index and count stay within its list and maxCount_, the  *)
(* retries of a creation within APN_CREATE_RETRY_TIMES.                         *)
TypeOK ==
    /\ rows \in Tables /\ prefer \in {0} \cup {p.id : p \in Profiles}
    /\ {apnChanged, createPending, roaming, created} \subseteq BOOLEAN
    /\ createTimes \in 0 .. CreateRetries
    /\ edits \in 0 .. MaxEdits /\ faults \in 0 .. MaxFaults
    /\ retryEvents \subseteq Roles /\ h.est \subseteq Roles
    /\ \A r \in Roles :
         /\ h.st[r] \in States /\ h.en[r] \in BOOLEAN
         /\ h.tries[r] \in 0 .. MaxCount
         /\ h.index[r] < Len(h.matched[r]) \/ h.index[r] = 0

(* TryMergeSimilarPdpProfile loses nothing: the profile ids of the APN items    *)
(* are distinct ids of the table, and a type that some row serves is served by  *)
(* an item of the same access point.                                            *)
ListMatchesTable ==
    /\ \A i, j \in DOMAIN h.items : h.items[i].p.id = h.items[j].p.id => i = j
    /\ \A i \in Range(h.items) : \E p \in Range(h.src) : p.id = i.p.id /\ p.apn = i.p.apn
    /\ \A p \in Range(h.src) : \A type \in p.types :
         \E i \in Range(h.items) : i.p.apn = p.apn /\ CanDealWithType(i.p, Lower(type))

(* GetNextRetryApnItem: while another APN that is not bad fits the holder, the  *)
(* policy returns no APN more than maxCount_ times in a row.                     *)
RotationIsFair == \A r \in Roles : h.run[r].n <= MaxCount

(* A call is set up with an APN that fits the holder's type and is not marked    *)
(* bad, or with the preferred APN of the table.                                  *)
ChosenFits ==
    [][\A r \in Roles :
         h.st[r] # "CONNECTING" /\ h'.st[r] = "CONNECTING" =>
             \/ CanDealWithType(h'.cur[r].p, r) /\ h'.cur[r] \notin h'.bad
             \/ h'.cur[r].p.id = prefer']_vars

(* "coalesce similar APNs to prevent bringing up two data calls with same        *)
(* interface": no two items of the list are similar.                             *)
NoSimilarItems ==
    \A i, j \in DOMAIN h.items : i < j => ~IsSimilarPdpProfile(h.items[i].p, h.items[j].p)

(* UpdateApnInfo writes the APN in use to the table, and the table tells the      *)
(* handler, which reads it, clears connections and may write again: after the     *)
(* user's last edit that comes to rest.                                           *)
PreferSettles == <>[]~apnChanged

\* The table prefers no APN, or one that the network accepts.
PreferWorks == prefer = 0 \/ \E p \in Range(rows) : p.id = prefer /\ p.apn \in Works

(* If the network accepts an APN of the default holder, the holder connects for   *)
(* good, however many of its other APNs fail: unless the table prefers an APN     *)
(* that the network does not accept, which is tried for ever, or APNs are marked   *)
(* bad time and again, each of which ends the holder's retries.                    *)
DefaultConnects == <>[](PreferWorks /\ h.bad = {}) => <>[](h.st["default"] = "CONNECTED")
=============================================================================

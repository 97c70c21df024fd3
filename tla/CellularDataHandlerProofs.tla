---------------------- MODULE CellularDataHandlerProofs ----------------------
(***************************************************************************)
(* Every call has one owner: proofs about CellularDataHandler, for any     *)
(* APN types, machines, requests and disturbances, any radio and any modem.*)
(*                                                                         *)
(* What the handler believes (holders, machines) and what the machines do  *)
(* meet in three places: a CONNECT in an inbox, a machine that is not      *)
(* Inactive, a DISCONNECTED in an outbox.  The invariant says that each    *)
(* machine with a holder is in exactly one of them, for the APN of that    *)
(* holder, and that a machine without a holder is in none.                 *)
(*                                                                         *)
(* A handler is a function from handler state to handler state, so the     *)
(* invariant is a predicate on handler states, and each function is shown  *)
(* to keep it.                                                             *)
(*                                                                         *)
(* The last part is about context ids, with a modem that may give them out *)
(* as it likes.  The manager's map has one machine per id, and the handler *)
(* takes machines out by ids it remembers: LinkInv says that the map and   *)
(* the physical link are those of the calls, but for those displaced.      *)
(***************************************************************************)
EXTENDS CellularDataHandler, CellularDataStateMachineProofs, ListProofs

\* What the handler and the manager send to a machine.
Sent == {e \in Event : e.code \in {"CONNECT", "DISCONNECT", "LOST", "HOST_DIED"}}

HandlerStates ==
    [st : [Apns -> ApnStates], sm : [Apns -> Machines \cup {NoMachine}], en : [Apns -> BOOLEAN],
     est : SUBSET Apns, box : [Machines -> Seq(Sent)], mk : Seq(Machines)]

HasConnect(b) == \E i \in 1 .. Len(b) : b[i].code = "CONNECT"

OneConnect(b, a) ==
    /\ HasConnect(b)
    /\ \A i \in 1 .. Len(b) : b[i].code = "CONNECT" =>
          b[i].apn = a /\ \A j \in 1 .. Len(b) : b[j].code = "CONNECT" => i = j

\* The three ways in which machine m works for the holder a, and the one in which it
\* works for nobody, if b is its inbox and o its outbox.
Asked(m, a, b, o) == curState[m] = "Inactive" /\ OneConnect(b, a) /\ o = <<>>

Running(m, a, b, o) ==
    /\ curState[m] # "Inactive" /\ apnId[m] = a /\ ~HasConnect(b)
    /\ curState[m] = "Activating" => o = <<>>
    /\ \A i \in 1 .. Len(o) : o[i].apn = a /\ o[i].kind # "DISCONNECTED"

Ended(m, a, b, o) ==
    /\ curState[m] = "Inactive" /\ ~HasConnect(b) /\ o # <<>>
    /\ \A i \in 1 .. Len(o) : o[i].apn = a /\ (o[i].kind = "DISCONNECTED" <=> i = Len(o))

WorksFor(m, a, b, o) == Asked(m, a, b, o) \/ Running(m, a, b, o) \/ Ended(m, a, b, o)

Free(m, b, o) == curState[m] = "Inactive" /\ ~HasConnect(b) /\ o = <<>>

\* In handler state s, with the outboxes o: who owns what ...
Owned(s) ==
    /\ \A a \in Apns : s.sm[a] = NoMachine <=> s.st[a] \in {"IDLE", "RETRYING"}
    /\ \A a \in Apns : s.sm[a] # NoMachine => \E i \in 1 .. Len(s.mk) : s.mk[i] = s.sm[a]
    /\ \A a, b \in Apns : s.sm[a] = s.sm[b] /\ s.sm[a] # NoMachine => a = b

\* ... and who works for whom.
Working(s, o) ==
    \A m \in Machines :
        /\ (\A a \in Apns : s.sm[a] # m) => Free(m, s.box[m], o[m])
        /\ \A a \in Apns : s.sm[a] = m => WorksFor(m, a, s.box[m], o[m])

AtMostOne(s) ==
    SingleConnection => \A a, b \in Apns : s.sm[a] # NoMachine /\ s.sm[b] # NoMachine => a = b

\* Whoever waits to retry is among the holders with a retry event.
Scheduled(s, retry) == \A a \in Apns : s.st[a] = "RETRYING" => a \in retry

\* Whoever is connected has the machine it was connected with: no function connects.
Upheld(s, up) == \A a \in Apns : s.st[a] = "CONNECTED" => s.sm[a] = up[a]

UpNow == [a \in Apns |-> IF apnState[a] = "CONNECTED" THEN stateMachine[a] ELSE NoMachine]

Good(s, retry, o, up) ==
    /\ s \in HandlerStates /\ Owned(s) /\ Working(s, o)
    /\ AtMostOne(s) /\ Scheduled(s, retry) /\ Upheld(s, up)

\* A machine gets a CONNECT from its inbox only.
Quiet(m) ==
    /\ ~HasConnect(immediate[m]) /\ ~HasConnect(deferEvents[m])
    /\ \A x \in queue[m] : x.code # "CONNECT"

RestTypeOK ==
    /\ retryEvents \subseteq Apns /\ physicalActive \in BOOLEAN
    /\ currentState \in [Machines -> States]
    /\ modemContexts \subseteq Cids /\ listChanged \subseteq Cids

HandlerInv ==
    Good(HandlerState, retryEvents, outbox, UpNow) /\ (\A m \in Machines : Quiet(m)) /\ RestTypeOK

-----------------------------------------------------------------------------
(* The functions of the handler, one by one, keep Good. *)

LEMMA SentSeq == ASSUME NEW b \in Seq(Sent) PROVE b \in Seq(Event)
<1>1. Sent \subseteq Event BY DEF Sent
<1> QED BY <1>1

\* An event that is no CONNECT changes nothing for whom a machine works ...
LEMMA AppendOther ==
    ASSUME NEW b \in Seq(Event), NEW e \in Event, e.code # "CONNECT"
    PROVE  /\ HasConnect(Append(b, e)) <=> HasConnect(b)
           /\ \A a : OneConnect(b, a) => OneConnect(Append(b, e), a)
<1> DEFINE t == Append(b, e)
<1>1. /\ Len(b) \in Nat /\ Len(t) = Len(b) + 1 /\ t[Len(b) + 1] = e
      /\ \A i \in 1 .. Len(b) : t[i] = b[i]
    OBVIOUS
<1> HIDE DEF t
<1>2. \A i \in 1 .. Len(t) : t[i].code = "CONNECT" => i \in 1 .. Len(b) /\ t[i] = b[i]
    BY <1>1
<1>3. \A i \in 1 .. Len(b) : i \in 1 .. Len(t) BY <1>1
<1>4. HasConnect(t) <=> HasConnect(b) BY <1>1, <1>2, <1>3 DEF HasConnect
<1>5. \A a : OneConnect(b, a) => OneConnect(t, a) BY <1>2, <1>4 DEF OneConnect
<1> QED BY <1>4, <1>5 DEF t

\* ... and a CONNECT makes a free one work.
LEMMA AppendConnect ==
    ASSUME NEW b \in Seq(Sent), ~HasConnect(b), NEW a \in Apns
    PROVE  Append(b, ConnectEvent(a)) \in Seq(Sent) /\ OneConnect(Append(b, ConnectEvent(a)), a)
<1> DEFINE e == ConnectEvent(a)
           t == Append(b, e)
<1>1. e \in Sent /\ e.code = "CONNECT" /\ e.apn = a
    BY DEF ConnectEvent, Blank, Sent, Event, Codes, Results, Reasons, PdpErrors
<1> HIDE DEF e
<1>2. /\ t \in Seq(Sent) /\ Len(b) \in Nat /\ Len(t) = Len(b) + 1 /\ t[Len(b) + 1] = e
      /\ \A i \in 1 .. Len(b) : t[i] = b[i]
    BY <1>1
<1> HIDE DEF t
<1>3. \A i \in 1 .. Len(t) : t[i].code = "CONNECT" => i = Len(b) + 1
    BY <1>2 DEF HasConnect
<1>4. Len(b) + 1 \in 1 .. Len(t) BY <1>2
<1>5. HasConnect(t) BY <1>1, <1>2, <1>4 DEF HasConnect
<1>6. OneConnect(t, a) BY <1>1, <1>2, <1>3, <1>5 DEF OneConnect
<1> QED BY <1>2, <1>6 DEF t, e

LEMMA AppendKeepsWork ==
    ASSUME NEW m, NEW o, NEW b \in Seq(Sent), NEW e \in Sent, e.code # "CONNECT"
    PROVE  /\ Append(b, e) \in Seq(Sent)
           /\ Free(m, b, o) => Free(m, Append(b, e), o)
           /\ \A a : WorksFor(m, a, b, o) => WorksFor(m, a, Append(b, e), o)
<1>1. Append(b, e) \in Seq(Sent) OBVIOUS
<1>2. b \in Seq(Event) /\ e \in Event BY SentSeq DEF Sent
<1>3. /\ HasConnect(Append(b, e)) <=> HasConnect(b)
      /\ \A a : OneConnect(b, a) => OneConnect(Append(b, e), a)
    BY <1>2, AppendOther
<1> QED BY <1>1, <1>3 DEF Free, WorksFor, Asked, Running, Ended

LEMMA SendDisconnectGood ==
    ASSUME NEW retry, NEW o, NEW up, NEW s, Good(s, retry, o, up), NEW a \in Apns, s.sm[a] # NoMachine,
           NEW reason \in DisConnectionReasons
    PROVE  Good(SendDisconnect(s, a, reason), retry, o, up)
<1> DEFINE t == SendDisconnect(s, a, reason)
           m == s.sm[a]
           e == DisconnectEvent(reason)
<1>1. m \in Machines /\ s.box[m] \in Seq(Sent) BY DEF Good, HandlerStates
<1>2. e \in Sent /\ e.code # "CONNECT"
    BY DEF DisconnectEvent, Blank, Sent, Event, Codes, Results, Reasons
<1>3. /\ t.st = [s.st EXCEPT ![a] = "DISCONNECTING"] /\ t.sm = s.sm /\ t.en = s.en
      /\ t.est = s.est /\ t.mk = s.mk /\ t.box = [s.box EXCEPT ![m] = Append(s.box[m], e)]
    BY DEF SendDisconnect, Good, HandlerStates
<1>4. t \in HandlerStates
    <2>1. t.st \in [Apns -> ApnStates] BY <1>3 DEF Good, HandlerStates, ApnStates
    <2>2. t.box \in [Machines -> Seq(Sent)]
        <3>1. Append(s.box[m], e) \in Seq(Sent) BY <1>1, <1>2
        <3> HIDE DEF m, e
        <3> QED BY <1>3, <3>1 DEF Good, HandlerStates
    <2> QED BY <2>1, <2>2 DEF SendDisconnect, Good, HandlerStates
<1>5. Owned(t)
    <2>1. \A b \in Apns : t.st[b] = IF b = a THEN "DISCONNECTING" ELSE s.st[b]
        BY <1>3 DEF Good, HandlerStates
    <2> QED BY <1>3, <2>1 DEF Good, Owned
<1>6. Working(t, o)
    <2> HIDE DEF e
    <2>1. \A k \in Machines : t.box[k] = IF k = m THEN Append(s.box[m], e) ELSE s.box[k]
        BY <1>3 DEF Good, HandlerStates
    <2>2. /\ Free(m, s.box[m], o[m]) => Free(m, Append(s.box[m], e), o[m])
          /\ \A b : WorksFor(m, b, s.box[m], o[m]) => WorksFor(m, b, Append(s.box[m], e), o[m])
        BY <1>1, <1>2, AppendKeepsWork
    <2> HIDE DEF t, m
    <2> QED BY <1>3, <2>1, <2>2 DEF Good, Working
<1>7. AtMostOne(t) BY <1>3 DEF Good, AtMostOne
<1>8. Scheduled(t, retry) /\ Upheld(t, up) BY <1>3 DEF Good, Scheduled, Upheld, HandlerStates
<1> QED BY <1>4, <1>5, <1>6, <1>7, <1>8 DEF Good

LEMMA ClearConnectionGood ==
    ASSUME NEW retry, NEW o, NEW up, NEW s, Good(s, retry, o, up), NEW a \in Apns, NEW reason \in DisConnectionReasons
    PROVE  Good(ClearConnection(s, a, reason), retry, o, up)
BY SendDisconnectGood DEF ClearConnection

LEMMA ReleaseDataConnectionGood ==
    ASSUME NEW retry, NEW o, NEW up, NEW s, Good(s, retry, o, up), NEW a \in Apns
    PROVE  Good(ReleaseDataConnection(s, a), retry, o, up)
BY SendDisconnectGood DEF ReleaseDataConnection, DisConnectionReasons

\* The holders are walked in the order of SortApnHolder, which has all of them.
LEMMA HoldersFinite ==
    /\ Len(SortApnHolder) \in Nat
    /\ \A i \in 1 .. Len(SortApnHolder) : SortApnHolder[i] \in Apns
BY HandlerAssumption

LEMMA ClearAllConnectionsGood ==
    ASSUME NEW retry, NEW o, NEW up, NEW s, Good(s, retry, o, up), NEW reason \in DisConnectionReasons
    PROVE  Good(ClearAllConnections(s, reason), retry, o, up)
<1> DEFINE n == Len(SortApnHolder)
           D == {t \in HandlerStates : Good(t, retry, o, up)}
           Body(t, a) == IF a \in MmsRoles THEN t ELSE ClearConnection(t, a, reason)
           step == [x \in D \X (1 .. n) |-> Body(x[1], SortApnHolder[x[2]])]
<1>1. \A t \in D, i \in 1 .. n : Body(t, SortApnHolder[i]) \in D
    BY HoldersFinite, ClearConnectionGood DEF Good
<1>2. s \in D /\ n \in Nat BY HoldersFinite DEF Good
<1> HIDE DEF D, n, Body
<1>3. IsStep(step, D, n) BY <1>1 DEF IsStep
<1>4. PICK f : IsRun(f, D, n, s, step)
    <2> HIDE DEF step
    <2> QED BY <1>2, <1>3, LoopRuns
<1>5. \A i \in 1 .. n : f[i] = Body(f[i - 1], SortApnHolder[i])
    <2> SUFFICES ASSUME NEW i \in 1 .. n PROVE f[i] = Body(f[i - 1], SortApnHolder[i])
        OBVIOUS
    <2>1. f[i - 1] \in D BY <1>2, <1>4 DEF IsRun
    <2> QED BY <1>4, <2>1 DEF IsRun
<1> DEFINE Def(g) == [i \in 0 .. n |-> IF i = 0 THEN s ELSE Body(g[i - 1], SortApnHolder[i])]
           after == CHOOSE g : g = Def(g)
<1>6. f = Def(f) BY <1>2, <1>4, <1>5 DEF IsRun
<1>7. after = Def(after) BY <1>6
<1>8. after[n] \in D
    <2> HIDE DEF after
    <2>1. after[0] = s /\ \A i \in 1 .. n : after[i] = Body(after[i - 1], SortApnHolder[i])
        BY <1>2, <1>7
    <2>2. \A i \in 1 .. n : after[i - 1] \in D => after[i] \in D BY <1>1, <2>1 DEF Body, n
    <2> QED BY <1>2, <2>1, <2>2, LoopStays
<1>9. ClearAllConnections(s, reason) = after[n]
    BY DEF ClearAllConnections, ForEachHolder, n, Body
<1> QED BY <1>8, <1>9 DEF D

LEMMA CheckMultiApnStateGood ==
    ASSUME NEW retry, NEW o, NEW up, NEW s, Good(s, retry, o, up), NEW a \in Apns, s.st[a] = "IDLE"
    PROVE  Good(CheckMultiApnState(s, a), retry, o, up) /\ CheckMultiApnState(s, a).st[a] = "IDLE"
<1> DEFINE n == Len(SortApnHolder)
           D == {t \in HandlerStates : Good(t, retry, o, up) /\ t.st[a] = "IDLE"}
           Body(t, b) == IF b \in MultiDefaultRoles /\ t.st[b] \in {"CONNECTED", "CONNECTING"}
                         THEN ReleaseDataConnection(t, b) ELSE t
           step == [x \in D \X (1 .. n) |-> Body(x[1], SortApnHolder[x[2]])]
<1>1. \A t \in D, i \in 1 .. n : Body(t, SortApnHolder[i]) \in D
    <2> SUFFICES ASSUME NEW t \in D, NEW i \in 1 .. n PROVE Body(t, SortApnHolder[i]) \in D
        OBVIOUS
    <2> DEFINE b == SortApnHolder[i]
               u == ReleaseDataConnection(t, b)
    <2>1. b \in Apns /\ Good(t, retry, o, up) /\ t.st[a] = "IDLE" BY HoldersFinite
    <2>2. CASE b \in MultiDefaultRoles /\ t.st[b] \in {"CONNECTED", "CONNECTING"}
        <3>1. Good(u, retry, o, up) BY <2>1, ReleaseDataConnectionGood
        <3>2. b # a BY <2>1, <2>2
        <3>3. u.st[a] = "IDLE"
            BY <2>1, <3>2 DEF ReleaseDataConnection, SendDisconnect, Good, HandlerStates
        <3> HIDE DEF u, b
        <3> QED BY <2>2, <3>1, <3>3 DEF Good, u, b
    <2> QED BY <2>2
<1>2. s \in D /\ n \in Nat BY HoldersFinite DEF Good
<1> HIDE DEF D, n, Body
<1>3. IsStep(step, D, n) BY <1>1 DEF IsStep
<1>4. PICK f : IsRun(f, D, n, s, step)
    <2> HIDE DEF step
    <2> QED BY <1>2, <1>3, LoopRuns
<1>5. \A i \in 1 .. n : f[i] = Body(f[i - 1], SortApnHolder[i])
    <2> SUFFICES ASSUME NEW i \in 1 .. n PROVE f[i] = Body(f[i - 1], SortApnHolder[i])
        OBVIOUS
    <2>1. f[i - 1] \in D BY <1>2, <1>4 DEF IsRun
    <2> QED BY <1>4, <2>1 DEF IsRun
<1> DEFINE Def(g) == [i \in 0 .. n |-> IF i = 0 THEN s ELSE Body(g[i - 1], SortApnHolder[i])]
           after == CHOOSE g : g = Def(g)
<1>6. f = Def(f) BY <1>2, <1>4, <1>5 DEF IsRun
<1>7. after = Def(after) BY <1>6
<1>8. after[n] \in D
    <2> HIDE DEF after
    <2>1. after[0] = s /\ \A i \in 1 .. n : after[i] = Body(after[i - 1], SortApnHolder[i])
        BY <1>2, <1>7
    <2>2. \A i \in 1 .. n : after[i - 1] \in D => after[i] \in D BY <1>1, <2>1 DEF Body, n
    <2> QED BY <1>2, <2>1, <2>2, LoopStays
<1>9. CheckMultiApnState(s, a) = IF a # "default" THEN s ELSE after[n]
    BY DEF CheckMultiApnState, ForEachHolder, n, Body
<1> QED BY <1>8, <1>9 DEF D

\* The machine that the handler finds idle is one that works for nobody.
LEMMA IdleIsUnused ==
    ASSUME NEW retry, NEW o, NEW up, NEW s, Good(s, retry, o, up)
    PROVE  LET m == FindIdleCellularDataConnection(s)
           IN  m # NoMachine => /\ m \in Machines /\ \A b \in Apns : s.sm[b] # m
                                /\ \E i \in 1 .. Len(s.mk) : s.mk[i] = m
<1> DEFINE idle == {i \in DOMAIN s.mk : /\ currentState[s.mk[i]] = "Inactive"
                                        /\ IsDataConnectionNotUsed(s, s.mk[i])}
<1>1. s.mk \in Seq(Machines) /\ DOMAIN s.mk = 1 .. Len(s.mk) /\ Len(s.mk) \in Nat
    BY DEF Good, HandlerStates
<1>2. idle \in SUBSET Nat BY <1>1
<1>3. ASSUME idle # {} PROVE Min(idle) \in idle
    <2> HIDE DEF idle
    <2> QED BY <1>2, <1>3, MinIsLeast
<1>4. \A i \in idle : /\ s.mk[i] \in Machines /\ \A b \in Apns : s.sm[b] # s.mk[i]
                      /\ i \in 1 .. Len(s.mk)
    BY <1>1 DEF IsDataConnectionNotUsed
<1> HIDE DEF idle
<1>5. FindIdleCellularDataConnection(s) = IF idle = {} THEN NoMachine ELSE s.mk[Min(idle)]
    BY DEF FindIdleCellularDataConnection, idle
<1> QED BY <1>3, <1>4, <1>5

LEMMA ConnectGood ==
    ASSUME NEW retry, NEW o, NEW up, NEW s, Good(s, retry, o, up), NEW a \in Apns, s.st[a] = "IDLE",
           SingleConnection => \A b \in Apns : s.sm[b] = NoMachine
    PROVE  Good(Connect(s, a), retry, o, up)
<1> DEFINE idle == FindIdleCellularDataConnection(s)
           new == Machines \ Range(s.mk)
           m == IF idle # NoMachine THEN idle ELSE CHOOSE k \in new : TRUE
           t == [s EXCEPT !.st[a] = "CONNECTING", !.sm[a] = m,
                          !.box[m] = Append(@, ConnectEvent(a)),
                          !.mk = IF idle # NoMachine THEN @ ELSE Append(@, m)]
<1>1. CASE idle = NoMachine /\ new = {} BY <1>1 DEF Connect
<1>2. CASE ~(idle = NoMachine /\ new = {})
    <2>1. Connect(s, a) = t BY <1>2 DEF Connect
    <2>2. \A b \in Apns : s.sm[b] # NoMachine => s.sm[b] \in Range(s.mk)
        BY DEF Good, Owned, HandlerStates, Range
    <2>3. m \in Machines /\ \A b \in Apns : s.sm[b] # m
        <3>1. CASE idle # NoMachine
            <4> HIDE DEF idle
            <4> QED BY <3>1, IdleIsUnused DEF idle
        <3>2. CASE idle = NoMachine
            <4>1. m \in new BY <1>2, <3>2
            <4> QED BY <2>2, <4>1, ConstantsAssumption
        <3> QED BY <3>1, <3>2
    <2>4. /\ s.mk \in Seq(Machines) /\ t.mk \in Seq(Machines) /\ \E i \in 1 .. Len(t.mk) : t.mk[i] = m
          /\ \A i \in 1 .. Len(s.mk) : i \in 1 .. Len(t.mk) /\ t.mk[i] = s.mk[i]
        <3>1. s.mk \in Seq(Machines) BY DEF Good, HandlerStates
        <3>2. t.mk = IF idle # NoMachine THEN s.mk ELSE Append(s.mk, m)
            BY DEF Good, HandlerStates
        <3>3. CASE idle # NoMachine
            <4>1. t.mk = s.mk /\ m = idle BY <3>2, <3>3
            <4>2. \E i \in 1 .. Len(s.mk) : s.mk[i] = idle BY <3>3, IdleIsUnused
            <4> HIDE DEF t, m
            <4> QED BY <3>1, <4>1, <4>2
        <3>4. CASE idle = NoMachine
            <4>1. t.mk = Append(s.mk, m) BY <3>2, <3>4
            <4> HIDE DEF t, m
            <4>2. /\ Append(s.mk, m) \in Seq(Machines) /\ Len(s.mk) \in Nat
                  /\ Len(Append(s.mk, m)) = Len(s.mk) + 1 /\ Append(s.mk, m)[Len(s.mk) + 1] = m
                  /\ \A i \in 1 .. Len(s.mk) : Append(s.mk, m)[i] = s.mk[i]
                BY <2>3, <3>1
            <4>3. \A i \in 1 .. Len(s.mk) : i \in 1 .. Len(s.mk) + 1 BY <4>2
            <4>4. Len(s.mk) + 1 \in 1 .. Len(s.mk) + 1 BY <4>2
            <4> QED BY <3>1, <4>1, <4>2, <4>3, <4>4
        <3> QED BY <3>3, <3>4
    <2>5. /\ s.box[m] \in Seq(Sent) /\ ~HasConnect(s.box[m])
          /\ curState[m] = "Inactive" /\ o[m] = <<>>
        BY <2>3 DEF Good, Working, Free, HandlerStates
    <2>6. /\ Append(s.box[m], ConnectEvent(a)) \in Seq(Sent)
          /\ OneConnect(Append(s.box[m], ConnectEvent(a)), a)
        BY <2>5, AppendConnect
    <2>7. WorksFor(m, a, Append(s.box[m], ConnectEvent(a)), o[m])
        BY <2>5, <2>6 DEF WorksFor, Asked
    <2> HIDE DEF m
    <2>8. /\ \A b \in Apns : t.st[b] = IF b = a THEN "CONNECTING" ELSE s.st[b]
          /\ \A b \in Apns : t.sm[b] = IF b = a THEN m ELSE s.sm[b]
          /\ \A k \in Machines : t.box[k] = IF k = m THEN Append(s.box[m], ConnectEvent(a)) ELSE s.box[k]
        BY DEF Good, HandlerStates
    <2>9. t \in HandlerStates
        <3>1. t.st \in [Apns -> ApnStates] BY DEF Good, HandlerStates, ApnStates
        <3>2. t.sm \in [Apns -> Machines \cup {NoMachine}] BY <2>3 DEF Good, HandlerStates
        <3>3. t.box \in [Machines -> Seq(Sent)]
            <4> DEFINE q == Append(s.box[m], ConnectEvent(a))
            <4>1. q \in Seq(Sent) /\ t.box = [s.box EXCEPT ![m] = q]
                BY <2>6 DEF Good, HandlerStates
            <4> HIDE DEF q, t
            <4> QED BY <4>1 DEF Good, HandlerStates
        <3>4. t \in [st : [Apns -> ApnStates], sm : [Apns -> Machines \cup {NoMachine}],
                    en : [Apns -> BOOLEAN], est : SUBSET Apns, box : [Machines -> Seq(Sent)],
                    mk : Seq(Machines)]
            BY <2>4, <3>1, <3>2, <3>3 DEF Good, HandlerStates
        <3> QED BY <3>4 DEF HandlerStates
    <2> HIDE DEF t
    <2>10. m # NoMachine BY <2>3, ConstantsAssumption
    <2>11. s.sm[a] = NoMachine BY DEF Good, Owned
    <2>12. Owned(t)
        <3>1. \A b \in Apns : t.sm[b] = NoMachine <=> t.st[b] \in {"IDLE", "RETRYING"}
            BY <2>8, <2>10 DEF Good, Owned
        <3>2. \A b \in Apns : t.sm[b] # NoMachine => \E i \in 1 .. Len(t.mk) : t.mk[i] = t.sm[b]
            BY <2>4, <2>8 DEF Good, Owned
        <3>3. \A b, c \in Apns : t.sm[b] = t.sm[c] /\ t.sm[b] # NoMachine => b = c
            BY <2>3, <2>8 DEF Good, Owned
        <3> QED BY <3>1, <3>2, <3>3 DEF Owned
    <2>13. Working(t, o)
        <3> SUFFICES ASSUME NEW k \in Machines
                     PROVE  /\ (\A b \in Apns : t.sm[b] # k) => Free(k, t.box[k], o[k])
                            /\ \A b \in Apns : t.sm[b] = k => WorksFor(k, b, t.box[k], o[k])
            BY DEF Working
        <3>1. CASE k = m BY <2>3, <2>7, <2>8, <3>1
        <3>2. CASE k # m BY <2>8, <2>10, <2>11, <3>2, ConstantsAssumption DEF Good, Working
        <3> QED BY <3>1, <3>2
    <2>14. AtMostOne(t) BY <2>8 DEF AtMostOne
    <2>15. Scheduled(t, retry) /\ Upheld(t, up) BY <2>8 DEF Good, Scheduled, Upheld
    <2> QED BY <2>1, <2>9, <2>12, <2>13, <2>14, <2>15 DEF Good
<1> QED BY <1>1, <1>2

\* dataCallEnabled and establishEvents have no part in it.
LEMMA EventsGood ==
    ASSUME NEW retry, NEW o, NEW up, NEW s, Good(s, retry, o, up), NEW u \in HandlerStates,
           u.st = s.st, u.sm = s.sm, u.box = s.box, u.mk = s.mk
    PROVE  Good(u, retry, o, up)
BY DEF Good, Owned, Working, AtMostOne, Scheduled, Upheld

LEMMA EstablishDataConnectionGood ==
    ASSUME NEW retry, NEW o, NEW up, NEW s, Good(s, retry, o, up), NEW a \in Apns, s.st[a] = "IDLE"
    PROVE  Good(EstablishDataConnection(s, a), retry, o, up)
<1>1. Good([s EXCEPT !.en[a] = FALSE], retry, o, up)
    <2> DEFINE u == [s EXCEPT !.en[a] = FALSE]
    <2>1. /\ u \in HandlerStates
          /\ u.st = s.st /\ u.sm = s.sm /\ u.box = s.box /\ u.mk = s.mk
        BY DEF Good, HandlerStates
    <2> HIDE DEF u
    <2>2. Good(u, retry, o, up) BY <2>1, EventsGood
    <2> QED BY <2>2 DEF u
<1>2. Good([s EXCEPT !.est = @ \cup {a}], retry, o, up)
    <2> DEFINE u == [s EXCEPT !.est = @ \cup {a}]
    <2>1. /\ u \in HandlerStates
          /\ u.st = s.st /\ u.sm = s.sm /\ u.box = s.box /\ u.mk = s.mk
        BY DEF Good, HandlerStates
    <2> HIDE DEF u
    <2>2. Good(u, retry, o, up) BY <2>1, EventsGood
    <2> QED BY <2>2 DEF u
<1>3. Good(ClearAllConnections(s, "CHANGE"), retry, o, up)
    BY ClearAllConnectionsGood DEF DisConnectionReasons
<1>4. ASSUME ~(SingleConnection /\ GetOverallApnState(s) \in {"CONNECTING", "CONNECTED"})
      PROVE  Good(Connect(s, a), retry, o, up)
    <2>1. ASSUME SingleConnection, NEW b \in Apns PROVE s.sm[b] = NoMachine
        <3>1. s.st[b] \notin {"CONNECTED", "DISCONNECTING", "CONNECTING", "RETRYING"}
            BY <1>4, <2>1 DEF GetOverallApnState, HasAnyConnectedState
        <3>2. s.st[b] \in ApnStates BY DEF Good, HandlerStates
        <3>3. s.st[b] = "IDLE" BY <3>1, <3>2 DEF ApnStates
        <3> QED BY <3>3 DEF Good, Owned
    <2> QED BY <2>1, ConnectGood
<1> QED BY <1>1, <1>2, <1>3, <1>4 DEF EstablishDataConnection

LEMMA AttemptGood ==
    ASSUME NEW retry, NEW o, NEW up, NEW s, Good(s, retry, o, up), NEW a \in Apns, NEW outcome
    PROVE  Good(Attempt(s, a, outcome), retry, o, up)
<1>1. Good([s EXCEPT !.est = {a}], retry, o, up)
    <2> DEFINE u == [s EXCEPT !.est = {a}]
    <2>1. /\ u \in HandlerStates
          /\ u.st = s.st /\ u.sm = s.sm /\ u.box = s.box /\ u.mk = s.mk
        BY DEF Good, HandlerStates
    <2> HIDE DEF u
    <2>2. Good(u, retry, o, up) BY <2>1, EventsGood
    <2> QED BY <2>2 DEF u
<1>2. ASSUME s.st[a] = "IDLE"
      PROVE  LET t == CheckMultiApnState(s, a)
             IN  Good(IF outcome = "noApn" THEN t ELSE EstablishDataConnection(t, a), retry, o, up)
    BY <1>2, CheckMultiApnStateGood, EstablishDataConnectionGood
<1> QED BY <1>1, <1>2 DEF Attempt

LEMMA EstablishAllApnsIfConnectableGood ==
    ASSUME NEW retry, NEW o, NEW up, NEW s, Good(s, retry, o, up), NEW allow
    PROVE  Good(EstablishAllApnsIfConnectable(s, allow), retry, o, up)
<1> DEFINE n == Len(SortApnHolder)
           D == {t \in HandlerStates : Good(t, retry, o, up)}
           Freed(t, a) == IF t.st[a] = "RETRYING" THEN ReleaseDataConnection(t, a) ELSE t
           Body(t, a) == IF ~t.en[a] THEN t ELSE Attempt(Freed(t, a), a, allow[a])
           step == [x \in D \X (1 .. n) |-> Body(x[1], SortApnHolder[x[2]])]
<1>1. \A t \in D, i \in 1 .. n : Body(t, SortApnHolder[i]) \in D
    <2> SUFFICES ASSUME NEW t \in D, NEW i \in 1 .. n PROVE Good(Body(t, SortApnHolder[i]), retry, o, up)
        BY DEF Good
    <2> DEFINE a == SortApnHolder[i]
    <2>1. a \in Apns /\ Good(t, retry, o, up) BY HoldersFinite
    <2> HIDE DEF a
    <2>2. Good(Freed(t, a), retry, o, up) BY <2>1, ReleaseDataConnectionGood
    <2> HIDE DEF Freed
    <2>3. Good(Attempt(Freed(t, a), a, allow[a]), retry, o, up) BY <2>1, <2>2, AttemptGood
    <2> QED BY <2>1, <2>3 DEF a
<1>2. s \in D /\ n \in Nat BY HoldersFinite DEF Good
<1> HIDE DEF D, n, Body
<1>3. IsStep(step, D, n) BY <1>1 DEF IsStep
<1>4. PICK f : IsRun(f, D, n, s, step)
    <2> HIDE DEF step
    <2> QED BY <1>2, <1>3, LoopRuns
<1>5. \A i \in 1 .. n : f[i] = Body(f[i - 1], SortApnHolder[i])
    <2> SUFFICES ASSUME NEW i \in 1 .. n PROVE f[i] = Body(f[i - 1], SortApnHolder[i])
        OBVIOUS
    <2>1. f[i - 1] \in D BY <1>2, <1>4 DEF IsRun
    <2> QED BY <1>4, <2>1 DEF IsRun
<1> DEFINE Def(g) == [i \in 0 .. n |-> IF i = 0 THEN s ELSE Body(g[i - 1], SortApnHolder[i])]
           after == CHOOSE g : g = Def(g)
<1>6. f = Def(f) BY <1>2, <1>4, <1>5 DEF IsRun
<1>7. after = Def(after) BY <1>6
<1>8. after[n] \in D
    <2> HIDE DEF after
    <2>1. after[0] = s /\ \A i \in 1 .. n : after[i] = Body(after[i - 1], SortApnHolder[i])
        BY <1>2, <1>7
    <2>2. \A i \in 1 .. n : after[i - 1] \in D => after[i] \in D BY <1>1, <2>1 DEF Body, n
    <2> QED BY <1>2, <2>1, <2>2, LoopStays
<1>9. EstablishAllApnsIfConnectable(s, allow) = after[n]
    BY DEF EstablishAllApnsIfConnectable, ForEachHolder, n, Body
<1> QED BY <1>8, <1>9 DEF D

LEMMA HandleSortConnectionGood ==
    ASSUME NEW retry, NEW o, NEW up, NEW s, Good(s, retry, o, up)
    PROVE  Good(HandleSortConnection(s), retry, o, up)
<1> DEFINE wanted == {i \in DOMAIN SortApnHolder : s.en[SortApnHolder[i]]}
           u == [s EXCEPT !.est = @ \cup {SortApnHolder[Min(wanted)]}]
<1>1. CASE wanted # {}
    <2>1. DOMAIN SortApnHolder = 1 .. Len(SortApnHolder) BY HandlerAssumption
    <2>2. wanted \in SUBSET Nat BY <2>1, HoldersFinite
    <2>3. Min(wanted) \in wanted
        <3> HIDE DEF wanted
        <3> QED BY <1>1, <2>2, MinIsLeast
    <2>4. SortApnHolder[Min(wanted)] \in Apns BY <2>1, <2>3, HoldersFinite
    <2> HIDE DEF wanted
    <2>5. /\ u \in HandlerStates
          /\ u.st = s.st /\ u.sm = s.sm /\ u.box = s.box /\ u.mk = s.mk
        BY <2>4 DEF Good, HandlerStates
    <2> HIDE DEF u
    <2>6. Good(u, retry, o, up) BY <2>5, EventsGood
    <2> QED BY <1>1, <2>6 DEF HandleSortConnection, u, wanted
<1> QED BY <1>1 DEF HandleSortConnection

-----------------------------------------------------------------------------
(* What a machine does keeps it working for whom it works. *)

\* The inbox of a machine without its first event, which is no CONNECT ...
LEMMA TailOther ==
    ASSUME NEW b \in Seq(Event), b # <<>>
    PROVE  /\ Head(b) \in Event /\ Tail(b) \in Seq(Event)
           /\ HasConnect(Tail(b)) => HasConnect(b)
           /\ Head(b).code = "CONNECT" => HasConnect(b)
           /\ \A a : OneConnect(b, a) /\ Head(b).code # "CONNECT" => OneConnect(Tail(b), a)
           /\ \A a : OneConnect(b, a) /\ Head(b).code = "CONNECT"
                       => Head(b).apn = a /\ ~HasConnect(Tail(b))
<1> DEFINE t == Tail(b)
           e == Head(b)
<1>1. /\ e \in Event /\ t \in Seq(Event) /\ Len(b) \in Nat /\ Len(b) >= 1 /\ b[1] = e
      /\ Len(t) = Len(b) - 1 /\ \A i \in 1 .. Len(t) : t[i] = b[i + 1]
    BY HeadTailProperties
<1> HIDE DEF t, e
<1>2. \A i \in 1 .. Len(t) : i + 1 \in 1 .. Len(b) /\ i + 1 # 1 BY <1>1
<1>3. \A i \in 1 .. Len(b) : i # 1 => i - 1 \in 1 .. Len(t) /\ t[i - 1] = b[i]
    BY <1>1
<1>4. 1 \in 1 .. Len(b) BY <1>1
<1>5. HasConnect(t) => HasConnect(b) BY <1>1, <1>2 DEF HasConnect
<1>6. e.code = "CONNECT" => HasConnect(b) BY <1>1, <1>4 DEF HasConnect
<1>7. ASSUME NEW a, OneConnect(b, a), e.code # "CONNECT" PROVE OneConnect(t, a)
    <2>1. HasConnect(t) BY <1>1, <1>3, <1>7 DEF HasConnect, OneConnect
    <2>2. \A i \in 1 .. Len(t) : t[i].code = "CONNECT" => t[i].apn = a
        BY <1>1, <1>2, <1>7 DEF OneConnect
    <2>3. \A i, j \in 1 .. Len(t) : t[i].code = "CONNECT" /\ t[j].code = "CONNECT" => i = j
        <3> SUFFICES ASSUME NEW i \in 1 .. Len(t), NEW j \in 1 .. Len(t),
                            t[i].code = "CONNECT", t[j].code = "CONNECT"
                     PROVE  i = j
            OBVIOUS
        <3>1. i + 1 = j + 1 BY <1>1, <1>2, <1>7 DEF OneConnect
        <3> QED BY <3>1, <1>1
    <2> QED BY <2>1, <2>2, <2>3 DEF OneConnect
<1>8. ASSUME NEW a, OneConnect(b, a), e.code = "CONNECT" PROVE e.apn = a /\ ~HasConnect(t)
    BY <1>1, <1>2, <1>4, <1>8 DEF HasConnect, OneConnect
<1> QED BY <1>1, <1>5, <1>6, <1>7, <1>8 DEF t, e

\* ... leaves it in the same way at work.
LEMMA TailKeepsWork ==
    ASSUME NEW m, NEW o, NEW b \in Seq(Event), b # <<>>, Head(b).code # "CONNECT"
    PROVE  /\ Free(m, b, o) => Free(m, Tail(b), o)
           /\ \A a : WorksFor(m, a, b, o) => WorksFor(m, a, Tail(b), o)
BY TailOther DEF Free, WorksFor, Asked, Running, Ended

\* A report of the machine goes to the end of its outbox.
LEMMA AppendReport ==
    ASSUME NEW m \in Machines, TypeOK, NEW r,
           outbox' = [outbox EXCEPT ![m] = Append(@, r)]
    PROVE  /\ outbox'[m] # <<>> /\ Len(outbox[m]) \in Nat
           /\ Len(outbox'[m]) = Len(outbox[m]) + 1 /\ outbox'[m][Len(outbox'[m])] = r
           /\ \A i \in 1 .. Len(outbox[m]) : outbox'[m][i] = outbox[m][i]
<1>1. outbox[m] \in Seq(Report) /\ outbox'[m] = Append(outbox[m], r) BY DEF TypeOK
<1> DEFINE o == outbox[m]
<1>2. /\ o \in Seq(Report) /\ Len(o) \in Nat
      /\ Len(Append(o, r)) = Len(o) + 1 /\ Append(o, r)[Len(o) + 1] = r
      /\ \A i \in 1 .. Len(o) : Append(o, r)[i] = o[i]
    BY <1>1
<1>3. Append(o, r) # <<>> BY <1>2
<1> QED BY <1>1, <1>2, <1>3

LEMMA OutcomeWork ==
    ASSUME TypeOK, NEW m \in Machines, NEW e, NEW rest, Outcome(m, e, rest), e.code # "CONNECT",
           NEW b
    PROVE  /\ Free(m, b, outbox[m]) => Free(m, b, outbox[m])'
           /\ \A a : WorksFor(m, a, b, outbox[m]) => WorksFor(m, a, b, outbox[m])'
<1>1. CASE Waits(m, e, rest)
    BY <1>1 DEF Waits, Free, WorksFor, Asked, Running, Ended
<1>2. CASE Connects(m, e, rest) \/ Closes(m, e, rest)
    <2>1. /\ curState[m] # "Inactive" /\ curState'[m] \notin {"Inactive", "Activating"}
          /\ UNCHANGED <<apnId, outbox>>
        BY <1>2 DEF Connects, Closes, Moves, TypeOK
    <2> QED BY <2>1 DEF Free, WorksFor, Asked, Running, Ended
<1>3. CASE Establishes(m, e, rest)
    <2>1. curState[m] = "Active" /\ UNCHANGED <<curState, apnId>> BY <1>3 DEF Establishes
    <2>2. /\ Len(outbox[m]) \in Nat /\ Len(outbox'[m]) = Len(outbox[m]) + 1
          /\ outbox'[m][Len(outbox'[m])] = Established(m, e)
          /\ \A i \in 1 .. Len(outbox[m]) : outbox'[m][i] = outbox[m][i]
        BY <1>3, AppendReport DEF Establishes
    <2>3. Established(m, e).kind = "ESTABLISHED" /\ Established(m, e).apn = apnId[m]
        BY DEF Established
    <2>4. ASSUME NEW a, Running(m, a, b, outbox[m]) PROVE Running(m, a, b, outbox[m])'
        <3>1. \A i \in 1 .. Len(outbox'[m]) : i \in 1 .. Len(outbox[m]) \/ i = Len(outbox'[m])
            BY <2>2
        <3>2. \A i \in 1 .. Len(outbox'[m]) : /\ outbox'[m][i].apn = a
                                              /\ outbox'[m][i].kind # "DISCONNECTED"
            BY <2>2, <2>3, <2>4, <3>1 DEF Running
        <3> QED BY <2>1, <2>4, <3>2 DEF Running
    <2> QED BY <2>1, <2>4 DEF Free, WorksFor, Asked, Ended
<1>4. CASE Ends(m, e, rest)
    <2>1. curState[m] # "Inactive" /\ curState'[m] = "Inactive" /\ UNCHANGED apnId
        BY <1>4 DEF Ends, Moves, TypeOK
    <2>2. PICK c, reason : outbox' = [outbox EXCEPT ![m] = Append(@, Disconnected(m, c, reason))]
        BY <1>4 DEF Ends
    <2>3. /\ Len(outbox[m]) \in Nat /\ Len(outbox'[m]) = Len(outbox[m]) + 1 /\ outbox'[m] # <<>>
          /\ outbox'[m][Len(outbox'[m])] = Disconnected(m, c, reason)
          /\ \A i \in 1 .. Len(outbox[m]) : outbox'[m][i] = outbox[m][i]
        BY <2>2, AppendReport
    <2>4. /\ Disconnected(m, c, reason).kind = "DISCONNECTED"
          /\ Disconnected(m, c, reason).apn = apnId[m]
        BY DEF Disconnected
    <2>5. ASSUME NEW a, Running(m, a, b, outbox[m]) PROVE Ended(m, a, b, outbox[m])'
        <3>1. \A i \in 1 .. Len(outbox'[m]) :
                 (i \in 1 .. Len(outbox[m]) /\ i # Len(outbox'[m])) \/ i = Len(outbox'[m])
            BY <2>3
        <3>2. \A i \in 1 .. Len(outbox'[m]) :
                 /\ outbox'[m][i].apn = a
                 /\ outbox'[m][i].kind = "DISCONNECTED" <=> i = Len(outbox'[m])
            BY <2>3, <2>4, <2>5, <3>1 DEF Running
        <3> QED BY <2>1, <2>3, <2>5, <3>2 DEF Running, Ended
    <2> QED BY <2>1, <2>5 DEF Free, WorksFor, Asked, Ended
<1>5. ~Opens(m, e, rest) BY DEF Opens
<1> QED BY <1>1, <1>2, <1>3, <1>4, <1>5 DEF Outcome

\* A CONNECT that an Inactive machine takes opens a cycle for its APN.
LEMMA OutcomeOpens ==
    ASSUME TypeOK, NEW m \in Machines, NEW e, NEW rest, Outcome(m, e, rest), e.code = "CONNECT",
           curState[m] = "Inactive", outbox[m] = <<>>, NEW b, ~HasConnect(b), NEW a, a = e.apn
    PROVE  Running(m, a, b, outbox[m])'
<1>1. Opens(m, e, rest)
    BY DEF Outcome, Waits, Connects, Establishes, Closes, Ends
<1>2. curState'[m] = "Activating" /\ apnId'[m] = e.apn /\ outbox' = outbox
    BY <1>1 DEF Opens, Moves, TypeOK
<1> QED BY <1>2 DEF Running

\* What a machine defers and re-sends to itself has no CONNECT.
LEMMA QuietSeqs ==
    /\ ~HasConnect(<<>>)
    /\ \A s, u \in Seq(Event) : ~HasConnect(s) /\ ~HasConnect(u) => ~HasConnect(s \o u)
    /\ \A s \in Seq(Event), e \in Event :
          ~HasConnect(s) /\ e.code # "CONNECT" => ~HasConnect(Append(s, e))
<1>1. ~HasConnect(<<>>) BY DEF HasConnect
<1>2. ASSUME NEW s \in Seq(Event), NEW u \in Seq(Event), ~HasConnect(s), ~HasConnect(u)
      PROVE  ~HasConnect(s \o u)
    <2>1. /\ Len(s) \in Nat /\ Len(u) \in Nat /\ Len(s \o u) = Len(s) + Len(u)
          /\ \A i \in 1 .. Len(s) + Len(u) :
                (s \o u)[i] = IF i <= Len(s) THEN s[i] ELSE u[i - Len(s)]
        BY ConcatProperties
    <2>2. \A i \in 1 .. Len(s) + Len(u) : i \in 1 .. Len(s) \/ i - Len(s) \in 1 .. Len(u)
        BY <2>1
    <2>3. \A i \in 1 .. Len(s) + Len(u) : (s \o u)[i].code # "CONNECT"
        <3> SUFFICES ASSUME NEW i \in 1 .. Len(s) + Len(u) PROVE (s \o u)[i].code # "CONNECT"
            OBVIOUS
        <3>1. CASE i <= Len(s)
            <4>1. i \in 1 .. Len(s) /\ (s \o u)[i] = s[i] BY <2>1, <3>1
            <4> QED BY <1>2, <4>1 DEF HasConnect
        <3>2. CASE ~(i <= Len(s))
            <4>1. i - Len(s) \in 1 .. Len(u) /\ (s \o u)[i] = u[i - Len(s)] BY <2>1, <3>2
            <4> QED BY <1>2, <4>1 DEF HasConnect
        <3> QED BY <3>1, <3>2
    <2> QED BY <2>1, <2>3 DEF HasConnect
<1>3. ASSUME NEW s \in Seq(Event), NEW e \in Event, ~HasConnect(s), e.code # "CONNECT"
      PROVE  ~HasConnect(Append(s, e))
    BY <1>3, AppendOther
<1> QED BY <1>1, <1>2, <1>3

LEMMA OutcomeQuiet ==
    ASSUME TypeOK, NEW m \in Machines, Quiet(m), NEW e \in Event, NEW rest \in Rests,
           Outcome(m, e, rest), ~HasConnect(rest.imm), \A x \in rest.queue : x.code # "CONNECT",
           e.code = "CONNECT" => curState[m] = "Inactive"
    PROVE  Quiet(m)'
<1>a. /\ deferEvents[m] \in Seq(Event) /\ rest.imm \in Seq(Event)
      /\ ~HasConnect(deferEvents[m])
    BY DEF TypeOK, Rests, Quiet
<1>1. \A x \in queue'[m] : x.code # "CONNECT"
    <2>1. Takes(m, rest)
        BY DEF Outcome, Waits, Opens, Connects, Establishes, Closes, Ends, Moves
    <2>2. \A x \in queue'[m] : x.code = "CONNECT" => x \in rest.queue BY <2>1 DEF Takes, TypeOK
    <2> QED BY <2>2
<1>2. ASSUME NEW dest, NEW d \in Seq(Event), ~HasConnect(d), Moves(m, dest, d, rest)
      PROVE  ~HasConnect(immediate'[m]) /\ ~HasConnect(deferEvents'[m])
    <2>1. immediate'[m] = rest.imm \o d /\ deferEvents'[m] = <<>> BY <1>2 DEF Moves, TypeOK
    <2> QED BY <1>a, <1>2, <2>1, QuietSeqs
<1>3. CASE Waits(m, e, rest)
    <2>1. immediate'[m] = rest.imm BY <1>3 DEF Waits, TypeOK
    <2>2. CASE UNCHANGED deferEvents BY <1>a, <1>1, <2>1, <2>2 DEF Quiet
    <2>3. CASE /\ e.code \in {"CONNECT", "DISCONNECT"}
               /\ deferEvents' = [deferEvents EXCEPT ![m] = Append(@, e)]
        <3>1. e.code # "CONNECT" BY <1>3 DEF Waits
        <3>2. deferEvents'[m] = Append(deferEvents[m], e) BY <2>3 DEF TypeOK
        <3> QED BY <1>a, <1>1, <2>1, <3>1, <3>2, QuietSeqs DEF Quiet
    <2> QED BY <1>3, <2>2, <2>3 DEF Waits
<1>4. CASE Opens(m, e, rest) \/ Closes(m, e, rest) \/ Ends(m, e, rest)
    <2>1. \E dest : Moves(m, dest, deferEvents[m], rest) BY <1>4 DEF Opens, Closes, Ends
    <2> QED BY <1>a, <1>1, <1>2, <2>1 DEF Quiet
<1>5. CASE Connects(m, e, rest)
    <2>1. Moves(m, "Active", Append(deferEvents[m], e), rest) /\ e.code # "CONNECT"
        BY <1>5 DEF Connects
    <2>2. Append(deferEvents[m], e) \in Seq(Event) /\ ~HasConnect(Append(deferEvents[m], e))
        BY <1>a, <2>1, QuietSeqs
    <2> QED BY <1>1, <1>2, <2>1, <2>2 DEF Quiet
<1>6. CASE Establishes(m, e, rest)
    <2>1. immediate'[m] = rest.imm /\ deferEvents' = deferEvents BY <1>6 DEF Establishes, TypeOK
    <2> QED BY <1>a, <1>1, <2>1 DEF Quiet
<1> QED BY <1>3, <1>4, <1>5, <1>6 DEF Outcome

-----------------------------------------------------------------------------
(* Each action keeps the invariant. *)

\* In a step of machine m it is enough to look at that machine.
LEMMA OneWorks ==
    ASSUME Good(HandlerState, retryEvents, outbox, UpNow), NEW m \in Machines,
           UNCHANGED <<apnState, stateMachine, dataCallEnabled, establishEvents, retryEvents, machines>>,
           inbox' \in [Machines -> Seq(Sent)],
           \A k \in Machines \ {m} : /\ curState'[k] = curState[k] /\ apnId'[k] = apnId[k]
                                     /\ outbox'[k] = outbox[k] /\ inbox'[k] = inbox[k],
           Free(m, inbox[m], outbox[m]) => Free(m, inbox[m], outbox[m])',
           \A a \in Apns : WorksFor(m, a, inbox[m], outbox[m]) => WorksFor(m, a, inbox[m], outbox[m])'
    PROVE  Good(HandlerState, retryEvents, outbox, UpNow)'
<1> DEFINE s == HandlerState
<1>1. /\ s.st = apnState /\ s.sm = stateMachine /\ s.en = dataCallEnabled
      /\ s.est = establishEvents /\ s.box = inbox /\ s.mk = machines
      /\ s'.st = apnState' /\ s'.sm = stateMachine' /\ s'.en = dataCallEnabled'
      /\ s'.est = establishEvents' /\ s'.box = inbox' /\ s'.mk = machines'
    BY DEF HandlerState
<1>2. s' \in HandlerStates BY <1>1 DEF Good, HandlerStates, HandlerState
<1> HIDE DEF s
<1>3. Owned(s)' BY <1>1 DEF Good, Owned, s
<1>4. \A k \in Machines :
         /\ (\A a \in Apns : s'.sm[a] # k) => Free(k, inbox[k], outbox[k])'
         /\ \A a \in Apns : s'.sm[a] = k => WorksFor(k, a, inbox[k], outbox[k])'
    <2> SUFFICES ASSUME NEW k \in Machines
                 PROVE  /\ (\A a \in Apns : s'.sm[a] # k) => Free(k, inbox[k], outbox[k])'
                        /\ \A a \in Apns : s'.sm[a] = k => WorksFor(k, a, inbox[k], outbox[k])'
        OBVIOUS
    <2>1. /\ (\A a \in Apns : s'.sm[a] # k) => Free(k, inbox[k], outbox[k])
          /\ \A a \in Apns : s'.sm[a] = k => WorksFor(k, a, inbox[k], outbox[k])
        BY <1>1 DEF Good, Working, s
    <2>2. CASE k = m BY <2>1, <2>2
    <2>3. CASE k # m BY <2>1, <2>3 DEF Free, WorksFor, Asked, Running, Ended
    <2> QED BY <2>2, <2>3
<1>5. Working(s, outbox)' BY <1>1, <1>4 DEF Working
<1>6. AtMostOne(s)' BY <1>1 DEF Good, AtMostOne, s
<1>7. Scheduled(s, retryEvents)' BY <1>1 DEF Good, Scheduled, s
<1>8. Upheld(s, UpNow)' BY <1>1 DEF Upheld, UpNow
<1> QED BY <1>2, <1>3, <1>5, <1>6, <1>7, <1>8 DEF Good, s

\* No holder has become connected, and none that is has another machine.
KeepsCalls(up) ==
    \A a \in Apns : apnState'[a] = "CONNECTED" => stateMachine'[a] = up[a] /\ up[a] # NoMachine

\* A step of another thread in which the machines stand still.
LEMMA HandlerGood ==
    ASSUME NEW s, NEW retry, NEW o, NEW up, Good(s, retry, o, up), SetHandlerState(s),
           retryEvents' = retry, outbox' = o, UNCHANGED <<curState, apnId>>
    PROVE  Good(HandlerState, retryEvents, outbox, UpNow)' /\ KeepsCalls(up)
<1>1. HandlerState' = s
    BY DEF Good, HandlerStates, SetHandlerState, HandlerState
<1>2. s.st = apnState' /\ s.sm = stateMachine' BY DEF SetHandlerState
<1>3. Upheld(HandlerState, UpNow)' BY DEF Upheld, UpNow, HandlerState
<1>4. (/\ HandlerState \in HandlerStates /\ Owned(HandlerState) /\ Working(HandlerState, outbox)
       /\ AtMostOne(HandlerState) /\ Scheduled(HandlerState, retryEvents))'
    BY <1>1 DEF Good, Owned, Working, AtMostOne, Scheduled, Free, WorksFor, Asked, Running, Ended
<1>5. KeepsCalls(up) BY <1>2 DEF Good, Owned, Upheld, KeepsCalls
<1> QED BY <1>3, <1>4, <1>5 DEF Good

\* ... or only get an event that is no CONNECT.
LEMMA InboxGood ==
    ASSUME Good(HandlerState, retryEvents, outbox, UpNow), NEW e \in Sent, e.code # "CONNECT",
           NEW L,
           inbox' = [m \in Machines |-> IF m \in L THEN Append(inbox[m], e) ELSE inbox[m]],
           UNCHANGED <<apnState, stateMachine, dataCallEnabled, establishEvents, retryEvents,
                       machines, curState, apnId, outbox>>
    PROVE  Good(HandlerState, retryEvents, outbox, UpNow)' /\ KeepsCalls(UpNow)
<1> DEFINE s == HandlerState
           t == [st |-> s.st, sm |-> s.sm, en |-> s.en, est |-> s.est, box |-> inbox', mk |-> s.mk]
<1>1. /\ s.st = apnState /\ s.sm = stateMachine /\ s.en = dataCallEnabled
      /\ s.est = establishEvents /\ s.box = inbox /\ s.mk = machines
    BY DEF HandlerState
<1> HIDE DEF s
<1>2. /\ t.st = s.st /\ t.sm = s.sm /\ t.en = s.en /\ t.est = s.est /\ t.box = inbox' /\ t.mk = s.mk
    OBVIOUS
<1>3. s \in HandlerStates /\ inbox \in [Machines -> Seq(Sent)] BY <1>1 DEF Good, HandlerStates, s
<1>4. \A m \in Machines :
         /\ Append(inbox[m], e) \in Seq(Sent)
         /\ Free(m, inbox[m], outbox[m]) => Free(m, Append(inbox[m], e), outbox[m])
         /\ \A a : WorksFor(m, a, inbox[m], outbox[m]) => WorksFor(m, a, Append(inbox[m], e), outbox[m])
    <2> SUFFICES ASSUME NEW m \in Machines
                 PROVE  /\ Append(inbox[m], e) \in Seq(Sent)
                        /\ Free(m, inbox[m], outbox[m]) => Free(m, Append(inbox[m], e), outbox[m])
                        /\ \A a : WorksFor(m, a, inbox[m], outbox[m])
                                   => WorksFor(m, a, Append(inbox[m], e), outbox[m])
        OBVIOUS
    <2>1. inbox[m] \in Seq(Sent) BY <1>3
    <2> QED BY <2>1, AppendKeepsWork
<1>5. inbox' \in [Machines -> Seq(Sent)] BY <1>3, <1>4
<1>6. t \in HandlerStates BY <1>3, <1>5 DEF HandlerStates
<1> HIDE DEF t
<1>7. Owned(t) BY <1>2 DEF Good, Owned, s
<1>8. Working(t, outbox)
    <2> SUFFICES ASSUME NEW k \in Machines
                 PROVE  /\ (\A a \in Apns : t.sm[a] # k) => Free(k, t.box[k], outbox[k])
                        /\ \A a \in Apns : t.sm[a] = k => WorksFor(k, a, t.box[k], outbox[k])
        BY DEF Working
    <2>1. /\ (\A a \in Apns : s.sm[a] # k) => Free(k, inbox[k], outbox[k])
          /\ \A a \in Apns : s.sm[a] = k => WorksFor(k, a, inbox[k], outbox[k])
        BY <1>1 DEF Good, Working, s
    <2>2. t.box[k] = inbox[k] \/ t.box[k] = Append(inbox[k], e) BY <1>2
    <2> QED BY <1>2, <1>4, <2>1, <2>2
<1>9. AtMostOne(t) /\ Scheduled(t, retryEvents) /\ Upheld(t, UpNow)
    BY <1>2 DEF Good, AtMostOne, Scheduled, Upheld, s
<1>10. Good(t, retryEvents, outbox, UpNow) BY <1>6, <1>7, <1>8, <1>9 DEF Good
<1>11. SetHandlerState(t) BY <1>1, <1>2 DEF SetHandlerState
<1> QED BY <1>10, <1>11, HandlerGood

\* What a step that leaves the machines alone has to show.
LEMMA Standstill ==
    ASSUME HandlerInv, UNCHANGED <<currentState, machineVars, linkCallback, radioVars>>,
           Good(HandlerState, retryEvents, outbox, UpNow)', retryEvents' \subseteq Apns,
           physicalActive' \in BOOLEAN, modemContexts' \subseteq Cids, listChanged' \subseteq Cids
    PROVE  HandlerInv'
<1>1. \A m \in Machines : Quiet(m)' BY DEF HandlerInv, Quiet, machineVars
<1>2. RestTypeOK' BY DEF HandlerInv, RestTypeOK
<1> QED BY <1>1, <1>2 DEF HandlerInv

LEMMA RequestNetworkInv ==
    ASSUME HandlerInv, NEW q \in Requests, RequestNetwork(q[1], q[2]), UNCHANGED currentState
    PROVE  HandlerInv' /\ KeepsCalls(UpNow)
<1> DEFINE a == q[1]
           s == HandlerState
           t == [s EXCEPT !.en[a] = q[2], !.est = @ \cup {a}]
<1>1. a \in Apns /\ q[2] \in BOOLEAN BY HandlerAssumption
<1>2. Good(s, retryEvents, outbox, UpNow) BY DEF HandlerInv
<1>3. /\ t \in HandlerStates /\ t.st = s.st /\ t.sm = s.sm /\ t.box = s.box /\ t.mk = s.mk
    <2> HIDE DEF s, a
    <2> QED BY <1>1, <1>2 DEF Good, HandlerStates
<1>4. Good(t, retryEvents, outbox, UpNow)
    <2> HIDE DEF t, s
    <2> QED BY <1>2, <1>3, EventsGood
<1>5. SetHandlerState(t) BY DEF SetHandlerState, HandlerState, RequestNetwork
<1> HIDE DEF t
<1>6. Good(HandlerState, retryEvents, outbox, UpNow)' /\ KeepsCalls(UpNow)
    BY <1>4, <1>5, HandlerGood DEF RequestNetwork, vars, machineVars
<1> QED BY <1>6, Standstill DEF HandlerInv, RestTypeOK, RequestNetwork, vars, modemVars

LEMMA MsgEstablishDataConnectionInv ==
    ASSUME HandlerInv, NEW a \in Apns, NEW outcome, NEW reason \in DisconnectReasons,
           MsgEstablishDataConnection(a, outcome, reason), UNCHANGED currentState
    PROVE  HandlerInv' /\ KeepsCalls(UpNow)
<1> DEFINE s == [HandlerState EXCEPT !.est = @ \ {a}]
           u == IF s.en[a] /\ outcome # "notAllowed"
                THEN Attempt(s, a, outcome) ELSE ClearConnection(s, a, reason)
<1>1. Good(HandlerState, retryEvents, outbox, UpNow) BY DEF HandlerInv
<1>2. /\ s \in HandlerStates /\ s.st = HandlerState.st /\ s.sm = HandlerState.sm
      /\ s.box = HandlerState.box /\ s.mk = HandlerState.mk
    BY <1>1 DEF Good, HandlerStates
<1>3. reason \in DisConnectionReasons BY ConstantsAssumption DEF DisConnectionReasons
<1>4. SetHandlerState(u) BY DEF MsgEstablishDataConnection
<1> HIDE DEF s
<1>5. Good(s, retryEvents, outbox, UpNow) BY <1>1, <1>2, EventsGood
<1>6. Good(u, retryEvents, outbox, UpNow) BY <1>3, <1>5, AttemptGood, ClearConnectionGood
<1> HIDE DEF u
<1>7. Good(HandlerState, retryEvents, outbox, UpNow)' /\ KeepsCalls(UpNow)
    BY <1>4, <1>6, HandlerGood DEF MsgEstablishDataConnection, vars, machineVars
<1> QED BY <1>7, Standstill DEF HandlerInv, RestTypeOK, MsgEstablishDataConnection, vars, modemVars

LEMMA RetryToSetupDatacallInv ==
    ASSUME HandlerInv, NEW a \in Apns, RetryToSetupDatacall(a), UNCHANGED currentState
    PROVE  HandlerInv' /\ KeepsCalls(UpNow)
<1> DEFINE s == HandlerState
           retry == retryEvents \ {a}
           t == IF apnState[a] = "RETRYING"
                THEN [s EXCEPT !.st[a] = "IDLE", !.est = @ \cup {a}] ELSE s
<1>1. Good(s, retryEvents, outbox, UpNow) BY DEF HandlerInv
<1>2. SetHandlerState(t) BY DEF SetHandlerState, HandlerState, RetryToSetupDatacall
<1>3. s.st = apnState BY DEF HandlerState
<1> HIDE DEF s
<1>4. /\ t \in HandlerStates /\ t.sm = s.sm /\ t.box = s.box /\ t.mk = s.mk
      /\ \A b \in Apns : t.st[b] = IF b = a /\ s.st[a] = "RETRYING" THEN "IDLE" ELSE s.st[b]
    BY <1>1, <1>3 DEF Good, HandlerStates, ApnStates
<1> HIDE DEF t
<1>5. Good(t, retry, outbox, UpNow)
    BY <1>1, <1>4 DEF Good, Owned, Working, AtMostOne, Scheduled, Upheld
<1>6. Good(HandlerState, retryEvents, outbox, UpNow)' /\ KeepsCalls(UpNow)
    BY <1>2, <1>5, HandlerGood DEF RetryToSetupDatacall, vars, machineVars
<1> QED BY <1>6, Standstill DEF HandlerInv, RestTypeOK, RetryToSetupDatacall, vars, modemVars

LEMMA ClearAllInv ==
    ASSUME HandlerInv, NEW reason \in DisconnectReasons, ClearAll(reason), UNCHANGED currentState
    PROVE  HandlerInv' /\ KeepsCalls(UpNow)
<1> DEFINE u == ClearAllConnections(HandlerState, reason)
<1>1. reason \in DisConnectionReasons BY ConstantsAssumption DEF DisConnectionReasons
<1>2. Good(u, retryEvents, outbox, UpNow) BY <1>1, ClearAllConnectionsGood DEF HandlerInv
<1>3. SetHandlerState(u) BY DEF ClearAll
<1> HIDE DEF u
<1>4. Good(HandlerState, retryEvents, outbox, UpNow)' /\ KeepsCalls(UpNow)
    BY <1>2, <1>3, HandlerGood DEF ClearAll, vars, machineVars
<1> QED BY <1>4, Standstill DEF HandlerInv, RestTypeOK, ClearAll, vars, modemVars

LEMMA EstablishAllInv ==
    ASSUME HandlerInv, NEW allow, EstablishAll(allow), UNCHANGED currentState
    PROVE  HandlerInv' /\ KeepsCalls(UpNow)
<1> DEFINE u == EstablishAllApnsIfConnectable(HandlerState, allow)
<1>1. Good(u, retryEvents, outbox, UpNow) BY EstablishAllApnsIfConnectableGood DEF HandlerInv
<1>2. SetHandlerState(u) BY DEF EstablishAll
<1> HIDE DEF u
<1>3. Good(HandlerState, retryEvents, outbox, UpNow)' /\ KeepsCalls(UpNow)
    BY <1>1, <1>2, HandlerGood DEF EstablishAll, vars, machineVars
<1> QED BY <1>3, Standstill DEF HandlerInv, RestTypeOK, EstablishAll, vars, modemVars

LEMMA HandleApnChangedInv ==
    ASSUME HandlerInv, NEW sameApn \in BOOLEAN, HandleApnChanged(sameApn), UNCHANGED currentState
    PROVE  HandlerInv' /\ KeepsCalls(UpNow)
<1> DEFINE s == IF sameApn THEN HandlerState ELSE ClearAllConnections(HandlerState, "CLEAR")
           retrying == {a \in Apns : s.st[a] = "RETRYING"}
           t == [s EXCEPT !.st = [a \in Apns |-> IF a \in retrying THEN "IDLE" ELSE s.st[a]],
                          !.est = Apns]
           retry == IF retrying # {} THEN {} ELSE retryEvents
<1>1. Good(s, retryEvents, outbox, UpNow) BY ClearAllConnectionsGood DEF HandlerInv, DisConnectionReasons
<1>2. SetHandlerState(t) /\ retryEvents' = retry BY DEF HandleApnChanged
<1> HIDE DEF s
<1>3. /\ t \in HandlerStates /\ t.sm = s.sm /\ t.box = s.box /\ t.mk = s.mk
      /\ \A b \in Apns : t.st[b] = IF s.st[b] = "RETRYING" THEN "IDLE" ELSE s.st[b]
    BY <1>1 DEF Good, HandlerStates, ApnStates
<1> HIDE DEF t
<1>4. Good(t, retry, outbox, UpNow)
    BY <1>1, <1>3 DEF Good, Owned, Working, AtMostOne, Scheduled, Upheld
<1> HIDE DEF retry
<1>5. Good(HandlerState, retryEvents, outbox, UpNow)' /\ KeepsCalls(UpNow)
    BY <1>2, <1>4, HandlerGood DEF HandleApnChanged, vars, machineVars
<1>6. retryEvents' \subseteq Apns BY <1>2 DEF retry, HandlerInv, RestTypeOK
<1> QED BY <1>5, <1>6, Standstill DEF HandlerInv, RestTypeOK, HandleApnChanged, vars, modemVars

LEMMA OnRilAdapterHostDiedInv ==
    ASSUME HandlerInv, OnRilAdapterHostDied, UNCHANGED currentState
    PROVE  HandlerInv' /\ KeepsCalls(UpNow)
<1>1. HostDiedEvent \in Sent /\ HostDiedEvent.code # "CONNECT"
    BY DEF HostDiedEvent, Blank, Sent, Event, Codes, Results, Reasons, PdpErrors
<1> DEFINE L == Range(machines)
           e == HostDiedEvent
<1>2. inbox' = [m \in Machines |-> IF m \in L THEN Append(inbox[m], e) ELSE inbox[m]]
    BY DEF OnRilAdapterHostDied
<1> HIDE DEF L, e
<1>3. Good(HandlerState, retryEvents, outbox, UpNow)' /\ KeepsCalls(UpNow)
    BY <1>1, <1>2, InboxGood DEF HandlerInv, OnRilAdapterHostDied, vars, machineVars, e
<1> QED BY <1>3, Standstill DEF HandlerInv, RestTypeOK, OnRilAdapterHostDied, vars, modemVars

\* A report comes from a machine that works for the holder it names.
LEMMA ReportOwner ==
    ASSUME TypeOK, HandlerInv, NEW m \in Machines, outbox[m] # <<>>
    PROVE  LET a == Head(outbox[m]).apn
               b == inbox[m]
               o == outbox[m]
           IN  /\ Head(o) \in Report /\ Tail(o) \in Seq(Report)
               /\ a \in Apns /\ stateMachine[a] = m
               /\ Head(o).kind = "DISCONNECTED" => Free(m, b, Tail(o))
               /\ Head(o).kind # "DISCONNECTED" => Running(m, a, b, Tail(o)) \/ Ended(m, a, b, Tail(o))
               /\ curState[m] # "Activating"
<1> DEFINE o == outbox[m]
           b == inbox[m]
           r == Head(o)
           t == Tail(o)
<1>1. /\ r \in Report /\ t \in Seq(Report) /\ Len(o) \in Nat /\ Len(o) >= 1 /\ o[1] = r
      /\ Len(t) = Len(o) - 1 /\ \A i \in 1 .. Len(t) : t[i] = o[i + 1]
    BY HeadTailProperties DEF TypeOK
<1>2. HandlerState.sm = stateMachine /\ HandlerState.box = inbox BY DEF HandlerState
<1>3. /\ (\A a \in Apns : stateMachine[a] # m) => Free(m, b, o)
      /\ \A a \in Apns : stateMachine[a] = m => WorksFor(m, a, b, o)
    BY <1>2 DEF HandlerInv, Good, Working
<1>4. PICK a \in Apns : stateMachine[a] = m /\ WorksFor(m, a, b, o) BY <1>3 DEF Free
<1> HIDE DEF r, t, o, b
<1>5. o # <<>> BY DEF o
<1>6. 1 \in 1 .. Len(o) BY <1>1
<1>7. \A i \in 1 .. Len(t) : i + 1 \in 1 .. Len(o) /\ (i + 1 = Len(o) <=> i = Len(t))
    BY <1>1
<1>8. CASE Running(m, a, b, o)
    <2>1. r.apn = a /\ r.kind # "DISCONNECTED" BY <1>1, <1>6, <1>8 DEF Running
    <2>2. Running(m, a, b, t) /\ curState[m] # "Activating" BY <1>1, <1>5, <1>7, <1>8 DEF Running
    <2> QED BY <1>1, <1>4, <2>1, <2>2 DEF r, t, o, b
<1>9. CASE Ended(m, a, b, o)
    <2>1. r.apn = a /\ (r.kind = "DISCONNECTED" <=> Len(o) = 1) BY <1>1, <1>6, <1>9 DEF Ended
    <2>2. ASSUME Len(o) = 1 PROVE Free(m, b, t)
        <3>1. t = <<>> BY <1>1, <2>2
        <3> QED BY <1>9, <3>1 DEF Ended, Free
    <2>3. ASSUME Len(o) # 1 PROVE Ended(m, a, b, t)
        <3>1. t # <<>> BY <1>1, <2>3
        <3>2. \A i \in 1 .. Len(t) : t[i].apn = a /\ (t[i].kind = "DISCONNECTED" <=> i = Len(t))
            BY <1>1, <1>7, <1>9 DEF Ended
        <3> QED BY <1>9, <3>1, <3>2 DEF Ended
    <2>4. curState[m] # "Activating" BY <1>9 DEF Ended
    <2> QED BY <1>1, <1>4, <2>1, <2>2, <2>3, <2>4 DEF r, t, o, b
<1>10. ~Asked(m, a, b, o) BY <1>5 DEF Asked
<1> QED BY <1>4, <1>8, <1>9, <1>10 DEF WorksFor

LEMMA EstablishDataConnectionCompleteInv ==
    ASSUME TypeOK, HandlerInv, NEW m \in Machines, EstablishDataConnectionComplete(m),
           UNCHANGED currentState
    PROVE  /\ HandlerInv' /\ TypeOK'
           /\ KeepsCalls([UpNow EXCEPT ![Head(outbox[m]).apn] = m])
<1> DEFINE s == HandlerState
           o == [outbox EXCEPT ![m] = Tail(@)]
           a == Head(outbox[m]).apn
           t == [s EXCEPT !.st[a] = "CONNECTED"]
           up == [UpNow EXCEPT ![a] = m]
<1>1. /\ outbox[m] # <<>> /\ outbox' = o /\ Head(outbox[m]).kind = "ESTABLISHED"
      /\ UNCHANGED <<machineVars, linkCallback, radioVars, modemVars>>
    BY DEF EstablishDataConnectionComplete, TakeReport
<1>2. /\ Tail(outbox[m]) \in Seq(Report) /\ a \in Apns /\ stateMachine[a] = m
      /\ WorksFor(m, a, inbox[m], Tail(outbox[m]))
    BY <1>1, ReportOwner DEF WorksFor
<1>3. Good(s, retryEvents, outbox, UpNow) BY DEF HandlerInv
<1>4. m # NoMachine BY ConstantsAssumption
<1>5. SetHandlerState(t) BY <1>2, <1>4 DEF SetHandlerState, HandlerState, EstablishDataConnectionComplete
<1>6. s.sm = stateMachine /\ s.box = inbox BY DEF HandlerState
<1>7. \A k \in Machines : o[k] = IF k = m THEN Tail(outbox[m]) ELSE outbox[k] BY DEF TypeOK
<1>b. \A b \in Apns : up[b] = IF b = a THEN m ELSE UpNow[b] BY DEF UpNow
<1> HIDE DEF s, a, o, up
<1>8. /\ t \in HandlerStates /\ t.sm = s.sm /\ t.box = s.box /\ t.mk = s.mk
      /\ \A b \in Apns : t.st[b] = IF b = a THEN "CONNECTED" ELSE s.st[b]
    BY <1>2, <1>3 DEF Good, HandlerStates, ApnStates
<1> HIDE DEF t
<1>9. Owned(t) BY <1>2, <1>3, <1>4, <1>6, <1>8 DEF Good, Owned
<1>10. Working(t, o)
    <2> SUFFICES ASSUME NEW k \in Machines
                 PROVE  /\ (\A b \in Apns : t.sm[b] # k) => Free(k, t.box[k], o[k])
                        /\ \A b \in Apns : t.sm[b] = k => WorksFor(k, b, t.box[k], o[k])
        BY DEF Working
    <2>1. CASE k = m
        <3>1. \A b \in Apns : t.sm[b] = k => b = a
            BY <1>2, <1>3, <1>4, <1>6, <1>8, <2>1 DEF Good, Owned
        <3> QED BY <1>2, <1>6, <1>7, <1>8, <2>1, <3>1
    <2>2. CASE k # m BY <1>3, <1>7, <1>8, <2>2 DEF Good, Working
    <2> QED BY <2>1, <2>2
<1> DEFINE retry == retryEvents'
<1>11. retryEvents \subseteq retry /\ retry \subseteq Apns
    BY DEF EstablishDataConnectionComplete, HandlerInv, RestTypeOK
<1>12. AtMostOne(t) /\ Scheduled(t, retry) /\ Upheld(t, up)
    BY <1>2, <1>3, <1>6, <1>8, <1>b, <1>11 DEF Good, AtMostOne, Scheduled, Upheld
<1>13. Good(t, retry, o, up) BY <1>8, <1>9, <1>10, <1>12 DEF Good
<1>14. Good(HandlerState, retryEvents, outbox, UpNow)' /\ KeepsCalls(up)
    BY <1>1, <1>5, <1>13, HandlerGood DEF machineVars
<1>15. HandlerInv'
    BY <1>1, <1>11, <1>14, Standstill DEF HandlerInv, RestTypeOK, EstablishDataConnectionComplete, modemVars
<1>16. TypeOK'
    <2>1. outbox' \in [Machines -> Seq(Report)] BY <1>1, <1>2 DEF o, TypeOK
    <2> QED BY <1>1, <2>1 DEF EstablishDataConnectionComplete, TypeOK, machineVars, radioVars
<1> QED BY <1>14, <1>15, <1>16 DEF up, a

LEMMA RetryOrClearGood ==
    ASSUME NEW retry, NEW o, NEW up, NEW s, Good(s, retry, o, up), NEW a \in Apns, s.sm[a] = NoMachine,
           NEW reason, NEW allow
    PROVE  Good(RetryOrClear(s, a, reason, allow),
                IF reason = "RETRY" THEN retry \cup {a} ELSE retry, o, up)
<1>1. CASE reason = "CLEAR"
    <2>1. Good(ClearConnection(s, a, "CLEAR"), retry, o, up)
        BY ClearConnectionGood DEF DisConnectionReasons
    <2>2. Good(EstablishAllApnsIfConnectable(ClearConnection(s, a, "CLEAR"), allow), retry, o, up)
        BY <2>1, EstablishAllApnsIfConnectableGood
    <2> QED BY <1>1, <2>2 DEF RetryOrClear
<1>2. CASE reason = "PERMANENT"
    BY <1>2, ClearConnectionGood DEF DisConnectionReasons, RetryOrClear
<1>3. CASE reason = "RETRY"
    <2> DEFINE t == [s EXCEPT !.st[a] = "RETRYING"]
    <2>1. /\ t \in HandlerStates /\ t.sm = s.sm /\ t.box = s.box /\ t.mk = s.mk
          /\ \A b \in Apns : t.st[b] = IF b = a THEN "RETRYING" ELSE s.st[b]
        BY DEF Good, HandlerStates, ApnStates
    <2>2. RetryOrClear(s, a, reason, allow) = t BY <1>3 DEF RetryOrClear
    <2> HIDE DEF t
    <2>3. Good(t, retry \cup {a}, o, up)
        BY <2>1 DEF Good, Owned, Working, AtMostOne, Scheduled, Upheld
    <2> QED BY <1>3, <2>2, <2>3
<1>4. CASE reason \notin {"CLEAR", "PERMANENT", "RETRY"}
    BY <1>4 DEF RetryOrClear
<1> QED BY <1>1, <1>2, <1>3, <1>4

LEMMA DisconnectDataCompleteInv ==
    ASSUME TypeOK, HandlerInv, NEW m \in Machines, NEW allow, DisconnectDataComplete(m, allow),
           UNCHANGED currentState
    PROVE  /\ HandlerInv' /\ TypeOK'
           /\ KeepsCalls([UpNow EXCEPT ![Head(outbox[m]).apn] = NoMachine])
<1> DEFINE s == HandlerState
           o == [outbox EXCEPT ![m] = Tail(@)]
           a == Head(outbox[m]).apn
           up == [UpNow EXCEPT ![a] = NoMachine]
           reason == DisconnReasonOf(Head(outbox[m]).reason)
           s1 == GiveUpMachine(s, a)
           s2 == IF s1.en[a] THEN RetryOrClear(s1, a, reason, allow) ELSE s1
           s3 == IF reason = "CHANGE" THEN HandleSortConnection(s2) ELSE s2
           retry == IF s1.en[a] /\ reason = "RETRY" THEN retryEvents \cup {a} ELSE retryEvents
<1>1. /\ outbox[m] # <<>> /\ outbox' = o /\ Head(outbox[m]).kind = "DISCONNECTED"
      /\ UNCHANGED <<machineVars, linkCallback, radioVars, modemVars>>
    BY DEF DisconnectDataComplete, TakeReport
<1>2. /\ Tail(outbox[m]) \in Seq(Report) /\ a \in Apns /\ stateMachine[a] = m
      /\ Free(m, inbox[m], Tail(outbox[m]))
    BY <1>1, ReportOwner
<1>3. Good(s, retryEvents, outbox, UpNow) BY DEF HandlerInv
<1>4. m # NoMachine BY ConstantsAssumption
<1>5. SetHandlerState(s3) /\ retryEvents' = retry BY <1>2, <1>4 DEF DisconnectDataComplete
<1>6. /\ RemoveActiveConnectionByCid(cid[stateMachine[a]]) /\ UpdatePhysicalConnectionState
    BY <1>2, <1>4 DEF DisconnectDataComplete
<1>7. s.sm = stateMachine /\ s.box = inbox BY DEF HandlerState
<1>8. \A k \in Machines : o[k] = IF k = m THEN Tail(outbox[m]) ELSE outbox[k] BY DEF TypeOK
<1>b. \A b \in Apns : up[b] = IF b = a THEN NoMachine ELSE UpNow[b] BY DEF UpNow
<1> HIDE DEF s, a, o, up, reason
<1>9. /\ s1 \in HandlerStates /\ s1.box = s.box /\ s1.mk = s.mk
      /\ \A b \in Apns : s1.st[b] = IF b = a THEN "IDLE" ELSE s.st[b]
      /\ \A b \in Apns : s1.sm[b] = IF b = a THEN NoMachine ELSE s.sm[b]
    BY <1>2, <1>3 DEF GiveUpMachine, Good, HandlerStates, ApnStates
<1> HIDE DEF s1
<1>10. Good(s1, retryEvents, o, up)
    <2>1. Owned(s1) BY <1>3, <1>9 DEF Good, Owned
    <2>2. Working(s1, o)
        <3> SUFFICES ASSUME NEW k \in Machines
                     PROVE  /\ (\A b \in Apns : s1.sm[b] # k) => Free(k, s1.box[k], o[k])
                            /\ \A b \in Apns : s1.sm[b] = k => WorksFor(k, b, s1.box[k], o[k])
            BY DEF Working
        <3>0. k # NoMachine BY ConstantsAssumption
        <3>1. CASE k = m
            <4>1. \A b \in Apns : s1.sm[b] # k
                BY <1>2, <1>3, <1>4, <1>7, <1>9, <3>1 DEF Good, Owned
            <4> QED BY <1>2, <1>7, <1>8, <1>9, <3>1, <4>1
        <3>2. CASE k # m
            BY <1>2, <1>3, <1>7, <1>8, <1>9, <3>0, <3>2 DEF Good, Working
        <3> QED BY <3>1, <3>2
    <2>3. AtMostOne(s1) /\ Scheduled(s1, retryEvents) /\ Upheld(s1, up)
        BY <1>3, <1>9, <1>b DEF Good, AtMostOne, Scheduled, Upheld
    <2> QED BY <1>9, <2>1, <2>2, <2>3 DEF Good
<1>11. Good(s2, retry, o, up) BY <1>2, <1>9, <1>10, RetryOrClearGood
<1> HIDE DEF s2, retry
<1>12. Good(s3, retry, o, up) BY <1>11, HandleSortConnectionGood
<1> HIDE DEF s3
<1>13. Good(HandlerState, retryEvents, outbox, UpNow)' /\ KeepsCalls(up)
    BY <1>1, <1>5, <1>12, HandlerGood DEF machineVars
<1>14. retryEvents' \subseteq Apns BY <1>2, <1>5 DEF retry, HandlerInv, RestTypeOK
<1>15. physicalActive' \in BOOLEAN BY <1>6 DEF UpdatePhysicalConnectionState
<1>16. HandlerInv'
    BY <1>1, <1>13, <1>14, <1>15, Standstill DEF HandlerInv, RestTypeOK, modemVars
<1>17. TypeOK'
    <2>1. outbox' \in [Machines -> Seq(Report)] BY <1>1, <1>2 DEF o, TypeOK
    <2>2. activeByCid' \in [Cids -> Machines \cup {NoMachine}]
        BY <1>6 DEF RemoveActiveConnectionByCid, TypeOK
    <2> QED BY <1>1, <2>1, <2>2 DEF TypeOK, machineVars, radioVars
<1> QED BY <1>13, <1>16, <1>17 DEF up, a

LEMMA HandlerStepInv ==
    ASSUME TypeOK, HandlerInv, HandlerStep, UNCHANGED currentState
    PROVE  HandlerInv' /\ TypeOK'
<1>1. ASSUME UNCHANGED vars PROVE TypeOK' BY <1>1 DEF vars, machineVars, radioVars, TypeOK
<1>2. establishEvents \subseteq Apns /\ retryEvents \subseteq Apns
    BY DEF HandlerInv, RestTypeOK, Good, HandlerStates, HandlerState
<1>3. CASE \E q \in Requests : RequestNetwork(q[1], q[2])
    BY <1>1, <1>3, RequestNetworkInv DEF RequestNetwork
<1>4. CASE \E a \in establishEvents, outcome \in Outcomes \cup {"notAllowed"}, reason \in DisconnectReasons :
              MsgEstablishDataConnection(a, outcome, reason)
    BY <1>1, <1>2, <1>4, MsgEstablishDataConnectionInv DEF MsgEstablishDataConnection
<1>5. CASE \E a \in retryEvents : RetryToSetupDatacall(a)
    BY <1>1, <1>2, <1>5, RetryToSetupDatacallInv DEF RetryToSetupDatacall
<1>6. CASE \E m \in Machines : EstablishDataConnectionComplete(m)
    BY <1>6, EstablishDataConnectionCompleteInv
<1>7. CASE \E m \in Machines, allow \in [Apns -> Outcomes] : DisconnectDataComplete(m, allow)
    BY <1>7, DisconnectDataCompleteInv
<1>8. CASE \E reason \in DisconnectReasons : ClearAll(reason)
    BY <1>1, <1>8, ClearAllInv DEF ClearAll
<1>9. CASE \E allow \in [Apns -> Outcomes] : EstablishAll(allow)
    BY <1>1, <1>9, EstablishAllInv DEF EstablishAll
<1>10. CASE \E sameApn \in BOOLEAN : HandleApnChanged(sameApn)
    BY <1>1, <1>10, HandleApnChangedInv DEF HandleApnChanged
<1>11. CASE OnRilAdapterHostDied
    BY <1>1, <1>11, OnRilAdapterHostDiedInv DEF OnRilAdapterHostDied
<1> QED BY <1>3, <1>4, <1>5, <1>6, <1>7, <1>8, <1>9, <1>10, <1>11 DEF HandlerStep

\* The modem's answers are no CONNECT, and nothing else of a machine changes with them.
LEMMA AnswerInv ==
    ASSUME TypeOK, HandlerInv, NEW m \in Machines, NEW e \in Event, e.code # "CONNECT",
           queue' = [queue EXCEPT ![m] = @ \cup {e}],
           UNCHANGED <<curState, apnId, immediate, deferEvents, outbox, handlerVars, currentState,
                       listChanged>>,
           modemContexts' \subseteq Cids
    PROVE  HandlerInv'
<1>1. \A k \in Machines : Quiet(k)'
    BY DEF HandlerInv, Quiet, TypeOK
<1>2. Good(HandlerState, retryEvents, outbox, UpNow) BY DEF HandlerInv
<1>3. SetHandlerState(HandlerState) BY DEF SetHandlerState, HandlerState, handlerVars
<1>4. Good(HandlerState, retryEvents, outbox, UpNow)'
    <2> DEFINE s == HandlerState
    <2>1. Good(s, retryEvents, outbox, UpNow) /\ SetHandlerState(s) BY <1>2, <1>3
    <2> HIDE DEF s
    <2> QED BY <2>1, HandlerGood DEF handlerVars
<1>5. RestTypeOK' BY DEF HandlerInv, RestTypeOK, handlerVars
<1> QED BY <1>1, <1>4, <1>5 DEF HandlerInv

LEMMA ModemStepInv ==
    ASSUME TypeOK, HandlerInv, ModemStep, UNCHANGED currentState
    PROVE  HandlerInv' /\ TypeOK'
<1>a. ASSUME UNCHANGED vars PROVE TypeOK' BY <1>a DEF vars, machineVars, radioVars, TypeOK
<1>b. modemContexts \subseteq Cids /\ listChanged \subseteq Cids /\ physicalActive \in BOOLEAN
      /\ retryEvents \subseteq Apns
    BY DEF HandlerInv, RestTypeOK
<1>1. ASSUME NEW c \in listChanged, NEW r \in FailReasons, RadioDataCallListChanged(c, r)
      PROVE  HandlerInv' /\ TypeOK'
    <2> DEFINE L == {m \in Machines : (\E k \in Cids : activeByCid[k] = m) /\ cid[m] = c}
               e == LostEvent(r)
    <2>1. e \in Sent /\ e.code # "CONNECT"
        BY DEF LostEvent, Blank, Sent, Event, Codes, Results, Reasons, PdpErrors
    <2>2. inbox' = [m \in Machines |-> IF m \in L THEN Append(inbox[m], e) ELSE inbox[m]]
        BY <1>1 DEF RadioDataCallListChanged
    <2>3. /\ UNCHANGED vars /\ listChanged' \subseteq Cids
          /\ UNCHANGED <<apnState, stateMachine, dataCallEnabled, establishEvents, retryEvents,
                         machines, physicalActive, modemContexts>>
        BY <1>b, <1>1 DEF RadioDataCallListChanged
    <2> HIDE DEF L, e
    <2>4. Good(HandlerState, retryEvents, outbox, UpNow)'
        BY <2>1, <2>2, <2>3, InboxGood DEF HandlerInv, vars, machineVars
    <2>5. HandlerInv' BY <1>b, <2>3, <2>4, Standstill DEF vars
    <2> QED BY <1>a, <2>3, <2>5
<1>2. ASSUME NEW c \in modemContexts, ModemDropsContext(c) PROVE HandlerInv' /\ TypeOK'
    <2> DEFINE s == HandlerState
    <2>1. Good(s, retryEvents, outbox, UpNow) BY DEF HandlerInv
    <2>2. SetHandlerState(s) BY <1>2 DEF ModemDropsContext, SetHandlerState, HandlerState, handlerVars
    <2> HIDE DEF s
    <2>3. /\ UNCHANGED vars /\ UNCHANGED handlerVars
          /\ modemContexts' \subseteq Cids /\ listChanged' \subseteq Cids
        BY <1>b, <1>2 DEF ModemDropsContext
    <2>4. Good(HandlerState, retryEvents, outbox, UpNow)'
        BY <2>1, <2>2, <2>3, HandlerGood DEF vars, machineVars, handlerVars
    <2>5. HandlerInv' BY <1>b, <2>3, <2>4, Standstill DEF vars, handlerVars
    <2> QED BY <1>a, <2>3, <2>5
<1>3. ASSUME NEW m \in Machines, NEW n \in setupReqs[m], NEW e \in SetupAnswers(n),
             ModemAnswersSetup(m, n, e)
      PROVE  HandlerInv' /\ TypeOK'
    <2>1. RadioAnswersSetup(m, n, e) BY <1>3 DEF ModemAnswersSetup
    <2>2. n \in Nat BY DEF TypeOK
    <2>3. e \in Event /\ (e.result = "active" => e.cid \in Cids) BY <2>2, SetupAnswersType
    <2>4. e.code # "CONNECT" BY <2>2, SetupAnswersType
    <2>5. modemContexts' \subseteq Cids BY <1>b, <1>3, <2>3 DEF ModemAnswersSetup
    <2>6. HandlerInv'
        BY <1>3, <2>1, <2>3, <2>4, <2>5, AnswerInv DEF ModemAnswersSetup, RadioAnswersSetup
    <2>7. TypeOK' BY <2>1, NextTypeOK DEF Next, RadioStep
    <2> QED BY <2>6, <2>7
<1>4. ASSUME NEW m \in Machines, NEW d \in deactReqs[m], ModemDeactivates(m, d)
      PROVE  HandlerInv' /\ TypeOK'
    <2>1. RadioAnswersDeactivate(m, d, "done") BY <1>4 DEF ModemDeactivates
    <2>2. d[1] \in Nat BY DEF TypeOK
    <2> DEFINE e == DeactivateAnswer(d[1], "done")
    <2>3. e \in Event BY <2>2, DeactivateAnswerType
    <2>4. e.code # "CONNECT" BY DEF DeactivateAnswer, Blank
    <2>5. queue' = [queue EXCEPT ![m] = @ \cup {e}] BY <2>1 DEF RadioAnswersDeactivate
    <2> HIDE DEF e
    <2>6. modemContexts' \subseteq Cids BY <1>b, <1>4 DEF ModemDeactivates
    <2>7. HandlerInv'
        BY <1>4, <2>1, <2>3, <2>4, <2>5, <2>6, AnswerInv DEF ModemDeactivates, RadioAnswersDeactivate
    <2>8. TypeOK' BY <2>1, NextTypeOK DEF Next, RadioStep
    <2> QED BY <2>7, <2>8
<1> QED BY <1>1, <1>2, <1>3, <1>4 DEF ModemStep

\* A step of machine m, which has taken e from its inbox or from its own queue.
LEMMA OutcomeInv ==
    ASSUME TypeOK, TypeOK', HandlerInv, NEW m \in Machines, NEW e \in Event, NEW rest \in Rests,
           Outcome(m, e, rest), ~HasConnect(rest.imm), \A x \in rest.queue : x.code # "CONNECT",
           e.code = "CONNECT" => curState[m] = "Inactive",
           Publish(m), inbox' \in [Machines -> Seq(Sent)],
           \A k \in Machines \ {m} : inbox'[k] = inbox[k],
           Free(m, inbox[m], outbox[m]) => Free(m, inbox[m], outbox[m])',
           \A a \in Apns : WorksFor(m, a, inbox[m], outbox[m]) => WorksFor(m, a, inbox[m], outbox[m])',
           UNCHANGED <<apnState, stateMachine, dataCallEnabled, establishEvents, retryEvents,
                       machines, physicalActive, modemVars>>
    PROVE  HandlerInv'
<1>1. \A k \in Machines \ {m} :
         /\ curState'[k] = curState[k] /\ deferEvents'[k] = deferEvents[k]
         /\ immediate'[k] = immediate[k] /\ queue'[k] = queue[k]
         /\ outbox'[k] = outbox[k] /\ apnId'[k] = apnId[k]
    BY OutcomeFrame
<1>2. Quiet(m)' BY OutcomeQuiet DEF HandlerInv
<1>3. \A k \in Machines : Quiet(k)' BY <1>1, <1>2 DEF HandlerInv, Quiet
<1>4. Good(HandlerState, retryEvents, outbox, UpNow) BY DEF HandlerInv
<1>5. Good(HandlerState, retryEvents, outbox, UpNow)' BY <1>1, <1>4, OneWorks
<1>6. RestTypeOK'
    <2>1. currentState' \in [Machines -> States]
        BY DEF Publish, HandlerInv, RestTypeOK, TypeOK, States
    <2> QED BY <2>1 DEF HandlerInv, RestTypeOK, modemVars
<1> QED BY <1>3, <1>5, <1>6 DEF HandlerInv

LEMMA DispatchInboxInv ==
    ASSUME TypeOK, HandlerInv, NEW m \in Machines, DispatchInbox(m)
    PROVE  HandlerInv' /\ TypeOK'
<1> DEFINE b == inbox[m]
           e == Head(inbox[m])
           rest == [imm |-> <<>>, queue |-> queue[m]]
<1>0. b \in Seq(Sent) /\ inbox \in [Machines -> Seq(Sent)]
    BY DEF HandlerInv, Good, HandlerStates, HandlerState
<1>1. b \in Seq(Event) BY <1>0, SentSeq
<1>2. b # <<>> /\ Process(m, e, rest) /\ inbox' = [inbox EXCEPT ![m] = Tail(@)]
    BY DEF DispatchInbox
<1>3. e \in Event /\ Tail(b) \in Seq(Sent) BY <1>0, <1>1, <1>2, TailOther
<1>4. rest \in Rests BY DEF Rests, TypeOK
<1>5. ~HasConnect(rest.imm) /\ \A x \in rest.queue : x.code # "CONNECT"
    BY QuietSeqs DEF HandlerInv, Quiet
<1>6. inbox' \in [Machines -> Seq(Sent)] /\ inbox'[m] = Tail(b)
      /\ \A k \in Machines \ {m} : inbox'[k] = inbox[k]
    <2> DEFINE t == Tail(b)
    <2>1. t \in Seq(Sent) /\ inbox' = [inbox EXCEPT ![m] = t] BY <1>2, <1>3
    <2> HIDE DEF t
    <2>2. inbox' \in [Machines -> Seq(Sent)] /\ inbox'[m] = t
          /\ \A k \in Machines \ {m} : inbox'[k] = inbox[k]
        BY <1>0, <2>1
    <2> QED BY <2>2 DEF t
<1>7. HandlerState.sm = stateMachine /\ HandlerState.box = inbox BY DEF HandlerState
<1>8. /\ (\A a \in Apns : stateMachine[a] # m) => Free(m, b, outbox[m])
      /\ \A a \in Apns : stateMachine[a] = m => WorksFor(m, a, b, outbox[m])
    BY <1>7 DEF HandlerInv, Good, Working
<1> HIDE DEF rest, e
<1>9. TypeOK' BY <1>2, <1>3, <1>4, ProcessTypeOK
<1>10. Outcome(m, e, rest) BY <1>2, <1>3, <1>4, ProcessOutcome
<1>11. ASSUME e.code = "CONNECT"
       PROVE  /\ \A a : WorksFor(m, a, b, outbox[m]) => Asked(m, a, b, outbox[m])
              /\ ~Free(m, b, outbox[m]) /\ curState[m] = "Inactive"
    <2>1. HasConnect(b) BY <1>1, <1>2, <1>11, TailOther DEF e
    <2>2. /\ \A a : WorksFor(m, a, b, outbox[m]) => Asked(m, a, b, outbox[m])
          /\ ~Free(m, b, outbox[m])
        BY <2>1 DEF WorksFor, Running, Ended, Free
    <2>3. \E a \in Apns : WorksFor(m, a, b, outbox[m]) BY <1>8, <2>2
    <2> QED BY <2>2, <2>3 DEF Asked
<1>12. ASSUME e.code # "CONNECT"
       PROVE  /\ Free(m, inbox[m], outbox[m]) => Free(m, inbox[m], outbox[m])'
              /\ \A a \in Apns : WorksFor(m, a, inbox[m], outbox[m])
                                 => WorksFor(m, a, inbox[m], outbox[m])'
    <2>1. \A x : /\ Free(m, x, outbox[m]) => Free(m, x, outbox[m])'
                 /\ \A a : WorksFor(m, a, x, outbox[m]) => WorksFor(m, a, x, outbox[m])'
        BY <1>10, <1>12, OutcomeWork
    <2>2. /\ Free(m, b, outbox[m]) => Free(m, Tail(b), outbox[m])
          /\ \A a : WorksFor(m, a, b, outbox[m]) => WorksFor(m, a, Tail(b), outbox[m])
        BY <1>1, <1>2, <1>12, TailKeepsWork DEF e
    <2> DEFINE t == inbox'[m]
    <2>3. t = Tail(b) BY <1>6
    <2> HIDE DEF t
    <2>4. Free(m, b, outbox[m]) => curState'[m] = "Inactive" /\ ~HasConnect(t) /\ outbox'[m] = <<>>
        BY <2>1, <2>2, <2>3 DEF Free
    <2>5. ASSUME NEW a \in Apns, WorksFor(m, a, b, outbox[m])
          PROVE  WorksFor(m, a, inbox[m], outbox[m])'
        <3>1. WorksFor(m, a, t, outbox[m]) BY <2>2, <2>3, <2>5
        <3>2. \A x : WorksFor(m, a, x, outbox[m]) => WorksFor(m, a, x, outbox[m])' BY <2>1
        <3> QED BY <3>1, <3>2 DEF WorksFor, Asked, Running, Ended, t
    <2> QED BY <2>4, <2>5 DEF Free, t
<1>13. ASSUME e.code = "CONNECT"
       PROVE  /\ Free(m, inbox[m], outbox[m]) => Free(m, inbox[m], outbox[m])'
              /\ \A a \in Apns : WorksFor(m, a, inbox[m], outbox[m])
                                 => WorksFor(m, a, inbox[m], outbox[m])'
    <2> SUFFICES ASSUME NEW a \in Apns, WorksFor(m, a, b, outbox[m])
                 PROVE  WorksFor(m, a, inbox[m], outbox[m])'
        BY <1>11, <1>13
    <2>1. curState[m] = "Inactive" /\ OneConnect(b, a) /\ outbox[m] = <<>>
        BY <1>11, <1>13 DEF Asked
    <2>2. e.apn = a /\ ~HasConnect(Tail(b)) BY <1>1, <1>2, <1>13, <2>1, TailOther DEF e
    <2>3. \A x : ~HasConnect(x) => Running(m, a, x, outbox[m])'
        BY <1>10, <1>13, <2>1, <2>2, OutcomeOpens
    <2> DEFINE t == inbox'[m]
    <2>4. ~HasConnect(t) BY <1>6, <2>2
    <2> HIDE DEF t
    <2>5. Running(m, a, inbox[m], outbox[m])' BY <2>2, <2>3, <2>4 DEF Running, t
    <2> QED BY <2>5 DEF WorksFor
<1>14. HandlerInv'
    BY <1>3, <1>4, <1>5, <1>6, <1>9, <1>10, <1>11, <1>12, <1>13, OutcomeInv DEF DispatchInbox
<1> QED BY <1>9, <1>14

LEMMA DispatchOwnInv ==
    ASSUME TypeOK, HandlerInv, NEW m \in Machines, DispatchOwn(m)
    PROVE  HandlerInv' /\ TypeOK'
<1>1. MachineStep(m) BY DEF DispatchOwn, MachineStep
<1>2. TypeOK' BY <1>1, NextTypeOK DEF Next
<1>3. inbox \in [Machines -> Seq(Sent)] /\ Quiet(m)
    BY DEF HandlerInv, Good, HandlerStates, HandlerState
<1>a. immediate[m] \in Seq(Event) /\ queue[m] \in SUBSET Event /\ <<>> \in Seq(Event)
    BY DEF TypeOK
<1>4. PICK e \in Event, rest \in Rests :
         /\ Process(m, e, rest) /\ e.code # "CONNECT"
         /\ ~HasConnect(rest.imm) /\ \A x \in rest.queue : x.code # "CONNECT"
    <2>1. CASE DispatchImmediate(m)
        <3> DEFINE e == Head(immediate[m])
                   rest == [imm |-> Tail(immediate[m]), queue |-> queue[m]]
        <3>1. immediate[m] # <<>> /\ Process(m, e, rest) BY <2>1 DEF DispatchImmediate
        <3>2. e \in Event /\ e.code # "CONNECT" BY <1>3, <1>a, <3>1, TailOther DEF Quiet
        <3>3. Tail(immediate[m]) \in Seq(Event) /\ ~HasConnect(Tail(immediate[m]))
            BY <1>3, <1>a, <3>1, TailOther DEF Quiet
        <3>4. rest \in Rests /\ ~HasConnect(rest.imm) /\ \A x \in rest.queue : x.code # "CONNECT"
            BY <1>3, <1>a, <3>3 DEF Rests, Quiet
        <3> HIDE DEF e, rest
        <3> QED BY <3>1, <3>2, <3>4
    <2>2. CASE \E e \in queue[m] : DispatchQueued(m, e)
        <3>1. PICK e \in queue[m] : DispatchQueued(m, e) BY <2>2
        <3> DEFINE rest == [imm |-> <<>>, queue |-> queue[m] \ {e}]
        <3>2. e \in Event /\ e.code # "CONNECT" /\ Process(m, e, rest)
            BY <1>3, <1>a, <3>1 DEF Quiet, DispatchQueued
        <3>3. rest \in Rests /\ ~HasConnect(rest.imm) /\ \A x \in rest.queue : x.code # "CONNECT"
            BY <1>3, <1>a, QuietSeqs DEF Rests, Quiet
        <3> HIDE DEF rest
        <3> QED BY <3>2, <3>3
    <2> QED BY <2>1, <2>2 DEF DispatchOwn
<1>5. Outcome(m, e, rest) BY <1>4, ProcessOutcome
<1>6. \A x : /\ Free(m, x, outbox[m]) => Free(m, x, outbox[m])'
             /\ \A a : WorksFor(m, a, x, outbox[m]) => WorksFor(m, a, x, outbox[m])'
    BY <1>4, <1>5, OutcomeWork
<1>7. UNCHANGED handlerVars /\ UNCHANGED modemVars /\ Publish(m) BY DEF DispatchOwn
<1>8. inbox' = inbox BY <1>7 DEF handlerVars
<1>9. Free(m, inbox[m], outbox[m]) => Free(m, inbox[m], outbox[m])'
    BY <1>6, <1>8 DEF Free
<1>10. ASSUME NEW a \in Apns, WorksFor(m, a, inbox[m], outbox[m])
       PROVE  WorksFor(m, a, inbox[m], outbox[m])'
    <2> DEFINE b == inbox[m]
    <2>1. b = inbox'[m] BY <1>8
    <2>2. WorksFor(m, a, b, outbox[m]) BY <1>10
    <2> HIDE DEF b
    <2>3. \A x : WorksFor(m, a, x, outbox[m]) => WorksFor(m, a, x, outbox[m])' BY <1>6
    <2> QED BY <2>1, <2>2, <2>3 DEF WorksFor, Asked, Running, Ended
<1>11. HandlerInv'
    BY <1>2, <1>3, <1>4, <1>5, <1>7, <1>8, <1>9, <1>10, OutcomeInv DEF handlerVars
<1> QED BY <1>2, <1>11

LEMMA SetCurrentStateInv ==
    ASSUME TypeOK, HandlerInv, NEW m \in Machines, SetCurrentState(m)
    PROVE  HandlerInv' /\ TypeOK'
<1> DEFINE s == HandlerState
<1>1. UNCHANGED vars /\ UNCHANGED handlerVars /\ UNCHANGED modemVars BY DEF SetCurrentState
<1>2. Good(s, retryEvents, outbox, UpNow) BY DEF HandlerInv
<1>3. SetHandlerState(s) BY <1>1 DEF SetHandlerState, HandlerState, handlerVars
<1> HIDE DEF s
<1>4. Good(HandlerState, retryEvents, outbox, UpNow)'
    BY <1>1, <1>2, <1>3, HandlerGood DEF vars, machineVars, handlerVars
<1>5. \A k \in Machines : Quiet(k)' BY <1>1 DEF HandlerInv, Quiet, vars, machineVars
<1>6. RestTypeOK'
    BY <1>1 DEF SetCurrentState, HandlerInv, RestTypeOK, TypeOK, States, handlerVars, modemVars
<1>7. TypeOK' BY <1>1 DEF vars, machineVars, radioVars, TypeOK
<1> QED BY <1>4, <1>5, <1>6, <1>7 DEF HandlerInv

-----------------------------------------------------------------------------
(* The invariant holds, and with it what it was made for. *)

LEMMA HandlerInvInit == HandlerInit => TypeOK /\ HandlerInv
<1> SUFFICES ASSUME HandlerInit PROVE TypeOK /\ HandlerInv
    OBVIOUS
<1> USE DEF HandlerInit
<1> DEFINE s == HandlerState
<1>1. TypeOK BY InitTypeOK
<1>2. /\ s.st = [a \in Apns |-> "IDLE"] /\ s.sm = [a \in Apns |-> NoMachine]
      /\ s.box = [m \in Machines |-> <<>>]
    BY DEF HandlerState
<1>3. s \in HandlerStates
    <2>1. <<>> \in Seq(Sent) /\ <<>> \in Seq(Machines) OBVIOUS
    <2> QED BY <2>1 DEF HandlerState, HandlerStates, ApnStates
<1> HIDE DEF s
<1>4. Owned(s) /\ AtMostOne(s) /\ Scheduled(s, retryEvents) /\ Upheld(s, UpNow)
    BY <1>2 DEF Owned, AtMostOne, Scheduled, Upheld
<1>5. \A m \in Machines : Free(m, <<>>, outbox[m]) BY QuietSeqs DEF Init, Free
<1>6. \A m \in Machines : m # NoMachine BY ConstantsAssumption
<1>7. Working(s, outbox) BY <1>2, <1>5, <1>6 DEF Working
<1>8. \A m \in Machines : Quiet(m) BY QuietSeqs DEF Init, Quiet
<1>9. RestTypeOK BY DEF Init, RestTypeOK, States
<1> QED BY <1>1, <1>3, <1>4, <1>7, <1>8, <1>9 DEF HandlerInv, Good, s

LEMMA HandlerInvNext == TypeOK /\ HandlerInv /\ [HandlerNext]_allVars => (TypeOK /\ HandlerInv)'
<1> SUFFICES ASSUME TypeOK, HandlerInv, [HandlerNext]_allVars PROVE TypeOK' /\ HandlerInv'
    OBVIOUS
<1>1. CASE HandlerStep /\ UNCHANGED currentState BY <1>1, HandlerStepInv
<1>2. CASE ModemStep /\ UNCHANGED currentState BY <1>2, ModemStepInv
<1>3. CASE \E m \in Machines : DispatchInbox(m) \/ DispatchOwn(m) \/ SetCurrentState(m)
    BY <1>3, DispatchInboxInv, DispatchOwnInv, SetCurrentStateInv
<1>4. CASE UNCHANGED allVars
    <2> DEFINE s == HandlerState
    <2>1. UNCHANGED vars /\ UNCHANGED handlerVars /\ UNCHANGED modemVars /\ UNCHANGED currentState
        BY <1>4 DEF allVars
    <2>2. Good(s, retryEvents, outbox, UpNow) BY DEF HandlerInv
    <2>3. SetHandlerState(s) BY <2>1 DEF SetHandlerState, HandlerState, handlerVars
    <2> HIDE DEF s
    <2>4. Good(HandlerState, retryEvents, outbox, UpNow)'
        BY <2>1, <2>2, <2>3, HandlerGood DEF vars, machineVars, handlerVars
    <2>5. HandlerInv'
        BY <2>1, <2>4, Standstill DEF HandlerInv, RestTypeOK, vars, handlerVars, modemVars
    <2>6. TypeOK' BY <2>1 DEF vars, machineVars, radioVars, TypeOK
    <2> QED BY <2>5, <2>6
<1> QED BY <1>1, <1>2, <1>3, <1>4 DEF HandlerNext

\* The history holds machines: only dispatches and ends change it.
LEMMA DisplacedAlways == HandlerSpec => [](displaced \subseteq Machines)
<1>1. HandlerInit => displaced \subseteq Machines BY DEF HandlerInit
<1>2. displaced \subseteq Machines /\ [HandlerNext]_allVars => (displaced \subseteq Machines)'
    <2> SUFFICES ASSUME displaced \subseteq Machines, [HandlerNext]_allVars
                 PROVE  displaced' \subseteq Machines
        OBVIOUS
    <2>1. CASE HandlerStep
        <3>1. ASSUME NEW m \in Machines, NEW allow, DisconnectDataComplete(m, allow)
              PROVE  displaced' \subseteq Machines
            BY <3>1 DEF DisconnectDataComplete, MappedTo
        <3>2. CASE UNCHANGED displaced BY <3>2
        <3> QED BY <2>1, <3>1, <3>2 DEF HandlerStep, RequestNetwork, MsgEstablishDataConnection,
                  RetryToSetupDatacall, EstablishDataConnectionComplete, ClearAll, EstablishAll,
                  HandleApnChanged, OnRilAdapterHostDied
    <2>2. CASE ModemStep
        BY <2>2 DEF ModemStep, RadioDataCallListChanged, ModemDropsContext, ModemAnswersSetup,
                    ModemDeactivates
    <2>3. CASE \E m \in Machines : DispatchInbox(m) \/ DispatchOwn(m) \/ SetCurrentState(m)
        BY <2>3 DEF DispatchInbox, DispatchOwn, SetCurrentState, Displace
    <2>4. CASE UNCHANGED allVars BY <2>4 DEF allVars
    <2> QED BY <2>1, <2>2, <2>3, <2>4 DEF HandlerNext
<1> QED BY <1>1, <1>2, PTL DEF HandlerSpec

LEMMA HandlerInvAlways == HandlerSpec => [](TypeOK /\ HandlerInv)
BY HandlerInvInit, HandlerInvNext, PTL DEF HandlerSpec

\* What HandlerInv says in terms of the variables.
LEMMA HandlerInvFacts ==
    ASSUME TypeOK, HandlerInv
    PROVE  /\ displaced \subseteq Machines => HandlerTypeOK
           /\ OwnerOfEveryCall /\ RetryIsScheduled /\ ConnectFindsInactive /\ SingleCall
<1>1. /\ HandlerState.st = apnState /\ HandlerState.sm = stateMachine
      /\ HandlerState.en = dataCallEnabled /\ HandlerState.est = establishEvents
      /\ HandlerState.box = inbox /\ HandlerState.mk = machines
    BY DEF HandlerState
<1>2. /\ HandlerState \in HandlerStates /\ Owned(HandlerState) /\ Working(HandlerState, outbox)
      /\ AtMostOne(HandlerState) /\ Scheduled(HandlerState, retryEvents)
    BY DEF HandlerInv, Good
<1>3. /\ displaced \subseteq Machines => HandlerTypeOK
      /\ inbox \in [Machines -> Seq(Event)]
    <2>1. Range(machines) \subseteq Machines BY <1>1, <1>2 DEF HandlerStates, Range
    <2>2. inbox \in [Machines -> Seq(Event)] BY <1>1, <1>2, SentSeq DEF HandlerStates
    <2> QED BY <1>1, <1>2, <2>1, <2>2 DEF HandlerTypeOK, HandlerStates, HandlerInv, RestTypeOK, States
<1>4. \A m \in Machines : inbox[m] \in Seq(Event) /\ outbox[m] \in Seq(Report)
    BY <1>3 DEF TypeOK
<1>5. \A m \in Machines : /\ (\A a \in Apns : stateMachine[a] # m) => Free(m, inbox[m], outbox[m])
                         /\ \A a \in Apns : stateMachine[a] = m => WorksFor(m, a, inbox[m], outbox[m])
    BY <1>1, <1>2 DEF Working
<1>6. ASSUME NEW m \in Machines
      PROVE  AtWork(m) <=> \/ curState[m] # "Inactive" \/ HasConnect(inbox[m])
                           \/ \E i \in 1 .. Len(outbox[m]) : outbox[m][i].kind = "DISCONNECTED"
    <2>1. DOMAIN inbox[m] = 1 .. Len(inbox[m]) /\ DOMAIN outbox[m] = 1 .. Len(outbox[m]) BY <1>4
    <2> QED BY <2>1 DEF AtWork, HasConnect
<1>7. ASSUME NEW m \in Machines PROVE AtWork(m) <=> \E a \in Apns : stateMachine[a] = m
    <2>1. ASSUME NEW a \in Apns, WorksFor(m, a, inbox[m], outbox[m]) PROVE AtWork(m)
        <3>1. CASE Asked(m, a, inbox[m], outbox[m]) BY <1>6, <3>1 DEF Asked, OneConnect
        <3>2. CASE Running(m, a, inbox[m], outbox[m]) BY <1>6, <3>2 DEF Running
        <3>3. CASE Ended(m, a, inbox[m], outbox[m])
            <4>1. Len(outbox[m]) \in 1 .. Len(outbox[m]) BY <1>4, <3>3 DEF Ended
            <4> QED BY <1>6, <3>3, <4>1 DEF Ended
        <3> QED BY <2>1, <3>1, <3>2, <3>3 DEF WorksFor
    <2>2. Free(m, inbox[m], outbox[m]) => ~AtWork(m) BY <1>6 DEF Free
    <2> QED BY <1>5, <2>1, <2>2
<1>8. \A a \in Apns, m \in Machines : stateMachine[a] = m /\ curState[m] # "Inactive" => apnId[m] = a
    BY <1>5 DEF WorksFor, Asked, Running, Ended
<1>9. OwnerOfEveryCall BY <1>1, <1>2, <1>7, <1>8 DEF OwnerOfEveryCall, Owned
<1>10. RetryIsScheduled BY <1>1, <1>2 DEF RetryIsScheduled, Scheduled
<1>11. SingleCall BY <1>1, <1>2 DEF SingleCall, AtMostOne
<1>12. ConnectFindsInactive
    <2> SUFFICES ASSUME NEW m \in Machines, inbox[m] # <<>>, Head(inbox[m]).code = "CONNECT"
                 PROVE  curState[m] = "Inactive"
        BY DEF ConnectFindsInactive
    <2>1. HasConnect(inbox[m]) BY <1>4, TailOther
    <2> QED BY <1>5, <2>1 DEF Free, WorksFor, Asked, Running, Ended
<1> QED BY <1>3, <1>9, <1>10, <1>11, <1>12

\* The holders, the machines' inboxes, the manager's list and the modem's contexts
\* always hold values of their types.
THEOREM HandlerTypeCorrect == HandlerSpec => []HandlerTypeOK
<1>1. TypeOK /\ HandlerInv /\ displaced \subseteq Machines => HandlerTypeOK BY HandlerInvFacts
<1> QED BY <1>1, HandlerInvAlways, DisplacedAlways, PTL

\* A holder owns a machine exactly while it is neither idle nor waiting to retry; no
\* machine has two owners, and every machine at work has one and works for its APN.
THEOREM EveryCallHasOwner == HandlerSpec => []OwnerOfEveryCall
BY HandlerInvAlways, HandlerInvFacts, PTL

\* The machine that FindIdleCellularDataConnection or CreateCellularDataConnect gave
\* to a holder is Inactive when it takes the CONNECT.
THEOREM ConnectAlwaysFindsInactive == HandlerSpec => []ConnectFindsInactive
BY HandlerInvAlways, HandlerInvFacts, PTL

\* With IsSingleConnectionEnabled at most one holder has a call.
THEOREM AlwaysSingleCall == HandlerSpec => []SingleCall
BY HandlerInvAlways, HandlerInvFacts, PTL

\* A holder in PROFILE_STATE_RETRYING has its MSG_RETRY_TO_SETUP_DATACALL pending.
THEOREM RetryAlwaysScheduled == HandlerSpec => []RetryIsScheduled
BY HandlerInvAlways, HandlerInvFacts, PTL
-----------------------------------------------------------------------------
(* The link.  A call is in the manager's map under the cid its machine holds, *)
(* and the physical link is that of the calls, with any modem.  One call can  *)
(* leave the map for another: it is displaced until its own end is handled.   *)

\* An answer that connects a machine has the cid of a context.
Grants(x) == x.code = "SETUP" /\ x.result = "active" => x.cid \in Cids

AllGrant(s) == \A i \in 1 .. Len(s) : Grants(s[i])

CidInv ==
    \A m \in Machines : /\ AllGrant(immediate[m]) /\ AllGrant(deferEvents[m])
                        /\ \A x \in queue[m] : Grants(x)

Linked(m) == cid[m] \in Cids /\ activeByCid[cid[m]] = m

Kept(m) == m \in displaced \/ Linked(m)

HasEstablished(o) == \E i \in 1 .. Len(o) : o[i].kind = "ESTABLISHED"

\* A machine has a call, or has ended one and its report waits.
InUse(m) == curState[m] \in Connected \/ outbox[m] # <<>>

\* A machine is in the map from its connection until the handler hears of its end, and
\* so is the machine of a holder that is connected, which runs no new cycle.  What the
\* map has is in use under its own cid, and so is something while the link is up.
LinkInv ==
    /\ \A m \in Machines : curState[m] \in Connected \/ HasEstablished(outbox[m]) => Kept(m)
    /\ \A a \in Apns : apnState[a] = "CONNECTED" =>
          /\ (physicalActive /\ Linked(stateMachine[a])) \/ stateMachine[a] \in displaced
          /\ InUse(stateMachine[a])
    /\ \A c \in Cids, m \in Machines : activeByCid[c] = m => cid[m] = c /\ InUse(m)
    /\ physicalActive => \E m \in Machines : InUse(m)

\* What a dispatch takes: an event that was re-sent, one from the queue, or a command.
Picked(m, e, rest) ==
    \/ /\ immediate[m] # <<>> /\ e = Head(immediate[m])
       /\ rest.imm = Tail(immediate[m]) /\ rest.queue = queue[m]
    \/ rest.imm = <<>> /\ e \in queue[m] /\ rest.queue = queue[m] \ {e}
    \/ rest.imm = <<>> /\ e.code # "SETUP" /\ rest.queue = queue[m]

LEMMA GrantEmpty == AllGrant(<<>>)
BY DEF AllGrant

LEMMA GrantJoin ==
    ASSUME NEW s \in Seq(Event), NEW u \in Seq(Event), AllGrant(s), AllGrant(u)
    PROVE  AllGrant(s \o u)
<1>1. /\ Len(s) \in Nat /\ Len(u) \in Nat /\ Len(s \o u) = Len(s) + Len(u)
      /\ \A i \in 1 .. Len(s) + Len(u) :
            (s \o u)[i] = IF i <= Len(s) THEN s[i] ELSE u[i - Len(s)]
    BY ConcatProperties
<1> SUFFICES ASSUME NEW i \in 1 .. Len(s) + Len(u) PROVE Grants((s \o u)[i])
    BY <1>1 DEF AllGrant
<1>2. CASE i <= Len(s)
    <2>1. i \in 1 .. Len(s) /\ (s \o u)[i] = s[i] BY <1>1, <1>2
    <2> QED BY <2>1 DEF AllGrant
<1>3. CASE ~(i <= Len(s))
    <2>1. i - Len(s) \in 1 .. Len(u) /\ (s \o u)[i] = u[i - Len(s)] BY <1>1, <1>3
    <2> QED BY <2>1 DEF AllGrant
<1> QED BY <1>2, <1>3

LEMMA GrantAppend ==
    ASSUME NEW s \in Seq(Event), NEW e \in Event, AllGrant(s), Grants(e)
    PROVE  Append(s, e) \in Seq(Event) /\ AllGrant(Append(s, e))
<1> DEFINE t == Append(s, e)
<1>1. /\ t \in Seq(Event) /\ Len(s) \in Nat /\ Len(t) = Len(s) + 1 /\ t[Len(s) + 1] = e
      /\ \A i \in 1 .. Len(s) : t[i] = s[i]
    OBVIOUS
<1> HIDE DEF t
<1>2. \A i \in 1 .. Len(t) : i \in 1 .. Len(s) \/ t[i] = e BY <1>1
<1>3. AllGrant(t) BY <1>1, <1>2 DEF AllGrant
<1> QED BY <1>1, <1>3 DEF t

LEMMA GrantTail ==
    ASSUME NEW s \in Seq(Event), s # <<>>, AllGrant(s)
    PROVE  AllGrant(Tail(s)) /\ Grants(Head(s))
<1>1. /\ Len(s) \in Nat /\ Len(s) >= 1 /\ Head(s) = s[1] /\ Len(Tail(s)) = Len(s) - 1
      /\ \A i \in 1 .. Len(Tail(s)) : Tail(s)[i] = s[i + 1]
    BY HeadTailProperties
<1>2. \A i \in 1 .. Len(Tail(s)) : i + 1 \in 1 .. Len(s) BY <1>1
<1>3. 1 \in 1 .. Len(s) BY <1>1
<1> QED BY <1>1, <1>2, <1>3 DEF AllGrant

LEMMA PickedGrants ==
    ASSUME TypeOK, CidInv, NEW m \in Machines, NEW e \in Event, NEW rest \in Rests,
           Picked(m, e, rest)
    PROVE  rest.queue \subseteq queue[m] /\ AllGrant(rest.imm) /\ Grants(e)
<1>a. immediate[m] \in Seq(Event) /\ AllGrant(immediate[m]) /\ \A x \in queue[m] : Grants(x)
    BY DEF TypeOK, CidInv
<1>1. CASE /\ immediate[m] # <<>> /\ e = Head(immediate[m])
           /\ rest.imm = Tail(immediate[m]) /\ rest.queue = queue[m]
    BY <1>a, <1>1, GrantTail
<1>2. CASE rest.imm = <<>> /\ e \in queue[m] /\ rest.queue = queue[m] \ {e}
    BY <1>a, <1>2, GrantEmpty
<1>3. CASE rest.imm = <<>> /\ e.code # "SETUP" /\ rest.queue = queue[m]
    BY <1>3, GrantEmpty DEF Grants
<1> QED BY <1>1, <1>2, <1>3 DEF Picked

LEMMA OutcomeCid ==
    ASSUME TypeOK, CidInv, NEW m \in Machines, NEW e \in Event, NEW rest \in Rests,
           Picked(m, e, rest), Outcome(m, e, rest)
    PROVE  CidInv'
<1>a. rest.queue \subseteq queue[m] /\ AllGrant(rest.imm) /\ Grants(e) BY PickedGrants
<1>b. /\ \A k \in Machines \ {m} : /\ deferEvents'[k] = deferEvents[k]
                                   /\ immediate'[k] = immediate[k] /\ queue'[k] = queue[k]
      /\ \A x \in queue'[m] : x.code = "SETUP" => x \in queue[m]
    BY <1>a, OutcomeFrame
<1>c. /\ rest.imm \in Seq(Event) /\ deferEvents[m] \in Seq(Event) /\ AllGrant(deferEvents[m])
    BY DEF Rests, TypeOK, CidInv
<1>1. Append(deferEvents[m], e) \in Seq(Event) /\ AllGrant(Append(deferEvents[m], e))
    BY <1>a, <1>c, GrantAppend
<1>2. AllGrant(immediate'[m]) /\ AllGrant(deferEvents'[m])
    <2> DEFINE d == Append(deferEvents[m], e)
    <2>0. d \in Seq(Event) /\ AllGrant(d) BY <1>1
    <2>1. CASE Waits(m, e, rest) \/ Establishes(m, e, rest)
        <3>1. immediate'[m] = rest.imm BY <2>1 DEF Waits, Establishes, TypeOK
        <3>2. deferEvents'[m] = deferEvents[m] \/ deferEvents'[m] = d
            BY <2>1 DEF Waits, Establishes, TypeOK
        <3> QED BY <1>a, <1>c, <2>0, <3>1, <3>2
    <2>2. CASE Opens(m, e, rest) \/ Closes(m, e, rest) \/ Ends(m, e, rest)
        <3>1. immediate'[m] = rest.imm \o deferEvents[m] /\ deferEvents'[m] = <<>>
            BY <2>2 DEF Opens, Closes, Ends, Moves, TypeOK
        <3> QED BY <1>a, <1>c, <3>1, GrantEmpty, GrantJoin
    <2>3. CASE Connects(m, e, rest)
        <3>1. immediate'[m] = rest.imm \o d /\ deferEvents'[m] = <<>>
            BY <2>3 DEF Connects, Moves, TypeOK
        <3> HIDE DEF d
        <3> QED BY <1>a, <1>c, <2>0, <3>1, GrantEmpty, GrantJoin
    <2> QED BY <2>1, <2>2, <2>3 DEF Outcome
<1>3. \A x \in queue'[m] : Grants(x) BY <1>b DEF CidInv, Grants
<1> QED BY <1>b, <1>2, <1>3 DEF CidInv

LEMMA OwnersFacts ==
    ASSUME HandlerInv, NEW a \in Apns, apnState[a] = "CONNECTED"
    PROVE  /\ stateMachine[a] \in Machines
           /\ \A b \in Apns : stateMachine[b] = stateMachine[a] => b = a
<1>1. HandlerState.sm = stateMachine /\ HandlerState.st = apnState BY DEF HandlerState
<1>2. /\ stateMachine \in [Apns -> Machines \cup {NoMachine}]
      /\ stateMachine[a] = NoMachine <=> apnState[a] \in {"IDLE", "RETRYING"}
      /\ \A b \in Apns : stateMachine[b] = stateMachine[a] /\ stateMachine[b] # NoMachine => b = a
    BY <1>1 DEF HandlerInv, Good, HandlerStates, Owned
<1> QED BY <1>2

\* A machine that waits for its set-up has reported nothing in this cycle.
LEMMA ActivatingIsSilent ==
    ASSUME HandlerInv, NEW m \in Machines, curState[m] = "Activating"
    PROVE  outbox[m] = <<>>
<1>1. HandlerState.sm = stateMachine /\ HandlerState.box = inbox BY DEF HandlerState
<1>2. /\ (\A a \in Apns : stateMachine[a] # m) => Free(m, inbox[m], outbox[m])
      /\ \A a \in Apns : stateMachine[a] = m => WorksFor(m, a, inbox[m], outbox[m])
    BY <1>1 DEF HandlerInv, Good, Working
<1> QED BY <1>2 DEF Free, WorksFor, Asked, Running, Ended

\* A CONNECT that a machine takes came from its inbox, so it has nothing left to report.
LEMMA OpensIsSilent ==
    ASSUME TypeOK, HandlerInv', NEW m \in Machines, NEW e, NEW rest, Opens(m, e, rest)
    PROVE  outbox[m] = <<>> /\ outbox'[m] = <<>>
<1>1. HandlerState'.sm = stateMachine' /\ HandlerState'.box = inbox' BY DEF HandlerState
<1>2. Working(HandlerState, outbox)' BY DEF HandlerInv, Good
<1>3. /\ (\A a \in Apns : stateMachine'[a] # m) => Free(m, inbox[m], outbox[m])'
      /\ \A a \in Apns : stateMachine'[a] = m => WorksFor(m, a, inbox[m], outbox[m])'
    BY <1>1, <1>2 DEF Working
<1>4. curState'[m] = "Activating" /\ outbox' = outbox BY DEF Opens, Moves, TypeOK
<1> QED BY <1>3, <1>4 DEF Free, WorksFor, Asked, Running, Ended

\* A step of machine m.  Its connection may take the entry of another call, which is
\* displaced then; nothing else of the others changes.
LEMMA OutcomeLink ==
    ASSUME TypeOK, HandlerInv, HandlerInv', CidInv, LinkInv, NEW m \in Machines,
           NEW e \in Event, NEW rest \in Rests, Picked(m, e, rest), Outcome(m, e, rest),
           Displace(m), UNCHANGED <<apnState, stateMachine, physicalActive>>
    PROVE  LinkInv'
<1>0. m # NoMachine BY ConstantsAssumption
<1>a. \A k \in Machines \ {m} : /\ curState'[k] = curState[k] /\ outbox'[k] = outbox[k]
                                /\ cid'[k] = cid[k] /\ (InUse(k)' <=> InUse(k))
    BY OutcomeFrame DEF InUse
<1>b. displaced \subseteq displaced' BY DEF Displace
<1>c. Connects(m, e, rest) => e.cid \in Cids BY PickedGrants DEF Connects, Grants
<1>d. \/ UNCHANGED activeByCid
      \/ Connects(m, e, rest) /\ activeByCid' = [activeByCid EXCEPT ![e.cid] = m]
    BY DEF Outcome, Waits, Opens, Connects, Establishes, Closes, Ends
<1>e. ASSUME NEW k \in Machines \ {m} PROVE Linked(k) => Kept(k)'
    <2>1. CASE UNCHANGED activeByCid BY <1>a, <2>1 DEF Linked, Kept
    <2>2. CASE Connects(m, e, rest) /\ activeByCid' = [activeByCid EXCEPT ![e.cid] = m]
        <3>1. CASE Linked(k) /\ cid[k] = e.cid
            BY <1>c, <2>2, <3>1 DEF Linked, Displace, Kept, TypeOK
        <3>2. CASE Linked(k) /\ cid[k] # e.cid
            BY <1>a, <1>c, <2>2, <3>2 DEF Linked, Kept, TypeOK
        <3> QED BY <3>1, <3>2
    <2> QED BY <1>d, <2>1, <2>2
<1>f. \A k \in Machines \ {m} : Kept(k) => Kept(k)' BY <1>b, <1>e DEF Kept
<1>g. curState[m] \in Connected \/ HasEstablished(outbox[m]) => Kept(m) BY DEF LinkInv
<1>h. ASSUME /\ curState'[m] \in Connected \/ HasEstablished(outbox'[m]) => Kept(m)'
             /\ InUse(m) => InUse(m)' /\ (Linked(m) => Kept(m)')
             /\ \A c \in Cids : activeByCid'[c] = m => cid'[m] = c /\ InUse(m)'
      PROVE  LinkInv'
    <2>1. \A k \in Machines : curState'[k] \in Connected \/ HasEstablished(outbox'[k]) => Kept(k)'
        BY <1>a, <1>f, <1>h DEF LinkInv
    <2>2. ASSUME NEW a \in Apns, apnState'[a] = "CONNECTED"
          PROVE  /\ (physicalActive' /\ Linked(stateMachine[a])') \/ stateMachine'[a] \in displaced'
                 /\ InUse(stateMachine[a])'
        <3>1. apnState[a] = "CONNECTED" BY <2>2
        <3>2. PICK k \in Machines : stateMachine[a] = k BY <3>1, OwnersFacts
        <3>3. ((physicalActive /\ Linked(k)) \/ k \in displaced) /\ InUse(k)
            BY <3>1, <3>2 DEF LinkInv
        <3>4. (Linked(k) => Kept(k)') /\ InUse(k)' BY <1>a, <1>e, <1>h, <3>3
        <3>5. ((physicalActive' /\ Linked(k)') \/ k \in displaced') /\ InUse(k)'
            BY <1>b, <3>3, <3>4 DEF Kept
        <3> QED BY <3>2, <3>5 DEF Linked, InUse
    <2>3. ASSUME NEW c \in Cids, NEW k \in Machines, activeByCid'[c] = k
          PROVE  cid'[k] = c /\ InUse(k)'
        <3>1. CASE k = m BY <1>h, <2>3, <3>1
        <3>2. CASE k # m
            <4>1. activeByCid[c] = k BY <1>c, <1>d, <2>3, <3>2 DEF TypeOK
            <4>2. cid[k] = c /\ InUse(k) BY <4>1 DEF LinkInv
            <4> QED BY <1>a, <3>2, <4>2
        <3> QED BY <3>1, <3>2
    <2>4. physicalActive' => \E k \in Machines : InUse(k)'
        BY <1>a, <1>h DEF LinkInv
    <2> QED BY <2>1, <2>2, <2>3, <2>4 DEF LinkInv
<1>i. \A c \in Cids : activeByCid[c] = m => cid[m] = c /\ InUse(m) BY DEF LinkInv
<1>1. CASE Waits(m, e, rest)
    <2>1. UNCHANGED <<curState, cid, activeByCid, outbox>> BY <1>1 DEF Waits
    <2>2. /\ (Kept(m) => Kept(m)') /\ (Linked(m) => Kept(m)')
          /\ (InUse(m) <=> InUse(m)')
        BY <1>b, <2>1 DEF Kept, Linked, InUse
    <2> QED BY <1>g, <1>h, <1>i, <2>1, <2>2
<1>2. CASE Opens(m, e, rest)
    <2>1. outbox[m] = <<>> /\ outbox'[m] = <<>> BY <1>2, OpensIsSilent
    <2>2. /\ curState[m] = "Inactive" /\ curState'[m] = "Activating"
          /\ UNCHANGED <<cid, activeByCid>>
        BY <1>2 DEF Opens, Moves, TypeOK
    <2>3. ~InUse(m) /\ (Linked(m) => Kept(m)')
        BY <2>1, <2>2 DEF Connected, InUse, Linked, Kept
    <2>4. curState'[m] \notin Connected /\ ~HasEstablished(outbox'[m])
        BY <2>1, <2>2 DEF HasEstablished, Connected
    <2> QED BY <1>h, <1>i, <2>2, <2>3, <2>4
<1>3. CASE Connects(m, e, rest)
    <2>1. /\ curState[m] = "Activating" /\ curState'[m] = "Active" /\ cid'[m] = e.cid
          /\ activeByCid' = [activeByCid EXCEPT ![e.cid] = m]
        BY <1>3 DEF Connects, Moves, TypeOK
    <2>2. outbox[m] = <<>> BY <2>1, ActivatingIsSilent
    <2>3. Linked(m)' BY <1>c, <1>3, <2>1 DEF TypeOK, Linked
    <2>4. ~InUse(m) /\ InUse(m)' BY <2>1, <2>2 DEF Connected, InUse
    <2>5. \A c \in Cids : activeByCid'[c] = m => c = e.cid
        BY <1>c, <1>3, <1>i, <2>1, <2>4 DEF TypeOK
    <2> QED BY <1>h, <2>1, <2>3, <2>4, <2>5 DEF Kept
<1>4. CASE Establishes(m, e, rest) \/ Closes(m, e, rest)
    <2>1. curState[m] = "Active" /\ UNCHANGED <<cid, activeByCid>> BY <1>4 DEF Establishes, Closes
    <2>2. curState'[m] \in Connected BY <1>4, <2>1 DEF Establishes, Closes, Moves, TypeOK, Connected
    <2>3. Kept(m)' BY <1>b, <1>g, <2>1 DEF Connected, Kept, Linked
    <2>4. InUse(m)' BY <2>2 DEF InUse
    <2> QED BY <1>h, <1>i, <2>1, <2>3, <2>4
<1>5. CASE Ends(m, e, rest)
    <2>1. PICK c, reason : outbox' = [outbox EXCEPT ![m] = Append(@, Disconnected(m, c, reason))]
        BY <1>5 DEF Ends
    <2>2. /\ Len(outbox[m]) \in Nat /\ Len(outbox'[m]) = Len(outbox[m]) + 1 /\ outbox'[m] # <<>>
          /\ outbox'[m][Len(outbox'[m])] = Disconnected(m, c, reason)
          /\ \A i \in 1 .. Len(outbox[m]) : outbox'[m][i] = outbox[m][i]
        BY <2>1, AppendReport
    <2>3. Disconnected(m, c, reason).kind # "ESTABLISHED" BY DEF Disconnected
    <2>4. \A i \in 1 .. Len(outbox'[m]) : i \in 1 .. Len(outbox[m]) \/ i = Len(outbox'[m]) BY <2>2
    <2>5. HasEstablished(outbox'[m]) => HasEstablished(outbox[m])
        BY <2>2, <2>3, <2>4 DEF HasEstablished
    <2>6. curState'[m] \notin Connected /\ UNCHANGED activeByCid
        BY <1>5 DEF Ends, Moves, TypeOK, Connected
    <2>7. InUse(m)' BY <2>2 DEF InUse
    <2>8. CASE UNCHANGED cid
        <3>1. (Kept(m) => Kept(m)') /\ (Linked(m) => Kept(m)') BY <1>b, <2>6, <2>8 DEF Kept, Linked
        <3> QED BY <1>g, <1>h, <1>i, <2>5, <2>6, <2>7, <2>8, <3>1
    <2>9. CASE e.code = "SETUP"
        <3>1. curState[m] = "Activating" BY <1>5, <2>9 DEF Ends
        <3>2. outbox[m] = <<>> BY <3>1, ActivatingIsSilent
        <3>3. ~HasEstablished(outbox[m]) /\ ~InUse(m)
            BY <3>1, <3>2 DEF HasEstablished, Connected, InUse
        <3>4. \A c2 \in Cids : activeByCid[c2] # m BY <1>i, <3>3
        <3>5. ~Linked(m) BY <3>4 DEF Linked
        <3> QED BY <1>h, <2>5, <2>6, <2>7, <3>3, <3>4, <3>5
    <2> QED BY <1>5, <2>8, <2>9 DEF Ends
<1> QED BY <1>1, <1>2, <1>3, <1>4, <1>5 DEF Outcome

\* Steps that leave the machines and the link alone ...
LEMMA StillLinked ==
    ASSUME HandlerInv, CidInv, LinkInv, KeepsCalls(UpNow),
           UNCHANGED <<vars, physicalActive, displaced>>
    PROVE  CidInv' /\ LinkInv'
<1>1. CidInv' BY DEF vars, machineVars, CidInv
<1>2. \A a \in Apns : apnState'[a] = "CONNECTED" =>
         apnState[a] = "CONNECTED" /\ stateMachine'[a] = stateMachine[a]
    BY DEF KeepsCalls, UpNow
<1>3. UNCHANGED <<curState, outbox, cid, activeByCid, physicalActive, displaced>>
    BY DEF vars, machineVars
<1>4. LinkInv' BY <1>2, <1>3 DEF LinkInv, Linked, Kept, InUse
<1> QED BY <1>1, <1>4

LEMMA UnchangedKeepsCalls ==
    ASSUME HandlerInv, UNCHANGED <<apnState, stateMachine>>
    PROVE  KeepsCalls(UpNow)
<1>1. \A a \in Apns : apnState[a] = "CONNECTED" => stateMachine[a] \in Machines BY OwnersFacts
<1> QED BY <1>1, ConstantsAssumption DEF KeepsCalls, UpNow

\* ... and the reports: a call that is up, ...
LEMMA EstablishKeepsLink ==
    ASSUME TypeOK, HandlerInv, CidInv, LinkInv, NEW m \in Machines,
           EstablishDataConnectionComplete(m), UNCHANGED currentState
    PROVE  CidInv' /\ LinkInv'
<1> DEFINE a == Head(outbox[m]).apn
<1>1. /\ outbox[m] # <<>> /\ outbox' = [outbox EXCEPT ![m] = Tail(@)]
      /\ Head(outbox[m]).kind = "ESTABLISHED" /\ physicalActive'
      /\ UNCHANGED <<machineVars, linkCallback, radioVars, activeByCid, displaced>>
    BY DEF EstablishDataConnectionComplete, TakeReport
<1>2. /\ a \in Apns /\ stateMachine[a] = m /\ curState[m] # "Activating"
      /\ Running(m, a, inbox[m], Tail(outbox[m])) \/ Ended(m, a, inbox[m], Tail(outbox[m]))
    BY <1>1, ReportOwner
<1>3. curState[m] \in Connected \/ Tail(outbox[m]) # <<>>
    BY <1>2 DEF Running, Ended, TypeOK, Connected
<1>4. \A b \in Apns : apnState'[b] = "CONNECTED" =>
         stateMachine'[b] = [UpNow EXCEPT ![a] = m][b] /\ [UpNow EXCEPT ![a] = m][b] # NoMachine
    BY EstablishDataConnectionCompleteInv DEF KeepsCalls
<1> HIDE DEF a
<1>5. \A b \in Apns : apnState'[b] = "CONNECTED" =>
         IF b = a THEN stateMachine'[b] = m
         ELSE apnState[b] = "CONNECTED" /\ stateMachine'[b] = stateMachine[b]
    BY <1>4 DEF UpNow
<1>6. \A k \in Machines : outbox'[k] = IF k = m THEN Tail(outbox[m]) ELSE outbox[k]
    BY <1>1 DEF TypeOK
<1>7. HasEstablished(outbox[m])
    <2>1. outbox[m] \in Seq(Report) BY DEF TypeOK
    <2>2. 1 \in 1 .. Len(outbox[m]) /\ outbox[m][1] = Head(outbox[m]) BY <1>1, <2>1
    <2> QED BY <1>1, <2>2 DEF HasEstablished
<1>8. UNCHANGED <<curState, cid, immediate, deferEvents, queue>> BY <1>1 DEF machineVars
<1>9. CidInv' BY <1>8 DEF CidInv
<1>10. \A k \in Machines : Linked(k)' = Linked(k) /\ Kept(k)' = Kept(k)
    BY <1>1, <1>8 DEF Linked, Kept
<1>11. Kept(m) BY <1>7 DEF LinkInv
<1>12. \A k \in Machines : InUse(k) => InUse(k)' BY <1>3, <1>6, <1>8 DEF InUse
<1>13. InUse(m)' BY <1>3, <1>6, <1>8 DEF InUse
<1>14. \A k \in Machines : curState'[k] \in Connected \/ HasEstablished(outbox'[k]) => Kept(k)'
    BY <1>6, <1>8, <1>10, <1>11 DEF LinkInv
<1>15. ASSUME NEW b \in Apns, apnState'[b] = "CONNECTED"
       PROVE  /\ (physicalActive' /\ Linked(stateMachine[b])') \/ stateMachine'[b] \in displaced'
              /\ InUse(stateMachine[b])'
    <2>1. PICK k \in Machines : stateMachine'[b] = k /\ Kept(k) /\ InUse(k)'
        <3>1. CASE b = a BY <1>5, <1>11, <1>13, <1>15, <3>1
        <3>2. CASE b # a
            <4>1. apnState[b] = "CONNECTED" /\ stateMachine'[b] = stateMachine[b]
                BY <1>5, <1>15, <3>2
            <4>2. PICK k \in Machines : stateMachine[b] = k BY <4>1, OwnersFacts
            <4>3. (Linked(k) \/ k \in displaced) /\ InUse(k) BY <4>1, <4>2 DEF LinkInv
            <4> QED BY <1>12, <4>1, <4>2, <4>3 DEF Kept
        <3> QED BY <3>1, <3>2
    <2>2. Linked(k)' \/ k \in displaced' BY <1>10, <2>1 DEF Kept
    <2> QED BY <1>1, <2>1, <2>2 DEF Linked, InUse
<1>16. \A c \in Cids, k \in Machines : activeByCid'[c] = k => cid'[k] = c /\ InUse(k)'
    BY <1>1, <1>8, <1>12 DEF LinkInv
<1>17. physicalActive' => \E k \in Machines : InUse(k)' BY <1>13
<1> QED BY <1>9, <1>14, <1>15, <1>16, <1>17 DEF LinkInv

\* ... and one that has ended: what it takes out of the map besides itself is displaced.
LEMMA DisconnectKeepsLink ==
    ASSUME TypeOK, HandlerInv, CidInv, LinkInv, NEW m \in Machines, NEW allow,
           DisconnectDataComplete(m, allow), UNCHANGED currentState
    PROVE  CidInv' /\ LinkInv'
<1> DEFINE a == Head(outbox[m]).apn
<1>1. /\ outbox[m] # <<>> /\ outbox' = [outbox EXCEPT ![m] = Tail(@)]
      /\ Head(outbox[m]).kind = "DISCONNECTED"
      /\ UNCHANGED <<machineVars, linkCallback, radioVars>>
    BY DEF DisconnectDataComplete, TakeReport
<1>2. a \in Apns /\ stateMachine[a] = m /\ Free(m, inbox[m], Tail(outbox[m]))
    BY <1>1, ReportOwner
<1>3. m # NoMachine BY ConstantsAssumption
<1>4. /\ RemoveActiveConnectionByCid(cid[m]) /\ UpdatePhysicalConnectionState
      /\ displaced' = (displaced \cup MappedTo(cid[m])) \ {m}
    BY <1>2, <1>3 DEF DisconnectDataComplete
<1>5. \A b \in Apns : apnState'[b] = "CONNECTED" =>
         /\ stateMachine'[b] = [UpNow EXCEPT ![a] = NoMachine][b]
         /\ [UpNow EXCEPT ![a] = NoMachine][b] # NoMachine
    BY DisconnectDataCompleteInv DEF KeepsCalls
<1> HIDE DEF a
<1>6. \A b \in Apns : apnState'[b] = "CONNECTED" =>
         b # a /\ apnState[b] = "CONNECTED" /\ stateMachine'[b] = stateMachine[b]
    BY <1>5 DEF UpNow
<1>7. curState[m] = "Inactive" /\ outbox'[m] = <<>> /\ \A k \in Machines \ {m} : outbox'[k] = outbox[k]
    BY <1>1, <1>2 DEF Free, TypeOK
<1>8. UNCHANGED <<curState, cid, immediate, deferEvents, queue>> BY <1>1 DEF machineVars
<1>9. CidInv' BY <1>8 DEF CidInv
<1>10. ASSUME NEW k \in Machines \ {m}, Kept(k) PROVE Kept(k)'
    <2>1. CASE k \in displaced BY <1>4, <2>1 DEF Kept
    <2>2. CASE Linked(k) /\ cid[k] = cid[m] BY <1>4, <2>2 DEF Linked, MappedTo, Kept
    <2>3. CASE Linked(k) /\ cid[k] # cid[m]
        BY <1>4, <1>8, <2>3 DEF RemoveActiveConnectionByCid, Linked, Kept
    <2> QED BY <1>10, <2>1, <2>2, <2>3 DEF Kept
<1>11. \A k \in Machines : curState'[k] \in Connected \/ HasEstablished(outbox'[k]) => Kept(k)'
    <2>1. ~HasEstablished(outbox'[m]) /\ curState'[m] \notin Connected
        BY <1>7, <1>8 DEF HasEstablished, Connected
    <2>2. \A k \in Machines \ {m} : curState'[k] \in Connected \/ HasEstablished(outbox'[k]) => Kept(k)'
        BY <1>7, <1>8, <1>10 DEF LinkInv
    <2> QED BY <2>1, <2>2
<1>12. \A k \in Machines \ {m} : InUse(k)' = InUse(k) BY <1>7, <1>8 DEF InUse
<1>13. ASSUME NEW b \in Apns, apnState'[b] = "CONNECTED"
       PROVE  /\ (physicalActive' /\ Linked(stateMachine[b])') \/ stateMachine'[b] \in displaced'
              /\ InUse(stateMachine[b])'
    <2>1. b # a /\ apnState[b] = "CONNECTED" /\ stateMachine'[b] = stateMachine[b] BY <1>6, <1>13
    <2>2. PICK k \in Machines \ {m} : stateMachine[b] = k BY <1>2, <2>1, OwnersFacts
    <2>3. (Linked(k) \/ k \in displaced) /\ InUse(k) BY <2>1, <2>2 DEF LinkInv
    <2>4. Kept(k)' /\ InUse(k)' BY <1>10, <1>12, <2>3 DEF Kept
    <2>5. Linked(k)' => physicalActive'
        BY <1>4, ConstantsAssumption DEF Linked, UpdatePhysicalConnectionState
    <2> QED BY <2>1, <2>2, <2>4, <2>5 DEF Kept, Linked, InUse
<1>14. \A c \in Cids : activeByCid'[c] # NoMachine => c # cid[m] /\ activeByCid'[c] = activeByCid[c]
    BY <1>4 DEF RemoveActiveConnectionByCid
<1>15. ASSUME NEW c \in Cids, NEW k \in Machines, activeByCid'[c] = k
       PROVE  cid'[k] = c /\ InUse(k)'
    <2>1. c # cid[m] /\ activeByCid[c] = k BY <1>14, <1>15, ConstantsAssumption
    <2>2. cid[k] = c /\ InUse(k) BY <2>1 DEF LinkInv
    <2>3. k # m BY <2>1, <2>2
    <2> QED BY <1>8, <1>12, <2>2, <2>3
<1>16. physicalActive' => \E k \in Machines : InUse(k)'
    <2> SUFFICES ASSUME physicalActive' PROVE \E k \in Machines : InUse(k)'
        OBVIOUS
    <2>1. PICK c \in Cids : activeByCid'[c] # NoMachine BY <1>4 DEF UpdatePhysicalConnectionState
    <2>2. activeByCid'[c] \in Machines BY <1>14, <2>1 DEF TypeOK
    <2> QED BY <1>15, <2>2
<1> QED BY <1>9, <1>11, <1>13, <1>15, <1>16 DEF LinkInv

\* The radio's answers: a set-up answer that connects has the cid of a context.
LEMMA QueueAdds ==
    ASSUME TypeOK, CidInv, NEW m \in Machines, NEW e \in Event, Grants(e),
           queue' = [queue EXCEPT ![m] = @ \cup {e}], UNCHANGED <<immediate, deferEvents>>
    PROVE  CidInv'
BY DEF TypeOK, CidInv

LEMMA HandlerStepLink ==
    ASSUME TypeOK, HandlerInv, CidInv, LinkInv, HandlerStep, UNCHANGED currentState
    PROVE  CidInv' /\ LinkInv'
<1>1. establishEvents \subseteq Apns /\ retryEvents \subseteq Apns
    BY DEF HandlerInv, RestTypeOK, Good, HandlerStates, HandlerState
<1>2. CASE \E q \in Requests : RequestNetwork(q[1], q[2])
    BY <1>2, RequestNetworkInv, StillLinked DEF RequestNetwork
<1>3. CASE \E a \in establishEvents, outcome \in Outcomes \cup {"notAllowed"}, reason \in DisconnectReasons :
              MsgEstablishDataConnection(a, outcome, reason)
    BY <1>1, <1>3, MsgEstablishDataConnectionInv, StillLinked DEF MsgEstablishDataConnection
<1>4. CASE \E a \in retryEvents : RetryToSetupDatacall(a)
    BY <1>1, <1>4, RetryToSetupDatacallInv, StillLinked DEF RetryToSetupDatacall
<1>5. CASE \E m \in Machines : EstablishDataConnectionComplete(m) BY <1>5, EstablishKeepsLink
<1>6. CASE \E m \in Machines, allow \in [Apns -> Outcomes] : DisconnectDataComplete(m, allow)
    BY <1>6, DisconnectKeepsLink
<1>7. CASE \E reason \in DisconnectReasons : ClearAll(reason)
    BY <1>7, ClearAllInv, StillLinked DEF ClearAll
<1>8. CASE \E allow \in [Apns -> Outcomes] : EstablishAll(allow)
    BY <1>8, EstablishAllInv, StillLinked DEF EstablishAll
<1>9. CASE \E sameApn \in BOOLEAN : HandleApnChanged(sameApn)
    BY <1>9, HandleApnChangedInv, StillLinked DEF HandleApnChanged
<1>10. CASE OnRilAdapterHostDied
    BY <1>10, OnRilAdapterHostDiedInv, StillLinked DEF OnRilAdapterHostDied
<1> QED BY <1>2, <1>3, <1>4, <1>5, <1>6, <1>7, <1>8, <1>9, <1>10 DEF HandlerStep

LEMMA ModemStepLink ==
    ASSUME TypeOK, HandlerInv, CidInv, LinkInv, ModemStep, UNCHANGED currentState
    PROVE  CidInv' /\ LinkInv'
<1>a. ASSUME UNCHANGED <<curState, cid, activeByCid, outbox, apnState, stateMachine,
                         physicalActive, displaced>>
      PROVE  LinkInv'
    BY <1>a DEF LinkInv, Linked, Kept, InUse
<1>1. ASSUME NEW c \in listChanged, NEW r \in FailReasons, RadioDataCallListChanged(c, r)
      PROVE  CidInv' /\ LinkInv'
    BY <1>1, UnchangedKeepsCalls, StillLinked DEF RadioDataCallListChanged
<1>2. ASSUME NEW c \in modemContexts, ModemDropsContext(c) PROVE CidInv' /\ LinkInv'
    BY <1>2, UnchangedKeepsCalls, StillLinked DEF ModemDropsContext, handlerVars
<1>3. ASSUME NEW m \in Machines, NEW n \in setupReqs[m], NEW e \in SetupAnswers(n),
             ModemAnswersSetup(m, n, e)
      PROVE  CidInv' /\ LinkInv'
    <2>1. RadioAnswersSetup(m, n, e) BY <1>3 DEF ModemAnswersSetup
    <2>2. n \in Nat BY DEF TypeOK
    <2>3. e \in Event /\ (e.result = "active" => e.cid \in Cids) BY <2>2, SetupAnswersType
    <2>4. CidInv' BY <2>1, <2>3, QueueAdds DEF RadioAnswersSetup, Grants
    <2>5. LinkInv'
        BY <1>a, <1>3, <2>1 DEF ModemAnswersSetup, RadioAnswersSetup, handlerVars
    <2> QED BY <2>4, <2>5
<1>4. ASSUME NEW m \in Machines, NEW d \in deactReqs[m], ModemDeactivates(m, d)
      PROVE  CidInv' /\ LinkInv'
    <2>1. RadioAnswersDeactivate(m, d, "done") BY <1>4 DEF ModemDeactivates
    <2>2. d[1] \in Nat BY DEF TypeOK
    <2> DEFINE e == DeactivateAnswer(d[1], "done")
    <2>3. e \in Event BY <2>2, DeactivateAnswerType
    <2>4. Grants(e) BY DEF DeactivateAnswer, Blank, Grants
    <2>5. queue' = [queue EXCEPT ![m] = @ \cup {e}] BY <2>1 DEF RadioAnswersDeactivate
    <2> HIDE DEF e
    <2>6. CidInv' BY <2>1, <2>3, <2>4, <2>5, QueueAdds DEF RadioAnswersDeactivate
    <2>7. LinkInv'
        BY <1>a, <1>4, <2>1 DEF ModemDeactivates, RadioAnswersDeactivate, handlerVars
    <2> QED BY <2>6, <2>7
<1> QED BY <1>1, <1>2, <1>3, <1>4 DEF ModemStep

LEMMA DispatchLink ==
    ASSUME TypeOK, HandlerInv, HandlerInv', CidInv, LinkInv, NEW m \in Machines,
           DispatchInbox(m) \/ DispatchOwn(m)
    PROVE  CidInv' /\ LinkInv'
<1>a. immediate[m] \in Seq(Event) /\ queue[m] \in SUBSET Event /\ <<>> \in Seq(Event)
    BY DEF TypeOK
<1>b. UNCHANGED <<apnState, stateMachine, physicalActive>> /\ Displace(m)
    BY DEF DispatchInbox, DispatchOwn, handlerVars
<1>c. ASSUME NEW e \in Event, NEW rest \in Rests, Picked(m, e, rest), Process(m, e, rest)
      PROVE  CidInv' /\ LinkInv'
    BY <1>b, <1>c, ProcessOutcome, OutcomeCid, OutcomeLink
<1>1. CASE DispatchInbox(m)
    <2> DEFINE e == Head(inbox[m])
               rest == [imm |-> <<>>, queue |-> queue[m]]
    <2>1. inbox[m] # <<>> /\ Process(m, e, rest) BY <1>1 DEF DispatchInbox
    <2>2. inbox[m] \in Seq(Sent) BY DEF HandlerInv, Good, HandlerStates, HandlerState
    <2>3. e \in Sent BY <2>1, <2>2
    <2>4. e \in Event /\ e.code # "SETUP" BY <2>3 DEF Sent
    <2>5. rest \in Rests /\ Picked(m, e, rest) BY <1>a, <2>4 DEF Rests, Picked
    <2> HIDE DEF e, rest
    <2> QED BY <1>c, <2>1, <2>4, <2>5
<1>2. CASE DispatchImmediate(m)
    <2> DEFINE e == Head(immediate[m])
               rest == [imm |-> Tail(immediate[m]), queue |-> queue[m]]
    <2>1. immediate[m] # <<>> /\ Process(m, e, rest) BY <1>2 DEF DispatchImmediate
    <2>2. e \in Event /\ Tail(immediate[m]) \in Seq(Event) BY <1>a, <2>1
    <2>3. rest \in Rests /\ Picked(m, e, rest) BY <1>a, <2>1, <2>2 DEF Rests, Picked
    <2> HIDE DEF e, rest
    <2> QED BY <1>c, <2>1, <2>2, <2>3
<1>3. ASSUME NEW e \in queue[m], DispatchQueued(m, e) PROVE CidInv' /\ LinkInv'
    <2> DEFINE rest == [imm |-> <<>>, queue |-> queue[m] \ {e}]
    <2>1. e \in Event /\ Process(m, e, rest) BY <1>a, <1>3 DEF DispatchQueued
    <2>2. rest \in Rests /\ Picked(m, e, rest) BY <1>a DEF Rests, Picked
    <2> HIDE DEF rest
    <2> QED BY <1>c, <2>1, <2>2
<1> QED BY <1>1, <1>2, <1>3 DEF DispatchOwn

LEMMA LinkInvInit == HandlerInit => CidInv /\ LinkInv
<1> SUFFICES ASSUME HandlerInit PROVE CidInv /\ LinkInv
    OBVIOUS
<1>1. /\ \A m \in Machines : /\ curState[m] = "Inactive" /\ outbox[m] = <<>> /\ cid[m] = NoCid
                             /\ immediate[m] = <<>> /\ deferEvents[m] = <<>> /\ queue[m] = {}
      /\ \A a \in Apns : apnState[a] = "IDLE"
    BY DEF HandlerInit, Init
<1>2. CidInv BY <1>1, GrantEmpty DEF CidInv
<1>3. LinkInv
    <2>1. /\ ~physicalActive
          /\ \A c \in Cids, m \in Machines : activeByCid[c] # m
        BY ConstantsAssumption DEF HandlerInit, Init
    <2> QED BY <1>1, <2>1 DEF LinkInv, HasEstablished, Connected
<1> QED BY <1>2, <1>3

LEMMA LinkInvNext ==
    ASSUME TypeOK, HandlerInv, CidInv, LinkInv, [HandlerNext]_allVars
    PROVE  CidInv' /\ LinkInv'
<1>1. HandlerInv' BY HandlerInvNext
<1>2. CASE HandlerStep /\ UNCHANGED currentState BY <1>2, HandlerStepLink
<1>3. CASE ModemStep /\ UNCHANGED currentState BY <1>3, ModemStepLink
<1>4. CASE \E m \in Machines : DispatchInbox(m) \/ DispatchOwn(m) BY <1>1, <1>4, DispatchLink
<1>5. CASE \E m \in Machines : SetCurrentState(m)
    BY <1>5, UnchangedKeepsCalls, StillLinked DEF SetCurrentState, handlerVars
<1>6. CASE UNCHANGED allVars
    BY <1>6, UnchangedKeepsCalls, StillLinked DEF allVars, handlerVars
<1> QED BY <1>2, <1>3, <1>4, <1>5, <1>6 DEF HandlerNext

LEMMA LinkInvAlways == HandlerSpec => [](CidInv /\ LinkInv)
<1>1. TypeOK /\ HandlerInv /\ (CidInv /\ LinkInv) /\ [HandlerNext]_allVars => (CidInv /\ LinkInv)'
    BY LinkInvNext
<1> QED BY <1>1, LinkInvInit, HandlerInvAlways, PTL DEF HandlerSpec

\* A machine in Active or Disconnecting is in the map under its own cid, whatever other
\* calls end and however the modem gives cids out, unless another machine connected
\* with that cid or ended remembering it; and GetActiveConnectionByCid never gives a
\* machine whose call is over and reported.
THEOREM MapAlwaysFollows == HandlerSpec => []MapFollowsCalls
<1>1. LinkInv => MapFollowsCalls
    BY DEF LinkInv, MapFollowsCalls, HasCall, Kept, Linked, InUse, Connected
<1> QED BY <1>1, LinkInvAlways, PTL

\* While a holder is PROFILE_STATE_CONNECTED the physical connection is reported as
\* active, unless another machine took its call out of the map; and it is reported
\* as active only while there is a call, or the report of one that has ended.
THEOREM LinkAlwaysFollows == HandlerSpec => []LinkFollowsCalls
<1>1. LinkInv => LinkFollowsCalls
    BY DEF LinkInv, LinkFollowsCalls, HasCall, Kept, Linked, InUse, Connected
<1> QED BY <1>1, LinkInvAlways, PTL
=============================================================================

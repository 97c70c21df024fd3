------------------- MODULE CellularDataStateMachineProofs -------------------
(***************************************************************************)
(* Proofs about CellularDataStateMachine, for any number of machines, APNs *)
(* and context ids, any radio and any length of a behaviour (the bounds    *)
(* MaxConnectId and MaxDeferred are arbitrary): types and timers, the      *)
(* contexts that machines hold, and the reports that they make, which      *)
(* implement DataCall.                                                     *)
(***************************************************************************)
EXTENDS CellularDataStateMachine, SequenceTheorems, TLAPS

States == {"Inactive", "Activating", "Active", "Disconnecting"}

\* What is left of an event queue once the event in hand is taken out.
Rests == [imm : Seq(Event), queue : SUBSET Event]

-----------------------------------------------------------------------------
(* The events that are sent are events. *)

\* A timer event is an Event.
LEMMA TimerEventType ==
    ASSUME NEW code \in {"CONNECT_TIMEOUT", "DISCONNECT_TIMEOUT"}, NEW n \in Nat
    PROVE  /\ TimerEvent(code, n) \in Event
           /\ TimerEvent(code, n).code = code
           /\ TimerEvent(code, n).flag = n
BY DEF TimerEvent, Blank, Event, Codes, Results, Reasons, PdpErrors

\* What the handler and the manager send are Events.
LEMMA CommandsType == Commands \subseteq Event
<1>1. DisconnectReasons \subseteq Reasons
  BY ConstantsAssumption DEF Reasons, DisConnectionReasons
<1>2. ASSUME NEW a \in Apns PROVE ConnectEvent(a) \in Event
  BY DEF ConnectEvent, Blank, Event, Codes, Results, Reasons, PdpErrors
<1>3. ASSUME NEW r \in Reasons
      PROVE  DisconnectEvent(r) \in Event /\ LostEvent(r) \in Event
  BY DEF DisconnectEvent, LostEvent, Blank, Event, Codes, Results
<1>4. HostDiedEvent \in Event
  BY DEF HostDiedEvent, Blank, Event, Codes, Results, Reasons, PdpErrors
<1>5. FailReasons \subseteq Reasons
  BY DEF Reasons, PdpErrors
<1> QED BY <1>1, <1>2, <1>3, <1>4, <1>5 DEF Commands

\* The answers of the radio are Events; a set-up answer carries the number of its
\* request, and a context of the modem if it is "active".
LEMMA SetupAnswersType ==
    ASSUME NEW n \in Nat, NEW e \in SetupAnswers(n)
    PROVE  /\ e \in Event
           /\ e.code = "SETUP" /\ e.flag = n
           /\ e.result = "active" => e.cid \in Cids
<1>1. ASSUME NEW res \in Results, NEW c \in Cids \cup {NoCid}, NEW r \in Reasons
      PROVE  /\ SetupAnswer(n, res, c, r) \in Event
             /\ SetupAnswer(n, res, c, r).code = "SETUP"
             /\ SetupAnswer(n, res, c, r).flag = n
             /\ SetupAnswer(n, res, c, r).result = res
             /\ SetupAnswer(n, res, c, r).cid = c
  BY DEF SetupAnswer, Blank, Event, Codes
<1>2. FailReasons \cup {"ZERO", NoReason} \subseteq Reasons
  BY DEF Reasons, PdpErrors
<1>3. {"active", "rejected", "error", "chdata"} \subseteq Results
  BY DEF Results
<1>4. CASE \E res \in RadioResults \cap {"active"}, c \in Cids : e = SetupAnswer(n, res, c, "ZERO")
  BY <1>1, <1>2, <1>3, <1>4
<1>5. CASE \E res \in RadioResults \cap {"rejected"}, c \in Cids \cup {NoCid}, r \in FailReasons :
               e = SetupAnswer(n, res, c, r)
  <2>1. PICK c \in Cids \cup {NoCid}, r \in FailReasons : e = SetupAnswer(n, "rejected", c, r)
    BY <1>5
  <2> QED BY <1>1, <1>2, <1>3, <2>1
<1>6. CASE \E res \in RadioResults \cap {"error", "chdata"} : e = SetupAnswer(n, res, NoCid, NoReason)
  <2>1. PICK res \in {"error", "chdata"} : e = SetupAnswer(n, res, NoCid, NoReason)
    BY <1>6
  <2> QED BY <1>1, <1>2, <1>3, <2>1
<1> QED BY <1>4, <1>5, <1>6 DEF SetupAnswers

\* The answer to a deactivation is an Event of its request's cycle.
LEMMA DeactivateAnswerType ==
    ASSUME NEW n \in Nat, NEW res \in {"done", "null"}
    PROVE  /\ DeactivateAnswer(n, res) \in Event
           /\ DeactivateAnswer(n, res).code = "DEACTIVATE"
BY DEF DeactivateAnswer, Blank, Event, Codes, Results, Reasons, PdpErrors

-----------------------------------------------------------------------------
(* The building blocks of the handlers keep the types of what they change. *)

\* Sending a timer, or removing events, leaves a well-typed rest.
LEMMA RestType ==
    ASSUME NEW rest \in Rests, NEW code \in {"CONNECT_TIMEOUT", "DISCONNECT_TIMEOUT"}, NEW n \in Nat
    PROVE  /\ SendTimer(rest, code, n) \in Rests
           /\ RemoveEvent(rest, code) \in Rests
           /\ SendTimer(rest, code, n).queue = rest.queue \cup {TimerEvent(code, n)}
           /\ SendTimer(rest, code, n).imm = rest.imm
           /\ RemoveEvent(rest, code).queue = {x \in rest.queue : x.code # code}
           /\ RemoveEvent(rest, code).imm = rest.imm
BY TimerEventType DEF SendTimer, RemoveEvent, Rests

\* A machine that stays in its state keeps well-typed queues.
LEMMA StayType ==
    ASSUME TypeOK, NEW m \in Machines, NEW rest \in Rests, Stay(m, rest)
    PROVE  /\ curState' \in [Machines -> States]
           /\ deferEvents' \in [Machines -> Seq(Event)]
           /\ immediate' \in [Machines -> Seq(Event)]
           /\ queue' \in [Machines -> SUBSET Event]
BY DEF Stay, Requeue, TypeOK, Rests, States

\* A transition re-sends well-typed events.
LEMMA TransitionType ==
    ASSUME TypeOK, NEW m \in Machines, NEW rest \in Rests, NEW dest \in States,
           NEW deferred \in Seq(Event), TransitionTo(m, dest, deferred, rest)
    PROVE  /\ curState' \in [Machines -> States]
           /\ deferEvents' \in [Machines -> Seq(Event)]
           /\ immediate' \in [Machines -> Seq(Event)]
           /\ queue' \in [Machines -> SUBSET Event]
<1>1. rest.imm \o deferred \in Seq(Event)
  BY DEF Rests
<1>2. [rest EXCEPT !.imm = @ \o deferred].imm = rest.imm \o deferred
  BY DEF Rests
<1>3. [rest EXCEPT !.imm = @ \o deferred].queue = rest.queue
  BY DEF Rests
<1>4. <<>> \in Seq(Event)
  OBVIOUS
<1> QED BY <1>1, <1>2, <1>3, <1>4 DEF TransitionTo, Requeue, TypeOK, Rests, States

\* Ending a cycle reports a well-typed disconnection.
LEMMA EnterInactiveType ==
    ASSUME TypeOK, NEW m \in Machines, NEW rest \in Rests, NEW c \in Cids \cup {NoCid},
           NEW reason \in Reasons, EnterInactive(m, c, reason, rest)
    PROVE  /\ curState' \in [Machines -> States]
           /\ deferEvents' \in [Machines -> Seq(Event)]
           /\ immediate' \in [Machines -> Seq(Event)]
           /\ queue' \in [Machines -> SUBSET Event]
           /\ connectId' \in [Machines -> Nat]
           /\ outbox' \in [Machines -> Seq(Report)]
           /\ resultInfo' \in [Machines -> Reasons]
<1>1. deferEvents[m] \in Seq(Event) /\ "Inactive" \in States
  BY DEF TypeOK, States
<1>2. TransitionTo(m, "Inactive", deferEvents[m], rest)
  BY DEF EnterInactive
<1>3. Disconnected(m, c, reason) \in Report
  BY DEF Disconnected, Report, TypeOK
<1>4. NoReason \in Reasons
  BY DEF Reasons, PdpErrors
<1>5. outbox' \in [Machines -> Seq(Report)]
  BY <1>3 DEF EnterInactive, TypeOK
<1>6. connectId' \in [Machines -> Nat] /\ resultInfo' \in [Machines -> Reasons]
  BY <1>4 DEF EnterInactive, TypeOK
<1> QED BY <1>1, <1>2, <1>5, <1>6, TransitionType

-----------------------------------------------------------------------------
(* TypeOK is inductive. *)

\* An event that is ignored keeps the types.
LEMMA IgnoreTypeOK ==
    ASSUME TypeOK, NEW m \in Machines, NEW rest \in Rests, Ignore(m, rest),
           UNCHANGED <<granted, linkCallback>>
    PROVE  TypeOK'
<1>1. Stay(m, rest)
  BY DEF Ignore
<1> QED BY <1>1, StayType DEF Ignore, heldVars, TypeOK, States

\* Deferring an event keeps the types.
LEMMA DeferTypeOK ==
    ASSUME TypeOK, NEW m \in Machines, NEW e \in Event, NEW rest \in Rests,
           DeferEvent(m, e, rest), UNCHANGED <<granted, linkCallback>>
    PROVE  TypeOK'
<1>1. Append(deferEvents[m], e) \in Seq(Event)
  BY DEF TypeOK
<1>2. deferEvents' \in [Machines -> Seq(Event)]
  BY <1>1 DEF DeferEvent, TypeOK
<1>3. immediate' \in [Machines -> Seq(Event)] /\ queue' \in [Machines -> SUBSET Event]
  BY DEF DeferEvent, Requeue, TypeOK, Rests
<1> QED BY <1>2, <1>3 DEF DeferEvent, heldVars, TypeOK

\* Default::StateProcess keeps the types.
LEMMA DefaultTypeOK ==
    ASSUME TypeOK, NEW m \in Machines, NEW e \in Event, NEW rest \in Rests,
           DefaultProcess(m, e, rest), UNCHANGED <<granted, linkCallback>>
    PROVE  TypeOK'
BY DeferTypeOK, IgnoreTypeOK DEF DefaultProcess

\* Inactive::StateProcess keeps the types.
LEMMA InactiveTypeOK ==
    ASSUME TypeOK, NEW m \in Machines, NEW e \in Event, NEW rest \in Rests,
           InactiveProcess(m, e, rest), UNCHANGED <<granted, linkCallback>>
    PROVE  TypeOK'
<1>1. CASE /\ e.code = "CONNECT" /\ DoConnect(m, e, rest)
           /\ UNCHANGED <<connectId, cid, resultInfo, rilSetChdataErrCnt, deactReqs,
                          activeByCid, outbox>>
  <2>1. connectId[m] \in Nat /\ deferEvents[m] \in Seq(Event) /\ e.apn \in Apns \cup {NoApn}
    BY DEF TypeOK, Event
  <2>2. SendTimer(rest, "CONNECT_TIMEOUT", connectId[m]) \in Rests
    BY <2>1, RestType
  <2>3. /\ curState' \in [Machines -> States]
        /\ deferEvents' \in [Machines -> Seq(Event)]
        /\ immediate' \in [Machines -> Seq(Event)]
        /\ queue' \in [Machines -> SUBSET Event]
    BY <1>1, <2>1, <2>2, TransitionType DEF DoConnect, States
  <2>4. apnId' \in [Machines -> Apns \cup {NoApn}]
    BY <1>1, <2>1 DEF DoConnect, TypeOK
  <2>5. setupReqs' \in [Machines -> SUBSET Nat]
    BY <1>1, <2>1 DEF DoConnect, TypeOK
  <2> QED BY <1>1, <2>3, <2>4, <2>5 DEF TypeOK, States
<1>2. CASE e.code = "DISCONNECT" /\ Ignore(m, rest)
  BY <1>2, IgnoreTypeOK
<1>3. CASE DefaultProcess(m, e, rest)
  BY <1>3, DefaultTypeOK
<1> QED BY <1>1, <1>2, <1>3 DEF InactiveProcess

\* A cycle that ends, in whatever state and for whatever reason, keeps the types.
LEMMA EndTypeOK ==
    ASSUME TypeOK, NEW m \in Machines, NEW rest \in Rests, NEW c \in Cids \cup {NoCid},
           NEW reason \in Reasons, EnterInactive(m, c, reason, rest),
           rilSetChdataErrCnt' \in [Machines -> 0 .. MaxErrSetChdataCnt - 1],
           cid' \in [Machines -> Cids \cup {NoCid}],
           UNCHANGED <<apnId, setupReqs, deactReqs, activeByCid, granted, linkCallback>>
    PROVE  TypeOK'
BY EnterInactiveType DEF TypeOK, States

\* Activating::StateProcess keeps the types.
LEMMA ActivatingTypeOK ==
    ASSUME TypeOK, NEW m \in Machines, NEW e \in Event, NEW rest \in Rests,
           ActivatingProcess(m, e, rest), UNCHANGED <<granted, linkCallback>>
    PROVE  TypeOK'
<1>a. /\ MaxErrSetChdataCnt \in Nat \ {0} /\ "RETRY" \in Reasons
      /\ e.reason \in Reasons /\ e.cid \in Cids \cup {NoCid} /\ cid[m] \in Cids \cup {NoCid}
      /\ deferEvents[m] \in Seq(Event)
  BY ConstantsAssumption DEF Reasons, PdpErrors, TypeOK, Event
<1>1. CASE DeferEvent(m, e, rest)
  BY <1>1, DeferTypeOK
<1>2. CASE RilActivatePdpContextDone(m, e, rest)
  <2>1. rilSetChdataErrCnt' \in [Machines -> 0 .. MaxErrSetChdataCnt - 1]
    BY <1>a, <1>2 DEF RilActivatePdpContextDone, TypeOK
  <2>2. CASE /\ Stay(m, rest) /\ UNCHANGED <<connectId, cid, resultInfo, activeByCid, outbox>>
    BY <1>2, <2>1, <2>2, StayType DEF RilActivatePdpContextDone, TypeOK, States
  <2>3. CASE /\ cid' = [cid EXCEPT ![m] = e.cid]
             /\ EnterInactive(m, e.cid, e.reason, rest) /\ UNCHANGED activeByCid
    <3>1. cid' \in [Machines -> Cids \cup {NoCid}]
      BY <1>a, <2>3 DEF TypeOK
    <3> QED BY <1>a, <1>2, <2>1, <2>3, <3>1, EndTypeOK DEF RilActivatePdpContextDone
  <2>4. CASE /\ cid' = [cid EXCEPT ![m] = e.cid]
             /\ activeByCid' = [activeByCid EXCEPT ![e.cid] = m]
             /\ TransitionTo(m, "Active", Append(deferEvents[m], e), rest)
             /\ UNCHANGED <<connectId, resultInfo, outbox>>
    <3>1. cid' \in [Machines -> Cids \cup {NoCid}]
      BY <1>a, <2>4 DEF TypeOK
    <3>2. activeByCid' \in [Cids -> Machines \cup {NoMachine}]
      BY <2>4 DEF TypeOK
    <3>3. Append(deferEvents[m], e) \in Seq(Event)
      BY <1>a
    <3>4. /\ curState' \in [Machines -> States]
          /\ deferEvents' \in [Machines -> Seq(Event)]
          /\ immediate' \in [Machines -> Seq(Event)]
          /\ queue' \in [Machines -> SUBSET Event]
      BY <2>4, <3>3, TransitionType DEF States
    <3> QED BY <1>2, <2>1, <2>4, <3>1, <3>2, <3>4 DEF RilActivatePdpContextDone, TypeOK, States
  <2> QED BY <1>2, <2>2, <2>3, <2>4 DEF RilActivatePdpContextDone
<1>3. CASE RilErrorResponse(m, e, rest)
  <2>1. rilSetChdataErrCnt[m] \in Nat
    BY <1>a DEF TypeOK
  <2>2. (rilSetChdataErrCnt[m] + 1) % MaxErrSetChdataCnt \in 0 .. MaxErrSetChdataCnt - 1
    BY <1>a, <2>1
  <2>3. rilSetChdataErrCnt' \in [Machines -> 0 .. MaxErrSetChdataCnt - 1]
    BY <1>a, <1>3, <2>2 DEF RilErrorResponse, TypeOK
  <2>4. cid' \in [Machines -> Cids \cup {NoCid}]
    BY <1>3 DEF RilErrorResponse, TypeOK
  <2> QED BY <1>a, <1>3, <2>3, <2>4, EndTypeOK DEF RilErrorResponse
<1>4. CASE ProcessConnectTimeout(m, e, rest)
  <2>1. CASE Ignore(m, rest)
    BY <2>1, IgnoreTypeOK
  <2>2. CASE /\ EnterInactive(m, cid[m], "RETRY", rest)
             /\ UNCHANGED <<apnId, cid, rilSetChdataErrCnt, setupReqs, deactReqs, activeByCid>>
    <3>1. /\ cid' \in [Machines -> Cids \cup {NoCid}]
          /\ rilSetChdataErrCnt' \in [Machines -> 0 .. MaxErrSetChdataCnt - 1]
      BY <2>2 DEF TypeOK
    <3> QED BY <1>a, <2>2, <3>1, EndTypeOK
  <2> QED BY <1>4, <2>1, <2>2 DEF ProcessConnectTimeout
<1>5. CASE Ignore(m, rest)
  BY <1>5, IgnoreTypeOK
<1>6. CASE DefaultProcess(m, e, rest)
  BY <1>6, DefaultTypeOK
<1> QED BY <1>1, <1>2, <1>3, <1>4, <1>5, <1>6 DEF ActivatingProcess

\* Active::StateProcess keeps the types.
LEMMA ActiveTypeOK ==
    ASSUME TypeOK, NEW m \in Machines, NEW e \in Event, NEW rest \in Rests,
           ActiveProcess(m, e, rest), UNCHANGED <<granted, linkCallback>>
    PROVE  TypeOK'
<1>a. /\ e.reason \in Reasons /\ e.cid \in Cids \cup {NoCid} /\ e.flag \in Nat
      /\ cid[m] \in Cids \cup {NoCid} /\ connectId[m] \in Nat
      /\ deferEvents[m] \in Seq(Event)
  BY DEF TypeOK, Event
<1>1. CASE Ignore(m, rest)
  BY <1>1, IgnoreTypeOK
<1>2. CASE ProcessDisconnectDone(m, e, rest)
  <2>1. resultInfo' \in [Machines -> Reasons]
    <3>1. PdpErrorOf(e.reason) \in Reasons
      BY DEF PdpErrorOf, Reasons, PdpErrors
    <3> QED BY <1>2, <3>1 DEF ProcessDisconnectDone, TypeOK
  <2>2. deactReqs' \in [Machines -> SUBSET (Nat \X (Cids \cup {NoCid}))]
    BY <1>a, <1>2 DEF ProcessDisconnectDone, FreeConnection, TypeOK
  <2>3. SendTimer(rest, "DISCONNECT_TIMEOUT", connectId[m]) \in Rests
    BY <1>a, RestType
  <2>4. /\ curState' \in [Machines -> States]
        /\ deferEvents' \in [Machines -> Seq(Event)]
        /\ immediate' \in [Machines -> Seq(Event)]
        /\ queue' \in [Machines -> SUBSET Event]
    BY <1>a, <1>2, <2>3, TransitionType DEF ProcessDisconnectDone, FreeConnection, States
  <2> QED BY <1>2, <2>1, <2>2, <2>4 DEF ProcessDisconnectDone, TypeOK, States
<1>3. CASE ProcessLostConnection(m, e, rest)
  <2>1. /\ cid' \in [Machines -> Cids \cup {NoCid}]
        /\ rilSetChdataErrCnt' \in [Machines -> 0 .. MaxErrSetChdataCnt - 1]
    BY <1>3 DEF ProcessLostConnection, TypeOK
  <2> QED BY <1>a, <1>3, <2>1, EndTypeOK DEF ProcessLostConnection
<1>4. CASE ProcessDataConnectionComplete(m, e, rest)
  <2>1. Established(m, e) \in Report
    BY <1>a DEF Established, Report, TypeOK, Reasons, PdpErrors
  <2>2. outbox' \in [Machines -> Seq(Report)]
    BY <1>4, <2>1 DEF ProcessDataConnectionComplete, TypeOK
  <2>3. RemoveEvent(rest, "CONNECT_TIMEOUT") \in Rests
    BY <1>a, RestType
  <2> QED BY <1>4, <2>2, <2>3, StayType DEF ProcessDataConnectionComplete, TypeOK, States
<1>5. CASE DefaultProcess(m, e, rest)
  BY <1>5, DefaultTypeOK
<1> QED BY <1>1, <1>2, <1>3, <1>4, <1>5 DEF ActiveProcess

\* Disconnecting::StateProcess keeps the types.
LEMMA DisconnectingTypeOK ==
    ASSUME TypeOK, NEW m \in Machines, NEW e \in Event, NEW rest \in Rests,
           DisconnectingProcess(m, e, rest), UNCHANGED <<granted, linkCallback>>
    PROVE  TypeOK'
<1>a. cid[m] \in Cids \cup {NoCid} /\ connectId[m] \in Nat /\ resultInfo[m] \in Reasons
      /\ "RETRY" \in Reasons
  BY DEF TypeOK, Reasons, PdpErrors
<1>1. CASE DeferEvent(m, e, rest)
  BY <1>1, DeferTypeOK
<1>2. CASE Ignore(m, rest)
  BY <1>2, IgnoreTypeOK
<1>3. CASE /\ EnterInactive(m, cid[m], resultInfo[m], RemoveEvent(rest, "DISCONNECT_TIMEOUT"))
           /\ UNCHANGED <<apnId, cid, rilSetChdataErrCnt, setupReqs, deactReqs, activeByCid>>
  <2>1. RemoveEvent(rest, "DISCONNECT_TIMEOUT") \in Rests
    BY <1>a, RestType
  <2>2. /\ cid' \in [Machines -> Cids \cup {NoCid}]
        /\ rilSetChdataErrCnt' \in [Machines -> 0 .. MaxErrSetChdataCnt - 1]
    BY <1>3 DEF TypeOK
  <2> QED BY <1>a, <1>3, <2>1, <2>2, EndTypeOK
<1>4. CASE EndDisconnecting(m, rest)
  <2>1. /\ cid' \in [Machines -> Cids \cup {NoCid}]
        /\ rilSetChdataErrCnt' \in [Machines -> 0 .. MaxErrSetChdataCnt - 1]
    BY <1>4 DEF EndDisconnecting, TypeOK
  <2> QED BY <1>a, <1>4, <2>1, EndTypeOK DEF EndDisconnecting
<1>5. CASE DefaultProcess(m, e, rest)
  BY <1>5, DefaultTypeOK
<1> QED BY <1>1, <1>2, <1>3, <1>4, <1>5 DEF DisconnectingProcess, ProcessRilDeactivateDataCall

\* ProcessEvent keeps the types, whatever state the machine is in.
LEMMA ProcessTypeOK ==
    ASSUME TypeOK, NEW m \in Machines, NEW e \in Event, NEW rest \in Rests, Process(m, e, rest)
    PROVE  TypeOK'
<1>1. UNCHANGED <<granted, linkCallback>>
  BY DEF Process
<1> QED BY <1>1, InactiveTypeOK, ActivatingTypeOK, ActiveTypeOK, DisconnectingTypeOK DEF Process

\* Every dispatch hands ProcessEvent an event and a rest of the queue.
LEMMA DispatchProcesses ==
    ASSUME TypeOK, NEW m \in Machines, MachineStep(m)
    PROVE  \E e \in Event, rest \in Rests :
              /\ Process(m, e, rest)
              /\ \/ /\ immediate[m] # <<>> /\ e = Head(immediate[m])
                    /\ rest.imm = Tail(immediate[m]) /\ rest.queue = queue[m]
                 \/ /\ e \in queue[m]
                    /\ rest.imm = <<>> /\ rest.queue = queue[m] \ {e}
                 \/ /\ e \in Commands
                    /\ rest.imm = <<>> /\ rest.queue = queue[m]
<1>a. immediate[m] \in Seq(Event) /\ queue[m] \in SUBSET Event
  BY DEF TypeOK
<1>1. CASE DispatchImmediate(m)
  <2> DEFINE rest == [imm |-> Tail(immediate[m]), queue |-> queue[m]]
  <2>1. Head(immediate[m]) \in Event /\ Tail(immediate[m]) \in Seq(Event)
    BY <1>a, <1>1 DEF DispatchImmediate
  <2>2. rest \in Rests
    BY <1>a, <2>1 DEF Rests
  <2> QED BY <1>1, <2>1, <2>2 DEF DispatchImmediate
<1>2. CASE \E e \in queue[m] : DispatchQueued(m, e)
  <2>1. PICK e \in queue[m] : DispatchQueued(m, e)
    BY <1>2
  <2> DEFINE rest == [imm |-> <<>>, queue |-> queue[m] \ {e}]
  <2>2. <<>> \in Seq(Event)
    OBVIOUS
  <2>3. rest \in Rests
    BY <1>a, <2>2 DEF Rests
  <2> QED BY <1>a, <2>1, <2>3 DEF DispatchQueued
<1>3. CASE \E e \in Commands : DispatchCommand(m, e)
  <2>1. PICK e \in Commands : DispatchCommand(m, e)
    BY <1>3
  <2> DEFINE rest == [imm |-> <<>>, queue |-> queue[m]]
  <2>2. <<>> \in Seq(Event)
    OBVIOUS
  <2>3. rest \in Rests
    BY <1>a, <2>2 DEF Rests
  <2> QED BY <1>a, <2>1, <2>3, CommandsType DEF DispatchCommand
<1> QED BY <1>1, <1>2, <1>3 DEF MachineStep

\* The initial state has its types.
LEMMA InitTypeOK == Init => TypeOK
<1>1. <<>> \in Seq(Event) /\ <<>> \in Seq(Report)
  OBVIOUS
<1>2. NoReason \in Reasons
  BY DEF Reasons, PdpErrors
<1> QED BY <1>1, <1>2, ConstantsAssumption DEF Init, TypeOK

\* Every step, of a machine, the radio, the link callback or the handler, keeps the types.
LEMMA NextTypeOK == TypeOK /\ [Next]_vars => TypeOK'
<1> SUFFICES ASSUME TypeOK, [Next]_vars PROVE TypeOK'
  OBVIOUS
<1>1. ASSUME NEW m \in Machines, MachineStep(m) PROVE TypeOK'
  BY <1>1, DispatchProcesses, ProcessTypeOK
<1>2. ASSUME NEW m \in Machines, RadioStep(m) PROVE TypeOK'
  <2>1. CASE \E n \in setupReqs[m] : \E e \in SetupAnswers(n) : RadioAnswersSetup(m, n, e)
    <3>1. PICK n \in setupReqs[m] : \E e \in SetupAnswers(n) : RadioAnswersSetup(m, n, e)
      BY <2>1
    <3>2. PICK e \in SetupAnswers(n) : RadioAnswersSetup(m, n, e)
      BY <3>1
    <3>3. n \in Nat
      BY DEF TypeOK
    <3>4. e \in Event /\ (e.result = "active" => e.cid \in Cids)
      BY <3>3, SetupAnswersType
    <3>5. queue' \in [Machines -> SUBSET Event]
      BY <3>2, <3>4 DEF RadioAnswersSetup, TypeOK
    <3>6. setupReqs' \in [Machines -> SUBSET Nat]
      BY <3>2 DEF RadioAnswersSetup, TypeOK
    <3>7. granted' \in SUBSET (Machines \X Nat \X Cids)
      BY <3>2, <3>3, <3>4 DEF RadioAnswersSetup, TypeOK
    <3> QED BY <3>2, <3>5, <3>6, <3>7 DEF RadioAnswersSetup, TypeOK
  <2>2. CASE \E d \in deactReqs[m], res \in {"done", "null"} : RadioAnswersDeactivate(m, d, res)
    <3>1. PICK d \in deactReqs[m], res \in {"done", "null"} : RadioAnswersDeactivate(m, d, res)
      BY <2>2
    <3>2. d[1] \in Nat
      BY DEF TypeOK
    <3>3. queue' \in [Machines -> SUBSET Event]
      BY <3>1, <3>2, DeactivateAnswerType DEF RadioAnswersDeactivate, TypeOK
    <3> QED BY <3>1, <3>3 DEF RadioAnswersDeactivate, TypeOK
  <2> QED BY <1>2, <2>1, <2>2 DEF RadioStep
<1>3. ASSUME NEW m \in Machines, LinkStep(m) PROVE TypeOK'
  <2>1. TimerEvent("DISCONNECT_TIMEOUT", connectId[m]) \in Event
    BY TimerEventType DEF TypeOK
  <2>2. CASE LinkDownFound(m)
    BY <2>2 DEF LinkDownFound, callbackRest, radioVars, TypeOK
  <2>3. CASE LinkDownRemove(m)
    <3>1. queue' \in [Machines -> SUBSET Event] /\ linkCallback' \in [Machines -> {"idle", "found", "removed"}]
      BY <2>3 DEF LinkDownRemove, TypeOK
    <3> QED BY <2>3, <3>1 DEF LinkDownRemove, callbackRest, radioVars, TypeOK
  <2>4. CASE LinkDownRearm(m)
    <3>1. queue' \in [Machines -> SUBSET Event] /\ linkCallback' \in [Machines -> {"idle", "found", "removed"}]
      BY <2>1, <2>4 DEF LinkDownRearm, TypeOK
    <3> QED BY <2>4, <3>1 DEF LinkDownRearm, callbackRest, radioVars, TypeOK
  <2> QED BY <1>3, <2>2, <2>3, <2>4 DEF LinkStep
<1>4. ASSUME NEW m \in Machines, HandlerReceives(m) PROVE TypeOK'
  <2>1. Tail(outbox[m]) \in Seq(Report)
    BY <1>4 DEF HandlerReceives, TypeOK
  <2>2. outbox' \in [Machines -> Seq(Report)]
    BY <1>4, <2>1 DEF HandlerReceives, TypeOK
  <2>3. activeByCid' \in [Cids -> Machines \cup {NoMachine}]
    BY <1>4 DEF HandlerReceives, TypeOK
  <2> QED BY <1>4, <2>2, <2>3 DEF HandlerReceives, machineVars, radioVars, TypeOK
<1>5. CASE UNCHANGED vars
  BY <1>5 DEF vars, machineVars, radioVars, TypeOK
<1> QED BY <1>1, <1>2, <1>3, <1>4, <1>5 DEF Next

\* Every variable of the state machines always holds a value of its type.
THEOREM TypeCorrect == Spec => []TypeOK
BY InitTypeOK, NextTypeOK, PTL DEF Spec

-----------------------------------------------------------------------------
(* No machine waits for the radio without a timer.  With TypeOK, WaitIsTimed is *)
(* inductive; what has to be seen is that the only event whose dispatch takes   *)
(* the timer of a cycle out of the queue is the timer itself, which ends the    *)
(* wait, and that the link callback, on its own thread, puts back what it       *)
(* removed with the connectId_ of that moment.                                  *)

\* Machine k, as it is after a step, waits for nothing that could fail to end.
Timed(k) ==
    /\ curState[k] = "Activating" /\ ClockSteady =>
           TimerEvent("CONNECT_TIMEOUT", connectId[k]) \in queue[k]
    /\ curState[k] = "Disconnecting" =>
           \/ TimerEvent("DISCONNECT_TIMEOUT", connectId[k]) \in queue[k]
           \/ linkCallback[k] = "removed"

\* WaitIsTimed is Timed of every machine.
LEMMA WaitIsTimedIsTimed == WaitIsTimed <=> \A k \in Machines : Timed(k)
BY DEF WaitIsTimed, Timed

\* A step of m that leaves it timed keeps WaitIsTimed: the queues of the others are
\* their own.
LEMMA OthersStayTimed ==
    ASSUME WaitIsTimed, NEW m \in Machines, Timed(m)',
           \A k \in Machines \ {m} : /\ curState'[k] = curState[k] /\ connectId'[k] = connectId[k]
                                     /\ queue'[k] = queue[k] /\ linkCallback'[k] = linkCallback[k]
    PROVE  WaitIsTimed'
BY DEF WaitIsTimed, Timed

\* A step of machine m leaves the state, the cycle and the queue of the others alone.
Framed(m) ==
    \A k \in Machines \ {m} : /\ curState'[k] = curState[k] /\ connectId'[k] = connectId[k]
                              /\ queue'[k] = queue[k]

\* Each way in which a handler ends is framed.
LEMMA IgnoreFrame ==
    ASSUME TypeOK, NEW m \in Machines, NEW e, NEW rest,
           Ignore(m, rest) \/ DeferEvent(m, e, rest) \/ DefaultProcess(m, e, rest)
    PROVE  Framed(m)
<1>1. UNCHANGED <<curState, connectId>> /\ Requeue(m, rest)
  BY DEF Ignore, Stay, DeferEvent, DefaultProcess, heldVars
<1> QED BY <1>1 DEF Framed, Requeue, TypeOK

LEMMA TransitionFrame ==
    ASSUME TypeOK, NEW m \in Machines, NEW dest, NEW d, NEW rest,
           TransitionTo(m, dest, d, rest), UNCHANGED connectId
    PROVE  Framed(m)
BY DEF Framed, TransitionTo, Requeue, TypeOK

LEMMA EndFrame ==
    ASSUME TypeOK, NEW m \in Machines, NEW c, NEW reason, NEW rest, EnterInactive(m, c, reason, rest)
    PROVE  Framed(m)
BY DEF Framed, EnterInactive, TransitionTo, Requeue, TypeOK

LEMMA StayFrame ==
    ASSUME TypeOK, NEW m \in Machines, NEW rest, Stay(m, rest), UNCHANGED connectId
    PROVE  Framed(m)
BY DEF Framed, Stay, Requeue, TypeOK

\* A handler moves the state, the cycle and the queue of its own machine only.
LEMMA ProcessFrame ==
    ASSUME TypeOK, NEW m \in Machines, NEW e, NEW rest, Process(m, e, rest)
    PROVE  Framed(m) /\ UNCHANGED linkCallback
<1>1. SUFFICES Framed(m)
  BY DEF Process
<1>2. CASE InactiveProcess(m, e, rest)
  BY <1>2, IgnoreFrame, TransitionFrame DEF InactiveProcess, DoConnect
<1>3. CASE ActivatingProcess(m, e, rest)
  <2>1. CASE RilActivatePdpContextDone(m, e, rest)
    BY <2>1, EndFrame, TransitionFrame, StayFrame DEF RilActivatePdpContextDone
  <2>2. CASE RilErrorResponse(m, e, rest)
    BY <2>2, EndFrame DEF RilErrorResponse
  <2>3. CASE ProcessConnectTimeout(m, e, rest)
    BY <2>3, EndFrame, IgnoreFrame DEF ProcessConnectTimeout
  <2> QED BY <1>3, <2>1, <2>2, <2>3, IgnoreFrame DEF ActivatingProcess
<1>4. CASE ActiveProcess(m, e, rest)
  <2>1. CASE ProcessDisconnectDone(m, e, rest)
    BY <2>1, TransitionFrame DEF ProcessDisconnectDone, FreeConnection
  <2>2. CASE ProcessLostConnection(m, e, rest)
    BY <2>2, EndFrame DEF ProcessLostConnection
  <2>3. CASE ProcessDataConnectionComplete(m, e, rest)
    BY <2>3, StayFrame DEF ProcessDataConnectionComplete
  <2> QED BY <1>4, <2>1, <2>2, <2>3, IgnoreFrame DEF ActiveProcess
<1>5. CASE DisconnectingProcess(m, e, rest)
  <2>1. CASE ProcessRilDeactivateDataCall(m, e, rest)
    BY <2>1, EndFrame, IgnoreFrame DEF ProcessRilDeactivateDataCall
  <2>2. CASE EndDisconnecting(m, rest)
    BY <2>2, EndFrame DEF EndDisconnecting
  <2> QED BY <1>5, <2>1, <2>2, IgnoreFrame DEF DisconnectingProcess
<1> QED BY <1>2, <1>3, <1>4, <1>5 DEF Process

-----------------------------------------------------------------------------
(* The machine that runs *)

\* A machine that ends its cycle waits for nothing.
LEMMA EndTimed ==
    ASSUME TypeOK, NEW m \in Machines, NEW rest, NEW c, NEW reason, EnterInactive(m, c, reason, rest)
    PROVE  Timed(m)'
BY DEF EnterInactive, TransitionTo, Timed, TypeOK

\* A machine that stays where it is keeps its timer if it was not the event in hand.
LEMMA StayTimed ==
    ASSUME TypeOK, NEW m \in Machines, Timed(m), NEW e, NEW rest \in Rests,
           queue[m] \ {e} \subseteq rest.queue, Requeue(m, rest),
           UNCHANGED <<curState, connectId, linkCallback>>,
           curState[m] = "Activating" /\ ClockSteady => e # TimerEvent("CONNECT_TIMEOUT", connectId[m]),
           curState[m] = "Disconnecting" => e # TimerEvent("DISCONNECT_TIMEOUT", connectId[m])
    PROVE  Timed(m)'
<1>1. queue'[m] = rest.queue
  BY DEF Requeue, TypeOK
<1> QED BY <1>1 DEF Timed

\* The timer events of a cycle, told apart by their codes and flags.
LEMMA TimersAreTimers ==
    ASSUME TypeOK, NEW m \in Machines, NEW e
    PROVE  /\ e = TimerEvent("CONNECT_TIMEOUT", connectId[m]) =>
                  e.code = "CONNECT_TIMEOUT" /\ e.flag = connectId[m]
           /\ e = TimerEvent("DISCONNECT_TIMEOUT", connectId[m]) =>
                  e.code = "DISCONNECT_TIMEOUT" /\ e.flag = connectId[m]
<1>1. connectId[m] \in Nat
  BY DEF TypeOK
<1> QED BY <1>1, TimerEventType

\* Ignoring or deferring an event other than the timer of the cycle leaves the timer.
LEMMA DefaultTimed ==
    ASSUME TypeOK, NEW m \in Machines, Timed(m), NEW e, NEW rest \in Rests,
           queue[m] \ {e} \subseteq rest.queue, UNCHANGED linkCallback,
           Ignore(m, rest) \/ DeferEvent(m, e, rest) \/ DefaultProcess(m, e, rest),
           curState[m] = "Activating" /\ ClockSteady => e # TimerEvent("CONNECT_TIMEOUT", connectId[m]),
           curState[m] = "Disconnecting" => e # TimerEvent("DISCONNECT_TIMEOUT", connectId[m])
    PROVE  Timed(m)'
<1>1. Requeue(m, rest) /\ UNCHANGED <<curState, connectId>>
  BY DEF Ignore, Stay, DeferEvent, DefaultProcess, heldVars
<1> QED BY <1>1, StayTimed

\* Inactive: DoConnect arms the timer of the cycle.
LEMMA InactiveTimed ==
    ASSUME TypeOK, NEW m \in Machines, Timed(m), NEW e, NEW rest \in Rests,
           queue[m] \ {e} \subseteq rest.queue, UNCHANGED linkCallback,
           curState[m] = "Inactive", InactiveProcess(m, e, rest)
    PROVE  Timed(m)'
<1>1. CASE DoConnect(m, e, rest) /\ UNCHANGED connectId
  <2> DEFINE r == SendTimer(rest, "CONNECT_TIMEOUT", connectId[m])
  <2>1. r \in Rests /\ r.queue = rest.queue \cup {TimerEvent("CONNECT_TIMEOUT", connectId[m])}
    BY RestType DEF TypeOK
  <2> HIDE DEF r
  <2>2. TransitionTo(m, "Activating", deferEvents[m], r)
    BY <1>1 DEF DoConnect, r
  <2>3. curState'[m] = "Activating"
    BY <2>2 DEF TransitionTo, TypeOK
  <2>4. [r EXCEPT !.imm = @ \o deferEvents[m]].queue = r.queue
    BY <2>1 DEF Rests
  <2>5. queue'[m] = r.queue
    BY <2>2, <2>4 DEF TransitionTo, Requeue, TypeOK
  <2> QED BY <1>1, <2>1, <2>3, <2>5 DEF Timed
<1>2. CASE Ignore(m, rest) \/ DefaultProcess(m, e, rest)
  BY <1>2, DefaultTimed
<1> QED BY <1>1, <1>2 DEF InactiveProcess

\* Activating: the timer of the cycle ends it, unless the clock was set back.
LEMMA ActivatingTimed ==
    ASSUME TypeOK, NEW m \in Machines, Timed(m), NEW e, NEW rest \in Rests,
           queue[m] \ {e} \subseteq rest.queue, UNCHANGED linkCallback,
           curState[m] = "Activating", ActivatingProcess(m, e, rest)
    PROVE  Timed(m)'
<1>1. CASE e.code = "SETUP" /\ RilActivatePdpContextDone(m, e, rest)
  <2>1. CASE Stay(m, rest) /\ UNCHANGED connectId
    BY <1>1, <2>1, StayTimed, TimersAreTimers DEF Stay
  <2>2. CASE EnterInactive(m, e.cid, e.reason, rest)
    BY <2>2, EndTimed
  <2>3. CASE TransitionTo(m, "Active", Append(deferEvents[m], e), rest)
    BY <2>3 DEF TransitionTo, Timed, TypeOK
  <2> QED BY <1>1, <2>1, <2>2, <2>3 DEF RilActivatePdpContextDone
<1>2. CASE RilErrorResponse(m, e, rest)
  BY <1>2, EndTimed DEF RilErrorResponse
<1>3. CASE ProcessConnectTimeout(m, e, rest)
  <2>1. CASE EnterInactive(m, cid[m], "RETRY", rest)
    BY <2>1, EndTimed
  <2>2. CASE (e.flag # connectId[m] \/ ~ClockSteady) /\ Ignore(m, rest)
    BY <2>2, DefaultTimed, TimersAreTimers
  <2> QED BY <1>3, <2>1, <2>2 DEF ProcessConnectTimeout
<1>4. CASE /\ e.code # "CONNECT_TIMEOUT"
           /\ Ignore(m, rest) \/ DeferEvent(m, e, rest) \/ DefaultProcess(m, e, rest)
  BY <1>4, DefaultTimed, TimersAreTimers
<1> QED BY <1>1, <1>2, <1>3, <1>4 DEF ActivatingProcess

\* Active: FreeConnection arms the timer of the cycle.
LEMMA ActiveTimed ==
    ASSUME TypeOK, NEW m \in Machines, Timed(m), NEW e, NEW rest \in Rests,
           queue[m] \ {e} \subseteq rest.queue, UNCHANGED linkCallback,
           curState[m] = "Active", ActiveProcess(m, e, rest)
    PROVE  Timed(m)'
<1>1. CASE ProcessDisconnectDone(m, e, rest)
  <2> DEFINE r == SendTimer(rest, "DISCONNECT_TIMEOUT", connectId[m])
  <2>1. r \in Rests /\ r.queue = rest.queue \cup {TimerEvent("DISCONNECT_TIMEOUT", connectId[m])}
    BY RestType DEF TypeOK
  <2> HIDE DEF r
  <2>2. TransitionTo(m, "Disconnecting", deferEvents[m], r) /\ UNCHANGED connectId
    BY <1>1 DEF ProcessDisconnectDone, FreeConnection, r
  <2>3. curState'[m] = "Disconnecting"
    BY <2>2 DEF TransitionTo, TypeOK
  <2>4. [r EXCEPT !.imm = @ \o deferEvents[m]].queue = r.queue
    BY <2>1 DEF Rests
  <2>5. queue'[m] = r.queue
    BY <2>2, <2>4 DEF TransitionTo, Requeue, TypeOK
  <2> QED BY <2>1, <2>2, <2>3, <2>5 DEF Timed
<1>2. CASE ProcessLostConnection(m, e, rest)
  BY <1>2, EndTimed DEF ProcessLostConnection
<1>3. CASE ProcessDataConnectionComplete(m, e, rest)
  BY <1>3 DEF ProcessDataConnectionComplete, Stay, Timed
<1>4. CASE Ignore(m, rest) \/ DefaultProcess(m, e, rest)
  BY <1>4, DefaultTimed
<1> QED BY <1>1, <1>2, <1>3, <1>4 DEF ActiveProcess

\* Disconnecting: the timer of the cycle ends it.
LEMMA DisconnectingTimed ==
    ASSUME TypeOK, NEW m \in Machines, Timed(m), NEW e, NEW rest \in Rests,
           queue[m] \ {e} \subseteq rest.queue, UNCHANGED linkCallback,
           curState[m] = "Disconnecting", DisconnectingProcess(m, e, rest)
    PROVE  Timed(m)'
<1>1. CASE e.code = "DEACTIVATE" /\ ProcessRilDeactivateDataCall(m, e, rest)
  <2>1. CASE EnterInactive(m, cid[m], resultInfo[m], RemoveEvent(rest, "DISCONNECT_TIMEOUT"))
    BY <2>1, EndTimed
  <2>2. CASE Ignore(m, rest)
    BY <1>1, <2>2, DefaultTimed, TimersAreTimers
  <2> QED BY <1>1, <2>1, <2>2 DEF ProcessRilDeactivateDataCall
<1>2. CASE EndDisconnecting(m, rest)
  BY <1>2, EndTimed DEF EndDisconnecting
<1>3. CASE e.code = "DISCONNECT_TIMEOUT" /\ e.flag # connectId[m] /\ Ignore(m, rest)
  BY <1>3, DefaultTimed, TimersAreTimers
<1>4. CASE /\ e.code # "DISCONNECT_TIMEOUT"
           /\ DeferEvent(m, e, rest) \/ DefaultProcess(m, e, rest)
  BY <1>4, DefaultTimed, TimersAreTimers
<1> QED BY <1>1, <1>2, <1>3, <1>4 DEF DisconnectingProcess

-----------------------------------------------------------------------------
(* All steps *)

\* A dispatch keeps every wait timed.
LEMMA MachineStepTimed ==
    ASSUME TypeOK, WaitIsTimed, NEW m \in Machines, MachineStep(m)
    PROVE  WaitIsTimed'
<1>1. PICK e \in Event, rest \in Rests :
           Process(m, e, rest) /\ queue[m] \ {e} \subseteq rest.queue
  <2>1. PICK e \in Event, rest \in Rests :
           /\ Process(m, e, rest)
           /\ \/ /\ immediate[m] # <<>> /\ e = Head(immediate[m])
                 /\ rest.imm = Tail(immediate[m]) /\ rest.queue = queue[m]
              \/ /\ e \in queue[m]
                 /\ rest.imm = <<>> /\ rest.queue = queue[m] \ {e}
              \/ /\ e \in Commands
                 /\ rest.imm = <<>> /\ rest.queue = queue[m]
    BY DispatchProcesses
  <2>2. queue[m] \ {e} \subseteq rest.queue
    BY <2>1
  <2> QED BY <2>1, <2>2
<1>2. Timed(m) /\ UNCHANGED linkCallback
  BY <1>1, WaitIsTimedIsTimed DEF Process
<1>3. Timed(m)'
  BY <1>1, <1>2, InactiveTimed, ActivatingTimed, ActiveTimed, DisconnectingTimed DEF Process
<1>4. Framed(m) /\ UNCHANGED linkCallback
  BY <1>1, ProcessFrame
<1> QED BY <1>3, <1>4, OthersStayTimed DEF Framed

\* The radio only adds answers to a queue.
LEMMA RadioStepTimed ==
    ASSUME TypeOK, WaitIsTimed, NEW m \in Machines, RadioStep(m)
    PROVE  WaitIsTimed'
<1>1. /\ UNCHANGED <<curState, connectId, linkCallback>>
      /\ \E x : queue' = [queue EXCEPT ![m] = @ \cup {x}]
  BY DEF RadioStep, RadioAnswersSetup, RadioAnswersDeactivate
<1>2. \A k \in Machines : queue[k] \subseteq queue'[k]
  BY <1>1 DEF TypeOK
<1> QED BY <1>1, <1>2 DEF WaitIsTimed

\* The link callback takes disconnect timers only, and puts back one of the cycle it
\* finds: between the two it is known to be on its way.
LEMMA LinkStepTimed ==
    ASSUME TypeOK, WaitIsTimed, NEW m \in Machines, LinkStep(m)
    PROVE  WaitIsTimed'
<1>a. Timed(m) /\ UNCHANGED <<curState, connectId>>
  BY WaitIsTimedIsTimed DEF LinkStep, LinkDownFound, LinkDownRemove, LinkDownRearm, callbackRest
<1>b. /\ TimerEvent("CONNECT_TIMEOUT", connectId[m]).code # "DISCONNECT_TIMEOUT"
  BY TimerEventType DEF TypeOK
<1>1. CASE LinkDownFound(m)
  BY <1>a, <1>1 DEF LinkDownFound, WaitIsTimed, TypeOK
<1>2. CASE LinkDownRemove(m)
  <2>1. linkCallback' = [linkCallback EXCEPT ![m] = "removed"]
        /\ queue' = [queue EXCEPT ![m] = {x \in @ : x.code # "DISCONNECT_TIMEOUT"}]
    BY <1>2 DEF LinkDownRemove
  <2>2. linkCallback'[m] = "removed" /\ queue'[m] = {x \in queue[m] : x.code # "DISCONNECT_TIMEOUT"}
    BY <2>1 DEF TypeOK
  <2>3. Timed(m)'
    BY <1>a, <1>b, <2>2 DEF Timed
  <2>4. \A k \in Machines \ {m} : linkCallback'[k] = linkCallback[k] /\ queue'[k] = queue[k]
    BY <2>1 DEF TypeOK
  <2> QED BY <1>a, <2>3, <2>4, OthersStayTimed
<1>3. CASE LinkDownRearm(m)
  <2>1. linkCallback' = [linkCallback EXCEPT ![m] = "idle"]
        /\ queue' = [queue EXCEPT ![m] = @ \cup {TimerEvent("DISCONNECT_TIMEOUT", connectId[m])}]
    BY <1>3 DEF LinkDownRearm
  <2>2. queue'[m] = queue[m] \cup {TimerEvent("DISCONNECT_TIMEOUT", connectId[m])}
    BY <2>1 DEF TypeOK
  <2>3. Timed(m)'
    BY <1>a, <2>2 DEF Timed
  <2>4. \A k \in Machines \ {m} : linkCallback'[k] = linkCallback[k] /\ queue'[k] = queue[k]
    BY <2>1 DEF TypeOK
  <2> QED BY <1>a, <2>3, <2>4, OthersStayTimed
<1> QED BY <1>1, <1>2, <1>3 DEF LinkStep

\* Every step keeps every wait timed.
LEMMA NextTimed == TypeOK /\ WaitIsTimed /\ [Next]_vars => WaitIsTimed'
<1> SUFFICES ASSUME TypeOK, WaitIsTimed, [Next]_vars PROVE WaitIsTimed'
  OBVIOUS
<1>1. ASSUME NEW m \in Machines, HandlerReceives(m) PROVE WaitIsTimed'
  BY <1>1 DEF HandlerReceives, machineVars, WaitIsTimed
<1>2. CASE UNCHANGED vars
  BY <1>2 DEF vars, machineVars, WaitIsTimed
<1> QED BY <1>1, <1>2, MachineStepTimed, RadioStepTimed, LinkStepTimed DEF Next

\* A machine that waits for a radio answer always has a timer of the cycle queued, or
\* the link callback is about to queue it, in every interleaving of the callback's
\* thread with the machine's.
THEOREM WaitIsAlwaysTimed == Spec => []WaitIsTimed
<1>1. Init => WaitIsTimed
  BY DEF Init, WaitIsTimed
<1> QED BY <1>1, NextTimed, TypeCorrect, PTL DEF Spec

-----------------------------------------------------------------------------
(***************************************************************************)
(* A machine is never connected to, and never deactivates, a context that  *)
(* the modem granted to another cycle: proofs of ContextOfThisCycle and    *)
(* DeactivatesOwnContext of CellularDataStateMachine.                      *)
(*                                                                         *)
(* Neither is inductive: that Activating compares the flag of an answer    *)
(* with connectId_ helps only if an answer that says "active" carries the  *)
(* request and the context that the modem granted, wherever the answer is  *)
(* by then: queued, deferred or re-sent.  That is AnswersAreGranted.       *)
(***************************************************************************)

\* The events that machine m may hold if the modem granted the contexts g.
Sound(m, g) ==
    {e \in Event : e.code = "SETUP" /\ e.result = "active" => <<m, e.flag, e.cid>> \in g}

SoundRests(m, g) == [imm : Seq(Sound(m, g)), queue : SUBSET Sound(m, g)]

AnswersAreGranted ==
    \A m \in Machines :
        /\ queue[m] \subseteq Sound(m, granted)
        /\ immediate[m] \in Seq(Sound(m, granted))
        /\ deferEvents[m] \in Seq(Sound(m, granted))

ContextInv ==
    /\ AnswersAreGranted
    /\ ContextOfThisCycle
    /\ DeactivatesOwnContext

-----------------------------------------------------------------------------
(* Sound events stay sound. *)

\* What a machine may hold only grows with the contexts that the modem granted.
LEMMA SoundMonotonic ==
    ASSUME NEW m, NEW g, NEW h, g \subseteq h
    PROVE  /\ Sound(m, g) \subseteq Sound(m, h)
           /\ Seq(Sound(m, g)) \subseteq Seq(Sound(m, h))
<1>1. Sound(m, g) \subseteq Sound(m, h)
  BY DEF Sound
<1>2. ASSUME NEW s \in Seq(Sound(m, g)) PROVE s \in Seq(Sound(m, h))
  BY <1>1
<1> QED BY <1>1, <1>2

\* An event that is no set-up answer is always sound.
LEMMA OtherEventsSound ==
    ASSUME NEW m, NEW g, NEW e \in Event, e.code # "SETUP"
    PROVE  e \in Sound(m, g)
BY DEF Sound

\* The commands of the handler and the manager carry no set-up answer.
LEMMA CommandsSound ==
    ASSUME NEW m, NEW g
    PROVE  Commands \subseteq Sound(m, g)
<1> SUFFICES ASSUME NEW e \in Commands PROVE e \in Sound(m, g)
  OBVIOUS
<1>1. e.code # "SETUP"
  BY DEF Commands, ConnectEvent, DisconnectEvent, LostEvent, HostDiedEvent, Blank
<1> QED BY <1>1, CommandsType, OtherEventsSound

\* A sound rest is a rest, also once a timer is sent or events are removed.
LEMMA SoundRestType ==
    ASSUME NEW m, NEW g, NEW rest \in SoundRests(m, g),
           NEW code \in {"CONNECT_TIMEOUT", "DISCONNECT_TIMEOUT"}, NEW n \in Nat
    PROVE  /\ rest \in Rests
           /\ SendTimer(rest, code, n) \in SoundRests(m, g)
           /\ RemoveEvent(rest, code) \in SoundRests(m, g)
<1>1. Sound(m, g) \subseteq Event
  BY DEF Sound
<1>2. rest.imm \in Seq(Event)
  BY <1>1 DEF SoundRests
<1>3. rest \in Rests
  BY <1>1, <1>2 DEF SoundRests, Rests
<1>4. TimerEvent(code, n) \in Sound(m, g)
  BY TimerEventType, OtherEventsSound
<1> QED BY <1>3, <1>4 DEF SoundRests, SendTimer, RemoveEvent

\* A machine that stays holds sound events only.
LEMMA StaySound ==
    ASSUME TypeOK, AnswersAreGranted, NEW m \in Machines, NEW rest \in SoundRests(m, granted),
           Stay(m, rest), UNCHANGED granted
    PROVE  AnswersAreGranted'
BY DEF Stay, Requeue, AnswersAreGranted, SoundRests, TypeOK

\* So does one that defers the sound event in hand.
LEMMA DeferSound ==
    ASSUME TypeOK, AnswersAreGranted, NEW m \in Machines, NEW rest \in SoundRests(m, granted),
           NEW e \in Sound(m, granted), DeferEvent(m, e, rest), UNCHANGED granted
    PROVE  AnswersAreGranted'
<1>1. Append(deferEvents[m], e) \in Seq(Sound(m, granted))
  BY DEF AnswersAreGranted
<1> QED BY <1>1 DEF DeferEvent, Requeue, AnswersAreGranted, SoundRests, TypeOK

\* So does one that changes its state and re-sends sound events.
LEMMA TransitionSound ==
    ASSUME TypeOK, AnswersAreGranted, NEW m \in Machines, NEW rest \in SoundRests(m, granted),
           NEW dest, NEW deferred \in Seq(Sound(m, granted)),
           TransitionTo(m, dest, deferred, rest), UNCHANGED granted
    PROVE  AnswersAreGranted'
<1>1. rest.imm \o deferred \in Seq(Sound(m, granted))
  BY DEF SoundRests
<1>2. /\ [rest EXCEPT !.imm = @ \o deferred].imm = rest.imm \o deferred
      /\ [rest EXCEPT !.imm = @ \o deferred].queue = rest.queue
  BY DEF SoundRests
<1>3. <<>> \in Seq(Sound(m, granted))
  OBVIOUS
<1>4. rest.queue \subseteq Sound(m, granted)
  BY DEF SoundRests
<1>5. /\ immediate' = [immediate EXCEPT ![m] = rest.imm \o deferred]
      /\ queue' = [queue EXCEPT ![m] = rest.queue]
      /\ deferEvents' = [deferEvents EXCEPT ![m] = <<>>]
  BY <1>2 DEF TransitionTo, Requeue
<1> QED BY <1>1, <1>3, <1>4, <1>5 DEF AnswersAreGranted, TypeOK

-----------------------------------------------------------------------------
(* The handlers *)

\* A handler that leaves state, cycle, cid and requests alone keeps the invariant.
LEMMA QuietContext ==
    ASSUME ContextInv, AnswersAreGranted',
           UNCHANGED <<curState, connectId, cid, deactReqs, granted>>
    PROVE  ContextInv'
BY DEF ContextInv, ContextOfThisCycle, DeactivatesOwnContext

\* Ending a cycle keeps the invariant: the machine holds no context any more.
LEMMA EndContext ==
    ASSUME TypeOK, ContextInv, NEW m \in Machines, NEW rest \in SoundRests(m, granted),
           NEW c, NEW reason, EnterInactive(m, c, reason, rest),
           \A k \in Machines \ {m} : cid'[k] = cid[k],
           UNCHANGED <<deactReqs, granted>>
    PROVE  ContextInv'
<1>1. AnswersAreGranted'
  <2>1. deferEvents[m] \in Seq(Sound(m, granted))
    BY DEF ContextInv, AnswersAreGranted
  <2> QED BY <2>1, TransitionSound DEF EnterInactive, ContextInv
<1>2. curState' = [curState EXCEPT ![m] = "Inactive"] /\ connectId' = [connectId EXCEPT ![m] = @ + 1]
  BY DEF EnterInactive, TransitionTo
<1>3. ContextOfThisCycle'
  BY <1>2 DEF ContextInv, ContextOfThisCycle, TypeOK
<1>4. DeactivatesOwnContext'
  BY DEF ContextInv, DeactivatesOwnContext
<1> QED BY <1>1, <1>3, <1>4 DEF ContextInv

\* Ignoring or deferring an event keeps the invariant.
LEMMA DefaultContext ==
    ASSUME TypeOK, ContextInv, NEW m \in Machines, NEW e \in Sound(m, granted),
           NEW rest \in SoundRests(m, granted),
           Ignore(m, rest) \/ DeferEvent(m, e, rest) \/ DefaultProcess(m, e, rest),
           UNCHANGED granted
    PROVE  ContextInv'
<1>1. CASE Ignore(m, rest)
  <2>1. AnswersAreGranted'
    BY <1>1, StaySound DEF Ignore, ContextInv
  <2> QED BY <1>1, <2>1, QuietContext DEF Ignore, Stay, heldVars
<1>2. CASE DeferEvent(m, e, rest)
  <2>1. AnswersAreGranted'
    BY <1>2, DeferSound DEF ContextInv
  <2> QED BY <1>2, <2>1, QuietContext DEF DeferEvent, heldVars
<1> QED BY <1>1, <1>2 DEF DefaultProcess

\* Inactive: a machine that starts to activate holds no context yet.
LEMMA InactiveContext ==
    ASSUME TypeOK, ContextInv, NEW m \in Machines, NEW e \in Sound(m, granted),
           NEW rest \in SoundRests(m, granted), InactiveProcess(m, e, rest), UNCHANGED granted
    PROVE  ContextInv'
<1>1. CASE /\ DoConnect(m, e, rest)
           /\ UNCHANGED <<connectId, cid, deactReqs>>
  <2>1. SendTimer(rest, "CONNECT_TIMEOUT", connectId[m]) \in SoundRests(m, granted)
    BY SoundRestType DEF TypeOK
  <2>2. AnswersAreGranted'
    BY <1>1, <2>1, TransitionSound DEF DoConnect, ContextInv, AnswersAreGranted
  <2>3. curState' = [curState EXCEPT ![m] = "Activating"]
    BY <1>1 DEF DoConnect, TransitionTo
  <2>4. ContextOfThisCycle'
    BY <1>1, <2>3 DEF ContextInv, ContextOfThisCycle, TypeOK
  <2>5. DeactivatesOwnContext'
    BY <1>1 DEF ContextInv, DeactivatesOwnContext
  <2> QED BY <2>2, <2>4, <2>5 DEF ContextInv
<1>2. CASE Ignore(m, rest) \/ DefaultProcess(m, e, rest)
  BY <1>2, DefaultContext
<1> QED BY <1>1, <1>2 DEF InactiveProcess

\* Activating: the flag test ties the context of an answer to this cycle.
LEMMA ActivatingContext ==
    ASSUME TypeOK, ContextInv, NEW m \in Machines, NEW e \in Sound(m, granted),
           NEW rest \in SoundRests(m, granted), ActivatingProcess(m, e, rest), UNCHANGED granted
    PROVE  ContextInv'
<1>1. CASE /\ e.code = "SETUP" /\ RilActivatePdpContextDone(m, e, rest)
  <2>1. CASE /\ Stay(m, rest) /\ UNCHANGED <<connectId, cid>>
    <3>1. AnswersAreGranted'
      BY <2>1, StaySound DEF ContextInv
    <3> QED BY <1>1, <2>1, <3>1, QuietContext DEF RilActivatePdpContextDone, Stay
  <2>2. CASE /\ cid' = [cid EXCEPT ![m] = e.cid]
             /\ EnterInactive(m, e.cid, e.reason, rest)
    <3>1. \A k \in Machines \ {m} : cid'[k] = cid[k]
      BY <2>2 DEF TypeOK
    <3> QED BY <1>1, <2>2, <3>1, EndContext DEF RilActivatePdpContextDone
  <2>3. CASE /\ e.flag = connectId[m] /\ e.result = "active"
             /\ cid' = [cid EXCEPT ![m] = e.cid]
             /\ TransitionTo(m, "Active", Append(deferEvents[m], e), rest)
             /\ UNCHANGED connectId
    <3>1. Append(deferEvents[m], e) \in Seq(Sound(m, granted))
      BY DEF ContextInv, AnswersAreGranted
    <3>2. AnswersAreGranted'
      BY <2>3, <3>1, TransitionSound DEF ContextInv
    <3>3. <<m, connectId[m], e.cid>> \in granted
      BY <1>1, <2>3 DEF Sound
    <3>4. curState' = [curState EXCEPT ![m] = "Active"]
      BY <2>3 DEF TransitionTo
    <3>5. ContextOfThisCycle'
      BY <2>3, <3>3, <3>4 DEF ContextInv, ContextOfThisCycle, TypeOK
    <3>6. DeactivatesOwnContext'
      BY <1>1 DEF RilActivatePdpContextDone, ContextInv, DeactivatesOwnContext
    <3> QED BY <3>2, <3>5, <3>6 DEF ContextInv
  <2> QED BY <1>1, <2>1, <2>2, <2>3 DEF RilActivatePdpContextDone
<1>2. CASE RilErrorResponse(m, e, rest)
  BY <1>2, EndContext DEF RilErrorResponse
<1>3. CASE ProcessConnectTimeout(m, e, rest)
  BY <1>3, EndContext, DefaultContext DEF ProcessConnectTimeout
<1>4. CASE Ignore(m, rest) \/ DeferEvent(m, e, rest) \/ DefaultProcess(m, e, rest)
  BY <1>4, DefaultContext
<1> QED BY <1>1, <1>2, <1>3, <1>4 DEF ActivatingProcess

\* Active: the request to deactivate names the context of this cycle.
LEMMA ActiveContext ==
    ASSUME TypeOK, ContextInv, NEW m \in Machines, NEW e \in Sound(m, granted),
           NEW rest \in SoundRests(m, granted), curState[m] = "Active",
           ActiveProcess(m, e, rest), UNCHANGED granted
    PROVE  ContextInv'
<1>1. CASE ProcessDisconnectDone(m, e, rest)
  <2>1. SendTimer(rest, "DISCONNECT_TIMEOUT", connectId[m]) \in SoundRests(m, granted)
    BY SoundRestType DEF TypeOK
  <2>2. AnswersAreGranted'
    BY <1>1, <2>1, TransitionSound DEF ProcessDisconnectDone, FreeConnection, ContextInv, AnswersAreGranted
  <2>3. /\ curState' = [curState EXCEPT ![m] = "Disconnecting"]
        /\ deactReqs' = [deactReqs EXCEPT ![m] = @ \cup {<<connectId[m], cid[m]>>}]
        /\ UNCHANGED <<connectId, cid>>
    BY <1>1 DEF ProcessDisconnectDone, FreeConnection, TransitionTo
  <2>4. <<m, connectId[m], cid[m]>> \in granted
    BY DEF ContextInv, ContextOfThisCycle
  <2>5. ContextOfThisCycle'
    BY <2>3, <2>4 DEF ContextInv, ContextOfThisCycle, TypeOK
  <2>6. ASSUME NEW k \in Machines, NEW d \in deactReqs'[k] PROVE <<k, d[1], d[2]>> \in granted
    <3>1. CASE d \in deactReqs[k]
      BY <3>1 DEF ContextInv, DeactivatesOwnContext
    <3>2. CASE k = m /\ d = <<connectId[m], cid[m]>>
      BY <2>4, <3>2
    <3> QED BY <2>3, <2>6, <3>1, <3>2 DEF TypeOK
  <2> QED BY <2>2, <2>5, <2>6 DEF ContextInv, DeactivatesOwnContext
<1>2. CASE ProcessLostConnection(m, e, rest)
  BY <1>2, EndContext DEF ProcessLostConnection
<1>3. CASE ProcessDataConnectionComplete(m, e, rest)
  <2>1. RemoveEvent(rest, "CONNECT_TIMEOUT") \in SoundRests(m, granted)
    BY SoundRestType DEF TypeOK
  <2>2. AnswersAreGranted'
    BY <1>3, <2>1, StaySound DEF ProcessDataConnectionComplete, ContextInv
  <2> QED BY <1>3, <2>2, QuietContext DEF ProcessDataConnectionComplete, Stay
<1>4. CASE Ignore(m, rest) \/ DefaultProcess(m, e, rest)
  BY <1>4, DefaultContext
<1> QED BY <1>1, <1>2, <1>3, <1>4 DEF ActiveProcess

\* Disconnecting: the machine waits, or the cycle ends.
LEMMA DisconnectingContext ==
    ASSUME TypeOK, ContextInv, NEW m \in Machines, NEW e \in Sound(m, granted),
           NEW rest \in SoundRests(m, granted), DisconnectingProcess(m, e, rest), UNCHANGED granted
    PROVE  ContextInv'
<1>1. CASE ProcessRilDeactivateDataCall(m, e, rest)
  <2>1. RemoveEvent(rest, "DISCONNECT_TIMEOUT") \in SoundRests(m, granted)
    BY SoundRestType DEF TypeOK
  <2> QED BY <1>1, <2>1, EndContext, DefaultContext DEF ProcessRilDeactivateDataCall
<1>2. CASE EndDisconnecting(m, rest)
  BY <1>2, EndContext DEF EndDisconnecting
<1>3. CASE Ignore(m, rest) \/ DeferEvent(m, e, rest) \/ DefaultProcess(m, e, rest)
  BY <1>3, DefaultContext
<1> QED BY <1>1, <1>2, <1>3 DEF DisconnectingProcess

-----------------------------------------------------------------------------
(* ContextInv is inductive. *)

\* A dispatch keeps the invariant, in whatever state the machine is.
LEMMA MachineStepContext ==
    ASSUME TypeOK, ContextInv, NEW m \in Machines, MachineStep(m)
    PROVE  ContextInv'
<1>1. PICK e \in Event, rest \in Rests :
           /\ Process(m, e, rest)
           /\ \/ /\ immediate[m] # <<>> /\ e = Head(immediate[m])
                 /\ rest.imm = Tail(immediate[m]) /\ rest.queue = queue[m]
              \/ /\ e \in queue[m]
                 /\ rest.imm = <<>> /\ rest.queue = queue[m] \ {e}
              \/ /\ e \in Commands
                 /\ rest.imm = <<>> /\ rest.queue = queue[m]
  BY DispatchProcesses
<1>2. queue[m] \subseteq Sound(m, granted) /\ immediate[m] \in Seq(Sound(m, granted))
  BY DEF ContextInv, AnswersAreGranted
<1>3. e \in Sound(m, granted)
  BY <1>1, <1>2, CommandsSound
<1>4. rest.imm \in Seq(Sound(m, granted)) /\ rest.queue \subseteq Sound(m, granted)
  <2>1. <<>> \in Seq(Sound(m, granted))
    OBVIOUS
  <2>2. immediate[m] # <<>> => Tail(immediate[m]) \in Seq(Sound(m, granted))
    BY <1>2
  <2>3. rest.imm = <<>> \/ (immediate[m] # <<>> /\ rest.imm = Tail(immediate[m]))
    BY <1>1
  <2>4. rest.queue \subseteq queue[m]
    BY <1>1
  <2> QED BY <1>2, <2>1, <2>2, <2>3, <2>4
<1>5. rest \in SoundRests(m, granted)
  BY <1>4 DEF Rests, SoundRests
<1>6. UNCHANGED granted
  BY <1>1 DEF Process
<1> QED BY <1>1, <1>3, <1>5, <1>6, InactiveContext, ActivatingContext, ActiveContext,
           DisconnectingContext DEF Process

\* The radio grants what it says it grants.
LEMMA RadioStepContext ==
    ASSUME TypeOK, ContextInv, NEW m \in Machines, RadioStep(m)
    PROVE  ContextInv'
<1>1. CASE \E n \in setupReqs[m] : \E e \in SetupAnswers(n) : RadioAnswersSetup(m, n, e)
  <2>1. PICK n \in setupReqs[m] : \E e \in SetupAnswers(n) : RadioAnswersSetup(m, n, e)
    BY <1>1
  <2>2. PICK e \in SetupAnswers(n) : RadioAnswersSetup(m, n, e)
    BY <2>1
  <2>3. e \in Event /\ e.flag = n
    BY SetupAnswersType DEF TypeOK
  <2>4. granted \subseteq granted'
    BY <2>2 DEF RadioAnswersSetup
  <2>5. e \in Sound(m, granted')
    BY <2>2, <2>3 DEF RadioAnswersSetup, Sound
  <2>6. ASSUME NEW k \in Machines
        PROVE  /\ queue'[k] \subseteq Sound(k, granted')
               /\ immediate'[k] \in Seq(Sound(k, granted'))
               /\ deferEvents'[k] \in Seq(Sound(k, granted'))
    <3>1. /\ queue[k] \subseteq Sound(k, granted')
          /\ immediate[k] \in Seq(Sound(k, granted'))
          /\ deferEvents[k] \in Seq(Sound(k, granted'))
      BY <2>4, SoundMonotonic DEF ContextInv, AnswersAreGranted
    <3>2. queue'[k] \subseteq queue[k] \cup (IF k = m THEN {e} ELSE {})
      BY <2>2 DEF RadioAnswersSetup, TypeOK
    <3> QED BY <2>2, <2>5, <3>1, <3>2 DEF RadioAnswersSetup
  <2>7. AnswersAreGranted'
    BY <2>6 DEF AnswersAreGranted
  <2>8. ContextOfThisCycle' /\ DeactivatesOwnContext'
    BY <2>2, <2>4 DEF RadioAnswersSetup, ContextInv, ContextOfThisCycle, DeactivatesOwnContext
  <2> QED BY <2>7, <2>8 DEF ContextInv
<1>2. CASE \E d \in deactReqs[m], res \in {"done", "null"} : RadioAnswersDeactivate(m, d, res)
  <2>1. PICK d \in deactReqs[m], res \in {"done", "null"} : RadioAnswersDeactivate(m, d, res)
    BY <1>2
  <2>2. DeactivateAnswer(d[1], res) \in Sound(m, granted)
    <3>1. d[1] \in Nat
      BY DEF TypeOK
    <3>2. DeactivateAnswer(d[1], res) \in Event /\ DeactivateAnswer(d[1], res).code # "SETUP"
      BY <3>1, DeactivateAnswerType
    <3> QED BY <3>2, OtherEventsSound
  <2>3. AnswersAreGranted'
    BY <2>1, <2>2 DEF RadioAnswersDeactivate, ContextInv, AnswersAreGranted, TypeOK
  <2>4. \A k \in Machines : deactReqs'[k] \subseteq deactReqs[k]
    BY <2>1 DEF RadioAnswersDeactivate, TypeOK
  <2>5. ContextOfThisCycle' /\ DeactivatesOwnContext'
    BY <2>1, <2>4 DEF RadioAnswersDeactivate, ContextInv, ContextOfThisCycle, DeactivatesOwnContext
  <2> QED BY <2>3, <2>5 DEF ContextInv
<1> QED BY <1>1, <1>2 DEF RadioStep

\* The link callback only moves timers.
LEMMA LinkStepContext ==
    ASSUME TypeOK, ContextInv, NEW m \in Machines, LinkStep(m)
    PROVE  ContextInv'
<1>1. TimerEvent("DISCONNECT_TIMEOUT", connectId[m]) \in Sound(m, granted)
  BY TimerEventType, OtherEventsSound DEF TypeOK
<1>2. UNCHANGED <<curState, connectId, cid, deactReqs, granted, immediate, deferEvents>>
  BY DEF LinkStep, LinkDownFound, LinkDownRemove, LinkDownRearm, callbackRest, radioVars
<1>3. \A k \in Machines : queue'[k] \subseteq queue[k] \cup
          (IF k = m THEN {TimerEvent("DISCONNECT_TIMEOUT", connectId[m])} ELSE {})
  <2>1. CASE LinkDownFound(m)
    BY <2>1 DEF LinkDownFound
  <2>2. CASE LinkDownRemove(m)
    BY <2>2 DEF LinkDownRemove, TypeOK
  <2>3. CASE LinkDownRearm(m)
    BY <2>3 DEF LinkDownRearm, TypeOK
  <2> QED BY <2>1, <2>2, <2>3 DEF LinkStep
<1>4. AnswersAreGranted'
  BY <1>1, <1>2, <1>3 DEF ContextInv, AnswersAreGranted
<1> QED BY <1>2, <1>4, QuietContext

\* Every step keeps the invariant.
LEMMA NextContext == TypeOK /\ ContextInv /\ [Next]_vars => ContextInv'
<1> SUFFICES ASSUME TypeOK, ContextInv, [Next]_vars PROVE ContextInv'
  OBVIOUS
<1>1. ASSUME NEW m \in Machines, HandlerReceives(m) PROVE ContextInv'
  <2>1. UNCHANGED <<curState, connectId, cid, deactReqs, granted, queue, immediate, deferEvents>>
    BY <1>1 DEF HandlerReceives, machineVars, radioVars
  <2>2. AnswersAreGranted'
    BY <2>1 DEF ContextInv, AnswersAreGranted
  <2> QED BY <2>1, <2>2, QuietContext
<1>2. CASE UNCHANGED vars
  <2>1. UNCHANGED <<curState, connectId, cid, deactReqs, granted, queue, immediate, deferEvents>>
    BY <1>2 DEF vars, machineVars, radioVars
  <2>2. AnswersAreGranted'
    BY <2>1 DEF ContextInv, AnswersAreGranted
  <2> QED BY <2>1, <2>2, QuietContext
<1> QED BY <1>1, <1>2, MachineStepContext, RadioStepContext, LinkStepContext DEF Next

\* The initial state holds no context and no answer.
LEMMA InitContext == Init => ContextInv
<1> SUFFICES ASSUME Init PROVE ContextInv
  OBVIOUS
<1>1. ASSUME NEW m \in Machines PROVE <<>> \in Seq(Sound(m, granted))
  OBVIOUS
<1>2. AnswersAreGranted
  BY <1>1 DEF Init, AnswersAreGranted
<1>3. ContextOfThisCycle /\ DeactivatesOwnContext
  BY DEF Init, ContextOfThisCycle, DeactivatesOwnContext
<1> QED BY <1>2, <1>3 DEF ContextInv

\* A machine that is Active or Disconnecting always holds the context that the modem
\* granted to the set-up request of this very cycle, however late, lost, reordered or
\* deferred the radio's answers are and whenever timers run out.
THEOREM ContextIsOfThisCycle == Spec => []ContextOfThisCycle
<1>1. Spec => []ContextInv
  BY InitContext, NextContext, TypeCorrect, PTL DEF Spec
<1>2. ContextInv => ContextOfThisCycle
  BY DEF ContextInv
<1> QED BY <1>1, <1>2, PTL

\* Every deactivation that a machine asks for names a context that the modem granted to
\* the cycle in which it is asked for.
THEOREM OnlyOwnContextIsDeactivated == Spec => []DeactivatesOwnContext
<1>1. Spec => []ContextInv
  BY InitContext, NextContext, TypeCorrect, PTL DEF Spec
<1>2. ContextInv => DeactivatesOwnContext
  BY DEF ContextInv
<1> QED BY <1>1, <1>2, PTL

-----------------------------------------------------------------------------
(***************************************************************************)
(* A radio that answers in order makes the machines of                     *)
(* CellularDataStateMachine implement DataCall, and makes every report of  *)
(* a connection the report of its own cycle.                               *)
(*                                                                         *)
(* Active takes any set-up answer it finds for the one that it re-sent to  *)
(* itself.  The invariant says that it finds no other: an answer of an     *)
(* earlier cycle is ahead of this cycle's in the queue, and what a machine *)
(* re-sends to itself is a command it deferred, or the one answer.         *)
(***************************************************************************)

Connected == {"Active", "Disconnecting"}

\* What a machine defers, and what it re-sends to itself in cycle n.
Deferrable == {e \in Event : e.code \in {"CONNECT", "DISCONNECT"}}

Resent(n) == Deferrable \cup {e \in Event : e.code = "SETUP" /\ e.result = "active" /\ e.flag = n}

HasSetup(s) == \E i \in 1 .. Len(s) : s[i].code = "SETUP"

OneSetup(s) == \A i, j \in 1 .. Len(s) : s[i].code = "SETUP" /\ s[j].code = "SETUP" => i = j

ResentOK(m) ==
    /\ deferEvents[m] \in Seq(Deferrable)
    /\ immediate[m] \in Seq(Resent(connectId[m])) /\ OneSetup(immediate[m])
    /\ HasSetup(immediate[m]) => curState[m] \in Connected

\* Requests and answers of set-ups have the numbers of this cycle or an earlier
\* one, ascending from the answers to the requests, and no number twice; a machine
\* that is connected has none left.
InTime(m, n) ==
    /\ curState[m] \notin Connected
    /\ n <= connectId[m]
    /\ curState[m] = "Inactive" => n # connectId[m]

Ordered(m) ==
    /\ \A n \in setupReqs[m] : InTime(m, n)
    /\ \A x \in queue[m] : x.code = "SETUP" =>
         /\ InTime(m, x.flag)
         /\ \A n \in setupReqs[m] : x.flag < n
         /\ \A y \in queue[m] : y.code = "SETUP" /\ y.flag = x.flag => y = x

OrderInv == \A m \in Machines : ResentOK(m) /\ Ordered(m)

-----------------------------------------------------------------------------
(* What ProcessEvent does to calls.  Of the dispatch of an event e these    *)
(* are all the outcomes that matter here, in whatever state they happen.    *)

\* Timers come and go, answers are taken.
Takes(m, rest) ==
    \E q \in SUBSET Event : /\ queue' = [queue EXCEPT ![m] = q]
                            /\ \A x \in q : x.code \in {"CONNECT", "SETUP"} => x \in rest.queue

Moves(m, dest, deferred, rest) ==
    /\ curState' = [curState EXCEPT ![m] = dest]
    /\ immediate' = [immediate EXCEPT ![m] = rest.imm \o deferred]
    /\ deferEvents' = [deferEvents EXCEPT ![m] = <<>>]
    /\ Takes(m, rest)

Waits(m, e, rest) ==
    /\ curState[m] = "Active" => ~(e.code = "SETUP" /\ e.result \in {"active", "rejected"})
    /\ curState[m] = "Inactive" => e.code # "CONNECT"
    /\ immediate' = [immediate EXCEPT ![m] = rest.imm] /\ Takes(m, rest)
    /\ \/ UNCHANGED deferEvents
       \/ /\ e.code \in {"CONNECT", "DISCONNECT"}
          /\ deferEvents' = [deferEvents EXCEPT ![m] = Append(@, e)]
    /\ UNCHANGED <<curState, connectId, apnId, cid, setupReqs, activeByCid, outbox>>

Opens(m, e, rest) ==
    /\ curState[m] = "Inactive" /\ e.code = "CONNECT"
    /\ Moves(m, "Activating", deferEvents[m], rest)
    /\ apnId' = [apnId EXCEPT ![m] = e.apn]
    /\ setupReqs' = [setupReqs EXCEPT ![m] = @ \cup {connectId[m]}]
    /\ UNCHANGED <<connectId, cid, activeByCid, outbox>>

Connects(m, e, rest) ==
    /\ curState[m] = "Activating"
    /\ e.code = "SETUP" /\ e.result = "active" /\ e.flag = connectId[m]
    /\ Moves(m, "Active", Append(deferEvents[m], e), rest)
    /\ cid' = [cid EXCEPT ![m] = e.cid]
    /\ activeByCid' = [activeByCid EXCEPT ![e.cid] = m]
    /\ UNCHANGED <<connectId, apnId, setupReqs, outbox>>

Establishes(m, e, rest) ==
    /\ curState[m] = "Active" /\ e.code = "SETUP"
    /\ immediate' = [immediate EXCEPT ![m] = rest.imm] /\ Takes(m, rest)
    /\ outbox' = [outbox EXCEPT ![m] = Append(@, Established(m, e))]
    /\ UNCHANGED <<curState, connectId, apnId, cid, setupReqs, deferEvents, activeByCid>>

Closes(m, e, rest) ==
    /\ curState[m] = "Active" /\ e.code = "DISCONNECT"
    /\ Moves(m, "Disconnecting", deferEvents[m], rest)
    /\ UNCHANGED <<connectId, apnId, cid, setupReqs, activeByCid, outbox>>

Ends(m, e, rest) ==
    /\ curState[m] # "Inactive" /\ e.code \notin {"CONNECT", "DISCONNECT"}
    /\ e.code = "SETUP" => curState[m] = "Activating"
    /\ Moves(m, "Inactive", deferEvents[m], rest)
    /\ connectId' = [connectId EXCEPT ![m] = @ + 1]
    /\ \E c, reason : outbox' = [outbox EXCEPT ![m] = Append(@, Disconnected(m, c, reason))]
    /\ UNCHANGED cid \/ (e.code = "SETUP" /\ cid' = [cid EXCEPT ![m] = e.cid])
    /\ UNCHANGED <<apnId, setupReqs, activeByCid>>

Outcome(m, e, rest) ==
    \/ Waits(m, e, rest) \/ Opens(m, e, rest) \/ Connects(m, e, rest)
    \/ Establishes(m, e, rest) \/ Closes(m, e, rest) \/ Ends(m, e, rest)

(* The building blocks of the handlers have these outcomes. *)
LEMMA TransitionMoves ==
    ASSUME NEW m \in Machines, NEW rest \in Rests, NEW dest, NEW deferred, NEW from \in Rests,
           TransitionTo(m, dest, deferred, from), from.imm = rest.imm,
           \A x \in from.queue : x.code \in {"CONNECT", "SETUP"} => x \in rest.queue
    PROVE  Moves(m, dest, deferred, rest)
<1>1. /\ [from EXCEPT !.imm = @ \o deferred].imm = rest.imm \o deferred
      /\ [from EXCEPT !.imm = @ \o deferred].queue = from.queue
    BY DEF Rests
<1>2. from.queue \in SUBSET Event BY DEF Rests
<1> QED BY <1>1, <1>2 DEF TransitionTo, Requeue, Moves, Takes

LEMMA RestKept ==
    ASSUME NEW rest \in Rests, NEW code \in {"CONNECT_TIMEOUT", "DISCONNECT_TIMEOUT"}, NEW n \in Nat
    PROVE  \A from \in {rest, SendTimer(rest, code, n), RemoveEvent(rest, code)} :
              /\ from \in Rests /\ from.imm = rest.imm
              /\ \A x \in from.queue : x.code \in {"CONNECT", "SETUP"} => x \in rest.queue
<1>1. TimerEvent(code, n).code \notin {"CONNECT", "SETUP"} BY TimerEventType
<1> QED BY <1>1, RestType

LEMMA IgnoreWaits ==
    ASSUME NEW m \in Machines, NEW e \in Event, NEW rest \in Rests, Ignore(m, rest),
           curState[m] = "Active" => ~(e.code = "SETUP" /\ e.result \in {"active", "rejected"}),
           curState[m] = "Inactive" => e.code # "CONNECT"
    PROVE  Waits(m, e, rest)
<1>1. rest.queue \in SUBSET Event BY DEF Rests
<1> QED BY <1>1 DEF Ignore, Stay, Requeue, heldVars, Waits, Takes

LEMMA DeferWaits ==
    ASSUME NEW m \in Machines, NEW e \in Event, NEW rest \in Rests, DeferEvent(m, e, rest),
           e.code \in {"CONNECT", "DISCONNECT"}, curState[m] = "Inactive" => e.code # "CONNECT"
    PROVE  Waits(m, e, rest)
<1>1. rest.queue \in SUBSET Event BY DEF Rests
<1> QED BY <1>1 DEF DeferEvent, Requeue, heldVars, Waits, Takes

LEMMA DefaultWaits ==
    ASSUME NEW m \in Machines, NEW e \in Event, NEW rest \in Rests, DefaultProcess(m, e, rest),
           curState[m] = "Active" => ~(e.code = "SETUP" /\ e.result \in {"active", "rejected"}),
           curState[m] = "Inactive" => e.code # "CONNECT"
    PROVE  Waits(m, e, rest)
BY IgnoreWaits, DeferWaits DEF DefaultProcess

LEMMA EnterInactiveEnds ==
    ASSUME NEW m \in Machines, NEW e \in Event, NEW rest \in Rests, NEW from \in Rests,
           NEW c, NEW reason, EnterInactive(m, c, reason, from), from.imm = rest.imm,
           \A x \in from.queue : x.code \in {"CONNECT", "SETUP"} => x \in rest.queue,
           curState[m] # "Inactive", e.code \notin {"CONNECT", "DISCONNECT"},
           e.code = "SETUP" => curState[m] = "Activating",
           UNCHANGED cid \/ (e.code = "SETUP" /\ cid' = [cid EXCEPT ![m] = e.cid]),
           UNCHANGED <<apnId, setupReqs, activeByCid>>
    PROVE  Ends(m, e, rest)
<1>1. Moves(m, "Inactive", deferEvents[m], rest)
    BY TransitionMoves DEF EnterInactive
<1> QED BY <1>1 DEF EnterInactive, Ends

(* Each state has these outcomes only. *)
LEMMA InactiveOutcome ==
    ASSUME TypeOK, NEW m \in Machines, NEW e \in Event, NEW rest \in Rests,
           curState[m] = "Inactive", InactiveProcess(m, e, rest)
    PROVE  Outcome(m, e, rest)
<1> USE DEF Outcome
<1>1. CASE /\ e.code = "CONNECT" /\ DoConnect(m, e, rest)
           /\ UNCHANGED <<connectId, cid, activeByCid, outbox>>
    <2>1. connectId[m] \in Nat BY DEF TypeOK
    <2>2. Moves(m, "Activating", deferEvents[m], rest)
        BY <1>1, <2>1, RestKept, TransitionMoves DEF DoConnect
    <2> QED BY <1>1, <2>2 DEF DoConnect, Opens
<1>2. CASE e.code # "CONNECT" /\ (Ignore(m, rest) \/ DefaultProcess(m, e, rest))
    BY <1>2, IgnoreWaits, DefaultWaits
<1> QED BY <1>1, <1>2 DEF InactiveProcess

LEMMA ActivatingOutcome ==
    ASSUME TypeOK, NEW m \in Machines, NEW e \in Event, NEW rest \in Rests,
           curState[m] = "Activating", ActivatingProcess(m, e, rest)
    PROVE  Outcome(m, e, rest)
<1> USE DEF Outcome
<1>1. CASE e.code = "CONNECT" /\ DeferEvent(m, e, rest) BY <1>1, DeferWaits
<1>2. CASE e.code = "SETUP" /\ RilActivatePdpContextDone(m, e, rest)
    <2>1. CASE Stay(m, rest) /\ UNCHANGED <<connectId, cid, activeByCid, outbox>>
        <3>1. rest.queue \in SUBSET Event BY DEF Rests
        <3> QED BY <1>2, <2>1, <3>1 DEF RilActivatePdpContextDone, Stay, Requeue, Waits, Takes
    <2>2. CASE /\ EnterInactive(m, e.cid, e.reason, rest)
               /\ cid' = [cid EXCEPT ![m] = e.cid] /\ UNCHANGED activeByCid
        BY <1>2, <2>2, EnterInactiveEnds DEF RilActivatePdpContextDone
    <2>3. CASE /\ e.flag = connectId[m] /\ e.result = "active"
               /\ TransitionTo(m, "Active", Append(deferEvents[m], e), rest)
               /\ cid' = [cid EXCEPT ![m] = e.cid]
               /\ activeByCid' = [activeByCid EXCEPT ![e.cid] = m]
               /\ UNCHANGED <<connectId, outbox>>
        <3>1. Moves(m, "Active", Append(deferEvents[m], e), rest) BY <2>3, TransitionMoves
        <3> QED BY <1>2, <2>3, <3>1 DEF RilActivatePdpContextDone, Connects
    <2> QED BY <1>2, <2>1, <2>2, <2>3 DEF RilActivatePdpContextDone
<1>3. CASE e.code = "SETUP" /\ RilErrorResponse(m, e, rest)
    BY <1>3, EnterInactiveEnds DEF RilErrorResponse
<1>4. CASE e.code = "CONNECT_TIMEOUT" /\ ProcessConnectTimeout(m, e, rest)
    BY <1>4, EnterInactiveEnds, IgnoreWaits DEF ProcessConnectTimeout
<1>5. CASE Ignore(m, rest) \/ DefaultProcess(m, e, rest)
    BY <1>5, IgnoreWaits, DefaultWaits
<1> QED BY <1>1, <1>2, <1>3, <1>4, <1>5 DEF ActivatingProcess

LEMMA ActiveOutcome ==
    ASSUME TypeOK, NEW m \in Machines, NEW e \in Event, NEW rest \in Rests,
           curState[m] = "Active", ActiveProcess(m, e, rest)
    PROVE  Outcome(m, e, rest)
<1> USE DEF Outcome
<1>0. connectId[m] \in Nat BY DEF TypeOK
<1>1. CASE e.code = "CONNECT" /\ Ignore(m, rest) BY <1>1, IgnoreWaits
<1>2. CASE e.code = "DISCONNECT" /\ ProcessDisconnectDone(m, e, rest)
    <2>1. Moves(m, "Disconnecting", deferEvents[m], rest)
        BY <1>0, <1>2, RestKept, TransitionMoves DEF ProcessDisconnectDone, FreeConnection
    <2> QED BY <1>2, <2>1 DEF ProcessDisconnectDone, Closes
<1>3. CASE e.code \in {"LOST", "HOST_DIED"} /\ ProcessLostConnection(m, e, rest)
    BY <1>3, EnterInactiveEnds DEF ProcessLostConnection
<1>4. CASE e.code = "SETUP" /\ ProcessDataConnectionComplete(m, e, rest)
    <2> DEFINE from == RemoveEvent(rest, "CONNECT_TIMEOUT")
    <2>1. /\ from.queue \in SUBSET Event /\ from.imm = rest.imm
          /\ \A x \in from.queue : x.code \in {"CONNECT", "SETUP"} => x \in rest.queue
        BY <1>0, RestKept DEF Rests
    <2>2. Takes(m, rest) BY <1>4, <2>1 DEF ProcessDataConnectionComplete, Stay, Requeue, Takes
    <2> QED BY <1>4, <2>1, <2>2 DEF ProcessDataConnectionComplete, Stay, Requeue, Establishes
<1>5. CASE e.code = "SETUP" /\ e.result \notin {"active", "rejected"} /\ Ignore(m, rest)
    BY <1>5, IgnoreWaits
<1>6. CASE e.code # "SETUP" /\ DefaultProcess(m, e, rest) BY <1>6, DefaultWaits
<1> QED BY <1>1, <1>2, <1>3, <1>4, <1>5, <1>6 DEF ActiveProcess

LEMMA DisconnectingOutcome ==
    ASSUME TypeOK, NEW m \in Machines, NEW e \in Event, NEW rest \in Rests,
           curState[m] = "Disconnecting", DisconnectingProcess(m, e, rest)
    PROVE  Outcome(m, e, rest)
<1> USE DEF Outcome
<1>0. connectId[m] \in Nat BY DEF TypeOK
<1>1. CASE e.code = "CONNECT" /\ DeferEvent(m, e, rest) BY <1>1, DeferWaits
<1>2. CASE e.code = "DEACTIVATE" /\ ProcessRilDeactivateDataCall(m, e, rest)
    <2> DEFINE from == RemoveEvent(rest, "DISCONNECT_TIMEOUT")
    <2>1. /\ from \in Rests /\ from.imm = rest.imm
          /\ \A x \in from.queue : x.code \in {"CONNECT", "SETUP"} => x \in rest.queue
        BY <1>0, RestKept
    <2> HIDE DEF from
    <2>2. CASE /\ EnterInactive(m, cid[m], resultInfo[m], from) /\ UNCHANGED <<apnId, cid, setupReqs, activeByCid>>
        BY <1>2, <2>1, <2>2, EnterInactiveEnds
    <2>3. CASE Ignore(m, rest) BY <2>3, IgnoreWaits
    <2> QED BY <1>2, <2>2, <2>3 DEF ProcessRilDeactivateDataCall, from
<1>3. CASE e.code \in {"DISCONNECT_TIMEOUT", "HOST_DIED"} /\ EndDisconnecting(m, rest)
    BY <1>3, EnterInactiveEnds DEF EndDisconnecting
<1>4. CASE Ignore(m, rest) \/ DefaultProcess(m, e, rest)
    BY <1>4, IgnoreWaits, DefaultWaits
<1> QED BY <1>1, <1>2, <1>3, <1>4 DEF DisconnectingProcess

LEMMA ProcessOutcome ==
    ASSUME TypeOK, NEW m \in Machines, NEW e \in Event, NEW rest \in Rests, Process(m, e, rest)
    PROVE  Outcome(m, e, rest)
BY InactiveOutcome, ActivatingOutcome, ActiveOutcome, DisconnectingOutcome DEF Process

-----------------------------------------------------------------------------
(* The events that are re-sent. *)

LEMMA DeferrableSeq ==
    ASSUME NEW n, NEW t \in Seq(Deferrable)
    PROVE  t \in Seq(Resent(n)) /\ ~HasSetup(t) /\ OneSetup(t)
<1>1. Deferrable \subseteq Resent(n) BY DEF Resent
<1>2. t \in Seq(Resent(n)) BY <1>1
<1>3. \A i \in 1 .. Len(t) : t[i] \in Deferrable OBVIOUS
<1> QED BY <1>2, <1>3 DEF Deferrable, HasSetup, OneSetup

LEMMA ResentJoin ==
    ASSUME NEW n, NEW s \in Seq(Resent(n)), NEW t \in Seq(Deferrable)
    PROVE  /\ s \o t \in Seq(Resent(n))
           /\ HasSetup(s \o t) <=> HasSetup(s)
           /\ OneSetup(s) => OneSetup(s \o t)
<1>1. t \in Seq(Resent(n)) /\ ~HasSetup(t) BY DeferrableSeq
<1>2. s \o t \in Seq(Resent(n)) BY <1>1
<1>3. Len(s) \in Nat /\ Len(t) \in Nat /\ Len(s \o t) = Len(s) + Len(t) BY <1>1
<1>4. \A i \in 1 .. Len(s) : (s \o t)[i] = s[i] BY <1>1
<1>5. \A i \in 1 .. Len(s \o t) : i > Len(s) => (s \o t)[i].code # "SETUP"
    <2> SUFFICES ASSUME NEW i \in 1 .. Len(s \o t), i > Len(s) PROVE (s \o t)[i].code # "SETUP"
        OBVIOUS
    <2>1. i - Len(s) \in 1 .. Len(t) /\ (s \o t)[i] = t[i - Len(s)] BY <1>1, <1>3
    <2> QED BY <1>1, <2>1 DEF HasSetup
<1>6. 1 .. Len(s) \subseteq 1 .. Len(s \o t) BY <1>3
<1>7. HasSetup(s \o t) <=> HasSetup(s) BY <1>3, <1>4, <1>5, <1>6 DEF HasSetup
<1>8. OneSetup(s) => OneSetup(s \o t) BY <1>3, <1>4, <1>5 DEF OneSetup
<1> QED BY <1>2, <1>7, <1>8

LEMMA ResentTail ==
    ASSUME NEW n, NEW s \in Seq(Resent(n)), s # <<>>, OneSetup(s)
    PROVE  /\ Head(s) \in Resent(n) /\ Tail(s) \in Seq(Resent(n)) /\ OneSetup(Tail(s))
           /\ HasSetup(Tail(s)) => HasSetup(s) /\ Head(s).code # "SETUP"
           /\ HasSetup(s) => HasSetup(Tail(s)) \/ Head(s).code = "SETUP"
           /\ Head(s).code = "SETUP" => HasSetup(s)
<1>1. /\ Head(s) \in Resent(n) /\ Tail(s) \in Seq(Resent(n)) /\ Head(s) = s[1]
      /\ Len(s) \in Nat /\ Len(s) # 0 /\ Len(Tail(s)) = Len(s) - 1
    OBVIOUS
<1>2. \A i \in 1 .. Len(Tail(s)) : i + 1 \in 1 .. Len(s) /\ Tail(s)[i] = s[i + 1] BY <1>1
<1>3. 1 \in 1 .. Len(s) BY <1>1
<1>4. OneSetup(Tail(s))
    <2> SUFFICES ASSUME NEW i \in 1 .. Len(Tail(s)), NEW j \in 1 .. Len(Tail(s)),
                        Tail(s)[i].code = "SETUP", Tail(s)[j].code = "SETUP"
                 PROVE  i = j
        BY DEF OneSetup
    <2>1. i + 1 = j + 1 BY <1>2 DEF OneSetup
    <2> QED BY <2>1
<1>5. HasSetup(Tail(s)) => HasSetup(s) /\ Head(s).code # "SETUP"
    <2> SUFFICES ASSUME NEW i \in 1 .. Len(Tail(s)), Tail(s)[i].code = "SETUP"
                 PROVE  HasSetup(s) /\ Head(s).code # "SETUP"
        BY DEF HasSetup
    <2>1. i + 1 # 1 OBVIOUS
    <2> QED BY <1>1, <1>2, <1>3, <2>1 DEF HasSetup, OneSetup
<1>6. HasSetup(s) => HasSetup(Tail(s)) \/ Head(s).code = "SETUP"
    <2> SUFFICES ASSUME NEW i \in 1 .. Len(s), s[i].code = "SETUP", i # 1
                 PROVE  HasSetup(Tail(s))
        BY <1>1 DEF HasSetup
    <2>1. i - 1 \in 1 .. Len(Tail(s)) /\ Tail(s)[i - 1] = s[i] BY <1>1, <1>2
    <2> QED BY <2>1 DEF HasSetup
<1>7. Head(s).code = "SETUP" => HasSetup(s) BY <1>1, <1>3 DEF HasSetup
<1> QED BY <1>1, <1>4, <1>5, <1>6, <1>7

-----------------------------------------------------------------------------
(* What a dispatch takes, from a radio that answers in order. *)

Taken(m, e, rest) ==
    \/ /\ immediate[m] # <<>> /\ e = Head(immediate[m])
       /\ rest.imm = Tail(immediate[m]) /\ rest.queue = queue[m]
    \/ /\ immediate[m] = <<>> /\ rest.imm = <<>>
       /\ e \in queue[m] /\ rest.queue = queue[m] \ {e}
       /\ e.code = "SETUP" => \A x \in queue[m] : x.code = "SETUP" => e.flag <= x.flag
    \/ /\ immediate[m] = <<>> /\ rest.imm = <<>>
       /\ e.code # "SETUP" /\ rest.queue = queue[m]

LEMMA DispatchTakes ==
    ASSUME InOrder, TypeOK, NEW m \in Machines, MachineStep(m)
    PROVE  \E e \in Event, rest \in Rests : Process(m, e, rest) /\ Taken(m, e, rest)
<1>a. immediate[m] \in Seq(Event) /\ queue[m] \in SUBSET Event /\ <<>> \in Seq(Event)
    BY DEF TypeOK
<1>1. CASE DispatchImmediate(m)
    <2> DEFINE rest == [imm |-> Tail(immediate[m]), queue |-> queue[m]]
    <2>1. Head(immediate[m]) \in Event /\ Tail(immediate[m]) \in Seq(Event)
        BY <1>a, <1>1 DEF DispatchImmediate
    <2>2. rest \in Rests BY <1>a, <2>1 DEF Rests
    <2>3. Taken(m, Head(immediate[m]), rest) BY <1>1 DEF DispatchImmediate, Taken
    <2> QED BY <1>1, <2>1, <2>2, <2>3 DEF DispatchImmediate
<1>2. CASE \E e \in queue[m] : DispatchQueued(m, e)
    <2>1. PICK e \in queue[m] : DispatchQueued(m, e) BY <1>2
    <2> DEFINE rest == [imm |-> <<>>, queue |-> queue[m] \ {e}]
    <2>2. rest \in Rests /\ e \in Event BY <1>a DEF Rests
    <2>3. Taken(m, e, rest) BY <2>1 DEF DispatchQueued, Taken
    <2> QED BY <2>1, <2>2, <2>3 DEF DispatchQueued
<1>3. CASE \E e \in Commands : DispatchCommand(m, e)
    <2>1. PICK e \in Commands : DispatchCommand(m, e) BY <1>3
    <2> DEFINE rest == [imm |-> <<>>, queue |-> queue[m]]
    <2>2. rest \in Rests /\ e \in Event BY <1>a, CommandsType DEF Rests
    <2>3. e.code # "SETUP"
        BY DEF Commands, ConnectEvent, DisconnectEvent, LostEvent, HostDiedEvent, Blank
    <2>4. Taken(m, e, rest) BY <2>1, <2>3 DEF DispatchCommand, Taken
    <2> QED BY <2>1, <2>2, <2>4 DEF DispatchCommand
<1> QED BY <1>1, <1>2, <1>3 DEF MachineStep

(* A set-up answer in Active is the one that the machine re-sent; one in Activating
   is from the queue; and no re-sent event ends a cycle. *)
LEMMA TakenFacts ==
    ASSUME TypeOK, NEW m \in Machines, ResentOK(m), Ordered(m),
           NEW e \in Event, NEW rest \in Rests, Taken(m, e, rest)
    PROVE  /\ rest.queue \subseteq queue[m]
           /\ rest.imm \in Seq(Resent(connectId[m])) /\ OneSetup(rest.imm)
           /\ HasSetup(rest.imm) => HasSetup(immediate[m])
           /\ HasSetup(immediate[m]) => HasSetup(rest.imm) \/ e.code = "SETUP"
           /\ e.code = "SETUP" /\ curState[m] \in Connected =>
                 e \in Resent(connectId[m]) /\ HasSetup(immediate[m]) /\ ~HasSetup(rest.imm)
           /\ e.code = "SETUP" /\ curState[m] \notin Connected =>
                 /\ rest.imm = <<>> /\ e \in queue[m] /\ rest.queue = queue[m] \ {e}
                 /\ \A x \in queue[m] : x.code = "SETUP" => e.flag <= x.flag
           /\ e.code \notin {"CONNECT", "DISCONNECT", "SETUP"} => rest.imm = <<>>
<1>1. immediate[m] \in Seq(Resent(connectId[m])) /\ OneSetup(immediate[m]) BY DEF ResentOK
<1>2. CASE immediate[m] # <<>> /\ e = Head(immediate[m])
           /\ rest.imm = Tail(immediate[m]) /\ rest.queue = queue[m]
    <2>1. e \in Resent(connectId[m]) BY <1>1, <1>2, ResentTail
    <2>2. e.code \in {"CONNECT", "DISCONNECT", "SETUP"} BY <2>1 DEF Resent, Deferrable
    <2>3. /\ rest.imm \in Seq(Resent(connectId[m])) /\ OneSetup(rest.imm)
          /\ HasSetup(rest.imm) => HasSetup(immediate[m]) /\ e.code # "SETUP"
          /\ HasSetup(immediate[m]) => HasSetup(rest.imm) \/ e.code = "SETUP"
          /\ e.code = "SETUP" => HasSetup(immediate[m])
        BY <1>1, <1>2, ResentTail
    <2> QED BY <1>2, <2>1, <2>2, <2>3 DEF ResentOK
<1>3. ~HasSetup(<<>>) /\ OneSetup(<<>>) /\ <<>> \in Seq(Resent(connectId[m]))
    BY DEF HasSetup, OneSetup
<1>4. CASE /\ immediate[m] = <<>> /\ rest.imm = <<>>
           /\ e \in queue[m] /\ rest.queue = queue[m] \ {e}
           /\ e.code = "SETUP" => \A x \in queue[m] : x.code = "SETUP" => e.flag <= x.flag
    <2>1. e.code = "SETUP" => curState[m] \notin Connected BY <1>4 DEF Ordered, InTime
    <2> QED BY <1>3, <1>4, <2>1
<1>5. CASE /\ immediate[m] = <<>> /\ rest.imm = <<>>
           /\ e.code # "SETUP" /\ rest.queue = queue[m]
    BY <1>3, <1>5
<1> QED BY <1>2, <1>4, <1>5 DEF Taken

-----------------------------------------------------------------------------
(* OrderInv is inductive. *)

OrderVars == <<curState, connectId, deferEvents, immediate, queue, setupReqs>>

\* It is enough to look at the machine that makes the step.
LEMMA OneMachine ==
    ASSUME OrderInv, NEW m \in Machines, ResentOK(m)', Ordered(m)',
           \A k \in Machines \ {m} :
              /\ curState'[k] = curState[k] /\ connectId'[k] = connectId[k]
              /\ deferEvents'[k] = deferEvents[k] /\ immediate'[k] = immediate[k]
              /\ queue'[k] = queue[k] /\ setupReqs'[k] = setupReqs[k]
    PROVE  OrderInv'
BY DEF OrderInv, ResentOK, Ordered, InTime

LEMMA OutcomeFrame ==
    ASSUME TypeOK, NEW m \in Machines, NEW e, NEW rest, Outcome(m, e, rest)
    PROVE  /\ \A k \in Machines \ {m} :
                 /\ curState'[k] = curState[k] /\ connectId'[k] = connectId[k]
                 /\ deferEvents'[k] = deferEvents[k] /\ immediate'[k] = immediate[k]
                 /\ queue'[k] = queue[k] /\ setupReqs'[k] = setupReqs[k]
                 /\ outbox'[k] = outbox[k] /\ apnId'[k] = apnId[k] /\ cid'[k] = cid[k]
           /\ \A x \in queue'[m] : x.code \in {"CONNECT", "SETUP"} => x \in rest.queue
<1> USE DEF TypeOK, Takes, Moves
<1>1. CASE Waits(m, e, rest) BY <1>1 DEF Waits
<1>2. CASE Opens(m, e, rest) BY <1>2 DEF Opens
<1>3. CASE Connects(m, e, rest) BY <1>3 DEF Connects
<1>4. CASE Establishes(m, e, rest) BY <1>4 DEF Establishes
<1>5. CASE Closes(m, e, rest) BY <1>5 DEF Closes
<1>6. CASE Ends(m, e, rest) BY <1>6 DEF Ends
<1> QED BY <1>1, <1>2, <1>3, <1>4, <1>5, <1>6 DEF Outcome

LEMMA OutcomeResent ==
    ASSUME TypeOK, NEW m \in Machines, ResentOK(m), Ordered(m),
           NEW e \in Event, NEW rest \in Rests, Taken(m, e, rest), Outcome(m, e, rest)
    PROVE  ResentOK(m)'
<1>a. deferEvents[m] \in Seq(Deferrable) /\ connectId[m] \in Nat BY DEF ResentOK, TypeOK
<1>b. /\ rest.imm \in Seq(Resent(connectId[m])) /\ OneSetup(rest.imm)
      /\ HasSetup(rest.imm) => curState[m] \in Connected
    BY TakenFacts DEF ResentOK
<1>c. /\ <<>> \in Seq(Deferrable)
      /\ rest.imm \o deferEvents[m] \in Seq(Resent(connectId[m]))
      /\ OneSetup(rest.imm \o deferEvents[m])
      /\ HasSetup(rest.imm \o deferEvents[m]) => HasSetup(rest.imm)
    BY <1>a, <1>b, ResentJoin
<1>d. /\ e.code = "SETUP" /\ curState[m] \notin Connected => rest.imm = <<>>
      /\ e.code \notin {"CONNECT", "DISCONNECT", "SETUP"} => rest.imm = <<>>
    BY TakenFacts
<1> USE DEF TypeOK
<1>1. CASE Waits(m, e, rest)
    <2>1. immediate'[m] = rest.imm /\ curState'[m] = curState[m] /\ connectId'[m] = connectId[m]
        BY <1>1 DEF Waits
    <2>2. deferEvents'[m] \in Seq(Deferrable)
        <3>1. CASE UNCHANGED deferEvents BY <1>a, <3>1
        <3>2. CASE e.code \in {"CONNECT", "DISCONNECT"}
                   /\ deferEvents' = [deferEvents EXCEPT ![m] = Append(@, e)]
            <4>1. e \in Deferrable BY <3>2 DEF Deferrable
            <4>2. Append(deferEvents[m], e) \in Seq(Deferrable) BY <1>a, <4>1
            <4> QED BY <3>2, <4>2
        <3> QED BY <1>1, <3>1, <3>2 DEF Waits
    <2> QED BY <1>b, <2>1, <2>2 DEF ResentOK
<1>2. CASE Opens(m, e, rest)
    <2>1. /\ immediate'[m] = rest.imm \o deferEvents[m] /\ deferEvents'[m] = <<>>
          /\ curState[m] = "Inactive" /\ connectId'[m] = connectId[m]
        BY <1>2 DEF Opens, Moves
    <2>2. ~HasSetup(rest.imm) BY <1>b, <2>1 DEF Connected
    <2> QED BY <1>c, <2>1, <2>2 DEF ResentOK
<1>3. CASE Connects(m, e, rest)
    <2> DEFINE deferred == Append(deferEvents[m], e)
    <2>1. /\ immediate'[m] = rest.imm \o deferred /\ deferEvents'[m] = <<>>
          /\ curState[m] = "Activating" /\ curState'[m] = "Active" /\ connectId'[m] = connectId[m]
          /\ e.code = "SETUP" /\ e.result = "active" /\ e.flag = connectId[m]
        BY <1>3 DEF Connects, Moves
    <2>2. rest.imm = <<>> BY <1>d, <2>1 DEF Connected
    <2>3. e \in Resent(connectId[m]) BY <2>1 DEF Resent
    <2>4. deferEvents[m] \in Seq(Resent(connectId[m])) /\ ~HasSetup(deferEvents[m])
        BY <1>a, DeferrableSeq
    <2>5. deferred \in Seq(Resent(connectId[m])) BY <2>3, <2>4
    <2>6. OneSetup(deferred)
        <3>1. Len(deferred) = Len(deferEvents[m]) + 1 /\ Len(deferEvents[m]) \in Nat BY <2>4
        <3>2. \A i \in 1 .. Len(deferEvents[m]) : deferred[i].code # "SETUP"
            BY <2>4 DEF HasSetup
        <3>3. \A i \in 1 .. Len(deferred) : deferred[i].code = "SETUP" => i = Len(deferred)
            BY <3>1, <3>2
        <3> QED BY <3>3 DEF OneSetup
    <2>7. rest.imm \o deferred = deferred BY <2>2, <2>5
    <2> HIDE DEF deferred
    <2> QED BY <1>c, <2>1, <2>5, <2>6, <2>7 DEF ResentOK, Connected
<1>4. CASE Establishes(m, e, rest)
    <2>1. /\ immediate'[m] = rest.imm /\ deferEvents'[m] = deferEvents[m]
          /\ curState'[m] = curState[m] /\ connectId'[m] = connectId[m]
        BY <1>4 DEF Establishes
    <2> QED BY <1>a, <1>b, <2>1 DEF ResentOK
<1>5. CASE Closes(m, e, rest)
    <2>1. /\ immediate'[m] = rest.imm \o deferEvents[m] /\ deferEvents'[m] = <<>>
          /\ curState'[m] = "Disconnecting" /\ connectId'[m] = connectId[m]
        BY <1>5 DEF Closes, Moves
    <2> QED BY <1>c, <2>1 DEF ResentOK, Connected
<1>6. CASE Ends(m, e, rest)
    <2>1. /\ immediate'[m] = rest.imm \o deferEvents[m] /\ deferEvents'[m] = <<>>
          /\ e.code \notin {"CONNECT", "DISCONNECT"} /\ (e.code = "SETUP" => curState[m] = "Activating")
        BY <1>6 DEF Ends, Moves
    <2>2. rest.imm = <<>> BY <1>d, <2>1 DEF Connected
    <2>3. immediate'[m] = deferEvents[m] BY <1>a, <2>1, <2>2
    <2>4. /\ immediate'[m] \in Seq(Resent(connectId'[m])) /\ OneSetup(immediate'[m])
          /\ ~HasSetup(immediate'[m])
        BY <1>a, <2>3, DeferrableSeq
    <2> QED BY <1>c, <2>1, <2>4 DEF ResentOK
<1> QED BY <1>1, <1>2, <1>3, <1>4, <1>5, <1>6 DEF Outcome

LEMMA OutcomeOrdered ==
    ASSUME TypeOK, NEW m \in Machines, ResentOK(m), Ordered(m),
           NEW e \in Event, NEW rest \in Rests, Taken(m, e, rest), Outcome(m, e, rest)
    PROVE  Ordered(m)'
<1>a. \A x \in queue'[m] : x.code = "SETUP" => x \in rest.queue /\ x \in queue[m] /\ x.flag \in Nat
    <2>1. queue[m] \in SUBSET Event BY DEF TypeOK
    <2> QED BY <2>1, OutcomeFrame, TakenFacts DEF Event
<1>b. connectId[m] \in Nat /\ setupReqs[m] \in SUBSET Nat BY DEF TypeOK
<1>1. CASE Waits(m, e, rest) \/ Establishes(m, e, rest)
    <2>1. UNCHANGED <<curState, connectId, setupReqs>> BY <1>1 DEF Waits, Establishes
    <2> QED BY <1>a, <2>1 DEF Ordered, InTime
<1>2. CASE Opens(m, e, rest)
    <2>1. /\ curState[m] = "Inactive" /\ curState'[m] = "Activating" /\ connectId'[m] = connectId[m]
          /\ setupReqs'[m] = setupReqs[m] \cup {connectId[m]}
        BY <1>2 DEF Opens, Moves, TypeOK
    <2>2. \A x \in queue'[m] : x.code = "SETUP" => x.flag < connectId[m]
        BY <1>a, <1>b, <2>1 DEF Ordered, InTime
    <2> QED BY <1>a, <1>b, <2>1, <2>2 DEF Ordered, InTime, Connected
<1>3. CASE Connects(m, e, rest)
    <2>1. /\ curState[m] = "Activating" /\ connectId'[m] = connectId[m] /\ UNCHANGED setupReqs
          /\ e.code = "SETUP" /\ e.flag = connectId[m]
        BY <1>3 DEF Connects
    <2>2. /\ e \in queue[m] /\ rest.queue = queue[m] \ {e}
          /\ \A x \in queue[m] : x.code = "SETUP" => e.flag <= x.flag
        BY <2>1, TakenFacts DEF Connected
    <2>3. setupReqs[m] = {}
        <3>1. \A n \in setupReqs[m] : e.flag < n /\ n <= e.flag BY <2>1, <2>2 DEF Ordered, InTime
        <3> QED BY <1>b, <2>1, <3>1
    <2>4. \A x \in queue'[m] : x.code # "SETUP"
        <3> SUFFICES ASSUME NEW x \in queue'[m], x.code = "SETUP" PROVE FALSE
            OBVIOUS
        <3>1. x \in queue[m] /\ x # e /\ x.flag \in Nat BY <1>a, <2>2
        <3>2. x.flag = connectId[m] BY <1>b, <2>1, <2>2, <3>1 DEF Ordered, InTime
        <3> QED BY <2>1, <2>2, <3>1, <3>2 DEF Ordered
    <2> QED BY <2>1, <2>3, <2>4 DEF Ordered
<1>4. CASE Closes(m, e, rest)
    <2>1. curState[m] = "Active" /\ UNCHANGED setupReqs BY <1>4 DEF Closes
    <2> QED BY <1>a, <2>1 DEF Ordered, InTime, Connected
<1>5. CASE Ends(m, e, rest)
    <2>1. /\ curState'[m] = "Inactive" /\ connectId'[m] = connectId[m] + 1 /\ UNCHANGED setupReqs
        BY <1>5 DEF Ends, Moves, TypeOK
    <2>2. \A n \in Nat : n <= connectId[m] => n <= connectId[m] + 1 /\ n # connectId[m] + 1
        BY <1>b
    <2> QED BY <1>a, <1>b, <2>1, <2>2 DEF Ordered, InTime, Connected
<1> QED BY <1>1, <1>2, <1>3, <1>4, <1>5 DEF Outcome

LEMMA RadioKeepsOrder ==
    ASSUME InOrder, TypeOK, OrderInv, NEW m \in Machines, RadioStep(m)
    PROVE  OrderInv'
<1>a. ResentOK(m) /\ Ordered(m) BY DEF OrderInv
<1>b. queue[m] \in SUBSET Event /\ setupReqs[m] \in SUBSET Nat BY DEF TypeOK
<1>1. CASE \E n \in setupReqs[m] : \E e \in SetupAnswers(n) : RadioAnswersSetup(m, n, e)
    <2>1. PICK n \in setupReqs[m] : \E e \in SetupAnswers(n) : RadioAnswersSetup(m, n, e) BY <1>1
    <2>1a. PICK e \in SetupAnswers(n) : RadioAnswersSetup(m, n, e) BY <2>1
    <2>2. e \in Event /\ e.code = "SETUP" /\ e.flag = n BY <1>b, SetupAnswersType
    <2>3. UNCHANGED <<curState, connectId, deferEvents, immediate>> BY <2>1a DEF RadioAnswersSetup
    <2>4. /\ setupReqs'[m] = {k \in setupReqs[m] : k > n} /\ queue'[m] = queue[m] \cup {e}
          /\ \A k \in Machines \ {m} : queue'[k] = queue[k] /\ setupReqs'[k] = setupReqs[k]
        BY <2>1a DEF RadioAnswersSetup, TypeOK
    <2>5. ResentOK(m)' BY <1>a, <2>3 DEF ResentOK
    <2>6. \A x \in queue[m] : x.code = "SETUP" => x.flag < n /\ x.flag \in Nat
        BY <1>a, <1>b DEF Ordered, Event
    <2>7. InTime(m, n) BY <1>a DEF Ordered
    <2>8. n \in Nat BY <1>b
    <2>9. \A x \in queue'[m] : x.code = "SETUP" =>
             /\ InTime(m, x.flag)
             /\ \A k \in setupReqs'[m] : x.flag < k
             /\ \A y \in queue'[m] : y.code = "SETUP" /\ y.flag = x.flag => y = x
        <3> SUFFICES ASSUME NEW x \in queue'[m], x.code = "SETUP"
                     PROVE  /\ InTime(m, x.flag)
                            /\ \A k \in setupReqs'[m] : x.flag < k
                            /\ \A y \in queue'[m] : y.code = "SETUP" /\ y.flag = x.flag => y = x
            OBVIOUS
        <3>1. CASE x = e
            <4>1. \A y \in queue[m] : y.code = "SETUP" => y.flag # n BY <2>6, <2>8
            <4> QED BY <2>2, <2>4, <2>7, <3>1, <4>1
        <3>2. CASE x \in queue[m]
            <4>1. x.flag # n BY <2>6, <2>8, <3>2
            <4> QED BY <1>a, <2>2, <2>4, <3>2, <4>1 DEF Ordered
        <3> QED BY <2>4, <3>1, <3>2
    <2>10. Ordered(m)' BY <1>a, <2>3, <2>4, <2>9 DEF Ordered, InTime
    <2> QED BY <2>3, <2>4, <2>5, <2>10, OneMachine
<1>2. CASE \E d \in deactReqs[m], res \in {"done", "null"} : RadioAnswersDeactivate(m, d, res)
    <2>1. PICK d \in deactReqs[m], res \in {"done", "null"} : RadioAnswersDeactivate(m, d, res)
        BY <1>2
    <2>2. d[1] \in Nat BY DEF TypeOK
    <2>3. UNCHANGED <<curState, connectId, deferEvents, immediate, setupReqs>>
        BY <2>1 DEF RadioAnswersDeactivate
    <2>4. DeactivateAnswer(d[1], res).code # "SETUP" BY <2>2, DeactivateAnswerType
    <2>5. /\ queue'[m] = queue[m] \cup {DeactivateAnswer(d[1], res)}
          /\ \A k \in Machines \ {m} : queue'[k] = queue[k]
        BY <2>1 DEF RadioAnswersDeactivate, TypeOK
    <2>6. ResentOK(m)' BY <1>a, <2>3 DEF ResentOK
    <2>7. Ordered(m)' BY <1>a, <2>3, <2>4, <2>5 DEF Ordered, InTime
    <2> QED BY <2>3, <2>5, <2>6, <2>7, OneMachine
<1> QED BY <1>1, <1>2 DEF RadioStep

LEMMA LinkKeepsOrder ==
    ASSUME TypeOK, OrderInv, NEW m \in Machines, LinkStep(m)
    PROVE  OrderInv'
<1>a. ResentOK(m) /\ Ordered(m) BY DEF OrderInv
<1>1. UNCHANGED <<curState, connectId, deferEvents, immediate, setupReqs>>
    BY DEF LinkStep, LinkDownFound, LinkDownRemove, LinkDownRearm, callbackRest, radioVars
<1>2. TimerEvent("DISCONNECT_TIMEOUT", connectId[m]).code # "SETUP" BY TimerEventType DEF TypeOK
<1>3. /\ \A x \in queue'[m] : x.code = "SETUP" => x \in queue[m]
      /\ \A k \in Machines \ {m} : queue'[k] = queue[k]
    <2>1. CASE LinkDownFound(m) BY <2>1 DEF LinkDownFound
    <2>2. CASE LinkDownRemove(m) BY <2>2 DEF LinkDownRemove, TypeOK
    <2>3. CASE LinkDownRearm(m) BY <1>2, <2>3 DEF LinkDownRearm, TypeOK
    <2> QED BY <2>1, <2>2, <2>3 DEF LinkStep
<1>4. ResentOK(m)' BY <1>a, <1>1 DEF ResentOK
<1>5. Ordered(m)' BY <1>a, <1>1, <1>3 DEF Ordered, InTime
<1> QED BY <1>1, <1>3, <1>4, <1>5, OneMachine

LEMMA OrderInvInit == Init => OrderInv
<1> SUFFICES ASSUME Init, NEW m \in Machines PROVE ResentOK(m) /\ Ordered(m)
    BY DEF OrderInv
<1>1. /\ deferEvents[m] = <<>> /\ immediate[m] = <<>> /\ queue[m] = {} /\ setupReqs[m] = {}
    BY DEF Init
<1>2. <<>> \in Seq(Deferrable) OBVIOUS
<1>3. <<>> \in Seq(Resent(connectId[m])) /\ ~HasSetup(<<>>) /\ OneSetup(<<>>)
    BY <1>2, DeferrableSeq
<1> QED BY <1>1, <1>2, <1>3 DEF ResentOK, Ordered

LEMMA OrderInvNext ==
    ASSUME InOrder, TypeOK, OrderInv, [Next]_vars
    PROVE  OrderInv'
<1>1. ASSUME NEW m \in Machines, MachineStep(m) PROVE OrderInv'
    <2>1. PICK e \in Event, rest \in Rests : Process(m, e, rest) /\ Taken(m, e, rest)
        BY <1>1, DispatchTakes
    <2>2. Outcome(m, e, rest) BY <2>1, ProcessOutcome
    <2>3. ResentOK(m) /\ Ordered(m) BY DEF OrderInv
    <2> QED BY <2>1, <2>2, <2>3, OutcomeResent, OutcomeOrdered, OutcomeFrame, OneMachine
<1>2. CASE UNCHANGED OrderVars
    BY <1>2 DEF OrderVars, OrderInv, ResentOK, Ordered, InTime
<1>3. ASSUME NEW m \in Machines, HandlerReceives(m) PROVE OrderInv'
    BY <1>2, <1>3 DEF HandlerReceives, machineVars, radioVars, OrderVars
<1>4. CASE UNCHANGED vars BY <1>2, <1>4 DEF vars, machineVars, radioVars, OrderVars
<1> QED BY <1>1, <1>3, <1>4, RadioKeepsOrder, LinkKeepsOrder DEF Next

-----------------------------------------------------------------------------
(* The report of a connection is the report of its own cycle: no other answer is
   ever found in Active. *)
LEMMA ReportsNext ==
    ASSUME InOrder, TypeOK, OrderInv, ReportsOwnAnswer, [Next]_vars
    PROVE  ReportsOwnAnswer'
<1> DEFINE Own(s) == \A i \in 1 .. Len(s) : s[i].kind = "ESTABLISHED" => s[i].answerOf = s[i].cycle
<1>a. \A m \in Machines : Own(outbox[m]) /\ outbox[m] \in Seq(Report)
    BY DEF ReportsOwnAnswer, TypeOK
<1>b. ASSUME NEW s \in Seq(Report), Own(s), NEW r,
             r.kind = "ESTABLISHED" => r.answerOf = r.cycle
      PROVE  Own(Append(s, r))
    <2>1. Len(Append(s, r)) = Len(s) + 1 /\ Len(s) \in Nat BY <1>b
    <2>2. \A i \in 1 .. Len(s) : Append(s, r)[i] = s[i] BY <1>b
    <2>3. Append(s, r)[Len(s) + 1] = r BY <1>b
    <2> QED BY <1>b, <2>1, <2>2, <2>3
<1>c. ASSUME NEW s \in Seq(Report), s # <<>>, Own(s) PROVE Own(Tail(s))
    <2>1. Len(Tail(s)) = Len(s) - 1 /\ Len(s) \in Nat BY <1>c
    <2>2. \A i \in 1 .. Len(Tail(s)) : i + 1 \in 1 .. Len(s) /\ Tail(s)[i] = s[i + 1]
        BY <1>c, <2>1
    <2> QED BY <1>c, <2>2
<1> SUFFICES ASSUME NEW k \in Machines PROVE Own(outbox'[k])
    BY DEF ReportsOwnAnswer
<1> HIDE DEF Own
<1>1. ASSUME NEW m \in Machines, MachineStep(m) PROVE Own(outbox'[k])
    <2>1. PICK e \in Event, rest \in Rests : Process(m, e, rest) /\ Taken(m, e, rest)
        BY <1>1, DispatchTakes
    <2>2. Outcome(m, e, rest) BY <2>1, ProcessOutcome
    <2>3. CASE k # m BY <1>a, <2>2, <2>3, OutcomeFrame
    <2>4. CASE k = m
        <3>1. CASE UNCHANGED outbox BY <1>a, <3>1
        <3>2. CASE Establishes(m, e, rest)
            <4>1. e \in Resent(connectId[m]) /\ e.code = "SETUP"
                BY <2>1, <3>2, TakenFacts DEF Establishes, OrderInv, Connected
            <4>2. e.flag = connectId[m] BY <4>1 DEF Resent, Deferrable
            <4>3. Established(m, e).answerOf = Established(m, e).cycle BY <4>2 DEF Established
            <4>4. outbox'[m] = Append(outbox[m], Established(m, e))
                BY <3>2 DEF Establishes, TypeOK
            <4> QED BY <1>a, <1>b, <2>4, <4>3, <4>4
        <3>3. CASE Ends(m, e, rest)
            <4>1. PICK c, reason : outbox'[m] = Append(outbox[m], Disconnected(m, c, reason))
                BY <3>3 DEF Ends, TypeOK
            <4>2. Disconnected(m, c, reason).kind # "ESTABLISHED" BY DEF Disconnected
            <4> QED BY <1>a, <1>b, <2>4, <4>1, <4>2
        <3> QED BY <2>2, <3>1, <3>2, <3>3 DEF Outcome, Waits, Opens, Connects, Closes
    <2> QED BY <2>3, <2>4
<1>2. ASSUME NEW m \in Machines, RadioStep(m) \/ LinkStep(m) PROVE Own(outbox'[k])
    <2>1. UNCHANGED outbox
        BY <1>2 DEF RadioStep, RadioAnswersSetup, RadioAnswersDeactivate,
                    LinkStep, LinkDownFound, LinkDownRemove, LinkDownRearm, callbackRest
    <2> QED BY <1>a, <2>1
<1>3. ASSUME NEW m \in Machines, HandlerReceives(m) PROVE Own(outbox'[k])
    <2>1. outbox[m] # <<>> /\ outbox' = [outbox EXCEPT ![m] = Tail(@)]
        BY <1>3 DEF HandlerReceives
    <2>2. outbox'[k] = IF k = m THEN Tail(outbox[m]) ELSE outbox[k] BY <2>1 DEF TypeOK
    <2> QED BY <1>a, <1>c, <2>1, <2>2
<1>4. CASE UNCHANGED vars BY <1>a, <1>4 DEF vars
<1> QED BY <1>1, <1>2, <1>3, <1>4 DEF Next

\* With a radio that answers in order, a machine never reports another cycle's context
\* as its own: ReportsOwnAnswer, for any number of cycles, time-outs and late answers.
THEOREM ReportsAreOwn ==
    ASSUME InOrder
    PROVE  Spec => []ReportsOwnAnswer
<1>1. Init => OrderInv /\ ReportsOwnAnswer
    <2>1. Init => ReportsOwnAnswer BY DEF Init, ReportsOwnAnswer
    <2> QED BY <2>1, OrderInvInit
<1>2. TypeOK /\ OrderInv /\ ReportsOwnAnswer /\ [Next]_vars => (OrderInv /\ ReportsOwnAnswer)'
    BY OrderInvNext, ReportsNext
<1> QED BY <1>1, <1>2, TypeCorrect, PTL DEF Spec

-----------------------------------------------------------------------------
(* The machines implement DataCall: phaseBar and reportsBar, one machine at a time. *)

PhaseOf(m) ==
    CASE curState[m] = "Inactive"      -> "idle"
      [] curState[m] = "Activating"    -> "opening"
      [] curState[m] = "Disconnecting" -> "closing"
      [] OTHER -> IF HasSetup(immediate[m]) THEN "opening" ELSE "up"

BarOf(s) == [i \in 1 .. Len(s) |-> [kind |-> s[i].kind, session |-> s[i].cycle]]

CallReport == [kind : {"ESTABLISHED", "DISCONNECTED"}, session : Nat]

LEMMA BarsPerMachine ==
    /\ phaseBar = [m \in Machines |-> PhaseOf(m)]
    /\ reportsBar = [m \in Machines |-> BarOf(outbox[m])]
BY DEF phaseBar, PhaseOf, HasSetup, reportsBar, BarOf

LEMMA BarType ==
    ASSUME NEW s \in Seq(Report)
    PROVE  /\ BarOf(s) \in Seq(CallReport) /\ Len(BarOf(s)) = Len(s)
           /\ \A i \in 1 .. Len(s) : BarOf(s)[i] = [kind |-> s[i].kind, session |-> s[i].cycle]
<1>1. Len(s) \in Nat /\ \A i \in 1 .. Len(s) : s[i] \in Report OBVIOUS
<1>2. \A i \in 1 .. Len(s) : BarOf(s)[i] = [kind |-> s[i].kind, session |-> s[i].cycle]
    BY DEF BarOf
<1>3. BarOf(s) \in [1 .. Len(s) -> CallReport] BY <1>1 DEF BarOf, Report, CallReport
<1>4. BarOf(s) \in Seq(CallReport) BY <1>1, <1>3
<1>5. Len(BarOf(s)) = Len(s) BY <1>1, <1>3, <1>4
<1> QED BY <1>2, <1>4, <1>5

LEMMA BarAppend ==
    ASSUME NEW s \in Seq(Report), NEW r \in Report
    PROVE  BarOf(Append(s, r)) = Append(BarOf(s), [kind |-> r.kind, session |-> r.cycle])
<1> DEFINE t == Append(s, r)
           b == [kind |-> r.kind, session |-> r.cycle]
<1>1. t \in Seq(Report) /\ Len(s) \in Nat /\ Len(t) = Len(s) + 1 /\ t[Len(s) + 1] = r
      /\ \A i \in 1 .. Len(s) : t[i] = s[i]
    OBVIOUS
<1>2. b \in CallReport BY DEF Report, CallReport
<1> HIDE DEF t, b
<1>3. /\ Append(BarOf(s), b) \in Seq(CallReport) /\ Len(Append(BarOf(s), b)) = Len(s) + 1
      /\ Append(BarOf(s), b)[Len(s) + 1] = b
      /\ \A i \in 1 .. Len(s) : Append(BarOf(s), b)[i] = BarOf(s)[i]
    BY <1>1, <1>2, BarType
<1>4. \A i \in 1 .. Len(s) + 1 : BarOf(t)[i] = Append(BarOf(s), b)[i]
    <2> SUFFICES ASSUME NEW i \in 1 .. Len(s) + 1 PROVE BarOf(t)[i] = Append(BarOf(s), b)[i]
        OBVIOUS
    <2>1. CASE i = Len(s) + 1 BY <1>1, <1>3, <2>1, BarType DEF b
    <2>2. CASE i \in 1 .. Len(s)
        <3>1. i \in 1 .. Len(t) /\ t[i] = s[i] BY <1>1, <2>2
        <3>2. BarOf(t)[i] = [kind |-> t[i].kind, session |-> t[i].cycle] BY <1>1, <3>1, BarType
        <3>3. BarOf(s)[i] = [kind |-> s[i].kind, session |-> s[i].cycle] BY <2>2, BarType
        <3> QED BY <1>3, <2>2, <3>1, <3>2, <3>3
    <2>3. Len(s) \in Nat => i = Len(s) + 1 \/ i \in 1 .. Len(s) OBVIOUS
    <2> QED BY <1>1, <2>1, <2>2, <2>3
<1>5. BarOf(t) \in Seq(CallReport) /\ Len(BarOf(t)) = Len(s) + 1 BY <1>1, BarType
<1>6. BarOf(t) = Append(BarOf(s), b) BY <1>3, <1>4, <1>5, SeqEqual
<1> QED BY <1>6 DEF t, b

LEMMA BarTail ==
    ASSUME NEW s \in Seq(Report), s # <<>>
    PROVE  BarOf(s) # <<>> /\ BarOf(Tail(s)) = Tail(BarOf(s))
<1>1. /\ Tail(s) \in Seq(Report) /\ Len(s) \in Nat /\ Len(s) # 0 /\ Len(Tail(s)) = Len(s) - 1
      /\ \A i \in 1 .. Len(s) - 1 : i + 1 \in 1 .. Len(s) /\ Tail(s)[i] = s[i + 1]
    OBVIOUS
<1>2. BarOf(s) # <<>> BY <1>1, BarType
<1>3. /\ Tail(BarOf(s)) \in Seq(CallReport) /\ Len(Tail(BarOf(s))) = Len(s) - 1
      /\ \A i \in 1 .. Len(s) - 1 : Tail(BarOf(s))[i] = BarOf(s)[i + 1]
    BY <1>1, <1>2, BarType
<1>4. BarOf(Tail(s)) \in Seq(CallReport) /\ Len(BarOf(Tail(s))) = Len(s) - 1 BY <1>1, BarType
<1>5. \A i \in 1 .. Len(s) - 1 : BarOf(Tail(s))[i] = Tail(BarOf(s))[i]
    <2> SUFFICES ASSUME NEW i \in 1 .. Len(s) - 1 PROVE BarOf(Tail(s))[i] = Tail(BarOf(s))[i]
        OBVIOUS
    <2> DEFINE t == Tail(s)
    <2>1. t \in Seq(Report) /\ i \in 1 .. Len(t) /\ t[i] = s[i + 1] /\ i + 1 \in 1 .. Len(s)
        BY <1>1
    <2> HIDE DEF t
    <2>2. BarOf(t)[i] = [kind |-> t[i].kind, session |-> t[i].cycle] BY <2>1, BarType
    <2>3. BarOf(s)[i + 1] = [kind |-> s[i + 1].kind, session |-> s[i + 1].cycle] BY <2>1, BarType
    <2>4. BarOf(t)[i] = Tail(BarOf(s))[i] BY <1>3, <2>1, <2>2, <2>3
    <2> QED BY <2>4 DEF t
<1> QED BY <1>2, <1>3, <1>4, <1>5, SeqEqual

\* A step of one machine changes the phase and the reports of that machine only.
LEMMA BarStep ==
    ASSUME TypeOK, NEW m \in Machines,
           \A k \in Machines \ {m} : /\ curState'[k] = curState[k] /\ immediate'[k] = immediate[k]
                                     /\ outbox'[k] = outbox[k]
    PROVE  /\ phaseBar[m] = PhaseOf(m) /\ reportsBar[m] = BarOf(outbox[m])
           /\ phaseBar' = [phaseBar EXCEPT ![m] = PhaseOf(m)']
           /\ reportsBar' = [reportsBar EXCEPT ![m] = BarOf(outbox'[m])]
<1>1. /\ phaseBar' = [k \in Machines |-> PhaseOf(k)']
      /\ reportsBar' = [k \in Machines |-> BarOf(outbox'[k])]
    BY BarsPerMachine DEF phaseBar, PhaseOf, HasSetup, reportsBar, BarOf
<1>2. \A k \in Machines \ {m} : PhaseOf(k)' = PhaseOf(k) /\ BarOf(outbox'[k]) = BarOf(outbox[k])
    BY DEF PhaseOf
<1> QED BY <1>1, <1>2, BarsPerMachine

LEMMA OutcomeBars ==
    ASSUME TypeOK, TypeOK', NEW m \in Machines, ResentOK(m), Ordered(m),
           NEW e \in Event, NEW rest \in Rests, Taken(m, e, rest), Outcome(m, e, rest)
    PROVE  Call!Open(m) \/ Call!Up(m) \/ Call!Close(m) \/ Call!End(m) \/ UNCHANGED Call!dcVars
<1>a. /\ phaseBar[m] = PhaseOf(m) /\ reportsBar[m] = BarOf(outbox[m])
      /\ phaseBar' = [phaseBar EXCEPT ![m] = PhaseOf(m)']
      /\ reportsBar' = [reportsBar EXCEPT ![m] = BarOf(outbox'[m])]
    BY OutcomeFrame, BarStep
<1>b. phaseBar = [phaseBar EXCEPT ![m] = phaseBar[m]]
      /\ reportsBar = [reportsBar EXCEPT ![m] = reportsBar[m]]
    BY BarsPerMachine
<1>c. outbox[m] \in Seq(Report) /\ connectId[m] \in Nat /\ apnId[m] \in Apns \cup {NoApn} BY DEF TypeOK
<1>d. UNCHANGED outbox => UNCHANGED reportsBar BY <1>a, <1>b
<1>1. CASE Waits(m, e, rest)
    <2>1. /\ immediate'[m] = rest.imm /\ UNCHANGED <<curState, connectId, outbox>>
        BY <1>1 DEF Waits, TypeOK
    <2>2. curState[m] = "Active" => e.code # "SETUP"
        BY <1>1, TakenFacts DEF Waits, Connected, Resent, Deferrable
    <2>3. curState[m] = "Active" => (HasSetup(rest.imm) <=> HasSetup(immediate[m]))
        BY <2>2, TakenFacts
    <2>4. curState[m] \in {"Inactive", "Activating", "Active", "Disconnecting"} BY DEF TypeOK
    <2>5. PhaseOf(m)' = PhaseOf(m) BY <2>1, <2>3, <2>4 DEF PhaseOf
    <2> QED BY <1>a, <1>b, <1>d, <2>1, <2>5 DEF Call!dcVars
<1>2. CASE Opens(m, e, rest)
    <2>1. /\ curState[m] = "Inactive" /\ curState'[m] = "Activating"
          /\ UNCHANGED <<connectId, outbox>>
        BY <1>2 DEF Opens, Moves, TypeOK
    <2>2. PhaseOf(m) = "idle" /\ PhaseOf(m)' = "opening" BY <2>1 DEF PhaseOf
    <2> QED BY <1>a, <1>d, <2>1, <2>2 DEF Call!Open
<1>3. CASE Connects(m, e, rest)
    <2> DEFINE deferred == Append(deferEvents[m], e)
    <2>1. /\ curState[m] = "Activating" /\ curState'[m] = "Active"
          /\ immediate'[m] = rest.imm \o deferred /\ e.code = "SETUP"
          /\ UNCHANGED <<connectId, outbox>>
        <3>1. curState[m] = "Activating" /\ e.code = "SETUP" BY <1>3 DEF Connects
        <3>2. Moves(m, "Active", deferred, rest) BY <1>3 DEF Connects
        <3>3. UNCHANGED <<connectId, outbox>> BY <1>3 DEF Connects
        <3> HIDE DEF deferred
        <3>4. curState'[m] = "Active" /\ immediate'[m] = rest.imm \o deferred BY <3>2 DEF Moves, TypeOK
        <3> QED BY <3>1, <3>3, <3>4
    <2>2. rest.imm \in Seq(Event) /\ deferEvents[m] \in Seq(Event) BY DEF Rests, TypeOK
    <2>3. /\ deferred \in Seq(Event) /\ Len(deferred) \in Nat /\ Len(deferred) # 0
          /\ deferred[Len(deferred)] = e
        BY <2>2
    <2> HIDE DEF deferred
    <2>4. /\ Len(rest.imm \o deferred) = Len(rest.imm) + Len(deferred) /\ Len(rest.imm) \in Nat
          /\ (rest.imm \o deferred)[Len(rest.imm) + Len(deferred)] = e
        BY <2>2, <2>3
    <2>5. HasSetup(immediate'[m])
        <3>1. Len(rest.imm) + Len(deferred) \in 1 .. Len(immediate'[m]) BY <2>1, <2>3, <2>4
        <3>2. immediate'[m][Len(rest.imm) + Len(deferred)].code = "SETUP" BY <2>1, <2>4
        <3> QED BY <3>1, <3>2 DEF HasSetup
    <2>6. PhaseOf(m) = "opening" /\ PhaseOf(m)' = "opening" BY <2>1, <2>5 DEF PhaseOf
    <2> QED BY <1>a, <1>b, <1>d, <2>1, <2>6 DEF Call!dcVars
<1>4. CASE Establishes(m, e, rest)
    <2> DEFINE r == Established(m, e)
    <2>1. /\ curState[m] = "Active" /\ curState'[m] = "Active" /\ e.code = "SETUP"
          /\ immediate'[m] = rest.imm /\ outbox'[m] = Append(outbox[m], r) /\ UNCHANGED connectId
        BY <1>4 DEF Establishes, TypeOK
    <2>2. HasSetup(immediate[m]) /\ ~HasSetup(immediate'[m])
        BY <2>1, TakenFacts DEF Connected
    <2>3. PhaseOf(m) = "opening" /\ PhaseOf(m)' = "up" BY <2>1, <2>2 DEF PhaseOf
    <2>4. r \in Report /\ r.kind = "ESTABLISHED" /\ r.cycle = connectId[m]
        BY <1>c DEF Established, Report, Event, Reasons, PdpErrors
    <2> HIDE DEF r
    <2>5. BarOf(outbox'[m]) =
              Append(reportsBar[m], [kind |-> "ESTABLISHED", session |-> connectId[m]])
        BY <1>a, <1>c, <2>1, <2>4, BarAppend
    <2> QED BY <1>a, <2>1, <2>3, <2>5 DEF Call!Up, Call!Tell
<1>5. CASE Closes(m, e, rest)
    <2>1. /\ curState[m] = "Active" /\ curState'[m] = "Disconnecting"
          /\ UNCHANGED <<connectId, outbox>>
        BY <1>5 DEF Closes, Moves, TypeOK
    <2>2. PhaseOf(m) \in {"opening", "up"} /\ PhaseOf(m)' = "closing" BY <2>1 DEF PhaseOf
    <2> QED BY <1>a, <1>d, <2>1, <2>2 DEF Call!Close
<1>6. CASE Ends(m, e, rest)
    <2>1. PICK c, reason : outbox' = [outbox EXCEPT ![m] = Append(@, Disconnected(m, c, reason))]
        BY <1>6 DEF Ends
    <2> DEFINE r == Disconnected(m, c, reason)
    <2>2. /\ curState[m] # "Inactive" /\ curState'[m] = "Inactive"
          /\ connectId' = [connectId EXCEPT ![m] = @ + 1]
        BY <1>6 DEF Ends, Moves, TypeOK
    <2>3. PhaseOf(m) # "idle" /\ PhaseOf(m)' = "idle" BY <2>2 DEF PhaseOf
    <2>4. outbox'[m] = Append(outbox[m], r) /\ outbox'[m] \in Seq(Report) BY <2>1 DEF TypeOK
    <2>5. r.kind = "DISCONNECTED" /\ r.cycle = connectId[m] BY DEF Disconnected
    <2> HIDE DEF r
    <2>6. r \in Report
        <3>1. Len(outbox[m]) + 1 \in 1 .. Len(outbox'[m]) /\ outbox'[m][Len(outbox[m]) + 1] = r
            BY <1>c, <2>4
        <3> QED BY <2>4, <3>1
    <2>7. BarOf(outbox'[m]) =
              Append(reportsBar[m], [kind |-> "DISCONNECTED", session |-> connectId[m]])
        BY <1>a, <1>c, <2>4, <2>5, <2>6, BarAppend
    <2> QED BY <1>a, <2>2, <2>3, <2>7 DEF Call!End, Call!Tell
<1> QED BY <1>1, <1>2, <1>3, <1>4, <1>5, <1>6 DEF Outcome

LEMMA CallNext ==
    ASSUME InOrder, TypeOK, TypeOK', OrderInv, [Next]_vars
    PROVE  [Call!DCNext]_(Call!dcVars)
<1>1. ASSUME NEW m \in Machines, MachineStep(m) PROVE [Call!DCNext]_(Call!dcVars)
    <2>1. PICK e \in Event, rest \in Rests : Process(m, e, rest) /\ Taken(m, e, rest)
        BY <1>1, DispatchTakes
    <2>2. Outcome(m, e, rest) BY <2>1, ProcessOutcome
    <2>3. ResentOK(m) /\ Ordered(m) BY DEF OrderInv
    <2>4. Call!Open(m) \/ Call!Up(m) \/ Call!Close(m) \/ Call!End(m) \/ UNCHANGED Call!dcVars
        BY <2>1, <2>2, <2>3, OutcomeBars
    <2> QED BY <2>4 DEF Call!DCNext
<1>2. CASE UNCHANGED <<curState, connectId, immediate, outbox>>
    BY <1>2 DEF Call!dcVars, phaseBar, reportsBar
<1>3. ASSUME NEW m \in Machines, RadioStep(m) \/ LinkStep(m) PROVE [Call!DCNext]_(Call!dcVars)
    BY <1>2, <1>3 DEF RadioStep, RadioAnswersSetup, RadioAnswersDeactivate,
                      LinkStep, LinkDownFound, LinkDownRemove, LinkDownRearm, callbackRest
<1>4. ASSUME NEW m \in Machines, HandlerReceives(m) PROVE [Call!DCNext]_(Call!dcVars)
    <2>1. outbox[m] # <<>> /\ outbox[m] \in Seq(Report) BY <1>4 DEF HandlerReceives, TypeOK
    <2>2. /\ UNCHANGED <<curState, connectId, immediate>>
          /\ outbox'[m] = Tail(outbox[m])
          /\ \A k \in Machines \ {m} : outbox'[k] = outbox[k]
        BY <1>4 DEF HandlerReceives, machineVars, TypeOK
    <2>3. /\ reportsBar[m] = BarOf(outbox[m])
          /\ reportsBar' = [reportsBar EXCEPT ![m] = BarOf(outbox'[m])]
        BY <2>2, BarStep
    <2>4. UNCHANGED phaseBar BY <2>2 DEF phaseBar
    <2>5. reportsBar[m] # <<>> /\ BarOf(outbox'[m]) = Tail(reportsBar[m])
        BY <2>1, <2>2, <2>3, BarTail
    <2> QED BY <2>2, <2>3, <2>4, <2>5 DEF Call!DCNext, Call!Take
<1>5. CASE UNCHANGED vars BY <1>2, <1>5 DEF vars, machineVars
<1> QED BY <1>1, <1>3, <1>4, <1>5 DEF Next

\* The machines implement DataCall, step by step, with any number of machines and
\* cycles: one disconnection report per cycle and at most one establishment before it.
THEOREM MachinesImplementDataCall ==
    ASSUME InOrder
    PROVE  Spec => ImplementsDataCall
<1>1. Init => Call!DCInit
    <2>1. Init => /\ reportsBar = [m \in Machines |-> <<>>]
                  /\ phaseBar = [m \in Machines |-> "idle"]
        BY BarsPerMachine DEF Init, PhaseOf, BarOf
    <2> QED BY <2>1 DEF Init, Call!DCInit
<1>2. TypeOK /\ TypeOK' /\ OrderInv /\ [Next]_vars => [Call!DCNext]_(Call!dcVars)
    BY CallNext
<1>3. TypeOK /\ OrderInv /\ [Next]_vars => OrderInv'
    BY OrderInvNext
<1> QED BY <1>1, <1>2, <1>3, OrderInvInit, TypeCorrect, PTL DEF Spec, ImplementsDataCall, Call!DCSpec
=============================================================================

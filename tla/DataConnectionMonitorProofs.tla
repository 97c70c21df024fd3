--------------------- MODULE DataConnectionMonitorProofs ----------------------
(***************************************************************************)
(* Detection is armed and running whenever it should be, for any number of *)
(* calls, disturbances and packets.  The three threads share the flag and  *)
(* the event queue without a lock, so the invariant says where each thread *)
(* may be (Plans) and what the others may rely on there:                   *)
(*   - as long as no start or stop overlapped another (~exempt), at most   *)
(*     one thread is inside one (OneSwitches);                             *)
(*   - such a thread that is about to remove the event has cleared the     *)
(*     flag (RemovesWhenOff), and one that will end with detection off has *)
(*     no connected call or a voice call (StopsForAReason);                *)
(*   - a flag without an event has a thread that has still to look for it  *)
(*     (Armed), and a call without the flag one that will set it (Guarded).*)
(***************************************************************************)
EXTENDS DataConnectionMonitor, SequenceTheorems, TLAPS

\* Where a thread can be: the rest of a start, of a stop, of both, or of a tick.
StartPlans == {<<"enable", "check">>, <<"check">>, <<"send">>}
StopPlans == {<<"disable", "remove">>, <<"remove">>}
RestartPlans == {<<"disable", "remove", "enable", "check">>, <<"remove", "enable", "check">>}
TickPlans == {<<"disable", "remove", "rearm">>, <<"remove", "rearm">>, <<"rearm">>, <<"send">>}
Plans == [handler  |-> {<<>>} \cup StartPlans \cup StopPlans,
          observer |-> {<<>>} \cup StartPlans \cup StopPlans \cup RestartPlans,
          monitor  |-> {<<>>} \cup TickPlans]

\* Inside a start or a stop: the places of which Switching is true.
InSwitch(t) == todo[t] \notin {<<>>, <<"send">>, <<"rearm">>}

Removes(t) == todo[t] \in {<<"remove">>, <<"remove", "rearm">>, <<"remove", "enable", "check">>}
Disables(t) == todo[t] \in {<<"disable", "remove">>, <<"disable", "remove", "rearm">>}
Enables(t) == todo[t] \in {<<"enable", "check">>} \cup RestartPlans

\* The number of threads that passed the test for an event and have not sent one.
Sending(t) == IF todo[t] = <<"send">> THEN 1 ELSE 0
SendingThreads == Sending("handler") + Sending("observer") + Sending("monitor")

PlansOK == \A t \in Threads : todo[t] \in Plans[t]
TimersOK == timers + SendingThreads <= 3
OneSwitches == exempt \/ \A t, u \in Threads : InSwitch(t) /\ InSwitch(u) => t = u
RemovesWhenOff == exempt \/ \A t \in Threads : Removes(t) => ~enabled
StopsForAReason ==
    \/ exempt
    \/ /\ Disables("handler") \/ Disables("monitor") => live = 0
       /\ Disables("observer") => callBusy
Armed == exempt \/ (enabled => timers > 0 \/ \E t \in Threads : todo[t] # <<>>)
Guarded == exempt \/ (live > 0 /\ ~callBusy => enabled \/ \E t \in Threads : Enables(t))

MonitorInv ==
    /\ TypeOK /\ PlansOK /\ TimersOK
    /\ OneSwitches /\ RemovesWhenOff /\ StopsForAReason /\ Armed /\ Guarded

\* What the steps of one thread do, place by place: Go(t, rest, on, n) is the step
\* that leaves `rest' to do, the flag `on' and n events.
Go(t, rest, on, n) ==
    /\ todo' = [todo EXCEPT ![t] = rest] /\ enabled' = on /\ timers' = n
    /\ UNCHANGED <<exempt, monitorVars, dataVars, phoneVars, disturbances>>

(* A thread's place is a sequence of Steps ...                             *)
LEMMA PlansAreSteps ==
    ASSUME NEW t \in Threads, NEW p \in Plans[t]
    PROVE  p \in Seq(Steps)
<1>1. {<<>>, <<"enable", "check">>, <<"check">>, <<"send">>, <<"rearm">>, <<"remove">>} \subseteq Seq(Steps)
    BY DEF Steps
<1>2. {<<"disable", "remove">>, <<"remove", "rearm">>, <<"remove", "enable", "check">>,
       <<"disable", "remove", "rearm">>} \subseteq Seq(Steps)
    BY DEF Steps
<1>6. <<"disable", "remove", "enable", "check">> \in Seq(Steps)
    BY DEF Steps
<1>. USE DEF Plans, StartPlans, StopPlans, RestartPlans, TickPlans
<1>3. CASE t = "handler"
    BY <1>1, <1>2, <1>3
<1>4. CASE t = "observer"
    BY <1>1, <1>2, <1>4, <1>6
<1>5. CASE t = "monitor"
    BY <1>1, <1>2, <1>5
<1>. QED  BY <1>3, <1>4, <1>5 DEF Threads

(* ... and what is left of it after a step is a place of the same thread.  *)
LEMMA PlanAfter ==
    ASSUME NEW t \in Threads
    PROVE  /\ <<>> \in Plans[t] /\ <<"send">> \in Plans[t]
           /\ <<"enable", "check">> \in Plans[t] => <<"check">> \in Plans[t]
           /\ <<"disable", "remove">> \in Plans[t] => <<"remove">> \in Plans[t]
           /\ <<"disable", "remove", "enable", "check">> \in Plans[t] =>
                 <<"remove", "enable", "check">> \in Plans[t]
           /\ <<"remove", "enable", "check">> \in Plans[t] => <<"enable", "check">> \in Plans[t]
           /\ <<"disable", "remove", "rearm">> \in Plans[t] => <<"remove", "rearm">> \in Plans[t]
           /\ <<"remove", "rearm">> \in Plans[t] => <<"rearm">> \in Plans[t]
<1>. USE DEF Plans, StartPlans, StopPlans, RestartPlans, TickPlans
<1>1. CASE t = "handler"
    BY <1>1
<1>2. CASE t = "observer"
    BY <1>2
<1>3. CASE t = "monitor"
    BY <1>3
<1>. QED  BY <1>1, <1>2, <1>3 DEF Threads

(* Switching looks through the steps a thread has still to do.             *)
LEMMA SwitchingIsInSwitch ==
    ASSUME NEW t \in Threads, todo[t] \in Plans[t]
    PROVE  Switching(t) <=> InSwitch(t)
BY DEF Switching, InSwitch, Plans, StartPlans, StopPlans, RestartPlans, TickPlans, Threads

(* A stop is neither done nor a mere sending.                              *)
LEMMA StopIsSwitch ==
    ASSUME NEW p \in {<<"disable", "remove">>, <<"disable", "remove", "rearm">>}
    PROVE  p \notin {<<>>, <<"send">>, <<"rearm">>}
OBVIOUS

(* The threads that are about to send, when one of them goes on.          *)
LEMMA SendingAfter ==
    ASSUME NEW t \in Threads, \A u \in Threads \ {t} : todo'[u] = todo[u]
    PROVE  /\ SendingThreads \in 0 .. 3
           /\ todo[t] # <<"send">> => SendingThreads <= 2
           /\ todo'[t] # <<"send">> => SendingThreads' = SendingThreads - Sending(t)
           /\ todo'[t] = <<"send">> => SendingThreads' = SendingThreads - Sending(t) + 1
           /\ Sending(t) \in {0, 1}
<1>0. /\ \A u \in Threads : Sending(u) \in {0, 1} /\ (todo[u] # <<"send">> => Sending(u) = 0)
      /\ \A u \in Threads \ {t} : Sending(u)' = Sending(u)
      /\ Sending(t)' = IF todo'[t] = <<"send">> THEN 1 ELSE 0
    BY DEF Sending
<1>. USE DEF SendingThreads
<1>1. CASE t = "handler"
    BY <1>0, <1>1 DEF Threads
<1>2. CASE t = "observer"
    BY <1>0, <1>2 DEF Threads
<1>3. CASE t = "monitor"
    BY <1>0, <1>3 DEF Threads
<1>. QED  BY <1>1, <1>2, <1>3 DEF Threads

(* The parts of the invariant about the threads, after a step of one.      *)
LEMMA StepKeepsParts ==
    ASSUME NEW t \in Threads, MonitorInv, Step(t)
    PROVE  /\ \E p \in Plans[t] : todo' = [todo EXCEPT ![t] = p]
           /\ timers' \in Nat /\ enabled' \in BOOLEAN
           /\ TimersOK' /\ OneSwitches' /\ RemovesWhenOff' /\ StopsForAReason' /\ Armed' /\ Guarded'
<1>. DEFINE Goal == /\ \E p \in Plans[t] : todo' = [todo EXCEPT ![t] = p]
                    /\ timers' \in Nat /\ enabled' \in BOOLEAN
                    /\ TimersOK' /\ OneSwitches' /\ RemovesWhenOff' /\ StopsForAReason' /\ Armed' /\ Guarded'
<1>0. /\ DOMAIN todo = Threads /\ todo[t] \in Plans[t] /\ timers \in Nat /\ enabled \in BOOLEAN
      /\ live \in Nat
    BY DEF MonitorInv, TypeOK, PlansOK
<1>1. CASE todo[t] = <<"enable", "check">>
    <2>1. Go(t, <<"check">>, TRUE, timers)
        BY <1>0, <1>1 DEF Step, Go, Idle, MustSend
    <2>2. (\E p \in Plans[t] : todo' = [todo EXCEPT ![t] = p]) /\ timers' \in Nat /\ enabled' \in BOOLEAN
        BY <1>0, <1>1, <2>1, PlanAfter DEF Go
    <2>3. TimersOK'
        <3>1. todo'[t] # <<"send">> /\ \A u \in Threads \ {t} : todo'[u] = todo[u]
            BY <1>0, <2>1 DEF Go
        <3>2. SendingThreads' = SendingThreads - Sending(t) /\ SendingThreads \in Nat
            BY <3>1, SendingAfter
        <3>3. Sending(t) = 0
            BY <1>1 DEF Sending
        <3>. QED  BY <1>0, <2>1, <3>2, <3>3 DEF MonitorInv, Go, TimersOK
    <2>4. OneSwitches'
        BY <1>0, <1>1, <2>1 DEF MonitorInv, Go, OneSwitches, InSwitch
    <2>5. RemovesWhenOff'
        BY <1>0, <1>1, <2>1 DEF MonitorInv, Go, RemovesWhenOff, Removes, OneSwitches, InSwitch
    <2>6. StopsForAReason'
        BY <1>0, <1>1, <2>1 DEF MonitorInv, Go, Threads, StopsForAReason, Disables, dataVars, phoneVars
    <2>7. Armed'
        BY <1>0, <1>1, <2>1 DEF MonitorInv, Go, Armed, RemovesWhenOff, Removes
    <2>8. Guarded'
        BY <1>0, <1>1, <2>1 DEF MonitorInv, Go, Threads, Guarded, Enables, RestartPlans, dataVars, phoneVars
    <2>. QED  BY <2>2, <2>3, <2>4, <2>5, <2>6, <2>7, <2>8
<1>2. CASE todo[t] = <<"check">>
    <2>1. IF timers = 0 THEN Go(t, <<"send">>, enabled, timers) ELSE Go(t, <<>>, enabled, timers)
        BY <1>0, <1>2 DEF Step, Go, Idle, MustSend
    <2>2. (\E p \in Plans[t] : todo' = [todo EXCEPT ![t] = p]) /\ timers' \in Nat /\ enabled' \in BOOLEAN
        BY <1>0, <1>2, <2>1, PlanAfter DEF Go
    <2>3. TimersOK'
        BY <1>0, <1>2, <2>1, SendingAfter DEF MonitorInv, Go, TimersOK, Sending
    <2>4. OneSwitches'
        BY <1>0, <1>2, <2>1 DEF MonitorInv, Go, OneSwitches, InSwitch
    <2>5. RemovesWhenOff'
        BY <1>0, <1>2, <2>1 DEF MonitorInv, Go, RemovesWhenOff, Removes, OneSwitches, InSwitch
    <2>6. StopsForAReason'
        BY <1>0, <1>2, <2>1 DEF MonitorInv, Go, Threads, StopsForAReason, Disables, dataVars, phoneVars
    <2>7. Armed'
        BY <1>0, <1>2, <2>1 DEF MonitorInv, Go, Armed, RemovesWhenOff, Removes
    <2>8. Guarded'
        BY <1>0, <1>2, <2>1 DEF MonitorInv, Go, Threads, Guarded, Enables, RestartPlans, dataVars, phoneVars
    <2>. QED  BY <2>2, <2>3, <2>4, <2>5, <2>6, <2>7, <2>8
<1>3. CASE todo[t] = <<"send">>
    <2>1. Go(t, <<>>, enabled, timers + 1)
        BY <1>0, <1>3 DEF Step, Go, Idle, MustSend
    <2>2. (\E p \in Plans[t] : todo' = [todo EXCEPT ![t] = p]) /\ timers' \in Nat /\ enabled' \in BOOLEAN
        <3>1. timers' = timers + 1 /\ enabled' = enabled /\ todo' = [todo EXCEPT ![t] = <<>>]
            BY <2>1 DEF Go
        <3>2. timers' \in Nat /\ enabled' \in BOOLEAN
            BY <1>0, <3>1
        <3>. QED  BY <3>1, <3>2, PlanAfter
    <2>3. TimersOK'
        <3>1. todo'[t] # <<"send">> /\ \A u \in Threads \ {t} : todo'[u] = todo[u]
            BY <1>0, <2>1 DEF Go
        <3>2. SendingThreads' = SendingThreads - Sending(t) /\ SendingThreads \in Nat
            BY <3>1, SendingAfter
        <3>3. Sending(t) = 1
            BY <1>3 DEF Sending
        <3>. QED  BY <1>0, <2>1, <3>2, <3>3 DEF MonitorInv, Go, TimersOK
    <2>4. OneSwitches'
        BY <1>0, <1>3, <2>1 DEF MonitorInv, Go, OneSwitches, InSwitch
    <2>5. RemovesWhenOff'
        BY <1>0, <1>3, <2>1 DEF MonitorInv, Go, RemovesWhenOff, Removes, OneSwitches, InSwitch
    <2>6. StopsForAReason'
        BY <1>0, <1>3, <2>1 DEF MonitorInv, Go, Threads, StopsForAReason, Disables, dataVars, phoneVars
    <2>7. Armed'
        BY <1>0, <1>3, <2>1 DEF MonitorInv, Go, Armed, RemovesWhenOff, Removes
    <2>8. Guarded'
        BY <1>0, <1>3, <2>1 DEF MonitorInv, Go, Threads, Guarded, Enables, RestartPlans, dataVars, phoneVars
    <2>. QED  BY <2>2, <2>3, <2>4, <2>5, <2>6, <2>7, <2>8
<1>4. CASE todo[t] = <<"rearm">>
    <2>1. IF timers = 0 /\ enabled THEN Go(t, <<"send">>, enabled, timers) ELSE Go(t, <<>>, enabled, timers)
        <3>1. MustSend("rearm") <=> timers = 0 /\ enabled
            BY DEF MustSend
        <3>2. CASE MustSend("rearm")
            BY <1>0, <1>4, <3>1, <3>2 DEF Step, Go, Idle
        <3>3. CASE ~MustSend("rearm")
            BY <1>0, <1>4, <3>1, <3>3 DEF Step, Go, Idle
        <3>. QED  BY <3>2, <3>3
    <2>2. (\E p \in Plans[t] : todo' = [todo EXCEPT ![t] = p]) /\ timers' \in Nat /\ enabled' \in BOOLEAN
        BY <1>0, <1>4, <2>1, PlanAfter DEF Go
    <2>3. TimersOK'
        BY <1>0, <1>4, <2>1, SendingAfter DEF MonitorInv, Go, TimersOK, Sending
    <2>4. OneSwitches'
        BY <1>0, <1>4, <2>1 DEF MonitorInv, Go, OneSwitches, InSwitch
    <2>5. RemovesWhenOff'
        BY <1>0, <1>4, <2>1 DEF MonitorInv, Go, RemovesWhenOff, Removes, OneSwitches, InSwitch
    <2>6. StopsForAReason'
        BY <1>0, <1>4, <2>1 DEF MonitorInv, Go, Threads, StopsForAReason, Disables, dataVars, phoneVars
    <2>7. Armed'
        BY <1>0, <1>4, <2>1 DEF MonitorInv, Go, Armed, RemovesWhenOff, Removes
    <2>8. Guarded'
        BY <1>0, <1>4, <2>1 DEF MonitorInv, Go, Threads, Guarded, Enables, RestartPlans, dataVars, phoneVars
    <2>. QED  BY <2>2, <2>3, <2>4, <2>5, <2>6, <2>7, <2>8
<1>5. CASE todo[t] = <<"disable", "remove">>
    <2>1. Go(t, <<"remove">>, FALSE, timers)
        BY <1>0, <1>5 DEF Step, Go, Idle, MustSend
    <2>2. (\E p \in Plans[t] : todo' = [todo EXCEPT ![t] = p]) /\ timers' \in Nat /\ enabled' \in BOOLEAN
        BY <1>0, <1>5, <2>1, PlanAfter DEF Go
    <2>3. TimersOK'
        <3>1. todo'[t] # <<"send">> /\ \A u \in Threads \ {t} : todo'[u] = todo[u]
            BY <1>0, <2>1 DEF Go
        <3>2. SendingThreads' = SendingThreads - Sending(t) /\ SendingThreads \in Nat
            BY <3>1, SendingAfter
        <3>3. Sending(t) = 0
            BY <1>5 DEF Sending
        <3>. QED  BY <1>0, <2>1, <3>2, <3>3 DEF MonitorInv, Go, TimersOK
    <2>4. OneSwitches'
        BY <1>0, <1>5, <2>1 DEF MonitorInv, Go, OneSwitches, InSwitch
    <2>5. RemovesWhenOff'
        BY <1>0, <1>5, <2>1 DEF MonitorInv, Go, RemovesWhenOff, Removes, OneSwitches, InSwitch
    <2>6. StopsForAReason'
        BY <1>0, <1>5, <2>1 DEF MonitorInv, Go, Threads, StopsForAReason, Disables, dataVars, phoneVars
    <2>7. Armed'
        BY <1>0, <1>5, <2>1 DEF MonitorInv, Go, Armed, RemovesWhenOff, Removes
    <2>9. exempt \/ live = 0 \/ callBusy
        BY <1>5 DEF MonitorInv, StopsForAReason, Disables, Threads
    <2>8. Guarded'
        BY <1>0, <1>5, <2>1, <2>9 DEF MonitorInv, Go, Threads, Guarded, Enables, RestartPlans, dataVars, phoneVars
    <2>. QED  BY <2>2, <2>3, <2>4, <2>5, <2>6, <2>7, <2>8
<1>6. CASE todo[t] = <<"remove">>
    <2>1. Go(t, <<>>, enabled, 0)
        BY <1>0, <1>6 DEF Step, Go, Idle, MustSend
    <2>2. (\E p \in Plans[t] : todo' = [todo EXCEPT ![t] = p]) /\ timers' \in Nat /\ enabled' \in BOOLEAN
        BY <1>0, <1>6, <2>1, PlanAfter DEF Go
    <2>3. TimersOK'
        <3>1. todo'[t] # <<"send">> /\ \A u \in Threads \ {t} : todo'[u] = todo[u]
            BY <1>0, <2>1 DEF Go
        <3>2. SendingThreads' = SendingThreads - Sending(t) /\ SendingThreads \in Nat
            BY <3>1, SendingAfter
        <3>3. Sending(t) = 0
            BY <1>6 DEF Sending
        <3>. QED  BY <1>0, <2>1, <3>2, <3>3 DEF MonitorInv, Go, TimersOK
    <2>4. OneSwitches'
        BY <1>0, <1>6, <2>1 DEF MonitorInv, Go, OneSwitches, InSwitch
    <2>5. RemovesWhenOff'
        BY <1>0, <1>6, <2>1 DEF MonitorInv, Go, RemovesWhenOff, Removes, OneSwitches, InSwitch
    <2>6. StopsForAReason'
        BY <1>0, <1>6, <2>1 DEF MonitorInv, Go, Threads, StopsForAReason, Disables, dataVars, phoneVars
    <2>7. Armed'
        BY <1>0, <1>6, <2>1 DEF MonitorInv, Go, Armed, RemovesWhenOff, Removes
    <2>8. Guarded'
        BY <1>0, <1>6, <2>1 DEF MonitorInv, Go, Threads, Guarded, Enables, RestartPlans, dataVars, phoneVars
    <2>. QED  BY <2>2, <2>3, <2>4, <2>5, <2>6, <2>7, <2>8
<1>7. CASE todo[t] = <<"disable", "remove", "enable", "check">>
    <2>1. Go(t, <<"remove", "enable", "check">>, FALSE, timers)
        BY <1>0, <1>7 DEF Step, Go, Idle, MustSend
    <2>2. (\E p \in Plans[t] : todo' = [todo EXCEPT ![t] = p]) /\ timers' \in Nat /\ enabled' \in BOOLEAN
        BY <1>0, <1>7, <2>1, PlanAfter DEF Go
    <2>3. TimersOK'
        <3>1. todo'[t] # <<"send">> /\ \A u \in Threads \ {t} : todo'[u] = todo[u]
            BY <1>0, <2>1 DEF Go
        <3>2. SendingThreads' = SendingThreads - Sending(t) /\ SendingThreads \in Nat
            BY <3>1, SendingAfter
        <3>3. Sending(t) = 0
            BY <1>7 DEF Sending
        <3>. QED  BY <1>0, <2>1, <3>2, <3>3 DEF MonitorInv, Go, TimersOK
    <2>4. OneSwitches'
        BY <1>0, <1>7, <2>1 DEF MonitorInv, Go, OneSwitches, InSwitch
    <2>5. RemovesWhenOff'
        BY <1>0, <1>7, <2>1 DEF MonitorInv, Go, RemovesWhenOff, Removes, OneSwitches, InSwitch
    <2>6. StopsForAReason'
        BY <1>0, <1>7, <2>1 DEF MonitorInv, Go, Threads, StopsForAReason, Disables, dataVars, phoneVars
    <2>7. Armed'
        BY <1>0, <1>7, <2>1 DEF MonitorInv, Go, Armed, RemovesWhenOff, Removes
    <2>8. Guarded'
        BY <1>0, <1>7, <2>1 DEF MonitorInv, Go, Threads, Guarded, Enables, RestartPlans, dataVars, phoneVars
    <2>. QED  BY <2>2, <2>3, <2>4, <2>5, <2>6, <2>7, <2>8
<1>8. CASE todo[t] = <<"remove", "enable", "check">>
    <2>1. Go(t, <<"enable", "check">>, enabled, 0)
        BY <1>0, <1>8 DEF Step, Go, Idle, MustSend
    <2>2. (\E p \in Plans[t] : todo' = [todo EXCEPT ![t] = p]) /\ timers' \in Nat /\ enabled' \in BOOLEAN
        BY <1>0, <1>8, <2>1, PlanAfter DEF Go
    <2>3. TimersOK'
        <3>1. todo'[t] # <<"send">> /\ \A u \in Threads \ {t} : todo'[u] = todo[u]
            BY <1>0, <2>1 DEF Go
        <3>2. SendingThreads' = SendingThreads - Sending(t) /\ SendingThreads \in Nat
            BY <3>1, SendingAfter
        <3>3. Sending(t) = 0
            BY <1>8 DEF Sending
        <3>. QED  BY <1>0, <2>1, <3>2, <3>3 DEF MonitorInv, Go, TimersOK
    <2>4. OneSwitches'
        BY <1>0, <1>8, <2>1 DEF MonitorInv, Go, OneSwitches, InSwitch
    <2>5. RemovesWhenOff'
        BY <1>0, <1>8, <2>1 DEF MonitorInv, Go, RemovesWhenOff, Removes, OneSwitches, InSwitch
    <2>6. StopsForAReason'
        BY <1>0, <1>8, <2>1 DEF MonitorInv, Go, Threads, StopsForAReason, Disables, dataVars, phoneVars
    <2>7. Armed'
        BY <1>0, <1>8, <2>1 DEF MonitorInv, Go, Armed, RemovesWhenOff, Removes
    <2>8. Guarded'
        BY <1>0, <1>8, <2>1 DEF MonitorInv, Go, Threads, Guarded, Enables, RestartPlans, dataVars, phoneVars
    <2>. QED  BY <2>2, <2>3, <2>4, <2>5, <2>6, <2>7, <2>8
<1>9. CASE todo[t] = <<"disable", "remove", "rearm">>
    <2>1. Go(t, <<"remove", "rearm">>, FALSE, timers)
        BY <1>0, <1>9 DEF Step, Go, Idle, MustSend
    <2>2. (\E p \in Plans[t] : todo' = [todo EXCEPT ![t] = p]) /\ timers' \in Nat /\ enabled' \in BOOLEAN
        BY <1>0, <1>9, <2>1, PlanAfter DEF Go
    <2>3. TimersOK'
        <3>1. todo'[t] # <<"send">> /\ \A u \in Threads \ {t} : todo'[u] = todo[u]
            BY <1>0, <2>1 DEF Go
        <3>2. SendingThreads' = SendingThreads - Sending(t) /\ SendingThreads \in Nat
            BY <3>1, SendingAfter
        <3>3. Sending(t) = 0
            BY <1>9 DEF Sending
        <3>. QED  BY <1>0, <2>1, <3>2, <3>3 DEF MonitorInv, Go, TimersOK
    <2>4. OneSwitches'
        BY <1>0, <1>9, <2>1 DEF MonitorInv, Go, OneSwitches, InSwitch
    <2>5. RemovesWhenOff'
        BY <1>0, <1>9, <2>1 DEF MonitorInv, Go, RemovesWhenOff, Removes, OneSwitches, InSwitch
    <2>6. StopsForAReason'
        BY <1>0, <1>9, <2>1 DEF MonitorInv, Go, Threads, StopsForAReason, Disables, dataVars, phoneVars
    <2>7. Armed'
        BY <1>0, <1>9, <2>1 DEF MonitorInv, Go, Armed, RemovesWhenOff, Removes
    <2>9. exempt \/ live = 0 \/ callBusy
        BY <1>9 DEF MonitorInv, StopsForAReason, Disables, Threads
    <2>8. Guarded'
        BY <1>0, <1>9, <2>1, <2>9 DEF MonitorInv, Go, Threads, Guarded, Enables, RestartPlans, dataVars, phoneVars
    <2>. QED  BY <2>2, <2>3, <2>4, <2>5, <2>6, <2>7, <2>8
<1>10. CASE todo[t] = <<"remove", "rearm">>
    <2>1. Go(t, <<"rearm">>, enabled, 0)
        BY <1>0, <1>10 DEF Step, Go, Idle, MustSend
    <2>2. (\E p \in Plans[t] : todo' = [todo EXCEPT ![t] = p]) /\ timers' \in Nat /\ enabled' \in BOOLEAN
        BY <1>0, <1>10, <2>1, PlanAfter DEF Go
    <2>3. TimersOK'
        <3>1. todo'[t] # <<"send">> /\ \A u \in Threads \ {t} : todo'[u] = todo[u]
            BY <1>0, <2>1 DEF Go
        <3>2. SendingThreads' = SendingThreads - Sending(t) /\ SendingThreads \in Nat
            BY <3>1, SendingAfter
        <3>3. Sending(t) = 0
            BY <1>10 DEF Sending
        <3>. QED  BY <1>0, <2>1, <3>2, <3>3 DEF MonitorInv, Go, TimersOK
    <2>4. OneSwitches'
        BY <1>0, <1>10, <2>1 DEF MonitorInv, Go, OneSwitches, InSwitch
    <2>5. RemovesWhenOff'
        BY <1>0, <1>10, <2>1 DEF MonitorInv, Go, RemovesWhenOff, Removes, OneSwitches, InSwitch
    <2>6. StopsForAReason'
        BY <1>0, <1>10, <2>1 DEF MonitorInv, Go, Threads, StopsForAReason, Disables, dataVars, phoneVars
    <2>7. Armed'
        BY <1>0, <1>10, <2>1 DEF MonitorInv, Go, Armed, RemovesWhenOff, Removes
    <2>8. Guarded'
        BY <1>0, <1>10, <2>1 DEF MonitorInv, Go, Threads, Guarded, Enables, RestartPlans, dataVars, phoneVars
    <2>. QED  BY <2>2, <2>3, <2>4, <2>5, <2>6, <2>7, <2>8
<1>11. todo[t] # <<>>
    BY DEF Step, Idle
<1>. HIDE DEF Goal
<1>. QED
    BY <1>0, <1>1, <1>2, <1>3, <1>4, <1>5, <1>6, <1>7, <1>8, <1>9, <1>10, <1>11
       DEF Plans, StartPlans, StopPlans, RestartPlans, TickPlans, Threads

\* The parts of the invariant that the threads share.
Shared == /\ PlansOK /\ TimersOK /\ OneSwitches /\ RemovesWhenOff
          /\ StopsForAReason /\ Armed /\ Guarded

\* The parts of TypeOK about the timer, and the rest of it.
TimerTypeOK ==
    /\ enabled \in BOOLEAN /\ timers \in 0 .. 3 /\ todo \in [Threads -> Seq(Steps)] /\ exempt \in BOOLEAN
WorldTypeOK ==
    /\ noRecvPackets \in 0 .. RECOVERY_TRIGGER_PACKET
    /\ recoveryState \in RecoveryStates
    /\ live \in 0 .. MaxCalls /\ dying \in 0 .. MaxCalls /\ live + dying <= MaxCalls
    /\ radio \in {"on", "goingOff", "goingOn"}
    /\ callBusy \in BOOLEAN /\ gsm \in BOOLEAN /\ flow \in Flows
    /\ disturbances \in 0 .. MaxDisturbances

(* The invariant is made of these parts.                                   *)
LEMMA Parts == MonitorInv <=> TimerTypeOK /\ WorldTypeOK /\ Shared
BY DEF MonitorInv, TypeOK, TimerTypeOK, WorldTypeOK, Shared

(* Places and the number of threads about to send make up the timer's type:*)
(* at most three events are ever queued.                                   *)
LEMMA TimerTypeAfter ==
    ASSUME NEW t \in Threads, NEW p \in Plans[t], MonitorInv, todo' = [todo EXCEPT ![t] = p],
           enabled' \in BOOLEAN, exempt' \in BOOLEAN, timers' \in Nat, TimersOK'
    PROVE  TimerTypeOK' /\ PlansOK'
<1>1. todo' \in [Threads -> Seq(Steps)] /\ PlansOK'
    BY PlansAreSteps DEF MonitorInv, TypeOK, PlansOK
<1>2. \A u \in Threads : Sending(u)' \in {0, 1}
    BY DEF Sending
<1>3. SendingThreads' \in Nat
    BY <1>2 DEF SendingThreads, Threads
<1>4. timers' + SendingThreads' <= 3
    BY DEF TimersOK
<1>5. \A m, n \in Nat : m + n <= 3 => m \in 0 .. 3
    OBVIOUS
<1>6. timers' \in 0 .. 3
    BY <1>3, <1>4, <1>5
<1>. QED  BY <1>1, <1>6 DEF TimerTypeOK

(* A step of a start, of a stop or of the end of a tick.                   *)
LEMMA StepKeeps ==
    ASSUME NEW t \in Threads, MonitorInv, Step(t)
    PROVE  MonitorInv'
<1>1. /\ timers' \in Nat /\ enabled' \in BOOLEAN
      /\ TimersOK' /\ OneSwitches' /\ RemovesWhenOff' /\ StopsForAReason' /\ Armed' /\ Guarded'
    BY StepKeepsParts
<1>2. PICK p \in Plans[t] : todo' = [todo EXCEPT ![t] = p]
    BY StepKeepsParts
<1>3. exempt' \in BOOLEAN
    BY DEF MonitorInv, TypeOK, Step
<1>4. TimerTypeOK' /\ PlansOK'
    BY <1>1, <1>2, <1>3, TimerTypeAfter
<1>5. WorldTypeOK'
    BY DEF MonitorInv, TypeOK, WorldTypeOK, Step, monitorVars, dataVars, phoneVars
<1>. QED  BY <1>1, <1>4, <1>5 DEF MonitorInv, TypeOK, TimerTypeOK, WorldTypeOK

\* A whole start or stop: what Switch and a tick that clears give a thread to do.
SwitchPlans == {<<"enable", "check">>, <<"disable", "remove">>,
                <<"disable", "remove", "enable", "check">>, <<"disable", "remove", "rearm">>}

LEMMA SwitchPlansBegin == \A p \in SwitchPlans : p # <<>> /\ p # <<"send">>
<1> SUFFICES ASSUME NEW p \in SwitchPlans PROVE Len(p) \in {2, 3, 4}
    OBVIOUS
<1> QED BY DEF SwitchPlans

(* A thread begins a start or a stop.  Detection that will end switched off*)
(* needs a reason: no connected call, or a voice call.                     *)
LEMMA SwitchKeeps ==
    ASSUME NEW t \in Threads, NEW p \in SwitchPlans, p \in Plans[t], MonitorInv, Idle(t),
           todo' = [todo EXCEPT ![t] = p],
           exempt' = \E u \in Threads \ {t} : Switching(u),
           enabled' = enabled, timers' \in Nat, timers' <= timers,
           p \in {<<"disable", "remove">>, <<"disable", "remove", "rearm">>} =>
               IF t = "observer" THEN callBusy' ELSE live' = 0
    PROVE  TimerTypeOK' /\ Shared'
<1>0. /\ DOMAIN todo = Threads /\ todo[t] = <<>> /\ enabled' \in BOOLEAN /\ timers \in Nat
    BY DEF MonitorInv, TypeOK, Idle
<1>9. p # <<>> /\ p # <<"send">>
    BY SwitchPlansBegin
<1>a. todo'[t] = p /\ todo'[t] # <<"send">> /\ \A u \in Threads \ {t} : todo'[u] = todo[u]
    BY <1>0, <1>9
<1>1. exempt' \in BOOLEAN /\ (~exempt' => \A u \in Threads \ {t} : ~InSwitch(u))
    BY SwitchingIsInSwitch DEF MonitorInv, PlansOK
<1>2. TimersOK'
    <2>1. SendingThreads' = SendingThreads - Sending(t) /\ SendingThreads \in Nat /\ Sending(t) \in {0, 1}
        BY <1>a, SendingAfter
    <2>2. timers + SendingThreads <= 3
        BY DEF MonitorInv, TimersOK
    <2>. QED  BY <1>0, <2>1, <2>2 DEF TimersOK
<1>3. TimerTypeOK' /\ PlansOK'
    BY <1>0, <1>1, <1>2, TimerTypeAfter
<1>4. OneSwitches'
    BY <1>a, <1>1 DEF OneSwitches, InSwitch
<1>5. RemovesWhenOff'
    <2>1. \A u \in Threads \ {t} : Removes(u)' => exempt'
        BY <1>a, <1>1 DEF Removes, InSwitch
    <2>2. ~Removes(t)'
        BY <1>a DEF Removes, SwitchPlans
    <2>. QED  BY <2>1, <2>2 DEF RemovesWhenOff
<1>6. StopsForAReason'
    <2>1. \A u \in Threads \ {t} : Disables(u)' => exempt'
        <3>1. \A u \in Threads \ {t} : Disables(u)' => InSwitch(u)
            <4>. SUFFICES ASSUME NEW u \in Threads \ {t}, Disables(u)' PROVE InSwitch(u)
                OBVIOUS
            <4>1. todo[u] \in {<<"disable", "remove">>, <<"disable", "remove", "rearm">>}
                BY <1>a DEF Disables
            <4>. QED  BY <4>1, StopIsSwitch DEF InSwitch
        <3>. QED  BY <1>1, <3>1
    <2>2. Disables(t)' => IF t = "observer" THEN callBusy' ELSE live' = 0
        BY <1>a DEF Disables
    <2>. QED  BY <2>1, <2>2 DEF StopsForAReason, Threads
<1>7. Armed'
    BY <1>9, <1>a DEF Armed
<1>8. Guarded'
    BY <1>a, <1>1 DEF Guarded, Enables, RestartPlans, SwitchPlans
<1>. QED  BY <1>2, <1>3, <1>4, <1>5, <1>6, <1>7, <1>8 DEF Shared

(* A step that leaves the timer alone and connects no call.                *)
LEMMA CallsGoDown ==
    ASSUME MonitorInv, UNCHANGED <<timerVars, callBusy>>, live' \in Nat, live' <= live
    PROVE  TimerTypeOK' /\ Shared'
<1>0. TimerTypeOK /\ Shared /\ live \in Nat /\ UNCHANGED <<enabled, timers, todo, exempt, callBusy>>
    BY Parts DEF WorldTypeOK, timerVars
<1>1. TimerTypeOK' /\ PlansOK' /\ TimersOK' /\ OneSwitches' /\ RemovesWhenOff' /\ Armed'
    BY <1>0 DEF Shared, TimerTypeOK, PlansOK, TimersOK, SendingThreads, Sending,
                OneSwitches, InSwitch, RemovesWhenOff, Removes, Armed
<1>2. StopsForAReason'
    BY <1>0 DEF Shared, StopsForAReason, Disables
<1>3. Guarded'
    BY <1>0 DEF Shared, Guarded, Enables
<1>. QED  BY <1>1, <1>2, <1>3 DEF Shared

(* The sequences that a stop begins.                                       *)
LEMMA StopThen ==
    /\ StopStallDetectionTimer \o <<"rearm">> = <<"disable", "remove", "rearm">>
    /\ StopStallDetectionTimer \o StartStallDetectionTimer = <<"disable", "remove", "enable", "check">>
<1>. DEFINE a == <<"disable", "remove">>
            b == <<"enable", "check">>
            c == <<"rearm">>
            d == <<"disable", "remove", "rearm">>
            e == <<"disable", "remove", "enable", "check">>
<1>1. a \in Seq(Steps) /\ b \in Seq(Steps) /\ c \in Seq(Steps)
    BY DEF Steps
<1>2. d \in Seq(Steps) /\ e \in Seq(Steps)
    BY DEF Steps
<1>3. Len(a \o c) = 3 /\ Len(d) = 3 /\ \A i \in 1 .. 3 : (a \o c)[i] = d[i]
    OBVIOUS
<1>4. Len(a \o b) = 4 /\ Len(e) = 4 /\ \A i \in 1 .. 4 : (a \o b)[i] = e[i]
    OBVIOUS
<1>5. a \o c \in Seq(Steps) /\ a \o b \in Seq(Steps)
    BY <1>1
<1>. HIDE DEF a, b, c, d, e
<1>6. a \o c = d
    BY <1>2, <1>3, <1>5, SeqEqual
<1>7. a \o b = e
    BY <1>2, <1>4, <1>5, SeqEqual
<1>. QED  BY <1>6, <1>7 DEF StopStallDetectionTimer, StartStallDetectionTimer, a, b, c, d, e

(* A tick of OnStallDetectionTimer that does not clear the connections.    *)
LEMMA TickGoesOn ==
    ASSUME MonitorInv, Idle("monitor"), timers > 0, timers' = timers - 1,
           todo' = [todo EXCEPT !["monitor"] = <<"rearm">>],
           UNCHANGED <<enabled, exempt, live, callBusy>>
    PROVE  TimerTypeOK' /\ Shared'
<1>0. /\ DOMAIN todo = Threads /\ todo["monitor"] = <<>> /\ enabled' \in BOOLEAN /\ exempt' \in BOOLEAN
      /\ timers \in Nat /\ timers' \in Nat
    BY DEF MonitorInv, TypeOK, Idle
<1>1. "monitor" \in Threads /\ <<"rearm">> \in Plans["monitor"]
    BY DEF Threads, Plans, TickPlans
<1>a. /\ todo'["monitor"] = <<"rearm">> /\ todo'["monitor"] # <<"send">>
      /\ \A u \in Threads \ {"monitor"} : todo'[u] = todo[u]
    BY <1>0, <1>1
<1>2. TimersOK'
    <2>1. /\ SendingThreads' = SendingThreads - Sending("monitor") /\ SendingThreads \in Nat
          /\ Sending("monitor") \in {0, 1}
        BY <1>a, <1>1, SendingAfter
    <2>2. timers + SendingThreads <= 3
        BY DEF MonitorInv, TimersOK
    <2>. QED  BY <1>0, <2>1, <2>2 DEF TimersOK
<1>3. TimerTypeOK' /\ PlansOK'
    BY <1>0, <1>1, <1>2, TimerTypeAfter
<1>4. OneSwitches'
    BY <1>a DEF MonitorInv, OneSwitches, InSwitch
<1>5. RemovesWhenOff'
    BY <1>a DEF MonitorInv, RemovesWhenOff, Removes
<1>6. StopsForAReason'
    BY <1>a DEF MonitorInv, StopsForAReason, Disables, Threads
<1>7. Armed'
    BY <1>1, <1>a DEF Armed
<1>8. Guarded'
    <2>1. \A u \in Threads : Enables(u) => Enables(u)'
        BY <1>0, <1>a DEF Enables, RestartPlans
    <2>. QED  BY <2>1 DEF MonitorInv, Guarded
<1>. QED  BY <1>2, <1>3, <1>4, <1>5, <1>6, <1>7, <1>8 DEF Shared

(* OnStallDetectionTimer: packets are counted up to the trigger, and a     *)
(* recovery that clears all connections leaves none connected before it    *)
(* stops detection.                                                        *)
LEMMA TickKeeps == MonitorInv /\ OnStallDetectionTimer => MonitorInv'
<1>. SUFFICES ASSUME MonitorInv, OnStallDetectionTimer PROVE MonitorInv'
    OBVIOUS
<1>. DEFINE s == StateAfterFlow
            recovers == \/ PacketsAfter > RECOVERY_TRIGGER_PACKET
                        \/ live = 0 /\ s = "RADIO_STATUS_RESTART"
            clears == recovers /\ Clears(s)
<1>0. /\ noRecvPackets' = (IF recovers THEN 0 ELSE PacketsAfter)
      /\ recoveryState' = (IF recovers THEN NextRecoveryState(s) ELSE s)
      /\ todo' = [todo EXCEPT !["monitor"] =
                      (IF clears THEN StopStallDetectionTimer ELSE <<>>) \o <<"rearm">>]
      /\ IF clears
         THEN /\ live' = 0 /\ dying' = live + dying
              /\ radio' = IF s = "RADIO_STATUS_RESTART" THEN "goingOff" ELSE radio
              /\ exempt' = \E u \in Threads \ {"monitor"} : Switching(u)
         ELSE UNCHANGED <<dataVars, exempt>>
      /\ timers' = timers - 1 /\ timers > 0 /\ Idle("monitor")
      /\ UNCHANGED <<enabled, phoneVars, disturbances>>
    BY DEF OnStallDetectionTimer
<1>1. TimerTypeOK /\ WorldTypeOK
    BY Parts
<1>2. s \in RecoveryStates /\ NextRecoveryState(s) \in RecoveryStates
    BY <1>1 DEF WorldTypeOK, StateAfterFlow, NextRecoveryState, RecoveryStates
<1>3. PacketsAfter \in Nat
    BY <1>1, MonitorAssumption DEF WorldTypeOK, PacketsAfter, Flows
<1>4. noRecvPackets' \in 0 .. RECOVERY_TRIGGER_PACKET
    BY <1>0, <1>3, MonitorAssumption
<1>. HIDE DEF s, recovers
<1>5. WorldTypeOK'
    <2>1. recoveryState' \in RecoveryStates
        BY <1>0, <1>2
    <2>2. /\ live' \in 0 .. MaxCalls /\ dying' \in 0 .. MaxCalls /\ live' + dying' <= MaxCalls
          /\ radio' \in {"on", "goingOff", "goingOn"}
        <3>1. CASE clears
            BY <1>0, <1>1, <3>1, MonitorAssumption DEF WorldTypeOK
        <3>2. CASE ~clears
            BY <1>0, <1>1, <3>2 DEF WorldTypeOK, dataVars
        <3>. QED  BY <3>1, <3>2
    <2>. QED  BY <1>0, <1>1, <1>4, <2>1, <2>2 DEF WorldTypeOK, phoneVars
<1>6. CASE clears
    <2>1. StopStallDetectionTimer \o <<"rearm">> = <<"disable", "remove", "rearm">>
        BY StopThen
    <2>2. <<"disable", "remove", "rearm">> \in SwitchPlans \cap Plans["monitor"] /\ "monitor" \in Threads
        BY DEF SwitchPlans, Plans, TickPlans, Threads
    <2>3. timers' \in Nat /\ timers' <= timers
        BY <1>0, <1>1 DEF TimerTypeOK
    <2>4. TimerTypeOK' /\ Shared'
        BY <1>0, <1>6, <2>1, <2>2, <2>3, SwitchKeeps
    <2>. QED  BY <1>5, <2>4, Parts DEF MonitorInv, TypeOK, TimerTypeOK, WorldTypeOK, Shared
<1>7. CASE ~clears
    <2>1. <<>> \o <<"rearm">> = <<"rearm">>
        OBVIOUS
    <2>2. TimerTypeOK' /\ Shared'
        BY <1>0, <1>7, <2>1, TickGoesOn DEF dataVars, phoneVars
    <2>. QED  BY <1>5, <2>2 DEF MonitorInv, TypeOK, TimerTypeOK, WorldTypeOK, Shared
<1>. QED  BY <1>6, <1>7

(* Both halves of the invariant make the whole.                            *)
LEMMA PartsAfter == TimerTypeOK' /\ WorldTypeOK' /\ Shared' => MonitorInv'
BY DEF MonitorInv, TypeOK, TimerTypeOK, WorldTypeOK, Shared

(* The whole starts and stops are places of their threads.                 *)
LEMMA SwitchPlansFit ==
    /\ StartStallDetectionTimer \in SwitchPlans /\ StopStallDetectionTimer \in SwitchPlans
    /\ StopStallDetectionTimer \o StartStallDetectionTimer \in SwitchPlans
    /\ \A t \in {"handler", "observer"} :
           t \in Threads /\ StartStallDetectionTimer \in Plans[t] /\ StopStallDetectionTimer \in Plans[t]
    /\ StopStallDetectionTimer \o StartStallDetectionTimer \in Plans["observer"]
<1>1. /\ <<"enable", "check">> \in SwitchPlans /\ <<"disable", "remove">> \in SwitchPlans
      /\ <<"disable", "remove", "enable", "check">> \in SwitchPlans
    BY DEF SwitchPlans
<1>2. /\ <<"enable", "check">> \in Plans["handler"] /\ <<"disable", "remove">> \in Plans["handler"]
      /\ <<"enable", "check">> \in Plans["observer"] /\ <<"disable", "remove">> \in Plans["observer"]
      /\ <<"disable", "remove", "enable", "check">> \in Plans["observer"]
    BY DEF Plans, StartPlans, StopPlans, RestartPlans
<1>. QED  BY <1>1, <1>2, StopThen DEF StartStallDetectionTimer, StopStallDetectionTimer, Threads

(* StartStallDetectionTimer on the handler's or an observer's thread.      *)
LEMMA StartKeeps ==
    ASSUME NEW t \in {"handler", "observer"}, MonitorInv, Idle(t), Switch(t, StartStallDetectionTimer)
    PROVE  TimerTypeOK' /\ Shared'
<1>1. timers' \in Nat /\ timers' <= timers /\ enabled' = enabled
    BY DEF Switch, MonitorInv, TypeOK
<1>2. <<"enable", "check">> \notin {<<"disable", "remove">>, <<"disable", "remove", "rearm">>}
    OBVIOUS
<1>. QED  BY <1>1, <1>2, SwitchPlansFit, SwitchKeeps DEF Switch, StartStallDetectionTimer

(* StopStallDetectionTimer on the handler's thread, with no call connected.*)
LEMMA StopKeeps ==
    ASSUME MonitorInv, Idle("handler"), Switch("handler", StopStallDetectionTimer), live' = 0
    PROVE  TimerTypeOK' /\ Shared'
<1>1. timers' \in Nat /\ timers' <= timers /\ enabled' = enabled
    BY DEF Switch, MonitorInv, TypeOK
<1>. QED  BY <1>1, SwitchPlansFit, SwitchKeeps DEF Switch

(* DataConnCompleteUpdateState                                             *)
LEMMA EstablishedKeeps == MonitorInv /\ Established => MonitorInv'
<1>. SUFFICES ASSUME MonitorInv, Established PROVE MonitorInv'
    OBVIOUS
<1>1. TimerTypeOK' /\ Shared'
    BY StartKeeps DEF Established
<1>2. WorldTypeOK'
    BY Parts, MonitorAssumption DEF Established, WorldTypeOK, monitorVars, phoneVars
<1>. QED  BY <1>1, <1>2, PartsAfter

(* DisconnectDataComplete stops detection with the last call only.         *)
LEMMA DisconnectKeeps ==
    ASSUME MonitorInv, DisconnectDataComplete, live' \in Nat, live' <= live, dying' \in Nat,
           disturbances' \in 0 .. MaxDisturbances
    PROVE  MonitorInv'
<1>1. /\ live' + dying' = live + dying - 1 /\ UNCHANGED <<monitorVars, radio, phoneVars>>
      /\ IF live' + dying' = 0 THEN Switch("handler", StopStallDetectionTimer) ELSE UNCHANGED timerVars
      /\ Idle("handler")
    BY DEF DisconnectDataComplete
<1>2. WorldTypeOK
    BY Parts
<1>3. WorldTypeOK'
    <2>1. \A m, n, k \in Nat : m + n <= k => m \in 0 .. k /\ n \in 0 .. k
        OBVIOUS
    <2>2. live' + dying' <= MaxCalls
        <3>1. \A m, n, k, j \in Int : m + n <= k /\ j = m + n - 1 => j <= k
            OBVIOUS
        <3>2. live \in Int /\ dying \in Int /\ live + dying <= MaxCalls /\ live' + dying' \in Int
            BY <1>2 DEF WorldTypeOK
        <3>3. live' + dying' = live + dying - 1
            BY <1>1
        <3>4. MaxCalls \in Int
            BY MonitorAssumption
        <3>. QED  BY ONLY <3>1, <3>2, <3>3, <3>4
    <2>3. live' \in 0 .. MaxCalls /\ dying' \in 0 .. MaxCalls
        BY <2>1, <2>2, MonitorAssumption
    <2>. QED  BY <1>1, <1>2, <2>2, <2>3 DEF WorldTypeOK, monitorVars, phoneVars
<1>4. CASE live' + dying' = 0
    <2>1. \A m, n \in Nat : m + n = 0 => m = 0
        OBVIOUS
    <2>2. live' = 0
        BY <1>4, <2>1
    <2>. QED  BY <1>1, <1>3, <1>4, <2>2, StopKeeps, PartsAfter
<1>5. CASE live' + dying' # 0
    BY <1>1, <1>3, <1>5, CallsGoDown, PartsAfter DEF phoneVars
<1>. QED  BY <1>4, <1>5

LEMMA DownKeeps == MonitorInv /\ Down => MonitorInv'
<1>. SUFFICES ASSUME MonitorInv, Down PROVE MonitorInv'
    OBVIOUS
<1>1. WorldTypeOK
    BY Parts
<1>2. live' \in Nat /\ live' <= live /\ dying' \in Nat /\ disturbances' \in 0 .. MaxDisturbances
    BY <1>1, MonitorAssumption DEF Down, WorldTypeOK
<1>. QED  BY <1>2, DisconnectKeeps DEF Down

LEMMA LostKeeps == MonitorInv /\ Lost => MonitorInv'
<1>. SUFFICES ASSUME MonitorInv, Lost PROVE MonitorInv'
    OBVIOUS
<1>1. WorldTypeOK
    BY Parts
<1>2. live' \in Nat /\ live' <= live /\ dying' \in Nat /\ disturbances' \in 0 .. MaxDisturbances
    BY <1>1, MonitorAssumption DEF Lost, Disturb, WorldTypeOK
<1>. QED  BY <1>2, DisconnectKeeps DEF Lost

(* ClearAllConnections leaves no call connected before it stops detection. *)
LEMMA ClearKeeps == MonitorInv /\ ClearAllConnections => MonitorInv'
<1>. SUFFICES ASSUME MonitorInv, ClearAllConnections PROVE MonitorInv'
    OBVIOUS
<1>1. TimerTypeOK' /\ Shared'
    BY StopKeeps DEF ClearAllConnections
<1>2. WorldTypeOK'
    BY Parts, MonitorAssumption
       DEF ClearAllConnections, Disturb, WorldTypeOK, monitorVars, phoneVars
<1>. QED  BY <1>1, <1>2, PartsAfter

LEMMA ClearIfRequiredKeeps == MonitorInv /\ ClearConnectionIfRequired => MonitorInv'
<1>. SUFFICES ASSUME MonitorInv, ClearConnectionIfRequired PROVE MonitorInv'
    OBVIOUS
<1>1. WorldTypeOK
    BY Parts
<1>2. PICK changed \in 0 .. live : live' = live - changed /\ dying' = dying + changed
    BY DEF ClearConnectionIfRequired
<1>3. /\ live' \in Nat /\ live' <= live
      /\ live' \in 0 .. MaxCalls /\ dying' \in 0 .. MaxCalls /\ live' + dying' <= MaxCalls
    BY <1>1, <1>2, MonitorAssumption DEF WorldTypeOK
<1>4. WorldTypeOK'
    BY <1>1, <1>3, MonitorAssumption
       DEF ClearConnectionIfRequired, Disturb, WorldTypeOK, monitorVars, phoneVars
<1>5. CASE live + dying = 0
    <2>1. live' = 0
        BY <1>1, <1>3, <1>5 DEF WorldTypeOK
    <2>. QED  BY <1>4, <1>5, <2>1, StopKeeps, PartsAfter DEF ClearConnectionIfRequired
<1>6. CASE live + dying # 0
    BY <1>3, <1>4, <1>6, CallsGoDown, PartsAfter DEF ClearConnectionIfRequired, phoneVars
<1>. QED  BY <1>5, <1>6

(* HandleCallChanged with HandleVoiceCallChanged: a voice call is the      *)
(* reason of a stop, and its end starts detection again, or finds it on.   *)
LEMMA CallKeeps == MonitorInv /\ HandleCallChanged => MonitorInv'
<1>. SUFFICES ASSUME MonitorInv, HandleCallChanged PROVE MonitorInv'
    OBVIOUS
<1>1. TimerTypeOK /\ WorldTypeOK /\ Shared
    BY Parts
<1>2. WorldTypeOK'
    BY <1>1, MonitorAssumption DEF HandleCallChanged, Disturb, WorldTypeOK, monitorVars, dataVars
<1>3. CASE (gsm /\ live + dying > 0) /\ callBusy'
    <2>1. Idle("observer") /\ Switch("observer", StopStallDetectionTimer)
        BY <1>3 DEF HandleCallChanged
    <2>2. timers' \in Nat /\ timers' <= timers /\ enabled' = enabled
        BY <1>1, <2>1 DEF Switch, TimerTypeOK
    <2>3. TimerTypeOK' /\ Shared'
        BY <1>3, <2>1, <2>2, SwitchPlansFit, SwitchKeeps DEF Switch
    <2>. QED  BY <1>2, <2>3, PartsAfter
<1>4. CASE (gsm /\ live + dying > 0) /\ ~callBusy'
    <2>1. Idle("observer") /\ Switch("observer", StartStallDetectionTimer)
        BY <1>4 DEF HandleCallChanged
    <2>. QED  BY <1>2, <2>1, StartKeeps, PartsAfter
<1>5. CASE ~(gsm /\ live + dying > 0)
    <2>1. /\ exempt' = (exempt \/ (callBusy /\ ~callBusy' /\ ~enabled))
          /\ UNCHANGED <<enabled, timers, todo, live>> /\ Idle("observer")
        BY <1>5 DEF HandleCallChanged, dataVars
    <2>2. TimerTypeOK' /\ PlansOK' /\ TimersOK' /\ OneSwitches' /\ RemovesWhenOff' /\ Armed'
        BY <1>1, <2>1 DEF Shared, TimerTypeOK, PlansOK, TimersOK, SendingThreads, Sending,
                          OneSwitches, InSwitch, RemovesWhenOff, Removes, Armed
    <2>3. StopsForAReason'
        <3>1. ~Disables("observer")' /\ "observer" \in Threads
            BY <2>1 DEF Disables, Idle, Threads
        <3>. QED  BY <1>1, <2>1, <3>1 DEF Shared, StopsForAReason, Disables
    <2>4. Guarded'
        BY <1>1, <2>1 DEF Shared, TimerTypeOK, Guarded, Enables
    <2>. QED  BY <1>2, <2>2, <2>3, <2>4, PartsAfter DEF Shared
<1>. QED  BY <1>3, <1>4, <1>5

(* HandleScreenStateChanged stops and starts detection.                    *)
LEMMA ScreenKeeps == MonitorInv /\ HandleScreenStateChanged => MonitorInv'
<1>. SUFFICES ASSUME MonitorInv, HandleScreenStateChanged PROVE MonitorInv'
    OBVIOUS
<1>1. timers' \in Nat /\ timers' <= timers /\ enabled' = enabled
    BY DEF HandleScreenStateChanged, Switch, MonitorInv, TypeOK
<1>2. StopStallDetectionTimer \o StartStallDetectionTimer
          \notin {<<"disable", "remove">>, <<"disable", "remove", "rearm">>}
    BY StopThen
<1>3. TimerTypeOK' /\ Shared'
    BY <1>1, <1>2, SwitchPlansFit, SwitchKeeps DEF HandleScreenStateChanged, Switch
<1>4. WorldTypeOK'
    BY Parts, MonitorAssumption
       DEF HandleScreenStateChanged, Disturb, WorldTypeOK, monitorVars, dataVars, phoneVars
<1>. QED  BY <1>3, <1>4, PartsAfter

(* The radio, the radio technology and traffic leave the timer alone.      *)
LEMMA WorldKeeps == MonitorInv /\ (RadioOff \/ RadioOn \/ PsRatChanges \/ FlowChanges) => MonitorInv'
<1>. SUFFICES ASSUME MonitorInv, RadioOff \/ RadioOn \/ PsRatChanges \/ FlowChanges PROVE MonitorInv'
    OBVIOUS
<1>1. WorldTypeOK
    BY Parts
<1>2. UNCHANGED <<timerVars, callBusy, live>>
    BY DEF RadioOff, RadioOn, PsRatChanges, FlowChanges, dataVars, phoneVars
<1>3. WorldTypeOK'
    <2>. USE DEF WorldTypeOK, monitorVars, dataVars, phoneVars
    <2>1. CASE RadioOff
        BY <1>1, <2>1 DEF RadioOff
    <2>2. CASE RadioOn
        BY <1>1, <2>2 DEF RadioOn
    <2>3. CASE PsRatChanges
        BY <1>1, <2>3, MonitorAssumption DEF PsRatChanges, Disturb
    <2>4. CASE FlowChanges
        BY <1>1, <2>4, MonitorAssumption DEF FlowChanges, Disturb
    <2>. QED  BY <2>1, <2>2, <2>3, <2>4
<1>4. live' \in Nat /\ live' <= live
    BY <1>1, <1>2 DEF WorldTypeOK
<1>. QED  BY <1>2, <1>3, <1>4, CallsGoDown, PartsAfter

(* Nothing is connected and nobody switches at first.                      *)
LEMMA MonitorInitially == Init => MonitorInv
<1>. SUFFICES ASSUME Init PROVE MonitorInv
    OBVIOUS
<1>1. \A t \in Threads : todo[t] = <<>>
    BY DEF Init
<1>2. PlansOK
    BY <1>1, PlanAfter DEF PlansOK
<1>3. TimersOK
    BY <1>1 DEF Init, TimersOK, SendingThreads, Sending, Threads
<1>4. OneSwitches /\ RemovesWhenOff /\ Armed /\ Guarded
    BY <1>1 DEF Init, OneSwitches, InSwitch, RemovesWhenOff, Armed, Guarded
<1>5. StopsForAReason
    BY <1>1 DEF Init, StopsForAReason, Disables, Threads
<1>6. TypeOK
    <2>1. todo \in [Threads -> Seq(Steps)]
        BY DEF Init
    <2>2. live \in 0 .. MaxCalls /\ dying \in 0 .. MaxCalls /\ live + dying <= MaxCalls
        BY MonitorAssumption DEF Init
    <2>3. /\ noRecvPackets \in 0 .. RECOVERY_TRIGGER_PACKET /\ disturbances \in 0 .. MaxDisturbances
          /\ timers \in 0 .. 3
        BY MonitorAssumption DEF Init
    <2>4. /\ recoveryState \in RecoveryStates /\ radio \in {"on", "goingOff", "goingOn"} /\ flow \in Flows
        BY DEF Init, RecoveryStates, Flows
    <2>5. enabled \in BOOLEAN /\ exempt \in BOOLEAN /\ callBusy \in BOOLEAN /\ gsm \in BOOLEAN
        BY DEF Init
    <2>. QED  BY <2>1, <2>2, <2>3, <2>4, <2>5 DEF TypeOK
<1>. QED  BY <1>2, <1>3, <1>4, <1>5, <1>6 DEF MonitorInv

(* The invariant is inductive.                                             *)
LEMMA MonitorStep == MonitorInv /\ [Next]_vars => MonitorInv'
<1>. SUFFICES ASSUME MonitorInv, [Next]_vars PROVE MonitorInv'
    OBVIOUS
<1>1. CASE \E t \in Threads : Step(t)
    BY <1>1, StepKeeps
<1>2. CASE OnStallDetectionTimer
    BY <1>2, TickKeeps
<1>3. CASE Established
    BY <1>3, EstablishedKeeps
<1>4. CASE Down \/ Lost
    BY <1>4, DownKeeps, LostKeeps
<1>5. CASE ClearAllConnections \/ ClearConnectionIfRequired
    BY <1>5, ClearKeeps, ClearIfRequiredKeeps
<1>6. CASE HandleCallChanged \/ HandleScreenStateChanged
    BY <1>6, CallKeeps, ScreenKeeps
<1>7. CASE RadioOff \/ RadioOn \/ PsRatChanges \/ FlowChanges
    BY <1>7, WorldKeeps
<1>8. CASE UNCHANGED vars
    <2>1. WorldTypeOK
        BY Parts
    <2>2. /\ UNCHANGED <<timerVars, callBusy, live>> /\ WorldTypeOK'
          /\ live' \in Nat /\ live' <= live
        BY <1>8, <2>1 DEF vars, WorldTypeOK, monitorVars, dataVars, phoneVars
    <2>. QED  BY <2>2, CallsGoDown, PartsAfter
<1>. QED  BY <1>1, <1>2, <1>3, <1>4, <1>5, <1>6, <1>7, <1>8 DEF Next

(* The monitor stays in its type for any number of calls, packets and      *)
(* disturbances; in particular at most three timer events are ever queued, *)
(* although StartStallDetectionTimer and OnStallDetectionTimer test and    *)
(* send without a lock.                                                    *)
THEOREM MonitorTypeCorrect == Spec => []TypeOK
<1>1. MonitorInv => TypeOK
    BY DEF MonitorInv
<1>. QED  BY <1>1, MonitorInitially, MonitorStep, PTL DEF Spec

(* Detection that is on has its event in the queue once the threads are    *)
(* quiet: StartStallDetectionTimer, StopStallDetectionTimer and the end of *)
(* OnStallDetectionTimer never leave the flag without the event, unless a  *)
(* start and a stop overlapped.                                            *)
THEOREM DetectionAlwaysArmed == Spec => []DetectionIsArmed
<1>1. MonitorInv => DetectionIsArmed
    BY DEF MonitorInv, Armed, DetectionIsArmed, Quiet, Idle
<1>. QED  BY <1>1, MonitorInitially, MonitorStep, PTL DEF Spec

(* A connected call is monitored while there is no voice call, whatever    *)
(* recovery, voice calls and the screen did before (HandleRecovery,        *)
(* HandleCallChanged, HandleScreenStateChanged), with the same exception.  *)
THEOREM ConnectedAlwaysMonitored == Spec => []ConnectedIsMonitored
<1>1. MonitorInv => ConnectedIsMonitored
    <2>. SUFFICES ASSUME MonitorInv, Quiet PROVE live > 0 /\ ~callBusy => enabled \/ exempt
        BY DEF ConnectedIsMonitored
    <2>1. \A t \in Threads : ~Enables(t)
        BY DEF Enables, RestartPlans, Quiet, Idle
    <2>. QED  BY <2>1 DEF MonitorInv, Guarded
<1>. QED  BY <1>1, MonitorInitially, MonitorStep, PTL DEF Spec

=============================================================================

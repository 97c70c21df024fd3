-------------------------- MODULE DataSwitchProofs ---------------------------
(***************************************************************************)
(* Two things about the switches, for any number of changes and of failed  *)
(* accesses.                                                               *)
(*                                                                         *)
(* The copies of the data and roaming switches follow the database.        *)
(* CacheFollowsDb speaks of the moments when no setter runs; in between    *)
(* each setter breaks it on purpose, one before its write and the other    *)
(* after it, and other writers and the handler's own reads come in the     *)
(* middle.  FollowInv says what the setter still owes at each of its       *)
(* stages, and that a write it did not make is still on its way to the     *)
(* handler.                                                                *)
(*                                                                         *)
(* The default call follows the switches and the phone.  WantedIsUp and    *)
(* ForbiddenIsDown speak of the moments when nothing is on its way to the  *)
(* handler; SwitchInv says what is on its way otherwise, and that each     *)
(* event does, when it is taken, what it was on its way for.               *)
(***************************************************************************)
EXTENDS DataSwitch, TLAPS

Rows == {"user", "roam", "airplane"}
Switches == [user : BOOLEAN, roam : BOOLEAN, airplane : BOOLEAN]

\* A setter is not running, before its write, or (roaming only) between the
\* write and the copy.
SetterStages ==
    \/ setter = NoSetter
    \/ setter \in [key : {"user"}, value : BOOLEAN, old : BOOLEAN, stage : {"write"}]
    \/ setter \in [key : {"roam"}, value : BOOLEAN, old : BOOLEAN, stage : {"write", "store"}]

TableTypeOK ==
    /\ db \in Switches /\ cache \in Switches /\ SetterStages
    /\ notices \subseteq Rows /\ observed \subseteq Rows
    /\ queue \in Seq(Events)

\* No access failed, no event was handled in the middle of a setter and every
\* row is observed.
Trusted == slips \cap {"fault", "overtaken"} = {} /\ observed = Rows

\* A change of the data switch is being told.
UserPending == "user" \in notices \/ \E i \in 1 .. Len(queue) : queue[i] = "ENABLE_CHANGED"

\* userDataOn_: the value of a setter is copied before its write; what it puts
\* back if the write fails is the row, or the row's change is being told.
UserFollows ==
    IF setter.key = "user"
    THEN cache.user = setter.value /\ (setter.old = db.user \/ UserPending)
    ELSE cache.user = db.user \/ UserPending

\* userDataRoaming_: copied after the write; nobody else writes the row of this SIM
\* but the handler, which writes both.  Another card has another row, and none that is
\* observed until its account is loaded.
RoamFollows ==
    IF setter.key = "roam" /\ setter.stage = "store"
    THEN db.roam = setter.value
    ELSE cache.roam = db.roam

FollowInv == TableTypeOK /\ (Trusted => UserFollows /\ RoamFollows)

\* The event queue holds a change of the data switch.
EnablePending(q) == \E i \in 1 .. Len(q) : q[i] = "ENABLE_CHANGED"

(* What the handler takes and what is sent to it.                          *)
LEMMA QueueAfterTake ==
    ASSUME NEW q \in Seq(Events), q # <<>>
    PROVE  /\ Tail(q) \in Seq(Events) /\ Head(q) \in Events
           /\ Head(q) # "ENABLE_CHANGED" => (EnablePending(q) => EnablePending(Tail(q)))
<1>1. Tail(q) \in Seq(Events) /\ Head(q) \in Events /\ Head(q) = q[1]
    OBVIOUS
<1>2. ASSUME Head(q) # "ENABLE_CHANGED", EnablePending(q) PROVE EnablePending(Tail(q))
    <2>1. PICK i \in 1 .. Len(q) : q[i] = "ENABLE_CHANGED"
        BY <1>2 DEF EnablePending
    <2>2. i # 1
        BY <1>1, <1>2, <2>1
    <2>3. i - 1 \in 1 .. Len(Tail(q)) /\ Tail(q)[i - 1] = q[i]
        BY <2>2
    <2>. QED  BY <2>1, <2>3 DEF EnablePending
<1>. QED  BY <1>1, <1>2

LEMMA QueueAfterSend ==
    ASSUME NEW q \in Seq(Events), NEW r \in Seq(Events)
    PROVE  q \o r \in Seq(Events) /\ (EnablePending(q) => EnablePending(q \o r))
<1>1. q \o r \in Seq(Events) /\ Len(q \o r) = Len(q) + Len(r) /\ \A i \in 1 .. Len(q) : (q \o r)[i] = q[i]
    OBVIOUS
<1>2. Len(q) \in Nat /\ Len(r) \in Nat
    OBVIOUS
<1>. QED  BY <1>1, <1>2 DEF EnablePending

LEMMA QueueAfterAppend ==
    ASSUME NEW q \in Seq(Events), NEW e \in Events
    PROVE  /\ Append(q, e) \in Seq(Events) /\ (EnablePending(q) => EnablePending(Append(q, e)))
           /\ e = "ENABLE_CHANGED" => EnablePending(Append(q, e))
<1>1. /\ Append(q, e) \in Seq(Events) /\ Len(Append(q, e)) = Len(q) + 1
      /\ \A i \in 1 .. Len(q) : Append(q, e)[i] = q[i]
      /\ Append(q, e)[Len(q) + 1] = e
    OBVIOUS
<1>2. Len(q) \in Nat
    OBVIOUS
<1>. QED  BY <1>1, <1>2 DEF EnablePending

(* The calls, the phone, power saving and what else does not touch the     *)
(* switches; events may be sent.                                           *)
LEMMA OthersFollow ==
    ASSUME FollowInv, UNCHANGED <<dbVars, cache>>, slips \subseteq slips', queue' \in Seq(Events),
           EnablePending(queue) => EnablePending(queue')
    PROVE  FollowInv'
<1>1. TableTypeOK'
    BY DEF FollowInv, TableTypeOK, SetterStages, dbVars
<1>2. ASSUME Trusted' PROVE Trusted
    BY <1>2 DEF Trusted, dbVars
<1>3. ASSUME Trusted' PROVE UserFollows' /\ RoamFollows'
    BY <1>2, <1>3 DEF FollowInv, UserFollows, RoamFollows, UserPending, EnablePending, dbVars
<1>. QED  BY <1>1, <1>3 DEF FollowInv

(* An event of the handler reads each switch from the database or leaves   *)
(* its copy alone; a running setter or a failed read is remembered.        *)
LEMMA TakeFollows ==
    ASSUME NEW ok \in BOOLEAN, FollowInv, queue # <<>>, UNCHANGED <<db, setter>>,
           slips \cup Late \cup (IF ok THEN {} ELSE {"fault"}) \subseteq slips',
           cache' \in Switches, notices' = notices, observed' \subseteq Rows,
           queue' \in Seq(Events), EnablePending(Tail(queue)) => EnablePending(queue'),
           ok => \/ cache' = LoadSwitchValue(cache, TRUE)
                 \/ observed' = observed /\ cache'.roam \in {cache.roam, db.roam}
                    /\ \/ cache'.user = db.user
                       \/ cache'.user = cache.user /\ Head(queue) # "ENABLE_CHANGED"
    PROVE  FollowInv'
<1>1. TableTypeOK'
    BY DEF FollowInv, TableTypeOK, SetterStages
<1>2. SUFFICES ASSUME Trusted' PROVE UserFollows' /\ RoamFollows'
    BY <1>1 DEF FollowInv
<1>3. setter = NoSetter /\ ok /\ slips \cap {"fault", "overtaken"} = {}
    BY <1>2 DEF Trusted, Late
<1>4. setter'.key = "none"
    BY <1>3 DEF NoSetter
<1>5. CASE cache' = LoadSwitchValue(cache, TRUE)
    <2>1. cache'.user = db.user /\ cache'.roam = db.roam
        BY <1>5 DEF LoadSwitchValue, QueryUserDataRoamingStatus, QueryUserDataStatus,
                    FollowInv, TableTypeOK, Switches
    <2>. QED  BY <1>4, <2>1 DEF UserFollows, RoamFollows
<1>6. CASE /\ observed' = observed /\ cache'.roam \in {cache.roam, db.roam}
           /\ \/ cache'.user = db.user
              \/ cache'.user = cache.user /\ Head(queue) # "ENABLE_CHANGED"
    <2>1. UserFollows /\ RoamFollows
        BY <1>2, <1>3, <1>6 DEF FollowInv, Trusted
    <2>2. RoamFollows'
        BY <1>3, <1>4, <1>6, <2>1 DEF RoamFollows, NoSetter
    <2>9. cache'.user = db'.user \/ UserPending' => UserFollows'
        BY <1>4 DEF UserFollows
    <2>3. CASE cache'.user = db.user
        BY <2>2, <2>3, <2>9
    <2>4. CASE cache'.user = cache.user /\ Head(queue) # "ENABLE_CHANGED"
        <3>1. cache.user = db.user \/ UserPending
            BY <1>3, <2>1 DEF UserFollows, NoSetter
        <3>2. UserPending => UserPending'
            BY <2>4, QueueAfterTake DEF FollowInv, TableTypeOK, UserPending, EnablePending
        <3>. QED  BY <2>2, <2>4, <2>9, <3>1, <3>2
    <2>. QED  BY <1>6, <2>2, <2>3, <2>4
<1>. QED  BY <1>3, <1>5, <1>6

(* What an access to the database reads.                                   *)
LEMMA Reads ==
    ASSUME NEW ok \in BOOLEAN, TableTypeOK
    PROVE  /\ QueryUserDataStatus(cache, ok) \in Switches
           /\ QueryUserDataRoamingStatus(cache, ok) \in Switches
           /\ LoadSwitchValue(cache, ok) \in Switches
           /\ ok => /\ QueryUserDataStatus(cache, ok).user = db.user
                    /\ QueryUserDataStatus(cache, ok).roam = cache.roam
                    /\ QueryUserDataRoamingStatus(cache, ok).roam = db.roam
                    /\ QueryUserDataRoamingStatus(cache, ok).user = cache.user
                    /\ LoadSwitchValue(cache, ok) = LoadSwitchValue(cache, TRUE)
<1>. USE DEF QueryUserDataStatus, QueryUserDataRoamingStatus, LoadSwitchValue, TableTypeOK, Switches
<1>1. CASE ok
    BY <1>1
<1>2. CASE ~ok
    BY <1>2
<1>. QED  BY <1>1, <1>2

(* SetCellularDataEnable up to its write.                                  *)
LEMMA SetEnableFollows ==
    ASSUME NEW v \in BOOLEAN, NEW ok \in BOOLEAN, FollowInv, SetCellularDataEnable(v, ok)
    PROVE  FollowInv'
<1>. DEFINE c == QueryUserDataStatus(cache, ok)
<1>1. c \in Switches /\ (ok => c.user = db.user /\ c.roam = cache.roam)
    BY Reads DEF FollowInv
<1>2. /\ setter = NoSetter /\ UNCHANGED <<db, notices, observed, queue>>
      /\ slips' = slips \cup (IF ok THEN {} ELSE {"fault"})
    BY DEF SetCellularDataEnable, Slip
<1>3. \/ /\ ok /\ cache' = [c EXCEPT !.user = v]
         /\ setter' = [key |-> "user", value |-> v, old |-> c.user, stage |-> "write"]
      \/ cache' = c /\ UNCHANGED setter
    BY DEF SetCellularDataEnable
<1>. HIDE DEF c
<1>4. TableTypeOK'
    BY <1>1, <1>2, <1>3 DEF FollowInv, TableTypeOK, SetterStages, Switches
<1>5. ASSUME Trusted' PROVE UserFollows' /\ RoamFollows'
    <2>1. ok /\ Trusted
        BY <1>2, <1>5 DEF Trusted
    <2>2. RoamFollows /\ setter.key = "none"
        BY <1>2, <2>1 DEF FollowInv, NoSetter
    <2>3. cache'.roam = cache.roam
        BY <1>1, <1>3, <2>1 DEF Switches
    <2>4. CASE /\ ok /\ cache' = [c EXCEPT !.user = v]
               /\ setter' = [key |-> "user", value |-> v, old |-> c.user, stage |-> "write"]
        <3>1. /\ setter'.key = "user" /\ setter'.value = v /\ setter'.old = c.user
              /\ cache'.user = v
            BY <1>1, <2>4 DEF Switches
        <3>. QED  BY <1>1, <1>2, <2>1, <2>2, <2>3, <3>1 DEF UserFollows, RoamFollows
    <2>5. CASE cache' = c /\ UNCHANGED setter
        BY <1>1, <1>2, <2>1, <2>2, <2>3, <2>5 DEF UserFollows, RoamFollows
    <2>. QED  BY <1>3, <2>4, <2>5
<1>. QED  BY <1>4, <1>5 DEF FollowInv

(* SetCellularDataRoamingEnabled up to its write.                          *)
LEMMA SetRoamingFollows ==
    ASSUME NEW v \in BOOLEAN, NEW ok \in BOOLEAN, FollowInv, SetCellularDataRoamingEnabled(v, ok)
    PROVE  FollowInv'
<1>. DEFINE c == QueryUserDataRoamingStatus(cache, ok)
<1>1. c \in Switches /\ (ok => c.roam = db.roam /\ c.user = cache.user)
    BY Reads DEF FollowInv
<1>2. /\ setter = NoSetter /\ UNCHANGED <<db, notices, observed, queue>>
      /\ slips' = slips \cup (IF ok THEN {} ELSE {"fault"})
      /\ cache' = c
    BY DEF SetCellularDataRoamingEnabled, Slip
<1>3. \/ setter' = [key |-> "roam", value |-> v, old |-> FALSE, stage |-> "write"]
      \/ UNCHANGED setter
    BY DEF SetCellularDataRoamingEnabled
<1>. HIDE DEF c
<1>4. TableTypeOK'
    <2>1. SetterStages'
        <3>1. CASE UNCHANGED setter
            BY <1>2, <3>1 DEF SetterStages
        <3>2. CASE setter' = [key |-> "roam", value |-> v, old |-> FALSE, stage |-> "write"]
            BY <3>2 DEF SetterStages
        <3>. QED  BY <1>3, <3>1, <3>2
    <2>. QED  BY <1>1, <1>2, <2>1 DEF FollowInv, TableTypeOK
<1>5. ASSUME Trusted' PROVE UserFollows' /\ RoamFollows'
    <2>1. ok /\ Trusted
        BY <1>2, <1>5 DEF Trusted
    <2>2. UserFollows /\ setter.key = "none"
        BY <1>2, <2>1 DEF FollowInv, NoSetter
    <2>3. setter'.key # "user" /\ ~(setter'.key = "roam" /\ setter'.stage = "store")
        BY <1>2, <1>3 DEF NoSetter
    <2>4. UserPending => UserPending'
        BY <1>2 DEF UserPending
    <2>. QED  BY <1>1, <1>2, <2>1, <2>2, <2>3, <2>4 DEF UserFollows, RoamFollows
<1>. QED  BY <1>4, <1>5 DEF FollowInv

(* The write of SetUserDataOn: the copy was set before it, and is put back *)
(* when it fails.                                                          *)
LEMMA WriteUserFollows ==
    ASSUME NEW ok \in BOOLEAN, FollowInv, SetUserDataOn(ok), UNCHANGED <<observed, queue, slips>>
    PROVE  FollowInv'
<1>1. setter.key = "user" /\ setter.value \in BOOLEAN /\ setter.old \in BOOLEAN
    BY DEF SetUserDataOn, FollowInv, TableTypeOK, SetterStages, NoSetter
<1>2. setter' = NoSetter /\ setter'.key = "none"
    BY DEF SetUserDataOn, NoSetter
<1>3. CASE ok
    <2>1. db' = [db EXCEPT !.user = setter.value] /\ Notify("user") /\ UNCHANGED cache
        BY <1>3 DEF SetUserDataOn
    <2>2. TableTypeOK'
        BY <1>1, <1>2, <2>1 DEF Notify, FollowInv, TableTypeOK, SetterStages, Switches, Rows
    <2>3. db'.user = setter.value /\ db'.roam = db.roam
        BY <2>1 DEF FollowInv, TableTypeOK, Switches
    <2>4. Trusted' => Trusted
        BY DEF Trusted
    <2>. QED  BY <1>1, <1>2, <2>1, <2>2, <2>3, <2>4 DEF FollowInv, UserFollows, RoamFollows
<1>4. CASE ~ok
    <2>1. cache' = [cache EXCEPT !.user = setter.old] /\ UNCHANGED <<db, notices>>
        BY <1>4 DEF SetUserDataOn
    <2>2. TableTypeOK'
        BY <1>1, <1>2, <2>1 DEF FollowInv, TableTypeOK, SetterStages, Switches
    <2>3. cache'.user = setter.old /\ cache'.roam = cache.roam
        BY <2>1 DEF FollowInv, TableTypeOK, Switches
    <2>4. Trusted' => Trusted
        BY DEF Trusted
    <2>5. UserPending => UserPending'
        BY <2>1 DEF UserPending
    <2>. QED  BY <1>1, <1>2, <2>1, <2>2, <2>3, <2>4, <2>5 DEF FollowInv, UserFollows, RoamFollows
<1>. QED  BY <1>3, <1>4

(* SetUserDataRoamingOn: the write, and then the copy.                     *)
LEMMA WriteRoamFollows ==
    ASSUME NEW ok \in BOOLEAN, FollowInv, SetUserDataRoamingOn(ok), UNCHANGED <<observed, queue, slips>>
    PROVE  FollowInv'
<1>1. setter.key = "roam" /\ setter \in [key : {"roam"}, value : BOOLEAN, old : BOOLEAN, stage : {"write", "store"}]
    BY DEF SetUserDataRoamingOn, FollowInv, TableTypeOK, SetterStages, NoSetter
<1>2. Trusted' => Trusted
    BY DEF Trusted
<1>3. CASE /\ setter.stage = "write" /\ db' = [db EXCEPT !.roam = setter.value] /\ Notify("roam")
           /\ setter' = [setter EXCEPT !.stage = "store"] /\ UNCHANGED cache
    <2>1. setter' \in [key : {"roam"}, value : BOOLEAN, old : BOOLEAN, stage : {"write", "store"}]
        BY <1>1, <1>3
    <2>2. TableTypeOK'
        BY <1>1, <1>3, <2>1 DEF Notify, FollowInv, TableTypeOK, SetterStages, Switches, Rows
    <2>3. /\ db'.user = db.user /\ db'.roam = setter.value
          /\ setter'.key = "roam" /\ setter'.stage = "store" /\ setter'.value = setter.value
        BY <1>1, <1>3 DEF FollowInv, TableTypeOK, Switches
    <2>4. UserPending => UserPending'
        BY <1>3 DEF UserPending, Notify
    <2>. QED  BY <1>1, <1>2, <1>3, <2>2, <2>3, <2>4 DEF FollowInv, UserFollows, RoamFollows
<1>4. CASE setter.stage = "write" /\ setter' = NoSetter /\ UNCHANGED <<db, notices, cache>>
    <2>1. TableTypeOK'
        BY <1>4 DEF FollowInv, TableTypeOK, SetterStages
    <2>2. setter'.key = "none"
        BY <1>4 DEF NoSetter
    <2>3. UserPending => UserPending'
        BY <1>4 DEF UserPending
    <2>. QED  BY <1>1, <1>2, <1>4, <2>1, <2>2, <2>3 DEF FollowInv, UserFollows, RoamFollows
<1>5. CASE /\ setter.stage = "store" /\ cache' = [cache EXCEPT !.roam = setter.value]
           /\ setter' = NoSetter /\ UNCHANGED <<db, notices>>
    <2>1. TableTypeOK'
        BY <1>1, <1>5 DEF FollowInv, TableTypeOK, SetterStages, Switches
    <2>2. setter'.key = "none" /\ cache'.roam = setter.value /\ cache'.user = cache.user
        BY <1>5 DEF NoSetter, FollowInv, TableTypeOK, Switches
    <2>3. UserPending => UserPending'
        BY <1>5 DEF UserPending
    <2>. QED  BY <1>1, <1>2, <1>5, <2>1, <2>2, <2>3 DEF FollowInv, UserFollows, RoamFollows
<1>. QED  BY <1>3, <1>4, <1>5 DEF SetUserDataRoamingOn

(* Another slot or the settings application writes the row: it is told.    *)
LEMMA OtherWritesFollow ==
    ASSUME NEW v \in BOOLEAN, FollowInv, OtherWrites(v)
    PROVE  FollowInv'
<1>1. /\ db' = [db EXCEPT !.user = v] /\ Notify("user")
      /\ UNCHANGED <<setter, observed, cache, queue, slips>>
    BY DEF OtherWrites
<1>2. TableTypeOK'
    BY <1>1 DEF Notify, FollowInv, TableTypeOK, SetterStages, Switches, Rows
<1>3. Trusted' => Trusted
    BY <1>1 DEF Trusted
<1>4. Trusted' => UserPending'
    BY <1>1 DEF Trusted, Notify, UserPending, Rows
<1>5. db'.roam = db.roam
    BY <1>1 DEF FollowInv, TableTypeOK, Switches
<1>. QED  BY <1>1, <1>2, <1>3, <1>4, <1>5 DEF FollowInv, UserFollows, RoamFollows

(* Airplane mode has its own row.                                          *)
LEMMA AirplaneFollows == FollowInv /\ AirplaneChanges => FollowInv'
<1>. SUFFICES ASSUME FollowInv, AirplaneChanges PROVE FollowInv'
    OBVIOUS
<1>1. /\ db' = [db EXCEPT !.airplane = ~@] /\ Notify("airplane")
      /\ UNCHANGED <<setter, observed, cache, slips>>
      /\ queue' = queue \o (IF db.airplane THEN <<"RADIO_ON">> ELSE <<"RADIO_OFF">>)
    BY DEF AirplaneChanges, PhoneChanges
<1>2. queue' \in Seq(Events) /\ (EnablePending(queue) => EnablePending(queue'))
    <2>1. <<"RADIO_ON">> \in Seq(Events) /\ <<"RADIO_OFF">> \in Seq(Events)
        BY DEF Events
    <2>. QED  BY <1>1, <2>1, QueueAfterSend DEF FollowInv, TableTypeOK
<1>3. TableTypeOK'
    BY <1>1, <1>2 DEF Notify, FollowInv, TableTypeOK, SetterStages, Switches, Rows
<1>4. Trusted' => Trusted
    BY <1>1 DEF Trusted
<1>5. db'.roam = db.roam /\ db'.user = db.user
    BY <1>1 DEF FollowInv, TableTypeOK, Switches
<1>6. UserPending => UserPending'
    BY <1>1, <1>2 DEF UserPending, EnablePending, Notify
<1>. QED  BY <1>1, <1>3, <1>4, <1>5, <1>6 DEF FollowInv, UserFollows, RoamFollows

(* OnChange hands the change of a row on to the handler, or fails.         *)
LEMMA OnChangeFollows ==
    ASSUME NEW row \in Rows, NEW ok \in BOOLEAN, FollowInv, OnChange(row, ok)
    PROVE  FollowInv'
<1>. DEFINE e == IF row = "user" THEN "ENABLE_CHANGED" ELSE "ROAMING_CHANGED"
<1>1. /\ row \in notices /\ notices' = notices \ {row}
      /\ slips' = slips \cup (IF ok THEN {} ELSE {"fault"})
      /\ cache' = (IF ok /\ row = "airplane" THEN [cache EXCEPT !.airplane = db.airplane] ELSE cache)
      /\ queue' = (IF ~ok \/ row = "airplane" THEN queue ELSE Append(queue, e))
      /\ UNCHANGED <<db, setter, observed>>
    BY DEF OnChange, Slip
<1>2. e \in Events
    BY DEF Events
<1>3. /\ queue' \in Seq(Events) /\ (EnablePending(queue) => EnablePending(queue'))
      /\ ok /\ row = "user" => EnablePending(queue')
    BY <1>1, <1>2, QueueAfterAppend DEF FollowInv, TableTypeOK
<1>4. cache' \in Switches /\ cache'.user = cache.user /\ cache'.roam = cache.roam
    BY <1>1 DEF FollowInv, TableTypeOK, Switches
<1>5. TableTypeOK'
    BY <1>1, <1>3, <1>4 DEF FollowInv, TableTypeOK, SetterStages
<1>6. Trusted' => Trusted /\ ok
    BY <1>1 DEF Trusted
<1>7. ok /\ UserPending => UserPending'
    BY <1>1, <1>3 DEF UserPending, EnablePending
<1>. QED  BY <1>1, <1>4, <1>5, <1>6, <1>7 DEF FollowInv, UserFollows, RoamFollows

(* The events that the handler takes from its queue.                       *)
LEMMA EventsFollow ==
    ASSUME NEW ok \in BOOLEAN, FollowInv,
           \/ HandleDBSettingEnableChanged(ok) \/ RoamingStateOn(ok) \/ RoamingStateOff(ok)
           \/ HandleSimAccountLoaded(ok)
           \/ HandleDefaultDataSubscriptionChanged(ok)
           \/ \E iccId, other \in BOOLEAN : \/ HandleRecordsChanged(ok, iccId, other)
                                            \/ HandleSimStateChanged(ok, other, iccId)
    PROVE  FollowInv'
<1>0. TableTypeOK /\ queue \in Seq(Events)
    BY DEF FollowInv, TableTypeOK
<1>1. CASE HandleDBSettingEnableChanged(ok)
    <2>1. cache' = QueryUserDataStatus(cache, ok) /\ Take("ENABLE_CHANGED", ok) /\ Rest
        BY <1>1 DEF HandleDBSettingEnableChanged
    <2>. QED  BY <1>0, <2>1, Reads, QueueAfterTake, TakeFollows DEF Take, Slip, Rest, TableTypeOK
<1>2. CASE RoamingStateOn(ok)
    <2>1. /\ cache' = QueryUserDataRoamingStatus(cache, ok) \/ cache' = cache
          /\ Take("ROAMING_ON", ok) /\ Rest
        BY <1>2 DEF RoamingStateOn
    <2>. QED  BY <1>0, <2>1, Reads, QueueAfterTake, TakeFollows DEF Take, Slip, Rest, TableTypeOK
<1>3. CASE RoamingStateOff(ok)
    <2>1. cache' = QueryUserDataRoamingStatus(cache, ok) /\ Take("ROAMING_OFF", ok) /\ Rest
        BY <1>3 DEF RoamingStateOff
    <2>. QED  BY <1>0, <2>1, Reads, QueueAfterTake, TakeFollows DEF Take, Slip, Rest, TableTypeOK
<1>4. ASSUME NEW iccId \in BOOLEAN, NEW sameApn \in BOOLEAN, HandleRecordsChanged(ok, iccId, sameApn)
      PROVE  FollowInv'
    <2>1. /\ cache' = LoadSwitchValue(cache, ok) /\ queue # <<>> /\ queue' = Tail(queue)
          /\ Slip(ok, Late) /\ UNCHANGED <<db, setter, notices, observed>>
        BY <1>4 DEF HandleRecordsChanged, dbVars
    <2>. QED  BY <1>0, <2>1, Reads, QueueAfterTake, TakeFollows DEF Slip, TableTypeOK
<1>5. CASE HandleSimAccountLoaded(ok)
    <2>1. /\ cache' = LoadSwitchValue(cache, ok) /\ Take("ACCOUNT_LOADED", ok) /\ queue' = Tail(queue)
          /\ UNCHANGED notices /\ observed' \subseteq Rows
        BY <1>5 DEF HandleSimAccountLoaded, HandleSimEvent, RegisterDataSettingObserver, Rows
    <2>. QED  BY <1>0, <2>1, Reads, QueueAfterTake, TakeFollows DEF Take, Slip, TableTypeOK
<1>6. CASE HandleDefaultDataSubscriptionChanged(ok)
    <2>1. /\ cache' = LoadSwitchValue(cache, ok) /\ Take("DEFAULT_SLOT", ok)
          /\ queue' = (IF phone.default THEN Append(Tail(queue), "ESTABLISH_ALL") ELSE Tail(queue))
          /\ UNCHANGED <<notices, observed>>
        BY <1>6 DEF HandleDefaultDataSubscriptionChanged
    <2>2. queue # <<>> /\ Tail(queue) \in Seq(Events) /\ "ESTABLISH_ALL" \in Events
        BY <1>0, <2>1, QueueAfterTake DEF Take, Events
    <2>3. queue' \in Seq(Events) /\ (EnablePending(Tail(queue)) => EnablePending(queue'))
        BY <2>1, <2>2, QueueAfterAppend
    <2>. QED  BY <1>0, <2>1, <2>2, <2>3, Reads, TakeFollows DEF Take, Slip, TableTypeOK
<1>7. ASSUME NEW simId \in BOOLEAN, NEW iccId \in BOOLEAN, HandleSimStateChanged(ok, simId, iccId)
      PROVE  FollowInv'
    <2>1. /\ cache' = LoadSwitchValue(cache, ok) /\ Take("SIM_STATE", ok) /\ queue' = Tail(queue)
          /\ UNCHANGED notices
        BY <1>7 DEF HandleSimStateChanged, HandleSimEvent
    <2>2. observed' \subseteq Rows
        BY <1>0, <1>7 DEF HandleSimStateChanged, UnRegisterDataSettingObserver, TableTypeOK
    <2>. QED  BY <1>0, <2>1, <2>2, Reads, QueueAfterTake, TakeFollows DEF Take, Slip, TableTypeOK
<1>. QED  BY <1>1, <1>2, <1>3, <1>4, <1>5, <1>6, <1>7

(* HandleFactoryReset writes rows and copies together.                     *)
LEMMA ResetFollows ==
    ASSUME NEW ok \in BOOLEAN, FollowInv, HandleFactoryReset(ok)
    PROVE  FollowInv'
<1>1. /\ queue # <<>> /\ Head(queue) = "FACTORY_RESET" /\ queue' = Tail(queue)
      /\ slips' = slips \cup Late \cup (IF ok THEN {} ELSE {"fault"})
      /\ IF ok THEN /\ db' = [db EXCEPT !.user = TRUE, !.roam = FALSE]
                    /\ cache' = [cache EXCEPT !.user = TRUE, !.roam = FALSE]
         ELSE UNCHANGED <<db, cache>>
      /\ UNCHANGED <<setter, observed>>
    BY DEF HandleFactoryReset, Slip
<1>2. notices' \subseteq Rows
    BY DEF HandleFactoryReset, FollowInv, TableTypeOK
<1>3. db' \in Switches /\ cache' \in Switches
    BY <1>1 DEF FollowInv, TableTypeOK, Switches
<1>4. TableTypeOK'
    BY <1>1, <1>2, <1>3, QueueAfterTake DEF FollowInv, TableTypeOK, SetterStages
<1>5. ASSUME Trusted' PROVE UserFollows' /\ RoamFollows'
    <2>1. ok /\ setter' = NoSetter
        BY <1>1, <1>5 DEF Trusted, Late
    <2>2. cache'.user = db'.user /\ cache'.roam = db'.roam
        BY <1>1, <2>1 DEF FollowInv, TableTypeOK, Switches
    <2>3. setter'.key = "none"
        BY <2>1 DEF NoSetter
    <2>. QED  BY <2>2, <2>3 DEF UserFollows, RoamFollows
<1>. QED  BY <1>4, <1>5 DEF FollowInv

(* The events that read no switch from the database.                       *)
LEMMA PlainEventsFollow ==
    ASSUME FollowInv,
           \/ HandleDBSettingRoamingChanged \/ HandleEstablishAllApnsIfConnectable
           \/ RadioPsConnectionAttached \/ PsRadioEmergencyStateOpen \/ PsRadioEmergencyStateClose
           \/ HandleRadioStateChanged \/ HandleResidentNetworkChanged
    PROVE  FollowInv'
<1>1. PICK e \in Events \ {"ENABLE_CHANGED"} : Take(e, TRUE)
    BY DEF HandleDBSettingRoamingChanged, HandleEstablishAllApnsIfConnectable,
           RadioPsConnectionAttached, PsRadioEmergencyStateOpen, PsRadioEmergencyStateClose,
           HandleRadioStateChanged, HandleResidentNetworkChanged, Events
<1>2. Rest /\ UNCHANGED cache
    BY DEF HandleDBSettingRoamingChanged, HandleEstablishAllApnsIfConnectable,
           RadioPsConnectionAttached, PsRadioEmergencyStateOpen, PsRadioEmergencyStateClose,
           HandleRadioStateChanged, HandleResidentNetworkChanged
<1>. QED  BY <1>1, <1>2, QueueAfterTake, TakeFollows DEF Take, Slip, Rest, FollowInv, TableTypeOK

(* The calls and the delayed events touch neither switches nor queue.      *)
LEMMA CallsFollow ==
    ASSUME FollowInv,
           \/ \E a \in Holders : HandleCall(a)
           \/ HandleMccChangeDelay \/ HandleReplyCommonEvent
    PROVE  FollowInv'
<1>1. UNCHANGED <<dbVars, cache, queue>> /\ slips \subseteq slips'
    BY DEF HandleCall, MsgEstablishDataConnection, RetryToSetupDatacall, EstablishDataConnectionComplete,
           DisconnectDataComplete, HandleMccChangeDelay, HandleReplyCommonEvent, Slip
<1>. QED  BY <1>1, OthersFollow DEF FollowInv, TableTypeOK

(* Calls from other threads that send at most an event of their own.       *)
LEMMA ThreadsFollow ==
    ASSUME FollowInv,
           \/ \E v \in BOOLEAN : SetPolicyDataOn(v) \/ ChangeConnectionForDsds(v)
           \/ \E hasIp \in BOOLEAN : EnterPowerSave(hasIp)
           \/ OnHandleExitStrEvent \/ HandleVoiceCallChanged
           \/ \E a \in Holders, on \in BOOLEAN : RequestNetwork(a, on)
    PROVE  FollowInv'
<1>1. /\ UNCHANGED <<dbVars, cache>> /\ slips \subseteq slips'
      /\ queue' = queue \/ queue' = Append(queue, "ESTABLISH_ALL")
    BY DEF SetPolicyDataOn, ChangeConnectionForDsds, EnterPowerSave, OnHandleExitStrEvent,
           HandleVoiceCallChanged, RequestNetwork, Slip
<1>2. "ESTABLISH_ALL" \in Events /\ queue \in Seq(Events)
    BY DEF Events, FollowInv, TableTypeOK
<1>. QED  BY <1>1, <1>2, QueueAfterAppend, OthersFollow

(* The core service changes its answers and sends events.                  *)
LEMMA PhoneFollows ==
    ASSUME FollowInv,
           \/ Attach \/ Detach \/ Roams \/ DefaultSlotChanges \/ CrossesBorder \/ FactoryReset \/ SimLoads
           \/ \E s \in {"LOCKED", "ABSENT"} : SimChanges(s)
           \/ SimReady
           \/ \E e \in {"EMERGENCY_ON", "EMERGENCY_OFF"} : Emergency(e)
    PROVE  FollowInv'
<1>. DEFINE Sent == {<<>>, <<"PS_ATTACHED">>, <<"ROAMING_OFF">>, <<"ROAMING_ON">>, <<"DEFAULT_SLOT">>,
                     <<"SIM_STATE">>, <<"RESIDENT">>, <<"FACTORY_RESET">>, <<"EMERGENCY_ON">>,
                     <<"EMERGENCY_OFF">>, <<"RECORDS_LOADED", "ACCOUNT_LOADED">>}
<1>1. UNCHANGED <<dbVars, cache, slips>> /\ \E r \in Sent : queue' = queue \o r
    <2>. USE DEF PhoneChanges
    <2>1. CASE Attach \/ Detach
        BY <2>1 DEF Attach, Detach
    <2>2. CASE Roams
        BY <2>2 DEF Roams
    <2>3. CASE DefaultSlotChanges \/ CrossesBorder
        BY <2>3 DEF DefaultSlotChanges, CrossesBorder
    <2>4. CASE FactoryReset \/ SimLoads
        BY <2>4 DEF FactoryReset, SimLoads
    <2>5. CASE \E s \in {"LOCKED", "ABSENT"} : SimChanges(s)
        BY <2>5 DEF SimChanges
    <2>6. CASE SimReady
        BY <2>6 DEF SimReady
    <2>7. CASE \E e \in {"EMERGENCY_ON", "EMERGENCY_OFF"} : Emergency(e)
        BY <2>7 DEF Emergency
    <2>. QED  BY <2>1, <2>2, <2>3, <2>4, <2>5, <2>6, <2>7
<1>2. \A r \in Sent : r \in Seq(Events)
    <2>1. {<<>>, <<"PS_ATTACHED">>, <<"ROAMING_OFF">>, <<"ROAMING_ON">>, <<"DEFAULT_SLOT">>, <<"SIM_STATE">>}
              \subseteq Seq(Events)
        BY DEF Events
    <2>2. {<<"RESIDENT">>, <<"FACTORY_RESET">>, <<"EMERGENCY_ON">>, <<"EMERGENCY_OFF">>} \subseteq Seq(Events)
        BY DEF Events
    <2>3. <<"RECORDS_LOADED", "ACCOUNT_LOADED">> \in Seq(Events)
        BY DEF Events
    <2>. QED  BY <2>1, <2>2, <2>3, Zenon
<1>. HIDE DEF Sent
<1>3. queue \in Seq(Events)
    BY DEF FollowInv, TableTypeOK
<1>. QED  BY <1>1, <1>2, <1>3, QueueAfterSend, OthersFollow

(* Another card: its roaming row is not observed yet.                      *)
LEMMA NewCardFollows ==
    ASSUME FollowInv, NEW v \in BOOLEAN, NewCard(v)
    PROVE  FollowInv'
<1>1. /\ db' = [db EXCEPT !.roam = v] /\ observed' = observed \ {"roam"}
      /\ queue' = Append(queue, "SIM_STATE") /\ UNCHANGED <<setter, notices, cache>>
    BY DEF NewCard
<1>2. queue' \in Seq(Events)
    <2>1. "SIM_STATE" \in Events
        BY DEF Events
    <2>. QED  BY <1>1, <2>1, QueueAfterAppend DEF FollowInv, TableTypeOK
<1>3. TableTypeOK'
    BY <1>1, <1>2 DEF FollowInv, TableTypeOK, SetterStages, Switches, Rows
<1>4. ~Trusted'
    BY <1>1 DEF Trusted, Rows
<1>. QED  BY <1>3, <1>4 DEF FollowInv

(* The invariant is inductive.                                             *)
LEMMA FollowStep == FollowInv /\ [Next]_vars => FollowInv'
<1>. SUFFICES ASSUME FollowInv, [Next]_vars PROVE FollowInv'
    OBVIOUS
<1>0. Access \subseteq BOOLEAN
    BY DEF Access
<1>1. CASE Environment
    <2>1. CASE AirplaneChanges
        BY <2>1, AirplaneFollows
    <2>2. CASE \E v \in BOOLEAN : OtherWrites(v)
        BY <2>2, OtherWritesFollow
    <2>3. CASE \E v \in BOOLEAN, ok \in Access : SetCellularDataEnable(v, ok) \/ SetCellularDataRoamingEnabled(v, ok)
        BY <1>0, <2>3, SetEnableFollows, SetRoamingFollows
    <2>4. CASE \E roam \in BOOLEAN : NewCard(roam)
        BY <2>4, NewCardFollows
    <2>. QED  BY <1>1, <2>1, <2>2, <2>3, <2>4, PhoneFollows, ThreadsFollow DEF Environment
<1>2. CASE Setter
    <2>1. PICK ok \in Access : SetterContinues(ok)
        BY <1>2 DEF Setter
    <2>. QED  BY <1>0, <2>1, WriteUserFollows, WriteRoamFollows DEF SetterContinues
<1>3. CASE Observer
    <2>1. \E row \in Rows, ok \in Access : OnChange(row, ok)
        BY <1>3 DEF Observer, Rows
    <2>. QED  BY <1>0, <2>1, OnChangeFollows
<1>4. CASE HandleEvent
    BY <1>0, <1>4, EventsFollow, ResetFollows, PlainEventsFollow DEF HandleEvent
<1>5. CASE SimLoads
    BY <1>5, PhoneFollows
<1>6. CASE (\E a \in Holders : HandleCall(a)) \/ HandleMccChangeDelay \/ HandleReplyCommonEvent
    BY <1>6, CallsFollow
<1>7. CASE UNCHANGED vars
    BY <1>7, OthersFollow DEF vars, FollowInv, TableTypeOK
<1>. QED  BY <1>1, <1>2, <1>3, <1>4, <1>5, <1>6, <1>7 DEF Next

LEMMA FollowInitially == Init => FollowInv
<1>. SUFFICES ASSUME Init PROVE FollowInv
    OBVIOUS
<1>1. TableTypeOK
    <2>1. db \in Switches /\ cache \in Switches
        BY DEF Init, Switches
    <2>2. queue = <<>> /\ setter = NoSetter /\ notices = {} /\ observed = Rows
        BY DEF Init, Rows
    <2>3. queue \in Seq(Events)
        BY <2>2
    <2>. QED  BY <2>1, <2>2, <2>3 DEF TableTypeOK, SetterStages
<1>2. UserFollows /\ RoamFollows
    BY DEF Init, UserFollows, RoamFollows, NoSetter
<1>. QED  BY <1>1, <1>2 DEF FollowInv

(* Once no setter runs and no change is being told, userDataOn_ and        *)
(* userDataRoaming_ are the rows of the settings database: SetUserDataOn   *)
(* and SetUserDataRoamingOn on callers' threads, writers of other slots,   *)
(* the observers and the handler's own reads come to that in every order,  *)
(* after failed writes too.                                                *)
THEOREM CacheAlwaysFollowsDb == Spec => []CacheFollowsDb
<1>1. FollowInv => CacheFollowsDb
    <2>. SUFFICES ASSUME FollowInv, setter = NoSetter, notices = {}, "ENABLE_CHANGED" \notin Range(queue),
                         slips \cap {"fault", "overtaken"} = {}, observed = {"user", "roam", "airplane"}
                  PROVE  cache.user = db.user /\ cache.roam = db.roam
        BY DEF CacheFollowsDb
    <2>1. UserFollows /\ RoamFollows
        BY DEF FollowInv, Trusted, Rows
    <2>2. ~UserPending
        BY DEF UserPending, Range, FollowInv, TableTypeOK
    <2>. QED  BY <2>1, <2>2 DEF UserFollows, RoamFollows, NoSetter
<1>. QED  BY <1>1, FollowInitially, FollowStep, PTL DEF Spec

-----------------------------------------------------------------------------
(* The calls.  What the loops over the holders make of them.               *)

CallStates == {"IDLE", "CONNECTING", "CONNECTED", "DISCONNECTING", "RETRYING"}

HolderSets == [Holders -> [state : CallStates, wanted : BOOLEAN,
                           reason : {"NONE", "CLEAR", "RETRY", "CHANGE"}]]

\* A call that goes down has a reason.
Sane(s) ==
    /\ s \in [h : HolderSets, est : SUBSET Holders]
    /\ \A a \in Holders : s.h[a].state = "DISCONNECTING" => s.h[a].reason # "NONE"

\* What clearing the holders makes of s ...
Cleared(s, t) ==
    /\ Sane(t) /\ t.est = s.est
    /\ \A a \in Holders : t.h[a].wanted = s.h[a].wanted
    /\ t.h["default"].state = IF s.h["default"].state \in {"CONNECTING", "CONNECTED"}
                              THEN "DISCONNECTING" ELSE s.h["default"].state

\* ... and what trying them all does, `fits' telling whether the default one passes the checks.
Tried(s, t, fits) ==
    /\ Sane(t) /\ s.est \subseteq t.est
    /\ \A a \in Holders : t.h[a].wanted = s.h[a].wanted
    /\ t.h["default"].state = IF s.h["default"].state = "IDLE" /\ s.h["default"].wanted /\ fits
                              THEN "CONNECTING" ELSE s.h["default"].state

LEMMA KnownHolders ==
    /\ Holders \subseteq {"default", "mms"} /\ "default" \in Holders
    /\ DOMAIN SortApnHolder = 1 .. Len(SortApnHolder)
    /\ \A i \in 1 .. Len(SortApnHolder) : SortApnHolder[i] \in Holders
    /\ \/ Len(SortApnHolder) = 1 /\ SortApnHolder[1] = "default"
       \/ Len(SortApnHolder) = 2 /\ SortApnHolder[1] = "default" /\ SortApnHolder[2] = "mms"
       \/ Len(SortApnHolder) = 2 /\ SortApnHolder[1] = "mms" /\ SortApnHolder[2] = "default"
<1> USE DEF Holders, Range
<1>1. CASE SortApnHolder = <<"default">> BY <1>1
<1>2. CASE SortApnHolder = <<"default", "mms">> BY <1>2
<1>3. CASE SortApnHolder = <<"mms", "default">> BY <1>3
<1> QED BY <1>1, <1>2, <1>3, SwitchAssumption

LEMMA ClearConnectionEffect ==
    ASSUME NEW s, Sane(s), NEW a \in Holders, NEW reason \in {"CLEAR", "RETRY", "CHANGE"}
    PROVE  LET t == ClearConnection(s, a, reason)
           IN  /\ Sane(t) /\ t.est = s.est
               /\ \A b \in Holders : t.h[b].wanted = s.h[b].wanted
               /\ \A b \in Holders \ {a} : t.h[b] = s.h[b]
               /\ t.h[a].state = IF s.h[a].state \in {"CONNECTING", "CONNECTED"}
                                 THEN "DISCONNECTING" ELSE s.h[a].state
<1> DEFINE t == ClearConnection(s, a, reason)
           x == [s.h[a] EXCEPT !.state = "DISCONNECTING", !.reason = reason]
<1>0. s \in [h : HolderSets, est : SUBSET Holders] /\ s.h \in HolderSets BY DEF Sane
<1>1. CASE s.h[a].state \in {"IDLE", "DISCONNECTING", "RETRYING"}
    BY <1>0, <1>1 DEF ClearConnection
<1>2. CASE s.h[a].state \notin {"IDLE", "DISCONNECTING", "RETRYING"}
    <2>0. s.h[a].state \in {"CONNECTING", "CONNECTED"} BY <1>0, <1>2 DEF HolderSets, CallStates
    <2>1. t = [s EXCEPT !.h = [s.h EXCEPT ![a] = x]]
        BY <1>0, <1>2 DEF ClearConnection, HolderSets
    <2>2. /\ x \in [state : CallStates, wanted : BOOLEAN, reason : {"NONE", "CLEAR", "RETRY", "CHANGE"}]
          /\ x.state = "DISCONNECTING" /\ x.reason = reason /\ x.wanted = s.h[a].wanted
        BY <1>0 DEF HolderSets, CallStates
    <2> HIDE DEF x
    <2>3. t.h = [s.h EXCEPT ![a] = x] /\ t.est = s.est /\ t \in [h : HolderSets, est : SUBSET Holders]
        BY <1>0, <2>1, <2>2 DEF HolderSets
    <2> HIDE DEF t
    <2>4. t.h[a] = x /\ \A b \in Holders \ {a} : t.h[b] = s.h[b] BY <1>0, <2>3 DEF HolderSets
    <2>5. Sane(t) BY <2>2, <2>3, <2>4 DEF Sane
    <2> QED BY <2>0, <2>2, <2>3, <2>4, <2>5 DEF t
<1> QED BY <1>1, <1>2

LEMMA ClearAllEffect ==
    ASSUME NEW s, Sane(s), NEW reason \in {"CLEAR", "RETRY", "CHANGE"}
    PROVE  Cleared(s, ClearAllConnections(s, reason))
<1> DEFINE n == Len(SortApnHolder)
           Body(t, a) == IF a = "mms" THEN t ELSE ClearConnection(t, a, reason)
<1>1. Cleared(s, Body(s, "default"))
    <2> DEFINE d == "default"
               t == ClearConnection(s, d, reason)
    <2>1. d \in Holders BY KnownHolders
    <2> HIDE DEF d
    <2>2. /\ Sane(t) /\ t.est = s.est /\ \A b \in Holders : t.h[b].wanted = s.h[b].wanted
          /\ t.h[d].state = IF s.h[d].state \in {"CONNECTING", "CONNECTED"}
                            THEN "DISCONNECTING" ELSE s.h[d].state
        BY <2>1, ClearConnectionEffect
    <2> HIDE DEF t
    <2>3. Cleared(s, t) BY <2>2 DEF Cleared, d
    <2> QED BY <2>3 DEF t, d
<1>2. \A t : Body(t, "mms") = t OBVIOUS
<1>3. n \in 1 .. 2 BY KnownHolders
<1> HIDE DEF Body, n
<1> DEFINE Def(g) == [i \in 0 .. n |-> IF i = 0 THEN s ELSE Body(g[i - 1], SortApnHolder[i])]
           after == CHOOSE g : g = Def(g)
           f == [i \in 0 .. n |-> IF i = 0 THEN s ELSE IF i = 1 THEN Body(s, SortApnHolder[1])
                                  ELSE Body(Body(s, SortApnHolder[1]), SortApnHolder[2])]
<1>4. f = Def(f) BY <1>3
<1>5. after = Def(after) BY <1>4
<1>6. after[n] = IF n = 1 THEN Body(s, SortApnHolder[1])
                 ELSE Body(Body(s, SortApnHolder[1]), SortApnHolder[2])
    <2> HIDE DEF after
    <2>1. after[0] = s /\ after[1] = Body(after[0], SortApnHolder[1]) BY <1>3, <1>5
    <2>2. n = 2 => after[2] = Body(after[1], SortApnHolder[2]) BY <1>5
    <2> QED BY <1>3, <2>1, <2>2
<1>7. ClearAllConnections(s, reason) = after[n]
    BY DEF ClearAllConnections, ForEachHolder, n, Body
<1> QED BY <1>1, <1>2, <1>6, <1>7, KnownHolders DEF n

LEMMA AttemptEffect ==
    ASSUME NEW s, Sane(s), NEW a \in Holders, NEW w
    PROVE  LET t == AttemptEstablishDataConnection(s, a, w)
           IN  /\ Sane(t) /\ s.est \subseteq t.est
               /\ \A b \in Holders : t.h[b].wanted = s.h[b].wanted
               /\ \A b \in Holders \ {a} : t.h[b] = s.h[b]
               /\ t.h[a].state = IF s.h[a].state = "IDLE" /\ ChecksPass(a, w)
                                 THEN "CONNECTING" ELSE s.h[a].state
<1> DEFINE t == AttemptEstablishDataConnection(s, a, w)
           x == [s.h[a] EXCEPT !.state = "CONNECTING"]
<1>0. s \in [h : HolderSets, est : SUBSET Holders] /\ s.h \in HolderSets BY DEF Sane
<1>1. CASE t = s /\ ~(s.h[a].state = "IDLE" /\ ChecksPass(a, w)) BY <1>1
<1>2. CASE t = [s EXCEPT !.est = {a}] /\ s.est = {} /\ s.h[a].state = "DISCONNECTING"
    BY <1>0, <1>2 DEF Sane
<1>3. CASE t = [s EXCEPT !.h[a].state = "CONNECTING"] /\ s.h[a].state = "IDLE" /\ ChecksPass(a, w)
    <2>1. t = [s EXCEPT !.h = [s.h EXCEPT ![a] = x]] BY <1>0, <1>3 DEF HolderSets
    <2>2. /\ x \in [state : CallStates, wanted : BOOLEAN, reason : {"NONE", "CLEAR", "RETRY", "CHANGE"}]
          /\ x.state = "CONNECTING" /\ x.wanted = s.h[a].wanted
        BY <1>0 DEF HolderSets, CallStates
    <2> HIDE DEF x
    <2>3. t.h = [s.h EXCEPT ![a] = x] /\ t.est = s.est /\ t \in [h : HolderSets, est : SUBSET Holders]
        BY <1>0, <2>1, <2>2 DEF HolderSets
    <2> HIDE DEF t
    <2>4. t.h[a] = x /\ \A b \in Holders \ {a} : t.h[b] = s.h[b] BY <1>0, <2>3 DEF HolderSets
    <2>5. Sane(t) BY <2>2, <2>3, <2>4 DEF Sane
    <2> QED BY <1>3, <2>2, <2>3, <2>4, <2>5 DEF t
<1> QED BY <1>1, <1>2, <1>3 DEF AttemptEstablishDataConnection

LEMMA EstablishAllEffect ==
    ASSUME NEW s, Sane(s), NEW w
    PROVE  Tried(s, EstablishAllApnsIfConnectable(s, w), ChecksPass("default", w))
<1> DEFINE n == Len(SortApnHolder)
           fits == ChecksPass("default", w)
           Body(t, a) == IF t.h[a].wanted THEN AttemptEstablishDataConnection(t, a, w) ELSE t
<1>1. \A t : Sane(t) => Tried(t, Body(t, "default"), fits)
               /\ \A b \in Holders \ {"default"} : Body(t, "default").h[b] = t.h[b]
    BY KnownHolders, AttemptEffect DEF Tried
<1>2. "mms" \in Holders => \A t : Sane(t) =>
         /\ Sane(Body(t, "mms")) /\ t.est \subseteq Body(t, "mms").est
         /\ \A b \in Holders : Body(t, "mms").h[b].wanted = t.h[b].wanted
         /\ Body(t, "mms").h["default"] = t.h["default"]
    BY KnownHolders, AttemptEffect
<1>3. n \in 1 .. 2 BY KnownHolders
<1> HIDE DEF Body, n, fits
<1> DEFINE Def(g) == [i \in 0 .. n |-> IF i = 0 THEN s ELSE Body(g[i - 1], SortApnHolder[i])]
           after == CHOOSE g : g = Def(g)
           f == [i \in 0 .. n |-> IF i = 0 THEN s ELSE IF i = 1 THEN Body(s, SortApnHolder[1])
                                  ELSE Body(Body(s, SortApnHolder[1]), SortApnHolder[2])]
<1>4. f = Def(f) BY <1>3
<1>5. after = Def(after) BY <1>4
<1>6. after[n] = IF n = 1 THEN Body(s, SortApnHolder[1])
                 ELSE Body(Body(s, SortApnHolder[1]), SortApnHolder[2])
    <2> HIDE DEF after
    <2>1. after[0] = s /\ after[1] = Body(after[0], SortApnHolder[1]) BY <1>3, <1>5
    <2>2. n = 2 => after[2] = Body(after[1], SortApnHolder[2]) BY <1>5
    <2> QED BY <1>3, <2>1, <2>2
<1>7. EstablishAllApnsIfConnectable(s, w) = after[n]
    BY DEF EstablishAllApnsIfConnectable, ForEachHolder, n, Body
<1> HIDE DEF after
<1>8. Tried(s, Body(s, "default"), fits) BY <1>1
<1>9. ASSUME "mms" \in Holders PROVE Tried(s, Body(Body(s, "default"), "mms"), fits)
    BY <1>2, <1>8, <1>9 DEF Tried
<1>10. ASSUME "mms" \in Holders PROVE Tried(s, Body(Body(s, "mms"), "default"), fits)
    <2> DEFINE u == Body(s, "mms")
    <2>1. Sane(u) /\ s.est \subseteq u.est /\ u.h["default"] = s.h["default"]
          /\ \A b \in Holders : u.h[b].wanted = s.h[b].wanted
        BY <1>2, <1>10
    <2> HIDE DEF u
    <2>2. Tried(u, Body(u, "default"), fits) BY <1>1, <2>1
    <2>3. Tried(s, Body(u, "default"), fits) BY <2>1, <2>2 DEF Tried
    <2> QED BY <2>3 DEF u
<1>11. Tried(s, after[n], fits) BY <1>6, <1>8, <1>9, <1>10, KnownHolders DEF n
<1> QED BY <1>7, <1>11 DEF fits

-----------------------------------------------------------------------------
(* When no wake-up is lost and no call outlives its permission.  Each event  *)
(* is looked at by itself, so the invariants say what is still on its way:   *)
(* for a default call that is up and no longer allowed, the event that will  *)
(* clear it; for one that is wanted, allowed and down, an event that will    *)
(* try it.                                                                   *)

Main == holder["default"]

Up == Main.state \in {"CONNECTING", "CONNECTED"}

\* The default call passes the checks of AttemptEstablishDataConnection.
Fits == ChecksPass("default", View(cache))

Has(q, e) == \E i \in 1 .. Len(q) : q[i] = e

Phones == [attached : BOOLEAN, roaming : BOOLEAN, sim : {"READY", "LOADED", "LOCKED", "ABSENT"},
           newCard : BOOLEAN, default : BOOLEAN, gsmCall : BOOLEAN]

Typed ==
    /\ Sane(Calls) /\ retryEvents \subseteq Holders /\ phone \in Phones
    /\ timers \subseteq {"mccDelay", "replyCommonEvent"} /\ slips \subseteq Slips

\* A call that is up and not wanted is about to be cleared; without observers there is no
\* call, and some are missing only if a card was replaced unnoticed; in airplane mode the phone is not attached.
Held ==
    /\ Up /\ ~Main.wanted => "default" \in establishEvents
    /\ "user" \notin observed => ~Main.wanted /\ ~Up
    /\ "user" \in observed => observed = Rows \/ "swapped" \in slips
    /\ db.airplane => ~phone.attached

\* The end of roaming comes after its beginning.
Ordered(q, r) ==
    \A i \in 1 .. Len(q) : q[i] = "ROAMING_ON" => r \/ \E j \in i + 1 .. Len(q) : q[j] = "ROAMING_OFF"

\* What allows the default call, or will clear it.
Allowed ==
    /\ policyDataOn /\ internalDataOn
    /\ db.user \/ UserPending
    /\ phone.roaming /\ ~db.roam =>
          Has(queue, "ROAMING_ON") \/ "roam" \in notices \/ Has(queue, "ROAMING_CHANGED")
    /\ db.airplane => Has(queue, "RADIO_OFF")
    /\ saving => ~Main.wanted
    /\ ~phone.default => Has(queue, "DEFAULT_SLOT")
    /\ phone.sim \notin {"READY", "LOADED"} => Has(queue, "SIM_STATE")

DownInv == slips = {} /\ policy # "force_open" /\ Up => Allowed

\* The events after which the default call is tried, whatever the phone does next.
Tries == {"ENABLE_CHANGED", "ESTABLISH_ALL", "PS_ATTACHED", "DEFAULT_SLOT", "ACCOUNT_LOADED"}

Trigger ==
    \/ "default" \in establishEvents
    \/ "user" \in notices
    \/ \E e \in Tries : Has(queue, e)
    \/ /\ phone.roaming
       /\ "roam" \in notices \/ Has(queue, "ROAMING_ON") \/ Has(queue, "ROAMING_CHANGED")
    \/ ~phone.roaming /\ Has(queue, "ROAMING_OFF")

\* The default call is wanted and everything allows it.
Wanted ==
    /\ slips \subseteq {"savingLate", "swapped"} /\ policy # "disallow" /\ Main.wanted
    /\ SwitchesAllow /\ phone.sim = "LOADED" /\ phone.attached /\ ~phone.gsmCall /\ ~abroad
    /\ observed = Rows

UpInv == Wanted /\ Main.state = "IDLE" => Trigger

SwitchInv == Typed /\ Held /\ Ordered(queue, phone.roaming) /\ DownInv /\ UpInv

LEMMA HasTail ==
    ASSUME NEW q \in Seq(Events), q # <<>>, NEW e, Has(q, e), Head(q) # e
    PROVE  Has(Tail(q), e)
<1>1. PICK i \in 1 .. Len(q) : q[i] = e BY DEF Has
<1>2. i # 1 BY <1>1
<1>3. i - 1 \in 1 .. Len(Tail(q)) /\ Tail(q)[i - 1] = q[i] BY <1>2
<1> QED BY <1>1, <1>3 DEF Has

LEMMA HasConcat ==
    ASSUME NEW q \in Seq(Events), NEW u \in Seq(Events), NEW e
    PROVE  (Has(q, e) => Has(q \o u, e)) /\ (Has(u, e) => Has(q \o u, e))
<1>1. /\ Len(q) \in Nat /\ Len(u) \in Nat /\ Len(q \o u) = Len(q) + Len(u)
      /\ \A i \in 1 .. Len(q) : (q \o u)[i] = q[i]
      /\ \A i \in 1 .. Len(u) : (q \o u)[Len(q) + i] = u[i]
    OBVIOUS
<1>2. \A i \in 1 .. Len(q) : i \in 1 .. Len(q \o u) BY <1>1
<1>3. \A i \in 1 .. Len(u) : Len(q) + i \in 1 .. Len(q \o u) BY <1>1
<1> QED BY <1>1, <1>2, <1>3 DEF Has

LEMMA HasAppend ==
    ASSUME NEW q \in Seq(Events), NEW x \in Events, NEW e
    PROVE  (Has(q, e) => Has(Append(q, x), e)) /\ Has(Append(q, x), x)
<1>1. /\ Len(q) \in Nat /\ Len(Append(q, x)) = Len(q) + 1 /\ Append(q, x)[Len(q) + 1] = x
      /\ \A i \in 1 .. Len(q) : Append(q, x)[i] = q[i]
    OBVIOUS
<1> QED BY <1>1 DEF Has

LEMMA OrderTail ==
    ASSUME NEW q \in Seq(Events), q # <<>>, NEW r, Ordered(q, r)
    PROVE  /\ Ordered(Tail(q), r)
           /\ Head(q) = "ROAMING_ON" /\ ~r => Has(Tail(q), "ROAMING_OFF")
<1>1. /\ Len(q) \in Nat /\ Len(q) >= 1 /\ Len(Tail(q)) = Len(q) - 1 /\ Head(q) = q[1]
      /\ \A i \in 1 .. Len(Tail(q)) : Tail(q)[i] = q[i + 1]
    OBVIOUS
<1>2. ASSUME NEW i \in 1 .. Len(q), q[i] = "ROAMING_ON", ~r
      PROVE  \E j \in i .. Len(Tail(q)) : Tail(q)[j] = "ROAMING_OFF"
    <2>1. PICK j \in i + 1 .. Len(q) : q[j] = "ROAMING_OFF" BY <1>2 DEF Ordered
    <2>2. j - 1 \in i .. Len(Tail(q)) /\ Tail(q)[j - 1] = q[j] BY <1>1
    <2> QED BY <2>1, <2>2
<1>3. Ordered(Tail(q), r)
    <2> SUFFICES ASSUME NEW i \in 1 .. Len(Tail(q)), Tail(q)[i] = "ROAMING_ON", ~r
                 PROVE  \E j \in i + 1 .. Len(Tail(q)) : Tail(q)[j] = "ROAMING_OFF"
        BY DEF Ordered
    <2>1. i + 1 \in 1 .. Len(q) /\ q[i + 1] = "ROAMING_ON" BY <1>1
    <2> QED BY <1>2, <2>1
<1>4. ASSUME Head(q) = "ROAMING_ON", ~r PROVE Has(Tail(q), "ROAMING_OFF")
    <2>1. 1 \in 1 .. Len(q) BY <1>1
    <2>2. \E j \in 1 .. Len(Tail(q)) : Tail(q)[j] = "ROAMING_OFF" BY <1>1, <1>2, <1>4, <2>1
    <2> QED BY <2>2 DEF Has
<1> QED BY <1>3, <1>4

LEMMA OrderConcat ==
    ASSUME NEW q \in Seq(Events), NEW u \in Seq(Events), NEW r, Ordered(q, r), ~Has(u, "ROAMING_ON")
    PROVE  Ordered(q \o u, r)
<1>1. /\ Len(q) \in Nat /\ Len(u) \in Nat /\ Len(q \o u) = Len(q) + Len(u)
      /\ \A i \in 1 .. Len(q) : (q \o u)[i] = q[i]
      /\ \A i \in 1 .. Len(u) : (q \o u)[Len(q) + i] = u[i]
    OBVIOUS
<1> SUFFICES ASSUME NEW i \in 1 .. Len(q \o u), (q \o u)[i] = "ROAMING_ON", ~r
             PROVE  \E j \in i + 1 .. Len(q \o u) : (q \o u)[j] = "ROAMING_OFF"
    BY DEF Ordered
<1>2. i <= Len(q)
    <2> SUFFICES ASSUME i > Len(q) PROVE FALSE
        BY <1>1
    <2>1. i - Len(q) \in 1 .. Len(u) /\ Len(q) + (i - Len(q)) = i BY <1>1
    <2>2. u[i - Len(q)] = "ROAMING_ON" BY <1>1, <2>1
    <2> QED BY <2>1, <2>2 DEF Has
<1>3. i \in 1 .. Len(q) /\ q[i] = "ROAMING_ON" BY <1>1, <1>2
<1>4. PICK j \in i + 1 .. Len(q) : q[j] = "ROAMING_OFF" BY <1>3 DEF Ordered
<1>5. j \in i + 1 .. Len(q \o u) /\ (q \o u)[j] = q[j] BY <1>1, <1>3
<1> QED BY <1>4, <1>5

LEMMA OrderAppend ==
    ASSUME NEW q \in Seq(Events), NEW x \in Events, NEW r, Ordered(q, r), x # "ROAMING_ON"
    PROVE  Ordered(Append(q, x), r)
<1>1. /\ Len(q) \in Nat /\ Len(Append(q, x)) = Len(q) + 1 /\ Append(q, x)[Len(q) + 1] = x
      /\ \A i \in 1 .. Len(q) : Append(q, x)[i] = q[i]
    OBVIOUS
<1> SUFFICES ASSUME NEW i \in 1 .. Len(Append(q, x)), Append(q, x)[i] = "ROAMING_ON", ~r
             PROVE  \E j \in i + 1 .. Len(Append(q, x)) : Append(q, x)[j] = "ROAMING_OFF"
    BY DEF Ordered
<1>2. i \in 1 .. Len(q) /\ q[i] = "ROAMING_ON" BY <1>1
<1>3. PICK j \in i + 1 .. Len(q) : q[j] = "ROAMING_OFF" BY <1>2 DEF Ordered
<1>4. j \in i + 1 .. Len(Append(q, x)) /\ Append(q, x)[j] = q[j] BY <1>1, <1>2
<1> QED BY <1>3, <1>4

\* When roaming ends.
LEMMA OrderClosed ==
    ASSUME NEW q \in Seq(Events), NEW r
    PROVE  Ordered(q \o <<"ROAMING_OFF">>, r)
<1> DEFINE u == q \o <<"ROAMING_OFF">>
<1>1. /\ Len(q) \in Nat /\ Len(u) = Len(q) + 1 /\ u[Len(u)] = "ROAMING_OFF"
    BY DEF Events
<1> HIDE DEF u
<1> SUFFICES ASSUME NEW i \in 1 .. Len(u), u[i] = "ROAMING_ON"
             PROVE  \E j \in i + 1 .. Len(u) : u[j] = "ROAMING_OFF"
    BY DEF Ordered, u
<1>2. i # Len(u) BY <1>1
<1>3. Len(u) \in i + 1 .. Len(u) BY <1>1, <1>2
<1> QED BY <1>1, <1>3

\* A call that the handler tries and that passes the checks is allowed: its copies are
\* those of the database, or the change is being told.
LEMMA FitsIsAllowed ==
    ASSUME FollowInv, Held, setter = NoSetter, slips = {}, Main.wanted, Fits
    PROVE  Allowed
<1>1. observed = Rows BY DEF Held
<1>2. Trusted BY <1>1 DEF Trusted
<1>3. (cache.user = db.user \/ UserPending) /\ cache.roam = db.roam
    BY <1>2 DEF FollowInv, UserFollows, RoamFollows, NoSetter
<1>4. /\ ~saving /\ ~cache.airplane /\ phone.default /\ phone.attached
      /\ phone.sim \in {"READY", "LOADED"} /\ (~phone.roaming \/ cache.roam)
      /\ cache.user /\ policyDataOn /\ internalDataOn
    BY DEF Fits, ChecksPass, View, CheckCellularDataSlotId, CheckAttachAndSimState,
           CheckRoamingState, IsAllowActiveData
<1> QED BY <1>3, <1>4 DEF Allowed, Held

\* A call that is wanted and allowed passes the checks, or a change of the data switch is
\* being told.
LEMMA WantedFits ==
    ASSUME FollowInv, Wanted, setter = NoSetter, ~cache.airplane
    PROVE  Fits \/ Trigger
<1>1. Trusted BY DEF Wanted, Trusted
<1>2. (cache.user = db.user \/ UserPending) /\ cache.roam = db.roam
    BY <1>1 DEF FollowInv, UserFollows, RoamFollows, NoSetter
<1>3. UserPending => Trigger BY DEF UserPending, Trigger, Has, Tries
<1>4. ASSUME cache.user = db.user PROVE Fits
    BY <1>2, <1>4 DEF Wanted, SwitchesAllow, Fits, ChecksPass, View, CheckCellularDataSlotId,
                      CheckAttachAndSimState, CheckRoamingState, IsAllowActiveData
<1> QED BY <1>2, <1>3, <1>4

\* A call that has just passed the checks, and one that nothing forbids.
Passed == FollowInv /\ Held /\ setter = NoSetter /\ slips = {} /\ Main.wanted /\ Fits
Expected == FollowInv /\ Wanted /\ setter = NoSetter /\ ~cache.airplane

LEMMA AfterTrying == (Passed' => Allowed') /\ (Expected' => Fits' \/ Trigger')
<1>1. Passed => Allowed BY FitsIsAllowed DEF Passed
<1>2. Expected => Fits \/ Trigger BY WantedFits DEF Expected
<1> QED BY <1>1, <1>2, PTL

\* The handler tries the default call with what its copies say after the step.
LEMMA TryKeeps ==
    ASSUME FollowInv', Held', slips \cup Late \subseteq slips', UNCHANGED <<db, setter>>,
           cache'.airplane = cache.airplane,
           Main'.state = "IDLE" /\ Main'.wanted => ~Fits',
           Up' => (slips' = {} /\ policy' # "force_open" => Allowed') \/ (Main'.wanted /\ Fits')
    PROVE  DownInv' /\ UpInv'
<1>1. slips' \subseteq {"savingLate", "swapped"} => setter' = NoSetter /\ (~db'.airplane => ~cache'.airplane)
    BY DEF Late
<1>2. DownInv'
    <2> SUFFICES ASSUME slips' = {}, policy' # "force_open", Up', Main'.wanted, Fits' PROVE Allowed'
        BY DEF DownInv
    <2>1. Passed' BY <1>1 DEF Passed
    <2> QED BY <2>1, AfterTrying
<1>3. UpInv'
    <2> SUFFICES ASSUME Wanted', Main'.state = "IDLE" PROVE Trigger'
        BY DEF UpInv
    <2>1. slips' \subseteq {"savingLate", "swapped"} /\ ~db'.airplane /\ Main'.wanted
        BY DEF Wanted, SwitchesAllow
    <2>2. Expected' BY <1>1, <2>1 DEF Expected
    <2> QED BY <2>1, <2>2, AfterTrying
<1> QED BY <1>2, <1>3

\* The handler takes an event and leaves a call up: the event was not the one to clear it.
LEMMA TakeKeepsAllowed ==
    ASSUME FollowInv, Allowed, queue # <<>>, UNCHANGED db, notices \subseteq notices',
           \A e : Has(Tail(queue), e) => Has(queue', e),
           phone'.roaming = phone.roaming, phone'.default = phone.default, phone'.sim = phone.sim,
           policyDataOn => policyDataOn', UNCHANGED <<internalDataOn, saving>>,
           Main'.wanted = Main.wanted,
           Head(queue) = "ENABLE_CHANGED" => db.user,
           Head(queue) \in {"ROAMING_ON", "ROAMING_CHANGED"} => ~phone.roaming \/ db.roam,
           Head(queue) # "RADIO_OFF",
           Head(queue) = "DEFAULT_SLOT" => phone.default,
           Head(queue) = "SIM_STATE" => phone.sim \in {"READY", "LOADED"}
    PROVE  Allowed'
<1>1. queue \in Seq(Events) BY DEF FollowInv, TableTypeOK
<1>2. \A e : Has(queue, e) /\ Head(queue) # e => Has(queue', e) BY <1>1, HasTail
<1>3. Has(queue, "ENABLE_CHANGED") /\ Head(queue) # "ENABLE_CHANGED" => UserPending'
    BY <1>2 DEF UserPending, Has
<1>4. "user" \in notices => UserPending' BY DEF UserPending
<1>5. db.user \/ UserPending => db'.user \/ UserPending' BY <1>3, <1>4 DEF UserPending, Has
<1>6. phone'.roaming /\ ~db'.roam =>
         Has(queue', "ROAMING_ON") \/ "roam" \in notices' \/ Has(queue', "ROAMING_CHANGED")
    BY <1>2 DEF Allowed
<1> QED BY <1>2, <1>5, <1>6 DEF Allowed

\* It takes an event that promised no attempt.
LEMMA TakeKeepsTrigger ==
    ASSUME FollowInv, Trigger, queue # <<>>, notices \subseteq notices',
           establishEvents \subseteq establishEvents',
           \A e : Has(Tail(queue), e) => Has(queue', e), phone'.roaming = phone.roaming,
           Head(queue) \notin Tries,
           Head(queue) \in {"ROAMING_ON", "ROAMING_CHANGED"} => ~phone.roaming,
           Head(queue) = "ROAMING_OFF" => phone.roaming
    PROVE  Trigger'
<1>1. queue \in Seq(Events) BY DEF FollowInv, TableTypeOK
<1>2. \A e : Has(queue, e) /\ Head(queue) # e => Has(queue', e) BY <1>1, HasTail
<1>3. \A e \in Tries : Has(queue, e) => Has(queue', e) BY <1>2
<1> QED BY <1>2, <1>3 DEF Trigger

\* The default call stays as it is, is cleared or is tried.
LEMMA HeldStays ==
    ASSUME Held, UNCHANGED db, observed' \in {observed, Rows}, slips \subseteq slips',
           phone'.attached = phone.attached,
           establishEvents \subseteq establishEvents', Main'.wanted = Main.wanted,
           Up' => Up \/ Main'.wanted
    PROVE  Held'
BY DEF Held, Rows

LEMMA SetCallsGives ==
    ASSUME NEW t, Sane(t), SetCalls(t)
    PROVE  Sane(Calls)' /\ Main' = t.h["default"] /\ establishEvents' = t.est
<1>1. holder' = t.h /\ establishEvents' = t.est BY DEF SetCalls
<1>2. t.h \in HolderSets /\ t.est \in SUBSET Holders BY DEF Sane
<1>3. Sane([h |-> t.h, est |-> t.est]) BY <1>2 DEF Sane
<1> QED BY <1>1, <1>3 DEF Calls, Main

\* What the phone tells the checks does not change.
SamePhone ==
    /\ phone' \in Phones /\ phone'.attached = phone.attached /\ phone'.roaming = phone.roaming
    /\ phone'.sim = phone.sim /\ phone'.default = phone.default

LEMMA FitsThen ==
    ASSUME NEW w, w.cache = cache', w.policy = policyDataOn', w.abroad = abroad', w.saving = saving',
           w.gsmCall = phone'.gsmCall, SamePhone, UNCHANGED internalDataOn
    PROVE  ChecksPass("default", w) <=> Fits'
BY DEF SamePhone, Fits, ChecksPass, View, CheckCellularDataSlotId, CheckAttachAndSimState,
       CheckRoamingState, IsAllowActiveData

\* All holders are tried, after they were cleared or not.
LEMMA TriedAll ==
    ASSUME NEW s, Sane(s), NEW w, SetCalls(EstablishAllApnsIfConnectable(s, w)),
           ChecksPass("default", w) <=> Fits'
    PROVE  /\ Sane(Calls)' /\ s.est \subseteq establishEvents'
           /\ Main'.wanted = s.h["default"].wanted
           /\ Main'.state = "IDLE" /\ Main'.wanted => ~Fits'
           /\ Up' => s.h["default"].state \in {"CONNECTING", "CONNECTED"} \/ (Main'.wanted /\ Fits')
<1> DEFINE t == EstablishAllApnsIfConnectable(s, w)
           p == ChecksPass("default", w)
<1>1. Tried(s, t, p) BY EstablishAllEffect
<1>2. SetCalls(t) /\ (p <=> Fits') OBVIOUS
<1> HIDE DEF t, p
<1>3. "default" \in Holders BY KnownHolders
<1>4. Sane(Calls)' /\ Main' = t.h["default"] /\ establishEvents' = t.est
    BY <1>1, <1>2, SetCallsGives DEF Tried
<1> QED BY <1>1, <1>2, <1>3, <1>4 DEF Tried, Up

\* The event at the head of the queue is one that clears the default call.
Clearing ==
    \/ Head(queue) = "ENABLE_CHANGED" /\ ~db.user
    \/ Head(queue) \in {"ROAMING_ON", "ROAMING_CHANGED"} /\ phone.roaming /\ ~db.roam
    \/ Head(queue) = "RADIO_OFF"
    \/ Head(queue) = "DEFAULT_SLOT" /\ ~phone.default
    \/ Head(queue) = "SIM_STATE" /\ phone.sim \notin {"READY", "LOADED"}

MayStay == Up /\ slips' = {} /\ policy # "force_open" => ~Clearing

\* The event at the head of the queue is one that tries it.
Trying ==
    \/ Head(queue) \in Tries
    \/ Head(queue) \in {"ROAMING_ON", "ROAMING_CHANGED"} /\ phone.roaming
    \/ Head(queue) = "ROAMING_OFF" /\ ~phone.roaming

LEMMA EventTries ==
    ASSUME FollowInv, FollowInv', SwitchInv, queue # <<>>, queue' = Tail(queue),
           NEW s, (s = Calls /\ MayStay) \/ Cleared(Calls, s), NEW w,
           SetCalls(EstablishAllApnsIfConnectable(s, w)),
           w.cache = cache', w.policy = policyDataOn', w.abroad = abroad', w.saving = saving',
           w.gsmCall = phone'.gsmCall, cache'.airplane = cache.airplane,
           slips \cup Late \subseteq slips', slips' \subseteq Slips, SamePhone,
           UNCHANGED <<db, setter, internalDataOn, saving, retryEvents, policy, timers>>,
           notices \subseteq notices', observed' \in {observed, Rows}, policyDataOn => policyDataOn'
    PROVE  SwitchInv'
<1>0. /\ Typed /\ Held /\ Ordered(queue, phone.roaming) /\ DownInv /\ UpInv /\ Sane(Calls)
      /\ queue \in Seq(Events) /\ "default" \in Holders
    BY KnownHolders DEF SwitchInv, Typed, FollowInv, TableTypeOK
<1>1. /\ Sane(s) /\ s.est = establishEvents /\ s.h["default"].wanted = Main.wanted
      /\ s.h["default"].state \in {"CONNECTING", "CONNECTED"} => MayStay /\ Up
    <2>1. CASE s = Calls /\ MayStay BY <1>0, <2>1 DEF Calls, Main, Up
    <2>2. CASE Cleared(Calls, s) BY <1>0, <2>2 DEF Calls, Main, Up, Cleared
    <2> QED BY <2>1, <2>2
<1>2. ChecksPass("default", w) <=> Fits' BY FitsThen
<1>3. /\ Sane(Calls)' /\ establishEvents \subseteq establishEvents' /\ Main'.wanted = Main.wanted
      /\ Main'.state = "IDLE" /\ Main'.wanted => ~Fits'
      /\ Up' => (MayStay /\ Up) \/ (Main'.wanted /\ Fits')
    BY <1>1, <1>2, TriedAll
<1>4. Typed' BY <1>0, <1>3 DEF Typed, SamePhone
<1>5. Held' BY <1>0, <1>3, HeldStays DEF SamePhone
<1>6. Ordered(queue, phone.roaming)' BY <1>0, OrderTail DEF SamePhone
<1>7. ASSUME MayStay, Up, slips' = {}, policy' # "force_open" PROVE Allowed'
    <2>1. Allowed BY <1>0, <1>7 DEF DownInv
    <2>2. ~Clearing BY <1>7 DEF MayStay
    <2> QED BY <1>3, <2>1, <2>2, TakeKeepsAllowed DEF Clearing, SamePhone
<1>8. DownInv' /\ UpInv' BY <1>3, <1>5, <1>7, TryKeeps
<1> QED BY <1>4, <1>5, <1>6, <1>8 DEF SwitchInv

LEMMA EventLeaves ==
    ASSUME FollowInv, SwitchInv, queue # <<>>, \A e : Has(Tail(queue), e) => Has(queue', e),
           Ordered(Tail(queue), phone.roaming) => Ordered(queue', phone.roaming),
           NEW t, (t = Calls /\ MayStay) \/ Cleared(Calls, t), SetCalls(t),
           slips \subseteq slips', slips' \subseteq Slips, timers' \subseteq {"mccDelay", "replyCommonEvent"},
           UNCHANGED <<db, phone, internalDataOn, saving, retryEvents, policy>>, policyDataOn' <=> policyDataOn,
           notices \subseteq notices', observed' \in {observed, Rows},
           Wanted' /\ Main.state = "IDLE" => Trigger' \/ (observed' = observed /\ ~abroad /\ ~Trying)
    PROVE  SwitchInv'
<1>0. /\ Typed /\ Held /\ Ordered(queue, phone.roaming) /\ DownInv /\ UpInv /\ Sane(Calls)
      /\ queue \in Seq(Events) /\ "default" \in Holders
    BY KnownHolders DEF SwitchInv, Typed, FollowInv, TableTypeOK
<1>1. /\ Sane(t) /\ t.est = establishEvents /\ t.h["default"].wanted = Main.wanted
      /\ t.h["default"].state \in {"CONNECTING", "CONNECTED"} => MayStay /\ Up
      /\ t.h["default"].state = "IDLE" => Main.state = "IDLE"
    <2>1. CASE t = Calls /\ MayStay BY <1>0, <2>1 DEF Calls, Main, Up
    <2>2. CASE Cleared(Calls, t) BY <1>0, <2>2 DEF Calls, Main, Up, Cleared
    <2> QED BY <2>1, <2>2
<1>2. Sane(Calls)' /\ Main' = t.h["default"] /\ establishEvents' = establishEvents
    BY <1>1, SetCallsGives
<1>3. Main'.wanted = Main.wanted /\ (Up' => MayStay /\ Up) /\ (Main'.state = "IDLE" => Main.state = "IDLE")
    BY <1>1, <1>2 DEF Up
<1>4. Typed' BY <1>0, <1>2 DEF Typed
<1>5. Held' BY <1>0, <1>2, <1>3, HeldStays
<1>6. Ordered(queue, phone.roaming)' BY <1>0, OrderTail
<1>7. DownInv'
    <2> SUFFICES ASSUME slips' = {}, policy' # "force_open", Up' PROVE Allowed'
        BY DEF DownInv
    <2>1. Allowed BY <1>0, <1>3 DEF DownInv
    <2>2. ~Clearing BY <1>3 DEF MayStay
    <2> QED BY <1>3, <2>1, <2>2, TakeKeepsAllowed DEF Clearing
<1>8. UpInv'
    <2> SUFFICES ASSUME Wanted', Main'.state = "IDLE", observed' = observed, ~abroad, ~Trying PROVE Trigger'
        BY <1>3 DEF UpInv
    <2>1. Wanted BY <1>3 DEF Wanted, SwitchesAllow
    <2>2. Trigger BY <1>0, <1>3, <2>1 DEF UpInv
    <2> QED BY <1>2, <2>2, TakeKeepsTrigger DEF Trying
<1> QED BY <1>4, <1>5, <1>6, <1>7, <1>8 DEF SwitchInv

LEMMA TakeGives ==
    ASSUME FollowInv, SwitchInv, NEW e, NEW ok \in BOOLEAN, Take(e, ok)
    PROVE  /\ queue # <<>> /\ Head(queue) = e /\ queue \in Seq(Events)
           /\ slips \subseteq slips' /\ slips \cup Late \subseteq slips' /\ slips' \subseteq Slips
           /\ Crossed(e, ok) \subseteq slips'
           /\ slips' \subseteq {"savingLate", "swapped"} =>
                 /\ ok /\ setter = NoSetter
                 /\ observed = Rows => cache.roam = db.roam
           /\ UNCHANGED <<db, setter, phone, internalDataOn, saving, retryEvents, policy>>
           /\ SamePhone
<1>1. slips' = slips \cup (Late \cup Crossed(e, ok)) \cup (IF ok THEN {} ELSE {"fault"})
    BY DEF Take, Slip
<1>2. Late \subseteq Slips /\ Crossed(e, ok) \subseteq Slips /\ "fault" \in Slips /\ slips \subseteq Slips
    BY DEF Late, Crossed, Slips, SwitchInv, Typed
<1>3. slips' \subseteq {"savingLate", "swapped"} => ok /\ setter = NoSetter /\ slips \cap {"fault", "overtaken"} = {}
    BY <1>1 DEF Late
<1>4. slips' \subseteq {"savingLate", "swapped"} /\ observed = Rows => cache.roam = db.roam
    BY <1>3 DEF FollowInv, Trusted, RoamFollows, NoSetter
<1>5. UNCHANGED <<db, setter, phone, internalDataOn, saving, retryEvents, policy>>
      /\ queue # <<>> /\ Head(queue) = e
    BY DEF Take, powerVars
<1> QED BY <1>1, <1>2, <1>3, <1>4, <1>5 DEF FollowInv, TableTypeOK, SwitchInv, Typed, SamePhone

LEMMA ReadsKeepAirplane ==
    ASSUME TableTypeOK, NEW ok \in BOOLEAN
    PROVE  /\ QueryUserDataStatus(cache, ok).airplane = cache.airplane
           /\ QueryUserDataRoamingStatus(cache, ok).airplane = cache.airplane
           /\ LoadSwitchValue(cache, ok).airplane = cache.airplane
BY DEF QueryUserDataStatus, QueryUserDataRoamingStatus, LoadSwitchValue, TableTypeOK, Switches

\* The holders are cleared, or nothing is up.
LEMMA ClearedAll ==
    ASSUME SwitchInv, NEW reason \in {"CLEAR", "RETRY", "CHANGE"}
    PROVE  Cleared(Calls, ClearAllConnections(Calls, reason)) /\ (Up => OverallUp)
<1>1. Sane(Calls) /\ "default" \in Holders BY KnownHolders DEF SwitchInv, Typed
<1>2. Up => OverallUp BY <1>1 DEF Up, Main, OverallUp
<1> QED BY <1>1, <1>2, ClearAllEffect

\* An event after which all holders are tried, by what the handler's copies say then ...
LEMMA TakeTries ==
    ASSUME FollowInv, FollowInv', SwitchInv, NEW e, NEW ok \in BOOLEAN, Take(e, ok), queue' = Tail(queue),
           cache'.airplane = cache.airplane, UNCHANGED <<notices, policyDataOn, timers>>,
           observed' \in {observed, Rows},
           NEW s, (s = Calls /\ MayStay) \/ Cleared(Calls, s), NEW w,
           SetCalls(EstablishAllApnsIfConnectable(s, w)),
           \/ w = View(cache') /\ abroad' = abroad
           \/ w = [View(cache') EXCEPT !.abroad = FALSE] /\ abroad' = FALSE
    PROVE  SwitchInv'
<1>1. /\ queue # <<>> /\ slips \cup Late \subseteq slips' /\ slips' \subseteq Slips
      /\ UNCHANGED <<db, setter, phone, internalDataOn, saving, retryEvents, policy>> /\ SamePhone
    BY TakeGives
<1>2. /\ w.cache = cache' /\ w.policy = policyDataOn' /\ w.abroad = abroad' /\ w.saving = saving'
      /\ w.gsmCall = phone'.gsmCall
    <2>2. CASE w = View(cache') /\ abroad' = abroad
        BY <1>1, <2>2 DEF View
    <2>3. CASE w = [View(cache') EXCEPT !.abroad = FALSE] /\ abroad' = FALSE
        BY <1>1, <2>3 DEF View
    <2> QED BY <2>2, <2>3
<1>3. UNCHANGED <<db, setter, internalDataOn, saving, retryEvents, policy, timers>>
    BY <1>1
<1> QED BY <1>1, <1>2, <1>3, EventTries

\* ... and one that tries none, but clears them or leaves them alone.
LEMMA TakeLeaves ==
    ASSUME FollowInv, SwitchInv, NEW e, NEW ok \in BOOLEAN, Take(e, ok),
           queue' = Tail(queue) \/ queue' = Append(Tail(queue), "ESTABLISH_ALL"),
           NEW t, (t = Calls /\ MayStay) \/ Cleared(Calls, t), SetCalls(t),
           UNCHANGED <<notices, policyDataOn>>, timers' \subseteq timers \cup {"mccDelay"},
           observed' \in {observed, Rows},
           Wanted' /\ Main.state = "IDLE" => Trigger' \/ (observed' = observed /\ ~abroad /\ ~Trying)
    PROVE  SwitchInv'
<1>1. /\ queue # <<>> /\ slips \subseteq slips' /\ slips' \subseteq Slips /\ queue \in Seq(Events)
      /\ UNCHANGED <<db, setter, phone, internalDataOn, saving, retryEvents, policy>>
    BY TakeGives
<1>2. Tail(queue) \in Seq(Events) /\ "ESTABLISH_ALL" \in Events BY <1>1 DEF Events
<1>3. \A x : Has(Tail(queue), x) => Has(queue', x) BY <1>2, HasAppend
<1>4. Ordered(Tail(queue), phone.roaming) => Ordered(queue', phone.roaming)
    BY <1>2, OrderAppend
<1>5. timers' \subseteq {"mccDelay", "replyCommonEvent"} BY DEF SwitchInv, Typed
<1>6. UNCHANGED <<db, phone, policyDataOn, internalDataOn, saving, retryEvents, policy>>
    BY <1>1
<1> QED BY <1>1, <1>3, <1>4, <1>5, <1>6, EventLeaves

LEMMA EnableChangedKeeps ==
    ASSUME FollowInv, FollowInv', SwitchInv, NEW ok \in BOOLEAN, HandleDBSettingEnableChanged(ok)
    PROVE  SwitchInv'
<1> DEFINE on == (IF ok THEN db.user ELSE TRUE) /\ phone.default
<1>1. /\ Take("ENABLE_CHANGED", ok) /\ Rest /\ cache' = QueryUserDataStatus(cache, ok)
      /\ UNCHANGED <<abroad, timers>>
      /\ IF on /\ policy # "disallow" THEN Establish(Calls, cache')
         ELSE IF ~on /\ policy # "force_open" THEN Clear(Calls, "CLEAR") ELSE SetCalls(Calls)
    BY DEF HandleDBSettingEnableChanged
<1>2. /\ Head(queue) = "ENABLE_CHANGED" /\ slips' \subseteq {"savingLate", "swapped"} => ok
      /\ UNCHANGED <<db, phone, policy>>
    BY <1>1, TakeGives
<1>3. /\ queue' = Tail(queue) /\ UNCHANGED <<notices, observed, policyDataOn, timers>>
      /\ cache'.airplane = cache.airplane
    BY <1>1, ReadsKeepAirplane DEF Rest, FollowInv
<1>4. Head(queue) = "ENABLE_CHANGED" BY <1>1, TakeGives
<1>5. Wanted' => on /\ policy # "disallow" BY <1>2 DEF Wanted, SwitchesAllow
<1>6. CASE on /\ policy # "disallow"
    <2>1. MayStay BY <1>2, <1>4, <1>6 DEF MayStay, Clearing
    <2> DEFINE w == View(cache')
               s == Calls
    <2>2. SetCalls(EstablishAllApnsIfConnectable(s, w)) BY <1>1, <1>6 DEF Establish
    <2>3. w = View(cache') /\ s = Calls OBVIOUS
    <2> HIDE DEF w, s
    <2> QED BY <1>1, <1>3, <2>1, <2>2, <2>3, TakeTries
<1>7. CASE ~on /\ policy # "force_open"
    <2>1. SetCalls(ClearAllConnections(Calls, "CLEAR")) BY <1>1, <1>7 DEF Clear
    <2>2. Cleared(Calls, ClearAllConnections(Calls, "CLEAR")) BY ClearedAll
    <2> QED BY <1>1, <1>3, <1>5, <1>7, <2>1, <2>2, TakeLeaves
<1>8. CASE ~(on /\ policy # "disallow") /\ ~(~on /\ policy # "force_open")
    <2>1. MayStay BY <1>2, <1>4, <1>8 DEF MayStay, Clearing
    <2>2. SetCalls(Calls) BY <1>1, <1>8
    <2> QED BY <1>1, <1>3, <1>5, <1>8, <2>1, <2>2, TakeLeaves
<1> QED BY <1>6, <1>7, <1>8

\* The handler changes nothing but what it has taken.
LEMMA RestGives ==
    ASSUME Rest
    PROVE  queue' = Tail(queue) /\ UNCHANGED <<notices, observed, policyDataOn>>
BY DEF Rest

LEMMA RoamingChangedKeeps ==
    ASSUME FollowInv, FollowInv', SwitchInv, HandleDBSettingRoamingChanged
    PROVE  SwitchInv'
<1>1. /\ Take("ROAMING_CHANGED", TRUE) /\ Rest /\ UNCHANGED <<cache, abroad, timers>>
      /\ IF ~phone.roaming THEN SetCalls(Calls)
         ELSE IF cache.roam THEN Establish(Calls, cache) ELSE Clear(Calls, "CLEAR")
    BY DEF HandleDBSettingRoamingChanged
<1>2. queue' = Tail(queue) /\ UNCHANGED <<notices, observed, policyDataOn, timers>>
    BY <1>1, RestGives
<1>3. Head(queue) = "ROAMING_CHANGED" /\ UNCHANGED <<db, phone>> BY <1>1, TakeGives
<1>4. slips' \subseteq {"savingLate", "swapped"} /\ observed = Rows => cache.roam = db.roam BY <1>1, TakeGives
<1>5. Up /\ slips' = {} => observed = Rows
    <2>1. slips \subseteq slips' BY <1>1, TakeGives
    <2> QED BY <2>1 DEF SwitchInv, Held
<1>6. Wanted' => ~abroad /\ observed = Rows /\ (phone.roaming => db.roam) /\ slips' \subseteq {"savingLate", "swapped"}
    BY <1>1, <1>2, <1>3 DEF Wanted, SwitchesAllow
<1>7. CASE ~phone.roaming
    <2>1. MayStay BY <1>3, <1>7 DEF MayStay, Clearing
    <2>2. ~Trying BY <1>3, <1>7 DEF Trying, Tries
    <2>3. SetCalls(Calls) BY <1>1, <1>7
    <2> QED BY <1>1, <1>2, <1>6, <2>1, <2>2, <2>3, TakeLeaves
<1>8. CASE phone.roaming /\ cache.roam
    <2>1. MayStay BY <1>3, <1>4, <1>5, <1>8 DEF MayStay, Clearing
    <2> DEFINE w == View(cache')
               s == Calls
    <2>2. SetCalls(EstablishAllApnsIfConnectable(s, w)) BY <1>1, <1>8 DEF Establish, View
    <2>3. w = View(cache') /\ s = Calls OBVIOUS
    <2> HIDE DEF w, s
    <2> QED BY <1>1, <1>2, <2>1, <2>2, <2>3, TakeTries
<1>9. CASE phone.roaming /\ ~cache.roam
    <2>1. SetCalls(ClearAllConnections(Calls, "CLEAR")) BY <1>1, <1>9 DEF Clear
    <2>2. Cleared(Calls, ClearAllConnections(Calls, "CLEAR")) BY ClearedAll
    <2>3. ~Wanted' BY <1>4, <1>6, <1>9
    <2> QED BY <1>1, <1>2, <2>1, <2>2, <2>3, TakeLeaves
<1> QED BY <1>7, <1>8, <1>9

LEMMA EstablishKeeps ==
    ASSUME FollowInv, FollowInv', SwitchInv, HandleEstablishAllApnsIfConnectable
    PROVE  SwitchInv'
<1>1. /\ Take("ESTABLISH_ALL", TRUE) /\ Rest /\ UNCHANGED <<cache, abroad, timers>>
      /\ Establish(Calls, cache)
    BY DEF HandleEstablishAllApnsIfConnectable
<1>2. queue' = Tail(queue) /\ UNCHANGED <<notices, observed, policyDataOn, timers>>
    BY <1>1, RestGives
<1>3. Head(queue) = "ESTABLISH_ALL" BY <1>1, TakeGives
<1>4. MayStay BY <1>3 DEF MayStay, Clearing
<1> DEFINE w == View(cache')
           s == Calls
<1>5. SetCalls(EstablishAllApnsIfConnectable(s, w)) BY <1>1 DEF Establish, View
<1>6. w = View(cache') /\ s = Calls OBVIOUS
<1> HIDE DEF w, s
<1> QED BY <1>1, <1>2, <1>4, <1>5, <1>6, TakeTries

LEMMA AttachedKeeps ==
    ASSUME FollowInv, FollowInv', SwitchInv, RadioPsConnectionAttached
    PROVE  SwitchInv'
<1>1. /\ Take("PS_ATTACHED", TRUE) /\ Rest /\ UNCHANGED <<cache, timers>> /\ abroad' = FALSE
      /\ SetCalls(EstablishAllApnsIfConnectable(Calls, [View(cache) EXCEPT !.abroad = FALSE]))
    BY DEF RadioPsConnectionAttached
<1>2. queue' = Tail(queue) /\ UNCHANGED <<notices, observed, policyDataOn, timers>>
    BY <1>1, RestGives
<1>3. Head(queue) = "PS_ATTACHED" BY <1>1, TakeGives
<1>4. MayStay BY <1>3 DEF MayStay, Clearing
<1> DEFINE w == [View(cache') EXCEPT !.abroad = FALSE]
           s == Calls
<1>5. SetCalls(EstablishAllApnsIfConnectable(s, w)) BY <1>1 DEF View
<1>6. w = [View(cache') EXCEPT !.abroad = FALSE] /\ s = Calls OBVIOUS
<1> HIDE DEF w, s
<1> QED BY <1>1, <1>2, <1>4, <1>5, <1>6, TakeTries

LEMMA RoamingOnKeeps ==
    ASSUME FollowInv, FollowInv', SwitchInv, NEW ok \in BOOLEAN, RoamingStateOn(ok)
    PROVE  SwitchInv'
<1> DEFINE c == QueryUserDataRoamingStatus(cache, ok)
           s == IF OverallUp /\ ~(ok /\ db.roam) THEN ClearAllConnections(Calls, "RETRY") ELSE Calls
           w == [View(c) EXCEPT !.abroad = FALSE]
<1>1. /\ Take("ROAMING_ON", ok) /\ Rest /\ abroad' = FALSE /\ UNCHANGED timers
      /\ IF phone.roaming THEN cache' = c /\ SetCalls(EstablishAllApnsIfConnectable(s, w))
         ELSE SetCalls(Calls) /\ UNCHANGED cache
    BY DEF RoamingStateOn
<1>2. queue' = Tail(queue) /\ UNCHANGED <<notices, observed, policyDataOn, timers>>
    BY <1>1, RestGives
<1>3. Head(queue) = "ROAMING_ON" /\ UNCHANGED <<db, phone>> /\ queue # <<>> /\ queue \in Seq(Events)
    BY <1>1, TakeGives
<1>4. c.airplane = cache.airplane BY ReadsKeepAirplane DEF FollowInv
<1>5. CASE phone.roaming
    <2>1. (s = Calls /\ MayStay) \/ Cleared(Calls, s)
        <3>1. CASE OverallUp /\ ~(ok /\ db.roam) BY <3>1, ClearedAll
        <3>2. CASE OverallUp /\ ok /\ db.roam BY <1>3, <3>2 DEF MayStay, Clearing
        <3>3. CASE ~OverallUp
            <4>1. ~Up BY <3>3, ClearedAll
            <4> QED BY <3>3, <4>1 DEF MayStay
        <3> QED BY <3>1, <3>2, <3>3
    <2>2. cache' = c /\ SetCalls(EstablishAllApnsIfConnectable(s, w)) BY <1>1, <1>5
    <2>3. w = [View(cache') EXCEPT !.abroad = FALSE] BY <2>2
    <2> HIDE DEF w, s, c
    <2> QED BY <1>1, <1>2, <1>4, <2>1, <2>2, <2>3, TakeTries
<1>6. CASE ~phone.roaming
    <2>1. MayStay BY <1>3, <1>6 DEF MayStay, Clearing
    <2>2. SetCalls(Calls) BY <1>1, <1>6
    <2>3. Has(Tail(queue), "ROAMING_OFF") BY <1>3, <1>6, OrderTail DEF SwitchInv
    <2>4. Trigger' BY <1>2, <1>3, <1>6, <2>3 DEF Trigger
    <2> QED BY <1>1, <1>2, <2>1, <2>2, <2>4, TakeLeaves
<1> QED BY <1>5, <1>6

LEMMA RoamingOffKeeps ==
    ASSUME FollowInv, FollowInv', SwitchInv, NEW ok \in BOOLEAN, RoamingStateOff(ok)
    PROVE  SwitchInv'
<1> DEFINE c == QueryUserDataRoamingStatus(cache, ok)
           s == IF OverallUp THEN ClearAllConnections(Calls, "RETRY") ELSE Calls
           w == View(c)
<1>1. /\ Take("ROAMING_OFF", ok) /\ Rest /\ cache' = c /\ UNCHANGED <<abroad, timers>>
      /\ IF ok /\ db.roam THEN SetCalls(Calls) ELSE SetCalls(EstablishAllApnsIfConnectable(s, w))
    BY DEF RoamingStateOff, Establish
<1>2. queue' = Tail(queue) /\ UNCHANGED <<notices, observed, policyDataOn, timers>>
    BY <1>1, RestGives
<1>3. Head(queue) = "ROAMING_OFF" /\ UNCHANGED <<db, phone>> BY <1>1, TakeGives
<1>4. c.airplane = cache.airplane BY ReadsKeepAirplane DEF FollowInv
<1>5. MayStay BY <1>3 DEF MayStay, Clearing
<1>6. CASE ~(ok /\ db.roam)
    <2>1. (s = Calls /\ MayStay) \/ Cleared(Calls, s)
        BY <1>5, ClearedAll
    <2>2. SetCalls(EstablishAllApnsIfConnectable(s, w)) BY <1>1, <1>6
    <2>3. w = View(cache') BY <1>1
    <2> HIDE DEF w, s, c
    <2> QED BY <1>1, <1>2, <1>4, <2>1, <2>2, <2>3, TakeTries
<1>7. CASE ok /\ db.roam
    <2>1. SetCalls(Calls) BY <1>1, <1>7
    <2>2. Crossed("ROAMING_OFF", ok) \subseteq slips' BY <1>1, TakeGives
    <2>3. Main.state = "IDLE" /\ Main.wanted => "crossed" \in slips'
        BY <1>7, <2>2, KnownHolders DEF Crossed, Main
    <2>4. holder' = holder BY <2>1 DEF SetCalls, Calls
    <2>5. ~(Wanted' /\ Main.state = "IDLE")
        BY <2>3, <2>4 DEF Wanted, Main
    <2> QED BY <1>1, <1>2, <1>5, <2>1, <2>5, TakeLeaves
<1> QED BY <1>6, <1>7

LEMMA EmergencyKeeps ==
    ASSUME FollowInv, FollowInv', SwitchInv, PsRadioEmergencyStateOpen \/ PsRadioEmergencyStateClose
    PROVE  SwitchInv'
<1>1. UNCHANGED <<cache, abroad, timers>> /\ Rest
    BY DEF PsRadioEmergencyStateOpen, PsRadioEmergencyStateClose
<1>2. queue' = Tail(queue) /\ UNCHANGED <<notices, observed, policyDataOn, timers>>
    BY <1>1, RestGives
<1>3. Wanted' => ~abroad BY <1>1 DEF Wanted
<1>4. CASE PsRadioEmergencyStateOpen
    <2>1. /\ Take("EMERGENCY_ON", TRUE)
          /\ IF OverallUp THEN SetCalls(ClearAllConnections(Calls, "CLEAR")) ELSE SetCalls(Calls)
        BY <1>4 DEF PsRadioEmergencyStateOpen, Clear
    <2>2. Head(queue) = "EMERGENCY_ON" BY <2>1, TakeGives
    <2>3. MayStay /\ ~Trying BY <2>2 DEF MayStay, Clearing, Trying, Tries
    <2>4. Cleared(Calls, ClearAllConnections(Calls, "CLEAR")) BY ClearedAll
    <2> QED BY <1>2, <1>3, <2>1, <2>3, <2>4, TakeLeaves
<1>5. CASE PsRadioEmergencyStateClose
    <2> DEFINE w == View(cache')
               s == Calls
    <2>1. /\ Take("EMERGENCY_OFF", TRUE)
          /\ IF OverallUp THEN SetCalls(s) ELSE SetCalls(EstablishAllApnsIfConnectable(s, w))
        BY <1>1, <1>5 DEF PsRadioEmergencyStateClose, Establish, View
    <2>2. Head(queue) = "EMERGENCY_OFF" BY <2>1, TakeGives
    <2>3. MayStay /\ ~Trying BY <2>2 DEF MayStay, Clearing, Trying, Tries
    <2>4. w = View(cache') /\ s = Calls OBVIOUS
    <2> HIDE DEF w, s
    <2>5. CASE OverallUp BY <1>2, <1>3, <2>1, <2>3, <2>4, <2>5, TakeLeaves
    <2>6. CASE ~OverallUp BY <1>1, <1>2, <2>1, <2>3, <2>4, <2>6, TakeTries
    <2> QED BY <2>5, <2>6
<1> QED BY <1>4, <1>5

LEMMA RadioKeeps ==
    ASSUME FollowInv, FollowInv', SwitchInv, HandleRadioStateChanged
    PROVE  SwitchInv'
<1>1. UNCHANGED <<cache, abroad, timers>> /\ Rest
    BY DEF HandleRadioStateChanged
<1>2. queue' = Tail(queue) /\ UNCHANGED <<notices, observed, policyDataOn, timers>>
    BY <1>1, RestGives
<1>3. Wanted' => ~abroad BY <1>1 DEF Wanted
<1>4. CASE /\ Take("RADIO_OFF", TRUE)
           /\ IF OverallUp THEN Clear(Calls, "CLEAR") ELSE SetCalls(Calls)
    <2>1. /\ Take("RADIO_OFF", TRUE)
          /\ IF OverallUp THEN SetCalls(ClearAllConnections(Calls, "CLEAR")) ELSE SetCalls(Calls)
        BY <1>4 DEF Clear
    <2>2. Head(queue) = "RADIO_OFF" BY <2>1, TakeGives
    <2>3. ~Trying BY <2>2 DEF Trying, Tries
    <2>4. Cleared(Calls, ClearAllConnections(Calls, "CLEAR")) /\ (Up => OverallUp) BY ClearedAll
    <2>5. ~OverallUp => MayStay BY <2>4 DEF MayStay
    <2> QED BY <1>2, <1>3, <2>1, <2>3, <2>4, <2>5, TakeLeaves
<1>5. CASE Take("RADIO_ON", TRUE) /\ Establish(Calls, cache)
    <2> DEFINE w == View(cache')
               s == Calls
    <2>1. Take("RADIO_ON", TRUE) /\ SetCalls(EstablishAllApnsIfConnectable(s, w))
        BY <1>1, <1>5 DEF Establish, View
    <2>2. Head(queue) = "RADIO_ON" BY <2>1, TakeGives
    <2>3. MayStay BY <2>2 DEF MayStay, Clearing
    <2>4. w = View(cache') /\ s = Calls OBVIOUS
    <2> HIDE DEF w, s
    <2> QED BY <1>1, <1>2, <2>1, <2>3, <2>4, TakeTries
<1> QED BY <1>4, <1>5 DEF HandleRadioStateChanged

LEMMA ReleaseAllEffect ==
    ASSUME NEW s, Sane(s)
    PROVE  /\ Sane(ReleaseAll(s)) /\ ReleaseAll(s).est = s.est
           /\ \A a \in Holders : ReleaseAll(s).h[a].state = s.h[a].state /\ ~ReleaseAll(s).h[a].wanted
<1> DEFINE R == [state : CallStates, wanted : BOOLEAN, reason : {"NONE", "CLEAR", "RETRY", "CHANGE"}]
           h == [a \in Holders |-> [s.h[a] EXCEPT !.wanted = FALSE]]
           t == ReleaseAll(s)
<1>1. s \in [h : HolderSets, est : SUBSET Holders] /\ s.h \in [Holders -> R] BY DEF Sane, HolderSets
<1>2. t = [s EXCEPT !.h = h] BY DEF ReleaseAll
<1>3. ASSUME NEW a \in Holders
      PROVE  /\ h[a].state = s.h[a].state /\ h[a].reason = s.h[a].reason /\ h[a].wanted = FALSE
             /\ h[a] \in R
    <2>1. s.h[a] \in R BY <1>1
    <2>2. h[a] = [s.h[a] EXCEPT !.wanted = FALSE] OBVIOUS
    <2> QED BY <2>1, <2>2
<1>4. h \in HolderSets BY <1>3 DEF HolderSets
<1> HIDE DEF h, t
<1>5. t \in [h : HolderSets, est : SUBSET Holders] /\ t.h = h /\ t.est = s.est
    BY <1>1, <1>2, <1>4
<1>6. Sane(t) BY <1>3, <1>5 DEF Sane
<1> QED BY <1>3, <1>5, <1>6 DEF t

LEMMA SimRemovedKeeps ==
    ASSUME FollowInv, SwitchInv, NEW ok \in BOOLEAN, Take("SIM_STATE", ok), queue' = Tail(queue),
           SetCalls(ReleaseAll(ClearAllConnections(Calls, "CLEAR"))),
           observed' = {} \/ observed' = observed \ {"user"},
           UNCHANGED timers
    PROVE  SwitchInv'
<1> DEFINE s == ClearAllConnections(Calls, "CLEAR")
           t == ReleaseAll(s)
<1>0. /\ Typed /\ Held /\ Ordered(queue, phone.roaming) /\ Sane(Calls)
      /\ "default" \in Holders
    BY KnownHolders DEF SwitchInv, Typed
<1>1. Cleared(Calls, s) BY ClearedAll
<1>2. SetCalls(t) OBVIOUS
<1> HIDE DEF s
<1>3. Sane(t) /\ t.est = s.est /\ t.h["default"].state = s.h["default"].state /\ ~t.h["default"].wanted
    BY <1>0, <1>1, ReleaseAllEffect DEF Cleared
<1> HIDE DEF t
<1>4. Sane(Calls)' /\ Main' = t.h["default"] BY <1>2, <1>3, SetCallsGives
<1>5. ~Up' /\ ~Main'.wanted BY <1>1, <1>3, <1>4 DEF Up, Cleared
<1>6. /\ queue # <<>> /\ queue \in Seq(Events) /\ slips' \subseteq Slips
      /\ UNCHANGED <<db, phone, retryEvents>>
    BY TakeGives
<1>7. Typed' BY <1>0, <1>4, <1>6 DEF Typed
<1>8. Held' BY <1>0, <1>5, <1>6 DEF Held
<1>9. Ordered(queue, phone.roaming)' BY <1>0, <1>6, OrderTail
<1>10. DownInv' /\ UpInv' BY <1>5 DEF DownInv, UpInv, Wanted
<1> QED BY <1>7, <1>8, <1>9, <1>10 DEF SwitchInv

LEMMA SimStateKeeps ==
    ASSUME FollowInv, FollowInv', SwitchInv, NEW ok \in BOOLEAN, NEW simId \in BOOLEAN,
           NEW iccId \in BOOLEAN, HandleSimStateChanged(ok, simId, iccId)
    PROVE  SwitchInv'
<1> DEFINE w == View(cache')
           k == Calls
           s == ClearAllConnections(Calls, "CLEAR")
<1>1. /\ Take("SIM_STATE", ok) /\ cache' = LoadSwitchValue(cache, ok) /\ queue' = Tail(queue)
      /\ UNCHANGED <<notices, policyDataOn, abroad, timers>>
    BY DEF HandleSimStateChanged, HandleSimEvent
<1>2. /\ phone.sim = "READY" /\ iccId /\ ~phone.newCard => SetCalls(EstablishAllApnsIfConnectable(k, w))
      /\ phone.sim = "LOCKED" => SetCalls(s)
      /\ phone.sim = "ABSENT" => SetCalls(ReleaseAll(s))
      /\ phone.sim \notin {"LOCKED", "ABSENT"} /\ ~(phone.sim = "READY" /\ iccId /\ ~phone.newCard) => SetCalls(k)
    BY DEF HandleSimStateChanged, HandleSimEvent, Establish
<1>3. observed' = (IF phone.sim = "ABSENT" THEN UnRegisterDataSettingObserver(simId) ELSE observed)
    BY DEF HandleSimStateChanged
<1>4. Head(queue) = "SIM_STATE" /\ UNCHANGED phone BY <1>1, TakeGives
<1>5. cache'.airplane = cache.airplane BY <1>1, ReadsKeepAirplane DEF FollowInv
<1>6. ~Trying BY <1>4 DEF Trying, Tries
<1>7. phone.sim \in {"READY", "LOADED"} => MayStay BY <1>4 DEF MayStay, Clearing
<1>8. Wanted' => ~abroad /\ phone.sim = "LOADED" BY <1>1, <1>4 DEF Wanted
<1>9. phone.sim \in {"READY", "LOADED", "LOCKED", "ABSENT"} BY DEF SwitchInv, Typed, Phones
<1>10. w = View(cache') /\ k = Calls /\ Cleared(Calls, s) BY ClearedAll
<1>11. CASE phone.sim = "ABSENT"
    <2>1. SetCalls(ReleaseAll(ClearAllConnections(Calls, "CLEAR"))) BY <1>2, <1>11
    <2>2. observed' = {} \/ observed' = observed \ {"user"}
        BY <1>3, <1>11 DEF UnRegisterDataSettingObserver
    <2> QED BY <1>1, <2>1, <2>2, SimRemovedKeeps
<1> HIDE DEF w, k, s
<1>12. CASE phone.sim = "READY" /\ iccId /\ ~phone.newCard
    <2>1. SetCalls(EstablishAllApnsIfConnectable(k, w)) /\ observed' = observed /\ MayStay
        BY <1>2, <1>3, <1>7, <1>12
    <2> QED BY <1>1, <1>5, <1>10, <2>1, TakeTries
<1>13. CASE phone.sim = "LOCKED"
    <2>1. SetCalls(s) /\ observed' = observed /\ ~Wanted' BY <1>2, <1>3, <1>8, <1>13
    <2> QED BY <1>1, <1>10, <2>1, TakeLeaves
<1>14. CASE phone.sim \notin {"LOCKED", "ABSENT"} /\ ~(phone.sim = "READY" /\ iccId /\ ~phone.newCard)
    <2>1. SetCalls(k) /\ observed' = observed /\ MayStay BY <1>2, <1>3, <1>7, <1>9, <1>14
    <2> QED BY <1>1, <1>6, <1>8, <1>10, <2>1, TakeLeaves
<1> QED BY <1>9, <1>11, <1>12, <1>13, <1>14

LEMMA RecordsKeeps ==
    ASSUME FollowInv, FollowInv', SwitchInv, NEW ok \in BOOLEAN, NEW iccId \in BOOLEAN,
           NEW sameApn \in BOOLEAN, HandleRecordsChanged(ok, iccId, sameApn)
    PROVE  SwitchInv'
<1> DEFINE w == [View(cache') EXCEPT !.policy = policyDataOn']
           k == Calls
           s == ClearConnectionsOnUpdateApns(sameApn)
<1>1. /\ queue # <<>> /\ Head(queue) = "RECORDS_LOADED" /\ queue' = Tail(queue)
      /\ slips' = slips \cup Late \cup (IF ok THEN {} ELSE {"fault"})
      /\ cache' = LoadSwitchValue(cache, ok)
      /\ policyDataOn' = (policyDataOn \/ (iccId /\ phone.newCard))
      /\ phone' = [phone EXCEPT !.newCard = phone.newCard /\ ~iccId]
      /\ UNCHANGED <<db, setter, notices, observed, policy, internalDataOn, abroad, saving, timers, retryEvents>>
    BY DEF HandleRecordsChanged, Slip, dbVars, powerVars
<1>2. /\ iccId => SetCalls(EstablishAllApnsIfConnectable(s, w))
      /\ ~iccId => SetCalls(k) /\ (policyDataOn' <=> policyDataOn)
    <2>1. w = [View(cache') EXCEPT !.policy = policyDataOn \/ (iccId /\ phone.newCard)]
        BY <1>1
    <2>2. w = [View(cache') EXCEPT !.policy = @ \/ (iccId /\ phone.newCard)]
        BY <2>1 DEF View
    <2> QED BY <1>1, <2>2 DEF HandleRecordsChanged
<1>3. SamePhone /\ phone'.gsmCall = phone.gsmCall BY <1>1 DEF SwitchInv, Typed, Phones, SamePhone
<1>4. slips \cup Late \subseteq slips' /\ slips' \subseteq Slips
    BY <1>1 DEF SwitchInv, Typed, Late, Slips
<1>5. MayStay BY <1>1 DEF MayStay, Clearing
<1>6. (s = Calls /\ MayStay) \/ Cleared(Calls, s)
    BY <1>5, ClearedAll DEF ClearConnectionsOnUpdateApns
<1>7. /\ w.cache = cache' /\ w.policy = policyDataOn' /\ w.abroad = abroad' /\ w.saving = saving'
      /\ w.gsmCall = phone'.gsmCall
    BY <1>1, <1>3 DEF View
<1>8. cache'.airplane = cache.airplane BY <1>1, ReadsKeepAirplane DEF FollowInv
<1>9. ~Trying BY <1>1 DEF Trying, Tries
<1>10. k = Calls OBVIOUS
<1> HIDE DEF w, k, s
<1>11. /\ UNCHANGED <<db, setter, internalDataOn, saving, retryEvents, policy, timers>>
       /\ notices \subseteq notices' /\ observed' \in {observed, Rows} /\ (policyDataOn => policyDataOn')
    BY <1>1
<1>12. CASE iccId
    BY <1>1, <1>2, <1>3, <1>4, <1>6, <1>7, <1>8, <1>11, <1>12, EventTries
<1>13. CASE ~iccId
    <2>1. phone' = phone BY <1>1, <1>13 DEF SwitchInv, Typed, Phones
    <2>2. Wanted' => ~abroad BY <1>1 DEF Wanted
    <2>3. timers' \subseteq {"mccDelay", "replyCommonEvent"} BY <1>1 DEF SwitchInv, Typed
    <2> QED BY <1>1, <1>2, <1>4, <1>5, <1>9, <1>10, <1>11, <1>13, <2>1, <2>2, <2>3, EventLeaves
<1> QED BY <1>12, <1>13

LEMMA AccountKeeps ==
    ASSUME FollowInv, FollowInv', SwitchInv, NEW ok \in BOOLEAN, HandleSimAccountLoaded(ok)
    PROVE  SwitchInv'
<1> DEFINE w == View(cache')
           k == Calls
           s == ClearAllConnections(Calls, "CLEAR")
<1>1. /\ Take("ACCOUNT_LOADED", ok) /\ cache' = LoadSwitchValue(cache, ok) /\ queue' = Tail(queue)
      /\ UNCHANGED <<notices, policyDataOn, abroad, timers>> /\ observed' = Rows
      /\ IF phone.default THEN SetCalls(EstablishAllApnsIfConnectable(k, w)) ELSE SetCalls(s)
    BY DEF HandleSimAccountLoaded, HandleSimEvent, RegisterDataSettingObserver, Rows, Establish, Clear
<1>2. Head(queue) = "ACCOUNT_LOADED" /\ UNCHANGED phone BY <1>1, TakeGives
<1>3. MayStay BY <1>2 DEF MayStay, Clearing
<1>4. cache'.airplane = cache.airplane BY <1>1, ReadsKeepAirplane DEF FollowInv
<1>5. Wanted' => phone.default BY <1>2 DEF Wanted, SwitchesAllow
<1>6. w = View(cache') /\ k = Calls /\ Cleared(Calls, s) BY ClearedAll
<1> HIDE DEF w, k, s
<1>7. CASE phone.default BY <1>1, <1>3, <1>4, <1>6, <1>7, TakeTries
<1>8. CASE ~phone.default BY <1>1, <1>5, <1>6, <1>8, TakeLeaves
<1> QED BY <1>7, <1>8

LEMMA DefaultSlotKeeps ==
    ASSUME FollowInv, FollowInv', SwitchInv, NEW ok \in BOOLEAN, HandleDefaultDataSubscriptionChanged(ok)
    PROVE  SwitchInv'
<1> DEFINE k == Calls
           s == ClearAllConnections(Calls, "CLEAR")
<1>1. /\ Take("DEFAULT_SLOT", ok) /\ cache' = LoadSwitchValue(cache, ok)
      /\ UNCHANGED <<notices, observed, policyDataOn, abroad, timers>>
      /\ IF phone.default THEN SetCalls(k) /\ queue' = Append(Tail(queue), "ESTABLISH_ALL")
         ELSE SetCalls(s) /\ queue' = Tail(queue)
    BY DEF HandleDefaultDataSubscriptionChanged, Clear
<1>2. Head(queue) = "DEFAULT_SLOT" /\ UNCHANGED phone /\ queue # <<>> /\ queue \in Seq(Events)
    BY <1>1, TakeGives
<1>3. phone.default => MayStay BY <1>2 DEF MayStay, Clearing
<1>4. Wanted' => phone.default BY <1>2 DEF Wanted, SwitchesAllow
<1>5. k = Calls /\ Cleared(Calls, s) BY ClearedAll
<1> HIDE DEF k, s
<1>6. CASE phone.default
    <2>1. Tail(queue) \in Seq(Events) /\ "ESTABLISH_ALL" \in Events BY <1>2 DEF Events
    <2>2. Has(queue', "ESTABLISH_ALL") BY <1>1, <1>6, <2>1, HasAppend
    <2>3. Trigger' BY <2>2 DEF Trigger, Tries
    <2> QED BY <1>1, <1>3, <1>5, <1>6, <2>3, TakeLeaves
<1>7. CASE ~phone.default BY <1>1, <1>4, <1>5, <1>7, TakeLeaves
<1> QED BY <1>6, <1>7

LEMMA ResidentKeeps ==
    ASSUME FollowInv, FollowInv', SwitchInv, HandleResidentNetworkChanged
    PROVE  SwitchInv'
<1>1. /\ Take("RESIDENT", TRUE) /\ Rest /\ abroad' = (abroad \/ ~cache.roam)
      /\ timers' \subseteq timers \cup {"mccDelay"} /\ UNCHANGED <<holder, establishEvents>>
    BY DEF HandleResidentNetworkChanged
<1>2. queue' = Tail(queue) /\ UNCHANGED <<notices, observed, policyDataOn>>
    BY <1>1, RestGives
<1>3. Head(queue) = "RESIDENT" BY <1>1, TakeGives
<1>4. MayStay /\ ~Trying BY <1>3 DEF MayStay, Clearing, Trying, Tries
<1>5. SetCalls(Calls) BY <1>1 DEF SetCalls, Calls
<1>6. Wanted' => ~abroad BY <1>1 DEF Wanted
<1> QED BY <1>1, <1>2, <1>4, <1>5, <1>6, TakeLeaves

LEMMA FactoryResetKeeps ==
    ASSUME FollowInv, SwitchInv, NEW ok \in BOOLEAN, HandleFactoryReset(ok)
    PROVE  SwitchInv'
<1>0. /\ Typed /\ Held /\ Ordered(queue, phone.roaming) /\ DownInv /\ UpInv
      /\ db \in Switches /\ queue \in Seq(Events)
    BY DEF SwitchInv, FollowInv, TableTypeOK
<1>1. /\ queue # <<>> /\ Head(queue) = "FACTORY_RESET" /\ queue' = Tail(queue)
      /\ slips' = slips \cup Late \cup (IF ok THEN {} ELSE {"fault"})
      /\ IF ok THEN db' = [db EXCEPT !.user = TRUE, !.roam = FALSE] ELSE db' = db
      /\ notices' = notices \cup ({r \in {"user", "roam"} : ok /\ db[r] # (r = "user")} \cap observed)
      /\ UNCHANGED <<observed, policy, policyDataOn, internalDataOn, phone, abroad, saving, timers,
                     holder, establishEvents, retryEvents>>
    BY DEF HandleFactoryReset, Slip, switchVars, powerVars, callVars
<1>2. db'.airplane = db.airplane /\ (ok => db'.user /\ ~db'.roam) BY <1>0, <1>1 DEF Switches
<1>3. /\ ok /\ ~db.user /\ observed = Rows => "user" \in notices'
      /\ ok /\ db.roam /\ observed = Rows => "roam" \in notices'
      /\ notices \subseteq notices'
    BY <1>0, <1>1 DEF Switches, Rows
<1>4. Typed' BY <1>0, <1>1 DEF Typed, Calls, Late, Slips
<1>5. Held' BY <1>0, <1>1, <1>2 DEF Held, Up, Main
<1>6. Ordered(queue, phone.roaming)' BY <1>0, <1>1, OrderTail
<1>7. \A e : Has(queue, e) /\ Head(queue) # e => Has(queue', e) BY <1>0, <1>1, HasTail
<1>8. DownInv'
    <2> SUFFICES ASSUME slips' = {}, policy' # "force_open", Up' PROVE Allowed'
        BY DEF DownInv
    <2>1. ok /\ slips = {} /\ Up BY <1>1 DEF Up, Main
    <2>2. Allowed /\ observed = Rows BY <1>0, <1>1, <2>1 DEF DownInv, Held
    <2>3. db'.user /\ (db.roam => "roam" \in notices') BY <1>2, <1>3, <2>1, <2>2
    <2>4. phone.roaming => Has(queue', "ROAMING_ON") \/ "roam" \in notices' \/ Has(queue', "ROAMING_CHANGED")
        BY <1>1, <1>3, <1>7, <2>2, <2>3 DEF Allowed
    <2>5. /\ db.airplane => Has(queue', "RADIO_OFF")
          /\ ~phone.default => Has(queue', "DEFAULT_SLOT")
          /\ phone.sim \notin {"READY", "LOADED"} => Has(queue', "SIM_STATE")
        BY <1>1, <1>7, <2>2 DEF Allowed
    <2> QED BY <1>1, <1>2, <2>2, <2>3, <2>4, <2>5 DEF Allowed, Main
<1>9. UpInv'
    <2> SUFFICES ASSUME Wanted', Main'.state = "IDLE" PROVE Trigger'
        BY DEF UpInv
    <2>1. ok /\ observed = Rows /\ ~phone.roaming
        BY <1>1, <1>2 DEF Wanted, SwitchesAllow
    <2>2. CASE ~db.user BY <1>3, <2>1, <2>2 DEF Trigger
    <2>3. CASE db.user
        <3>1. Wanted /\ Main.state = "IDLE" BY <1>1, <1>2, <2>1, <2>3 DEF Wanted, SwitchesAllow, Main
        <3>2. Trigger BY <1>0, <3>1 DEF UpInv
        <3>3. Head(queue) \notin Tries BY <1>1 DEF Tries
        <3> QED BY <1>1, <1>3, <3>2, <3>3, TakeKeepsTrigger
    <2> QED BY <1>0, <2>2, <2>3 DEF Switches
<1> QED BY <1>4, <1>5, <1>6, <1>8, <1>9 DEF SwitchInv

\* Every event that the handler takes keeps the invariant.
LEMMA HandleEventKeeps ==
    ASSUME FollowInv, FollowInv', SwitchInv, HandleEvent
    PROVE  SwitchInv'
<1>1. Access \subseteq BOOLEAN BY DEF Access
<1>2. ASSUME NEW ok \in Access,
             \/ HandleDBSettingEnableChanged(ok) \/ RoamingStateOn(ok) \/ RoamingStateOff(ok)
             \/ HandleSimAccountLoaded(ok)
             \/ HandleDefaultDataSubscriptionChanged(ok) \/ HandleFactoryReset(ok)
             \/ \E iccId, other \in BOOLEAN : \/ HandleRecordsChanged(ok, iccId, other)
                                              \/ HandleSimStateChanged(ok, other, iccId)
      PROVE  SwitchInv'
    <2>1. ok \in BOOLEAN BY <1>1
    <2> QED BY <1>2, <2>1, EnableChangedKeeps, RoamingOnKeeps, RoamingOffKeeps, RecordsKeeps,
               AccountKeeps, DefaultSlotKeeps, FactoryResetKeeps, SimStateKeeps
<1> QED BY <1>2, RoamingChangedKeeps, EstablishKeeps, AttachedKeeps, EmergencyKeeps, RadioKeeps,
           ResidentKeeps DEF HandleEvent

-----------------------------------------------------------------------------
(* Steps that take no event and write no row: the calls, the timers and what *)
(* other threads do.                                                         *)

Still ==
    /\ UNCHANGED <<db, setter, notices, observed, cache, policy, policyDataOn, internalDataOn, queue>>
    /\ SamePhone /\ (saving' => saving) /\ slips \subseteq slips'

LEMMA StillKeeps ==
    ASSUME SwitchInv, Still, Main'.wanted = Main.wanted
    PROVE  /\ Ordered(queue, phone.roaming)' /\ (Allowed => Allowed')
           /\ Wanted' /\ ~saving /\ ~phone.gsmCall /\ ~abroad => Wanted
           /\ Trigger /\ ("default" \in establishEvents => "default" \in establishEvents') => Trigger'
           /\ (Up' => Up \/ Main'.wanted) /\ (Up' /\ ~Main'.wanted => "default" \in establishEvents') => Held'
<1>1. Ordered(queue, phone.roaming)' BY DEF SwitchInv, Still, SamePhone
<1>2. Allowed => Allowed' BY DEF Still, SamePhone, Allowed, UserPending
<1>3. Wanted' /\ ~saving /\ ~phone.gsmCall /\ ~abroad => Wanted
    BY DEF Still, SamePhone, Wanted, SwitchesAllow
<1>4. Trigger /\ ("default" \in establishEvents => "default" \in establishEvents') => Trigger'
    BY DEF Still, SamePhone, Trigger
<1>5. (Up' => Up \/ Main'.wanted) /\ (Up' /\ ~Main'.wanted => "default" \in establishEvents') => Held'
    BY DEF Still, SamePhone, SwitchInv, Held
<1> QED BY <1>1, <1>2, <1>3, <1>4, <1>5

\* The default call does not change ...
LEMMA MainStays ==
    ASSUME SwitchInv, Still, Typed', Main' = Main,
           "default" \in establishEvents => "default" \in establishEvents',
           Wanted' => ~saving /\ ~phone.gsmCall /\ ~abroad
    PROVE  SwitchInv'
<1>1. Held /\ DownInv /\ UpInv BY DEF SwitchInv
<1>2. Up' <=> Up BY DEF Up
<1>3. Held' /\ Ordered(queue, phone.roaming)' BY <1>1, <1>2, StillKeeps DEF Held
<1>4. DownInv' BY <1>1, <1>2, StillKeeps DEF DownInv, Still
<1>5. UpInv' BY <1>1, StillKeeps DEF UpInv
<1> QED BY <1>3, <1>4, <1>5 DEF SwitchInv

\* ... it is down, and what will try it is known ...
LEMMA MainDown ==
    ASSUME SwitchInv, Still, Typed', Main'.wanted = Main.wanted, ~Up',
           Main'.state = "IDLE" /\ Wanted' => Trigger'
    PROVE  SwitchInv'
<1>1. Held' /\ Ordered(queue, phone.roaming)' BY StillKeeps
<1>2. DownInv' /\ UpInv' BY DEF DownInv, UpInv
<1> QED BY <1>1, <1>2 DEF SwitchInv

\* ... or it is tried.
LEMMA MainTried ==
    ASSUME FollowInv', SwitchInv, Still, Late \subseteq slips', Typed', Main'.wanted = Main.wanted,
           Up' /\ ~Main'.wanted => "default" \in establishEvents',
           Main'.state = "IDLE" /\ Main'.wanted => ~Fits',
           Up' => Up \/ (Main'.wanted /\ Fits')
    PROVE  SwitchInv'
<1>1. Held' /\ Ordered(queue, phone.roaming)' BY StillKeeps
<1>2. Up /\ slips' = {} /\ policy' # "force_open" => Allowed'
    BY StillKeeps DEF SwitchInv, DownInv, Still
<1>3. slips \cup Late \subseteq slips' /\ UNCHANGED <<db, setter>> /\ cache'.airplane = cache.airplane
    BY DEF Still
<1>4. DownInv' /\ UpInv' BY <1>1, <1>2, <1>3, TryKeeps
<1> QED BY <1>1, <1>4 DEF SwitchInv

\* All holders are tried with nothing else going on.
LEMMA StillTries ==
    ASSUME FollowInv', SwitchInv, Still, Late \subseteq slips', slips' \subseteq Slips,
           UNCHANGED retryEvents, timers' \subseteq timers, NEW w,
           SetCalls(EstablishAllApnsIfConnectable(Calls, w)),
           w.cache = cache', w.policy = policyDataOn', w.abroad = abroad', w.saving = saving',
           w.gsmCall = phone'.gsmCall
    PROVE  SwitchInv'
<1>0. Sane(Calls) /\ Typed /\ Held BY DEF SwitchInv, Typed
<1>1. ChecksPass("default", w) <=> Fits' BY FitsThen DEF Still
<1> DEFINE s == Calls
<1>2. /\ Sane(s) /\ SetCalls(EstablishAllApnsIfConnectable(s, w)) /\ s.est = establishEvents
      /\ s.h["default"] = Main
    BY <1>0 DEF Calls, Main
<1> HIDE DEF s
<1>3. /\ Sane(Calls)' /\ establishEvents \subseteq establishEvents' /\ Main'.wanted = Main.wanted
      /\ Main'.state = "IDLE" /\ Main'.wanted => ~Fits'
      /\ Up' => Up \/ (Main'.wanted /\ Fits')
    BY <1>1, <1>2, TriedAll DEF Up
<1>4. Typed' BY <1>0, <1>3 DEF Typed, Still, SamePhone
<1>5. Up' /\ ~Main'.wanted => "default" \in establishEvents' BY <1>0, <1>3 DEF Held
<1> QED BY <1>3, <1>4, <1>5, MainTried

LEMMA MccDelayKeeps ==
    ASSUME FollowInv', SwitchInv, HandleMccChangeDelay
    PROVE  SwitchInv'
<1> DEFINE w == [View(cache) EXCEPT !.abroad = FALSE]
<1>1. /\ abroad' = FALSE /\ timers' \subseteq timers /\ slips' = slips \cup Late
      /\ SetCalls(EstablishAllApnsIfConnectable(Calls, w))
      /\ UNCHANGED <<db, setter, notices, observed, cache, policy, policyDataOn, internalDataOn, queue,
                     phone, saving, retryEvents>>
    BY DEF HandleMccChangeDelay, Slip, dbVars, switchVars, powerVars
<1>2. Still /\ slips' \subseteq Slips
    BY <1>1 DEF Still, SamePhone, SwitchInv, Typed, Late, Slips
<1>3. /\ w.cache = cache' /\ w.policy = policyDataOn' /\ w.abroad = abroad' /\ w.saving = saving'
      /\ w.gsmCall = phone'.gsmCall
    BY <1>1 DEF View
<1> HIDE DEF w
<1> QED BY <1>1, <1>2, <1>3, StillTries

LEMMA ExitPowerSaveKeeps ==
    ASSUME FollowInv', SwitchInv, OnHandleExitStrEvent
    PROVE  SwitchInv'
<1> DEFINE w == [View(cache) EXCEPT !.saving = FALSE]
<1>1. /\ saving' = FALSE /\ slips' = slips \cup Late
      /\ SetCalls(EstablishAllApnsIfConnectable(Calls, w))
      /\ UNCHANGED <<db, setter, notices, observed, cache, policy, policyDataOn, internalDataOn, queue,
                     phone, abroad, timers, retryEvents>>
    BY DEF OnHandleExitStrEvent, Slip, dbVars, switchVars
<1>2. Still /\ slips' \subseteq Slips
    BY <1>1 DEF Still, SamePhone, SwitchInv, Typed, Late, Slips
<1>3. /\ w.cache = cache' /\ w.policy = policyDataOn' /\ w.abroad = abroad' /\ w.saving = saving'
      /\ w.gsmCall = phone'.gsmCall
    BY <1>1 DEF View
<1> HIDE DEF w
<1> QED BY <1>1, <1>2, <1>3, StillTries

LEMMA VoiceCallKeeps ==
    ASSUME FollowInv', SwitchInv, HandleVoiceCallChanged
    PROVE  SwitchInv'
<1> DEFINE w == [View(cache) EXCEPT !.gsmCall = FALSE]
<1>1. /\ phone' = [phone EXCEPT !.gsmCall = ~@] /\ slips' = slips \cup Late
      /\ SetCalls(IF phone.gsmCall THEN EstablishAllApnsIfConnectable(Calls, w) ELSE Calls)
      /\ UNCHANGED <<db, setter, notices, observed, cache, policy, policyDataOn, internalDataOn, queue,
                     saving, abroad, timers, retryEvents>>
    BY DEF HandleVoiceCallChanged, Slip, dbVars, switchVars, powerVars
<1>2. SamePhone /\ phone'.gsmCall = ~phone.gsmCall BY <1>1 DEF SamePhone, SwitchInv, Typed, Phones
<1>3. Still /\ slips' \subseteq Slips
    BY <1>1, <1>2 DEF Still, SwitchInv, Typed, Late, Slips
<1>4. CASE phone.gsmCall
    <2>1. /\ w.cache = cache' /\ w.policy = policyDataOn' /\ w.abroad = abroad' /\ w.saving = saving'
          /\ w.gsmCall = phone'.gsmCall
        BY <1>1, <1>2, <1>4 DEF View
    <2>2. SetCalls(EstablishAllApnsIfConnectable(Calls, w)) BY <1>1, <1>4
    <2> HIDE DEF w
    <2> QED BY <1>1, <1>3, <2>1, <2>2, StillTries
<1>5. CASE ~phone.gsmCall
    <2>1. SetCalls(Calls) BY <1>1, <1>5
    <2>2. UNCHANGED <<holder, establishEvents>> BY <2>1 DEF SetCalls, Calls
    <2>3. Typed' BY <1>1, <1>2, <1>3, <2>2 DEF Typed, Calls, SwitchInv, SamePhone
    <2>4. ~Wanted' BY <1>2, <1>5 DEF Wanted
    <2> QED BY <1>3, <2>2, <2>3, <2>4, MainStays DEF Main
<1> QED BY <1>4, <1>5

\* One holder changes.
LEMMA OneHolder ==
    ASSUME NEW s, Sane(s), NEW a \in Holders,
           NEW x \in [state : CallStates, wanted : BOOLEAN, reason : {"NONE", "CLEAR", "RETRY", "CHANGE"}],
           x.state = "DISCONNECTING" => x.reason # "NONE", NEW e \in SUBSET Holders
    PROVE  LET t == [h |-> [s.h EXCEPT ![a] = x], est |-> e]
           IN  Sane(t) /\ t.h[a] = x /\ t.est = e /\ \A b \in Holders \ {a} : t.h[b] = s.h[b]
<1>1. s.h \in HolderSets BY DEF Sane
<1> DEFINE h == [s.h EXCEPT ![a] = x]
<1>2. h \in HolderSets /\ h[a] = x /\ \A b \in Holders \ {a} : h[b] = s.h[b]
    BY <1>1 DEF HolderSets
<1> HIDE DEF h
<1>3. Sane([h |-> h, est |-> e]) BY <1>2 DEF Sane
<1> QED BY <1>2, <1>3 DEF h

\* What a step of a call leaves alone.
CallStep ==
    /\ UNCHANGED <<db, setter, notices, observed, cache, policy, policyDataOn, internalDataOn, queue,
                   phone, abroad, saving>>
    /\ retryEvents' \subseteq Holders /\ timers' \subseteq timers
    /\ slips \subseteq slips' /\ slips' \subseteq Slips

LEMMA CallStepGives ==
    ASSUME SwitchInv, CallStep, Sane(Calls)'
    PROVE  Still /\ Typed' /\ (Fits' <=> Fits) /\ (Wanted' => ~saving /\ ~phone.gsmCall /\ ~abroad)
<1>1. Still BY DEF CallStep, Still, SamePhone, SwitchInv, Typed
<1>2. Typed' BY DEF CallStep, Typed, SwitchInv
<1>3. Fits' <=> Fits
    BY DEF CallStep, Fits, ChecksPass, View, CheckCellularDataSlotId, CheckAttachAndSimState,
           CheckRoamingState, IsAllowActiveData
<1>4. Wanted' => ~saving /\ ~phone.gsmCall /\ ~abroad
    BY DEF CallStep, Wanted, SwitchesAllow
<1> QED BY <1>1, <1>2, <1>3, <1>4

LEMMA EstablishMsgKeeps ==
    ASSUME FollowInv', SwitchInv, NEW a \in Holders, MsgEstablishDataConnection(a)
    PROVE  SwitchInv'
<1> DEFINE s == [Calls EXCEPT !.est = @ \ {a}]
           t == IF s.h[a].wanted THEN AttemptEstablishDataConnection(s, a, View(cache))
                ELSE ClearConnection(s, a, "CLEAR")
           fits == ChecksPass(a, View(cache))
<1>0. Sane(Calls) /\ Typed /\ Held BY DEF SwitchInv, Typed
<1>1. SetCalls(t) /\ slips' = slips \cup Late
      /\ UNCHANGED <<db, setter, notices, observed, cache, policy, policyDataOn, internalDataOn, queue,
                     phone, abroad, saving, retryEvents, timers>>
    BY DEF MsgEstablishDataConnection, Slip, dbVars, switchVars, powerVars
<1>2. CallStep BY <1>0, <1>1 DEF CallStep, Typed, Late, Slips
<1>3. Sane(s) /\ s.h = holder /\ s.est = establishEvents \ {a} BY <1>0 DEF Sane, Calls
<1>4. "default" \in Holders BY KnownHolders
<1>5. (a = "default" => (fits <=> Fits)) BY DEF Fits
<1> HIDE DEF s
<1>6. /\ Sane(t) /\ s.est \subseteq t.est
      /\ \A b \in Holders : t.h[b].wanted = holder[b].wanted
      /\ \A b \in Holders \ {a} : t.h[b] = holder[b]
      /\ holder[a].wanted =>
            t.h[a].state = IF holder[a].state = "IDLE" /\ fits THEN "CONNECTING" ELSE holder[a].state
      /\ ~holder[a].wanted => t.h[a].state \notin {"CONNECTING", "CONNECTED"}
    <2>1. CASE s.h[a].wanted
        <3> DEFINE w == View(cache)
        <3>1. t = AttemptEstablishDataConnection(s, a, w) BY <2>1
        <3> HIDE DEF w
        <3>2. /\ Sane(t) /\ s.est \subseteq t.est
              /\ \A b \in Holders : t.h[b].wanted = s.h[b].wanted
              /\ \A b \in Holders \ {a} : t.h[b] = s.h[b]
              /\ t.h[a].state = IF s.h[a].state = "IDLE" /\ ChecksPass(a, w)
                                THEN "CONNECTING" ELSE s.h[a].state
            BY <1>3, <3>1, AttemptEffect
        <3> HIDE DEF t
        <3> QED BY <1>3, <2>1, <3>2 DEF w
    <2>2. CASE ~s.h[a].wanted
        <3> DEFINE r == "CLEAR"
                   u == ClearConnection(s, a, r)
        <3>1. t = u BY <2>2
        <3>3. r \in {"CLEAR", "RETRY", "CHANGE"} /\ Sane(s) BY <1>3
        <3> HIDE DEF r, t
        <3>2. /\ Sane(u) /\ u.est = s.est
              /\ \A b \in Holders : u.h[b].wanted = s.h[b].wanted
              /\ \A b \in Holders \ {a} : u.h[b] = s.h[b]
              /\ u.h[a].state = IF s.h[a].state \in {"CONNECTING", "CONNECTED"}
                                THEN "DISCONNECTING" ELSE s.h[a].state
            BY <3>3, ClearConnectionEffect
        <3> HIDE DEF u
        <3> QED BY <1>3, <2>2, <3>1, <3>2
    <2> QED BY <2>1, <2>2
<1> HIDE DEF t, fits
<1>7. Sane(Calls)' /\ Main' = t.h["default"] /\ establishEvents' = t.est
    BY <1>1, <1>6, SetCallsGives
<1>8. Still /\ Typed' /\ (Fits' <=> Fits) /\ (Wanted' => ~saving /\ ~phone.gsmCall /\ ~abroad)
    BY <1>2, <1>7, CallStepGives
<1>9. CASE a # "default"
    <2>1. Main' = Main BY <1>4, <1>6, <1>7, <1>9 DEF Main
    <2>2. "default" \in establishEvents => "default" \in establishEvents' BY <1>3, <1>6, <1>7, <1>9
    <2> QED BY <1>8, <2>1, <2>2, MainStays
<1>10. CASE a = "default" /\ Main.wanted
    <2>1. Main'.wanted = Main.wanted /\ Main'.wanted BY <1>4, <1>6, <1>7, <1>10 DEF Main
    <2>2. Main'.state = IF Main.state = "IDLE" /\ Fits THEN "CONNECTING" ELSE Main.state
        BY <1>5, <1>6, <1>7, <1>10 DEF Main
    <2>3. Late \subseteq slips' BY <1>1
    <2>4. (Main'.state = "IDLE" => ~Fits') /\ (Up' => Up \/ Fits') BY <1>8, <2>2 DEF Up
    <2> QED BY <1>8, <2>1, <2>3, <2>4, MainTried
<1>11. CASE a = "default" /\ ~Main.wanted
    <2>1. Main'.wanted = Main.wanted BY <1>4, <1>6, <1>7, <1>11 DEF Main
    <2>2. ~Up' BY <1>6, <1>7, <1>11 DEF Main, Up
    <2>3. ~Wanted' BY <1>11, <2>1 DEF Wanted
    <2> QED BY <1>8, <2>1, <2>2, <2>3, MainDown
<1> QED BY <1>9, <1>10, <1>11

LEMMA RetryKeeps ==
    ASSUME SwitchInv, NEW a \in Holders, RetryToSetupDatacall(a)
    PROVE  SwitchInv'
<1>0. Sane(Calls) /\ Typed /\ "default" \in Holders BY KnownHolders DEF SwitchInv, Typed
<1>1. /\ retryEvents' \subseteq retryEvents
      /\ IF holder[a].state = "RETRYING"
         THEN SetCalls([h |-> [holder EXCEPT ![a].state = "IDLE"], est |-> establishEvents \cup {a}])
         ELSE SetCalls(Calls)
      /\ UNCHANGED <<db, setter, notices, observed, cache, policy, policyDataOn, internalDataOn, queue,
                     phone, abroad, saving, timers, slips>>
    BY DEF RetryToSetupDatacall, dbVars, switchVars, powerVars
<1>2. CallStep BY <1>0, <1>1 DEF CallStep, Typed
<1>3. CASE holder[a].state = "RETRYING"
    <2> DEFINE x == [holder[a] EXCEPT !.state = "IDLE"]
               s == Calls
               e == establishEvents \cup {a}
               t == [h |-> [s.h EXCEPT ![a] = x], est |-> e]
    <2>1. s.h = holder /\ holder \in HolderSets /\ e \in SUBSET Holders /\ Sane(s)
        BY <1>0 DEF Calls, Sane
    <2>2. /\ x \in [state : CallStates, wanted : BOOLEAN, reason : {"NONE", "CLEAR", "RETRY", "CHANGE"}]
          /\ x.state = "IDLE" /\ x.wanted = holder[a].wanted
        BY <2>1 DEF HolderSets, CallStates
    <2>3. SetCalls(t) /\ a \in e /\ establishEvents \subseteq e BY <1>1, <1>3, <2>1
    <2> HIDE DEF x, s, e
    <2>4. Sane(t) /\ t.h[a] = x /\ t.est = e /\ \A b \in Holders \ {a} : t.h[b] = s.h[b]
        BY <2>1, <2>2, OneHolder
    <2> HIDE DEF t
    <2>5. Sane(Calls)' /\ Main' = t.h["default"] /\ establishEvents' = t.est
        BY <2>3, <2>4, SetCallsGives
    <2>6. Still /\ Typed' /\ (Wanted' => ~saving /\ ~phone.gsmCall /\ ~abroad)
        BY <1>2, <2>5, CallStepGives
    <2>7. CASE a = "default"
        <3>1. Main'.wanted = Main.wanted /\ ~Up' BY <2>2, <2>4, <2>5, <2>7 DEF Up, Main
        <3>2. Trigger' BY <2>3, <2>4, <2>5, <2>7 DEF Trigger
        <3> QED BY <2>6, <3>1, <3>2, MainDown
    <2>8. CASE a # "default"
        <3>1. Main' = Main BY <1>0, <2>1, <2>4, <2>5, <2>8 DEF Main
        <3>2. establishEvents \subseteq establishEvents' BY <2>3, <2>4, <2>5
        <3> QED BY <2>6, <3>1, <3>2, MainStays
    <2> QED BY <2>7, <2>8
<1>4. CASE holder[a].state # "RETRYING"
    <2>1. UNCHANGED <<holder, establishEvents>> BY <1>1, <1>4 DEF SetCalls, Calls
    <2>2. Sane(Calls)' /\ Main' = Main BY <1>0, <2>1 DEF Calls, Main
    <2> QED BY <1>2, <2>1, <2>2, CallStepGives, MainStays
<1> QED BY <1>3, <1>4

LEMMA CompleteKeeps ==
    ASSUME SwitchInv, NEW a \in Holders, EstablishDataConnectionComplete(a)
    PROVE  SwitchInv'
<1>0. Sane(Calls) /\ Typed /\ "default" \in Holders /\ Held /\ DownInv
    BY KnownHolders DEF SwitchInv, Typed
<1>1. /\ holder[a].state = "CONNECTING" /\ holder' = [holder EXCEPT ![a].state = "CONNECTED"]
      /\ UNCHANGED <<db, setter, notices, observed, cache, policy, policyDataOn, internalDataOn, queue,
                     phone, abroad, saving, timers, slips, establishEvents, retryEvents>>
    BY DEF EstablishDataConnectionComplete, dbVars, switchVars, powerVars
<1>2. CallStep BY <1>0, <1>1 DEF CallStep, Typed
<1> DEFINE x == [holder[a] EXCEPT !.state = "CONNECTED"]
           s == Calls
           e == establishEvents
           t == [h |-> [s.h EXCEPT ![a] = x], est |-> e]
<1>3. s.h = holder /\ holder \in HolderSets /\ e \in SUBSET Holders /\ Sane(s)
    BY <1>0 DEF Calls, Sane
<1>4. /\ x \in [state : CallStates, wanted : BOOLEAN, reason : {"NONE", "CLEAR", "RETRY", "CHANGE"}]
      /\ x.state = "CONNECTED" /\ x.wanted = holder[a].wanted
    BY <1>3 DEF HolderSets, CallStates
<1>5. SetCalls(t) BY <1>1, <1>3 DEF SetCalls
<1> HIDE DEF x, s, e
<1>6. Sane(t) /\ t.h[a] = x /\ t.est = e /\ \A b \in Holders \ {a} : t.h[b] = s.h[b]
    BY <1>3, <1>4, OneHolder
<1> HIDE DEF t
<1>7. Sane(Calls)' /\ Main' = t.h["default"]
    BY <1>5, <1>6, SetCallsGives
<1>8. Still /\ Typed' /\ (Wanted' => ~saving /\ ~phone.gsmCall /\ ~abroad)
    BY <1>2, <1>7, CallStepGives
<1>9. CASE a = "default"
    <2>1. Main'.wanted = Main.wanted /\ Main'.state = "CONNECTED" /\ Up
        BY <1>1, <1>4, <1>6, <1>7, <1>9 DEF Up, Main
    <2>2. Held' /\ Ordered(queue, phone.roaming)' /\ (Allowed => Allowed')
        BY <1>0, <1>1, <1>8, <2>1, StillKeeps DEF Held
    <2>3. UpInv' BY <2>1 DEF UpInv
    <2>4. DownInv' BY <1>0, <1>1, <2>1, <2>2 DEF DownInv
    <2> QED BY <1>8, <2>2, <2>3, <2>4 DEF SwitchInv
<1>10. CASE a # "default"
    <2>1. Main' = Main BY <1>0, <1>3, <1>6, <1>7, <1>10 DEF Main
    <2> QED BY <1>1, <1>8, <2>1, MainStays
<1> QED BY <1>9, <1>10

\* The wanted holder with the highest priority is a holder.
LEMMA FirstWanted ==
    ASSUME NEW S \in SUBSET (1 .. Len(SortApnHolder)), S # {}
    PROVE  SortApnHolder[Min(S)] \in Holders
<1>1. Len(SortApnHolder) \in 1 .. 2 BY KnownHolders
<1>2. \E x \in S : \A y \in S : x <= y
    <2>1. CASE 1 \in S BY <1>1, <2>1
    <2>2. CASE 1 \notin S
        <3>1. PICK x \in S : TRUE OBVIOUS
        <3> DEFINE n == Len(SortApnHolder)
        <3>3. n \in {1, 2} /\ \A y \in S : y \in 1 .. n BY <1>1
        <3> HIDE DEF n
        <3>4. ASSUME NEW y \in S PROVE y = 2
            <4>1. y # 1 BY <2>2
            <4>2. y \in Int /\ 1 <= y /\ y <= 2 BY <3>3
            <4> QED BY <4>1, <4>2
        <3>2. \A y \in S : y = 2 BY <3>4
        <3> QED BY <3>1, <3>2
    <2> QED BY <2>1, <2>2
<1>3. Min(S) \in S BY <1>2 DEF Min
<1> QED BY <1>3, KnownHolders

\* A call that has gone down is not tried again at once, unless it was cleared.
LEMMA RetryOrClearEffect ==
    ASSUME NEW s, Sane(s), NEW a \in Holders, s.h[a].state = "IDLE",
           NEW reason \in {"CLEAR", "RETRY", "CHANGE"}, ~(s.h[a].wanted /\ reason = "CLEAR")
    PROVE  LET t == RetryOrClearConnection(s, a, reason)
           IN  /\ Sane(t) /\ s.est \subseteq t.est
               /\ \A b \in Holders \ {a} : t.h[b] = s.h[b]
               /\ t.h[a].wanted = s.h[a].wanted /\ t.h[a].state \in {"IDLE", "RETRYING"}
               /\ s.h[a].wanted /\ t.h[a].state = "IDLE" => reason = "CHANGE"
<1> DEFINE wanted == {i \in DOMAIN SortApnHolder : s.h[SortApnHolder[i]].wanted}
           e == s.est \cup {SortApnHolder[Min(wanted)]}
           t == RetryOrClearConnection(s, a, reason)
<1>0. s \in [h : HolderSets, est : SUBSET Holders] /\ s.h \in HolderSets BY DEF Sane
<1>1. CASE s.h[a].wanted /\ reason = "RETRY"
    <2> DEFINE x == [s.h[a] EXCEPT !.state = "RETRYING"]
               v == s.est
               u == [h |-> [s.h EXCEPT ![a] = x], est |-> v]
    <2>1. t = [s EXCEPT !.h[a].state = "RETRYING"] BY <1>1 DEF RetryOrClearConnection
    <2>2. t = u BY <1>0, <2>1 DEF HolderSets
    <2>3. /\ x \in [state : CallStates, wanted : BOOLEAN, reason : {"NONE", "CLEAR", "RETRY", "CHANGE"}]
          /\ x.state = "RETRYING" /\ x.wanted = s.h[a].wanted
        BY <1>0 DEF HolderSets, CallStates
    <2>4. v \in SUBSET Holders /\ v = s.est BY <1>0
    <2> HIDE DEF x, v, t
    <2>5. Sane(u) /\ u.h[a] = x /\ u.est = v /\ \A b \in Holders \ {a} : u.h[b] = s.h[b]
        BY <2>3, <2>4, OneHolder
    <2> HIDE DEF u
    <2> QED BY <2>2, <2>3, <2>4, <2>5 DEF t
<1>2. CASE t = [s EXCEPT !.est = e] /\ wanted # {} /\ (s.h[a].wanted => reason = "CHANGE")
    <2>1. wanted \in SUBSET (1 .. Len(SortApnHolder)) BY KnownHolders
    <2> HIDE DEF wanted
    <2>2. SortApnHolder[Min(wanted)] \in Holders BY <1>2, <2>1, FirstWanted
    <2>3. e \in SUBSET Holders /\ s.est \subseteq e BY <1>0, <2>2
    <2>4. t = [s EXCEPT !.est = e] BY <1>2
    <2> HIDE DEF e, t
    <2>5. t \in [h : HolderSets, est : SUBSET Holders] /\ t.h = s.h /\ t.est = e BY <1>0, <2>3, <2>4
    <2>6. Sane(t) BY <2>5 DEF Sane
    <2> QED BY <1>0, <1>2, <2>3, <2>5, <2>6 DEF t
<1>3. CASE t = s /\ (s.h[a].wanted => reason = "CHANGE") BY <1>0, <1>3
<1>4. CASE ~(s.h[a].wanted /\ reason = "RETRY")
    <2>1. s.h[a].wanted => reason = "CHANGE" BY <1>4
    <2>2. \/ t = [s EXCEPT !.est = e] /\ wanted # {}
          \/ t = s
        BY <1>4 DEF RetryOrClearConnection
    <2> QED BY <1>2, <1>3, <2>1, <2>2
<1> QED BY <1>1, <1>4

LEMMA DisconnectKeeps ==
    ASSUME FollowInv', SwitchInv, NEW a \in Holders, DisconnectDataComplete(a)
    PROVE  SwitchInv'
<1> DEFINE reason == holder[a].reason
           s == [Calls EXCEPT !.h[a].state = "IDLE", !.h[a].reason = "NONE"]
           t == RetryOrClearConnection(s, a, reason)
<1>0. Sane(Calls) /\ Typed /\ Held /\ "default" \in Holders BY KnownHolders DEF SwitchInv, Typed
<1>1. /\ holder[a].state = "DISCONNECTING" /\ SetCalls(t)
      /\ retryEvents' \subseteq retryEvents \cup {a} /\ timers' \subseteq timers
      /\ slips' = slips \cup (Late \cup (IF reason = "CHANGE" /\ s.h[a].wanted /\ a \notin t.est
                                         THEN {"swallowed"} ELSE {}))
      /\ UNCHANGED <<db, setter, notices, observed, cache, policy, policyDataOn, internalDataOn, queue,
                     phone, abroad, saving>>
    BY DEF DisconnectDataComplete, Slip, dbVars, switchVars
<1>2. CallStep
    <2>1. slips' \subseteq Slips BY <1>0, <1>1 DEF Typed, Late, Slips
    <2> QED BY <1>0, <1>1, <2>1 DEF CallStep, Typed
<1>3. reason \in {"CLEAR", "RETRY", "CHANGE"} /\ holder \in HolderSets
      /\ Calls = [h |-> holder, est |-> establishEvents] /\ establishEvents \in SUBSET Holders
    BY <1>0, <1>1 DEF Sane, Calls, HolderSets
<1>4. /\ Sane(s) /\ s.est = establishEvents
      /\ s.h[a].state = "IDLE" /\ s.h[a].wanted = holder[a].wanted
      /\ \A b \in Holders \ {a} : s.h[b] = holder[b]
    <2> DEFINE x == [[holder[a] EXCEPT !.state = "IDLE"] EXCEPT !.reason = "NONE"]
               k == Calls
               e == establishEvents
               u == [h |-> [k.h EXCEPT ![a] = x], est |-> e]
    <2>1. s = u
        <3> DEFINE y == [holder[a] EXCEPT !.state = "IDLE"]
                   v == [h |-> [holder EXCEPT ![a] = y], est |-> establishEvents]
        <3>1. [Calls EXCEPT !.h[a].state = "IDLE"] = v BY <1>3
        <3>2. s = [v EXCEPT !.h[a].reason = "NONE"] BY <3>1
        <3>3. v.h[a] = y /\ DOMAIN holder = Holders BY <1>3 DEF HolderSets
        <3>4. s = [h |-> [v.h EXCEPT ![a] = [y EXCEPT !.reason = "NONE"]], est |-> establishEvents]
            BY <3>2, <3>3
        <3>5. [v.h EXCEPT ![a] = x] = [holder EXCEPT ![a] = x] BY <3>3
        <3> QED BY <1>3, <3>4, <3>5
    <2>2. /\ x \in [state : CallStates, wanted : BOOLEAN, reason : {"NONE", "CLEAR", "RETRY", "CHANGE"}]
          /\ x.state = "IDLE" /\ x.wanted = holder[a].wanted
        BY <1>3 DEF HolderSets, CallStates
    <2>3. Sane(k) /\ k.h = holder /\ e \in SUBSET Holders /\ e = establishEvents BY <1>0, <1>3
    <2> HIDE DEF x, k, e, s
    <2>4. Sane(u) /\ u.h[a] = x /\ u.est = e /\ \A b \in Holders \ {a} : u.h[b] = k.h[b]
        BY <2>2, <2>3, OneHolder
    <2> HIDE DEF u
    <2> QED BY <2>1, <2>2, <2>3, <2>4
<1>5. \A b \in Holders : s.h[b].wanted = holder[b].wanted BY <1>4
<1>6. CASE holder[a].wanted /\ reason = "CLEAR"
    <2> DEFINE w == View(cache)
    <2>1. t = EstablishAllApnsIfConnectable(s, w) BY <1>4, <1>6 DEF RetryOrClearConnection
    <2>2. SetCalls(EstablishAllApnsIfConnectable(s, w)) BY <1>1, <2>1
    <2>3. ChecksPass("default", w) <=> Fits'
        BY <1>1 DEF Fits, ChecksPass, View, CheckCellularDataSlotId, CheckAttachAndSimState,
                    CheckRoamingState, IsAllowActiveData
    <2> HIDE DEF w, s, t
    <2>4. /\ Sane(Calls)' /\ s.est \subseteq establishEvents' /\ Main'.wanted = s.h["default"].wanted
          /\ Main'.state = "IDLE" /\ Main'.wanted => ~Fits'
          /\ Up' => s.h["default"].state \in {"CONNECTING", "CONNECTED"} \/ (Main'.wanted /\ Fits')
        BY <1>4, <2>2, <2>3, TriedAll
    <2>5. Main'.wanted = Main.wanted /\ (s.h["default"].state \in {"CONNECTING", "CONNECTED"} => Up)
        BY <1>0, <1>4, <1>5, <2>4 DEF Main, Up
    <2>6. Still /\ Typed' BY <1>2, <2>4, CallStepGives
    <2>7. Late \subseteq slips' BY <1>1
    <2>8. Up' /\ ~Main'.wanted => "default" \in establishEvents' BY <1>0, <1>4, <2>4, <2>5 DEF Held
    <2> QED BY <2>4, <2>5, <2>6, <2>7, <2>8, MainTried
<1>7. CASE ~(holder[a].wanted /\ reason = "CLEAR")
    <2> DEFINE r == reason
    <2>1. SetCalls(t) /\ Sane(s) /\ s.h[a].state = "IDLE" /\ r \in {"CLEAR", "RETRY", "CHANGE"}
          /\ ~(s.h[a].wanted /\ r = "CLEAR")
        BY <1>1, <1>3, <1>4, <1>7
    <2>2. r = "CHANGE" /\ s.h[a].wanted /\ a \notin t.est => "swallowed" \in slips' BY <1>1
    <2>3. t = RetryOrClearConnection(s, a, r) OBVIOUS
    <2> HIDE DEF s, t, r, reason
    <2>4. /\ Sane(t) /\ s.est \subseteq t.est /\ \A b \in Holders \ {a} : t.h[b] = s.h[b]
          /\ t.h[a].wanted = s.h[a].wanted /\ t.h[a].state \in {"IDLE", "RETRYING"}
          /\ s.h[a].wanted /\ t.h[a].state = "IDLE" => r = "CHANGE"
        BY <2>1, <2>3, RetryOrClearEffect
    <2>5. Sane(Calls)' /\ Main' = t.h["default"] /\ establishEvents' = t.est
        BY <2>1, <2>4, SetCallsGives
    <2>6. Still /\ Typed' /\ (Wanted' => ~saving /\ ~phone.gsmCall /\ ~abroad)
        BY <1>2, <2>5, CallStepGives
    <2>7. CASE a = "default"
        <3>1. Main'.wanted = Main.wanted /\ ~Up' BY <1>5, <2>4, <2>5, <2>7 DEF Up, Main
        <3>2. ASSUME Main'.state = "IDLE", Wanted' PROVE "default" \in establishEvents'
            BY <2>2, <2>4, <2>5, <2>7, <3>2 DEF Wanted
        <3>3. Main'.state = "IDLE" /\ Wanted' => Trigger' BY <3>2 DEF Trigger
        <3> QED BY <2>6, <3>1, <3>3, MainDown
    <2>8. CASE a # "default"
        <3>1. Main' = Main BY <1>0, <1>4, <2>4, <2>5, <2>8 DEF Main
        <3>2. establishEvents \subseteq establishEvents' BY <1>4, <2>4, <2>5
        <3> QED BY <2>6, <3>1, <3>2, MainStays
    <2> QED BY <2>7, <2>8
<1> QED BY <1>6, <1>7

LEMMA ReplyKeeps ==
    ASSUME SwitchInv, HandleReplyCommonEvent
    PROVE  SwitchInv'
<1>1. /\ timers' \subseteq timers
      /\ UNCHANGED <<db, setter, notices, observed, cache, policy, policyDataOn, internalDataOn, queue,
                     phone, abroad, saving, slips, holder, establishEvents, retryEvents>>
    BY DEF HandleReplyCommonEvent, dbVars, switchVars, callVars
<1>2. CallStep BY <1>1 DEF CallStep, SwitchInv, Typed
<1>3. Sane(Calls)' /\ Main' = Main BY <1>1 DEF SwitchInv, Typed, Calls, Main
<1> QED BY <1>1, <1>2, <1>3, CallStepGives, MainStays

\* The holders are cleared, nobody is tried.
LEMMA AllCleared ==
    ASSUME SwitchInv, SetCalls(ClearAllConnections(Calls, "CLEAR"))
    PROVE  Sane(Calls)' /\ ~Up' /\ Main'.wanted = Main.wanted /\ establishEvents' = establishEvents
<1> DEFINE t == ClearAllConnections(Calls, "CLEAR")
<1>1. Cleared(Calls, t) /\ SetCalls(t) /\ "default" \in Holders BY ClearedAll, KnownHolders
<1>2. Sane(Calls) BY DEF SwitchInv, Typed
<1> HIDE DEF t
<1>3. Sane(Calls)' /\ Main' = t.h["default"] /\ establishEvents' = t.est
    BY <1>1, SetCallsGives DEF Cleared
<1> QED BY <1>1, <1>2, <1>3 DEF Cleared, Up, Main, Calls

\* A switch that other threads turn: off clears the calls, on sends for the handler.
LEMMA SwitchTurnedKeeps ==
    ASSUME FollowInv, SwitchInv, NEW v \in BOOLEAN, SetPolicyDataOn(v) \/ ChangeConnectionForDsds(v)
    PROVE  SwitchInv'
<1>0. /\ Typed /\ Held /\ Ordered(queue, phone.roaming) /\ DownInv /\ queue \in Seq(Events)
      /\ "ESTABLISH_ALL" \in Events
    BY DEF SwitchInv, FollowInv, TableTypeOK, Events
<1>1. /\ SetCalls(IF v THEN Calls ELSE ClearAllConnections(Calls, "CLEAR"))
      /\ queue' = IF v THEN Append(queue, "ESTABLISH_ALL") ELSE queue
      /\ \/ policyDataOn' = v /\ internalDataOn' = internalDataOn
         \/ internalDataOn' = v /\ policyDataOn' = policyDataOn
      /\ UNCHANGED <<db, setter, notices, observed, cache, policy, phone, abroad, saving, timers,
                     retryEvents, slips>>
    BY DEF SetPolicyDataOn, ChangeConnectionForDsds, dbVars, powerVars
<1>2. CASE v
    <2>1. UNCHANGED <<holder, establishEvents>> BY <1>1, <1>2 DEF SetCalls, Calls
    <2>2. (Up' <=> Up) /\ Main' = Main BY <2>1 DEF Up, Main
    <2>3. Typed' BY <1>0, <1>1, <2>1 DEF Typed, Calls
    <2>4. Held' BY <1>0, <1>1, <2>1, <2>2 DEF Held
    <2>5. \A e : Has(queue, e) => Has(queue', e) BY <1>0, <1>1, <1>2, HasAppend
    <2>6. Has(queue', "ESTABLISH_ALL") BY <1>0, <1>1, <1>2, HasAppend
    <2>7. Ordered(queue, phone.roaming)' BY <1>0, <1>1, <1>2, OrderAppend
    <2>8. UserPending => UserPending'
        <3>1. Has(queue, "ENABLE_CHANGED") => Has(queue', "ENABLE_CHANGED") BY <2>5
        <3> QED BY <1>1, <3>1 DEF UserPending, Has
    <2>9. Allowed => Allowed' BY <1>1, <1>2, <2>2, <2>5, <2>8 DEF Allowed
    <2>10. DownInv' BY <1>0, <1>1, <2>2, <2>9 DEF DownInv
    <2>11. UpInv' BY <2>6 DEF UpInv, Trigger, Tries
    <2> QED BY <2>3, <2>4, <2>7, <2>10, <2>11 DEF SwitchInv
<1>3. CASE ~v
    <2>1. SetCalls(ClearAllConnections(Calls, "CLEAR")) /\ queue' = queue BY <1>1, <1>3
    <2>2. Sane(Calls)' /\ ~Up' /\ Main'.wanted = Main.wanted BY <2>1, AllCleared
    <2>3. Typed' BY <1>0, <1>1, <2>2 DEF Typed
    <2>4. Held' BY <1>0, <1>1, <2>2 DEF Held
    <2>5. DownInv' BY <2>2 DEF DownInv
    <2>6. UpInv' BY <1>1, <1>3 DEF UpInv, Wanted, SwitchesAllow
    <2> QED BY <1>0, <1>1, <2>1, <2>3, <2>4, <2>5, <2>6 DEF SwitchInv
<1> QED BY <1>2, <1>3

LEMMA EnterPowerSaveKeeps ==
    ASSUME SwitchInv, NEW hasIp \in BOOLEAN, EnterPowerSave(hasIp)
    PROVE  SwitchInv'
<1>0. /\ Typed /\ Held /\ Ordered(queue, phone.roaming) /\ DownInv /\ "default" \in Holders
    BY KnownHolders DEF SwitchInv
<1>1. /\ hasIp \in IpTypes
      /\ slips' = slips \cup (IF ~hasIp /\ Main.state = "CONNECTING" THEN {"savingLate"} ELSE {})
      /\ timers' \subseteq timers \cup {"replyCommonEvent"}
      /\ IF lastMsg = "ENTER" THEN SetCalls(Calls) /\ saving' = saving
         ELSE saving' = TRUE /\ (IF hasIp THEN SetCalls(ClearAllConnections(Calls, "CLEAR"))
                                 ELSE SetCalls(Calls))
      /\ UNCHANGED <<db, setter, notices, observed, cache, policy, policyDataOn, internalDataOn, queue,
                     phone, abroad, retryEvents>>
    BY DEF EnterPowerSave, OnHandleEnterStrEvent, Slip, dbVars, switchVars, Main
<1>2. slips \subseteq slips' /\ slips' \subseteq Slips BY <1>0, <1>1 DEF Typed, Slips
<1>3. CASE lastMsg = "ENTER"
    <2>1. UNCHANGED <<holder, establishEvents, saving>> BY <1>1, <1>3 DEF SetCalls, Calls
    <2>2. Typed' /\ Main' = Main BY <1>0, <1>1, <1>2, <2>1 DEF Typed, Calls, Main
    <2>3. Still BY <1>0, <1>1, <1>2, <2>1 DEF Still, SamePhone, Typed
    <2>4. Wanted' => ~saving /\ ~phone.gsmCall /\ ~abroad BY <1>1, <2>1 DEF Wanted, SwitchesAllow
    <2> QED BY <2>1, <2>2, <2>3, <2>4, MainStays
<1>4. CASE lastMsg # "ENTER" /\ hasIp
    <2>1. SetCalls(ClearAllConnections(Calls, "CLEAR")) /\ saving' = TRUE BY <1>1, <1>4
    <2>2. Sane(Calls)' /\ ~Up' /\ Main'.wanted = Main.wanted BY <2>1, AllCleared
    <2>3. Typed' BY <1>0, <1>1, <1>2, <2>2 DEF Typed
    <2>4. Held' BY <1>0, <1>1, <2>2 DEF Held
    <2>5. DownInv' BY <2>2 DEF DownInv
    <2>6. UpInv' BY <2>1 DEF UpInv, Wanted, SwitchesAllow
    <2> QED BY <1>0, <1>1, <2>3, <2>4, <2>5, <2>6 DEF SwitchInv
<1>5. CASE lastMsg # "ENTER" /\ ~hasIp
    <2>1. UNCHANGED <<holder, establishEvents>> /\ saving' = TRUE BY <1>1, <1>5 DEF SetCalls, Calls
    <2>2. Main' = Main /\ (Up' <=> Up) BY <2>1 DEF Main, Up
    <2>3. Typed' BY <1>0, <1>1, <1>2, <2>1 DEF Typed, Calls
    <2>4. Held' BY <1>0, <1>1, <2>1, <2>2 DEF Held
    <2>5. Main.wanted => Main.state # "CONNECTED"
        <3> SUFFICES ASSUME Main.wanted, Main.state = "CONNECTED" PROVE FALSE
            OBVIOUS
        <3> DEFINE with == {a \in Holders : holder[a].wanted /\ holder[a].state \notin {"IDLE", "RETRYING"}}
        <3>1. "default" \in with BY <1>0 DEF Main
        <3>2. IpTypes = IF holder[FirstAdded(with)].state = "CONNECTED" THEN {TRUE} ELSE BOOLEAN
            BY <3>1 DEF IpTypes
        <3>3. FirstAdded(with) = "default" BY <3>1 DEF FirstAdded
        <3>4. IpTypes = {TRUE} BY <3>2, <3>3 DEF Main
        <3> QED BY <1>1, <1>5, <3>4
    <2>6. DownInv'
        <3> SUFFICES ASSUME slips' = {}, policy' # "force_open", Up' PROVE Allowed'
            BY DEF DownInv
        <3>1. slips = {} /\ Main.state # "CONNECTING" BY <1>1, <1>5
        <3>2. Allowed /\ ~Main.wanted BY <1>0, <1>1, <2>2, <2>5, <3>1 DEF DownInv, Up
        <3> QED BY <1>1, <2>2, <3>2 DEF Allowed, UserPending
    <2>7. UpInv' BY <2>1 DEF UpInv, Wanted, SwitchesAllow
    <2> QED BY <1>0, <1>1, <2>3, <2>4, <2>6, <2>7 DEF SwitchInv
<1> QED BY <1>3, <1>4, <1>5

LEMMA RequestKeeps ==
    ASSUME SwitchInv, NEW a \in Holders, NEW on \in BOOLEAN, RequestNetwork(a, on)
    PROVE  SwitchInv'
<1>0. /\ Typed /\ Held /\ Ordered(queue, phone.roaming) /\ DownInv /\ UpInv /\ Sane(Calls)
      /\ "default" \in Holders
    BY KnownHolders DEF SwitchInv, Typed
<1>1. /\ "user" \in observed /\ (on => ~saving)
      /\ holder' = [holder EXCEPT ![a].wanted = on] /\ establishEvents' = establishEvents \cup {a}
      /\ UNCHANGED <<db, setter, notices, observed, cache, policy, policyDataOn, internalDataOn, queue,
                     phone, abroad, saving, retryEvents, timers, slips>>
    BY DEF RequestNetwork, dbVars, switchVars, powerVars
<1> DEFINE x == [holder[a] EXCEPT !.wanted = on]
           s == Calls
           e == establishEvents \cup {a}
           t == [h |-> [s.h EXCEPT ![a] = x], est |-> e]
<1>2. s.h = holder /\ holder \in HolderSets /\ e \in SUBSET Holders /\ Sane(s)
      /\ (holder[a].state = "DISCONNECTING" => holder[a].reason # "NONE")
    BY <1>0 DEF Calls, Sane
<1>3. /\ x \in [state : CallStates, wanted : BOOLEAN, reason : {"NONE", "CLEAR", "RETRY", "CHANGE"}]
      /\ x.state = holder[a].state /\ x.wanted = on /\ x.reason = holder[a].reason
    BY <1>2 DEF HolderSets, CallStates
<1>4. SetCalls(t) BY <1>1, <1>2 DEF SetCalls
<1> HIDE DEF x, s, e
<1>5. Sane(t) /\ t.h[a] = x /\ t.est = e /\ \A b \in Holders \ {a} : t.h[b] = s.h[b]
    BY <1>2, <1>3, OneHolder
<1> HIDE DEF t
<1>6. Sane(Calls)' /\ Main' = t.h["default"]
    BY <1>4, <1>5, SetCallsGives
<1>7. Typed' BY <1>0, <1>1, <1>6 DEF Typed
<1>8. CASE a = "default"
    <2>1. Main'.wanted = on /\ (Up' <=> Up) /\ "default" \in establishEvents'
        BY <1>1, <1>3, <1>5, <1>6, <1>8 DEF Up, Main
    <2>2. Held' BY <1>0, <1>1, <2>1 DEF Held
    <2>3. Allowed => Allowed' BY <1>1, <2>1 DEF Allowed, UserPending
    <2>4. DownInv' BY <1>0, <1>1, <2>1, <2>3 DEF DownInv
    <2>5. UpInv' BY <2>1 DEF UpInv, Trigger
    <2> QED BY <1>0, <1>1, <1>7, <2>2, <2>4, <2>5 DEF SwitchInv
<1>9. CASE a # "default"
    <2>1. Main' = Main BY <1>0, <1>2, <1>5, <1>6, <1>9 DEF Main
    <2>2. Still BY <1>0, <1>1 DEF Still, SamePhone, Typed
    <2>3. Wanted' => ~saving /\ ~phone.gsmCall /\ ~abroad BY <1>1 DEF Wanted, SwitchesAllow
    <2> QED BY <1>1, <1>7, <2>1, <2>2, <2>3, MainStays
<1> QED BY <1>8, <1>9

-----------------------------------------------------------------------------
(* The setters, the observers and the phone leave the calls alone; a row     *)
(* that is written is being told, an answer that changes is sent.            *)

Apart ==
    /\ UNCHANGED <<holder, establishEvents, retryEvents, timers, observed, policy, policyDataOn,
                   internalDataOn, saving, abroad>>
    /\ slips \subseteq slips' /\ slips' \subseteq Slips

LEMMA ApartKeeps ==
    ASSUME SwitchInv, Apart, phone' \in Phones, Ordered(queue, phone.roaming)',
           db'.airplane => ~phone'.attached,
           slips' = {} /\ observed = Rows /\ Allowed => Allowed',
           Wanted' => Trigger' \/ (Wanted /\ (Trigger => Trigger'))
    PROVE  SwitchInv'
<1>0. Typed /\ Held /\ DownInv /\ UpInv BY DEF SwitchInv
<1>1. Main' = Main /\ (Up' <=> Up) BY DEF Apart, Main, Up
<1>2. Typed' BY <1>0 DEF Apart, Typed, Calls
<1>3. Held' BY <1>0, <1>1 DEF Apart, Held
<1>4. Up /\ slips' = {} => observed = Rows BY <1>0 DEF Apart, Held
<1>5. DownInv' BY <1>0, <1>1, <1>4 DEF Apart, DownInv
<1>6. UpInv' BY <1>0, <1>1 DEF UpInv
<1> QED BY <1>2, <1>3, <1>5, <1>6 DEF SwitchInv

\* Only copies, or the state of a setter, change.
LEMMA CopiesKeep ==
    ASSUME SwitchInv, Apart, UNCHANGED <<db, notices, queue, phone>>
    PROVE  SwitchInv'
<1>1. Allowed => Allowed' BY DEF Apart, Allowed, UserPending, Main
<1>2. Wanted' => Wanted BY DEF Apart, Wanted, SwitchesAllow, Main
<1>3. Trigger => Trigger' BY DEF Apart, Trigger
<1>4. phone' \in Phones /\ Ordered(queue, phone.roaming)' /\ (db'.airplane => ~phone'.attached)
    BY DEF SwitchInv, Typed, Held
<1> QED BY <1>1, <1>2, <1>3, <1>4, ApartKeeps

\* The row of the data switch is written.
LEMMA UserRowKeeps ==
    ASSUME FollowInv, SwitchInv, Apart, NEW v \in BOOLEAN, db' = [db EXCEPT !.user = v], Notify("user"),
           UNCHANGED <<queue, phone>>
    PROVE  SwitchInv'
<1>1. db'.roam = db.roam /\ db'.airplane = db.airplane BY DEF FollowInv, TableTypeOK, Switches
<1>2. notices \subseteq notices' /\ (observed = Rows => "user" \in notices') BY DEF Notify, Rows
<1>3. slips' = {} /\ observed = Rows /\ Allowed => Allowed'
    BY <1>1, <1>2 DEF Apart, Allowed, UserPending, Main
<1>4. Wanted' => Trigger' BY <1>2 DEF Apart, Wanted, Trigger
<1>5. phone' \in Phones /\ Ordered(queue, phone.roaming)' /\ (db'.airplane => ~phone'.attached)
    BY <1>1 DEF SwitchInv, Typed, Held
<1> QED BY <1>3, <1>4, <1>5, ApartKeeps

\* The row of the roaming switch is written.
LEMMA RoamRowKeeps ==
    ASSUME FollowInv, SwitchInv, Apart, NEW v \in BOOLEAN, db' = [db EXCEPT !.roam = v], Notify("roam"),
           UNCHANGED <<queue, phone>>
    PROVE  SwitchInv'
<1>1. db'.user = db.user /\ db'.airplane = db.airplane BY DEF FollowInv, TableTypeOK, Switches
<1>2. notices \subseteq notices' /\ (observed = Rows => "roam" \in notices') BY DEF Notify, Rows
<1>3. slips' = {} /\ observed = Rows /\ Allowed => Allowed'
    BY <1>1, <1>2 DEF Apart, Allowed, UserPending, Main
<1>4. Wanted' /\ phone.roaming => Trigger' BY <1>2 DEF Apart, Wanted, Trigger
<1>5. Wanted' /\ ~phone.roaming => Wanted
    BY <1>1 DEF Apart, Wanted, SwitchesAllow, Main
<1>6. Trigger => Trigger' BY <1>2 DEF Apart, Trigger
<1>7. phone' \in Phones /\ Ordered(queue, phone.roaming)' /\ (db'.airplane => ~phone'.attached)
    BY <1>1 DEF SwitchInv, Typed, Held
<1> QED BY <1>3, <1>4, <1>5, <1>6, <1>7, ApartKeeps

LEMMA SettersKeep ==
    ASSUME FollowInv, SwitchInv, NEW v \in BOOLEAN, NEW ok \in BOOLEAN,
           \/ SetCellularDataEnable(v, ok) \/ SetCellularDataRoamingEnabled(v, ok)
           \/ SetterContinues(ok) \/ OtherWrites(v)
    PROVE  SwitchInv'
<1>0. slips \subseteq Slips /\ "fault" \in Slips BY DEF SwitchInv, Typed, Slips
<1>1. Apart /\ UNCHANGED <<queue, phone>>
    <2>1. CASE SetCellularDataEnable(v, ok)
        BY <1>0, <2>1 DEF SetCellularDataEnable, Slip, Apart, switchVars, powerVars, callVars
    <2>2. CASE SetCellularDataRoamingEnabled(v, ok)
        BY <1>0, <2>2 DEF SetCellularDataRoamingEnabled, Slip, Apart, switchVars, powerVars, callVars
    <2>3. CASE SetterContinues(ok)
        BY <1>0, <2>3 DEF SetterContinues, Apart, switchVars, powerVars, callVars
    <2>4. CASE OtherWrites(v)
        BY <1>0, <2>4 DEF OtherWrites, Apart, switchVars, powerVars, callVars
    <2> QED BY <2>1, <2>2, <2>3, <2>4
<1>2. CASE SetCellularDataEnable(v, ok) \/ SetCellularDataRoamingEnabled(v, ok)
    <2>1. UNCHANGED <<db, notices>> BY <1>2 DEF SetCellularDataEnable, SetCellularDataRoamingEnabled
    <2> QED BY <1>1, <2>1, CopiesKeep
<1>3. CASE OtherWrites(v)
    <2>1. db' = [db EXCEPT !.user = v] /\ Notify("user") BY <1>3 DEF OtherWrites
    <2> QED BY <1>1, <2>1, UserRowKeeps
<1>4. CASE SetUserDataOn(ok)
    <2> DEFINE x == setter.value
    <2>1. x \in BOOLEAN BY <1>4 DEF FollowInv, TableTypeOK, SetterStages, NoSetter, SetUserDataOn
    <2>2. \/ UNCHANGED <<db, notices>>
          \/ db' = [db EXCEPT !.user = x] /\ Notify("user")
        BY <1>4 DEF SetUserDataOn
    <2> HIDE DEF x
    <2> QED BY <1>1, <2>1, <2>2, CopiesKeep, UserRowKeeps
<1>5. CASE SetUserDataRoamingOn(ok)
    <2> DEFINE x == setter.value
    <2>1. x \in BOOLEAN BY <1>5 DEF FollowInv, TableTypeOK, SetterStages, NoSetter, SetUserDataRoamingOn
    <2>2. \/ UNCHANGED <<db, notices>>
          \/ db' = [db EXCEPT !.roam = x] /\ Notify("roam")
        BY <1>5 DEF SetUserDataRoamingOn
    <2> HIDE DEF x
    <2> QED BY <1>1, <2>1, <2>2, CopiesKeep, RoamRowKeeps
<1> QED BY <1>2, <1>3, <1>4, <1>5 DEF SetterContinues

LEMMA ObserverKeeps ==
    ASSUME FollowInv, SwitchInv, NEW row \in Rows, NEW ok \in BOOLEAN, OnChange(row, ok)
    PROVE  SwitchInv'
<1> DEFINE e == IF row = "user" THEN "ENABLE_CHANGED" ELSE "ROAMING_CHANGED"
<1>0. /\ slips \subseteq Slips /\ "fault" \in Slips /\ queue \in Seq(Events) /\ e \in Events
      /\ Ordered(queue, phone.roaming) /\ phone \in Phones /\ (db.airplane => ~phone.attached)
    BY DEF SwitchInv, Typed, Held, Slips, FollowInv, TableTypeOK, Events
<1>1. /\ notices' = notices \ {row} /\ slips' = slips \cup (IF ok THEN {} ELSE {"fault"})
      /\ queue' = (IF ~ok \/ row = "airplane" THEN queue ELSE Append(queue, e))
      /\ UNCHANGED <<db, phone, observed, policy, policyDataOn, internalDataOn, saving, abroad, timers,
                     holder, establishEvents, retryEvents>>
    BY DEF OnChange, Slip, switchVars, powerVars, callVars
<1>2. Apart BY <1>0, <1>1 DEF Apart
<1>3. e # "ROAMING_ON" OBVIOUS
<1>4. row = "user" => e = "ENABLE_CHANGED" OBVIOUS
<1>5. row = "roam" => e = "ROAMING_CHANGED" OBVIOUS
<1> HIDE DEF e
<1>6. \A f : Has(queue, f) => Has(queue', f) BY <1>0, <1>1, HasAppend
<1>7. /\ ok /\ row = "user" => Has(queue', "ENABLE_CHANGED")
      /\ ok /\ row = "roam" => Has(queue', "ROAMING_CHANGED")
    BY <1>0, <1>1, <1>4, <1>5, HasAppend
<1>8. Ordered(queue, phone.roaming)' BY <1>0, <1>1, <1>3, OrderAppend
<1>9. ASSUME ok, UserPending PROVE UserPending'
    <2>1. Has(queue, "ENABLE_CHANGED") => Has(queue', "ENABLE_CHANGED") BY <1>6
    <2> QED BY <1>1, <1>7, <1>9, <2>1 DEF UserPending, Has
<1>10. ASSUME ok, Allowed PROVE Allowed'
    <2>1. db'.user \/ UserPending' BY <1>1, <1>9, <1>10 DEF Allowed
    <2>2. phone'.roaming /\ ~db'.roam =>
             Has(queue', "ROAMING_ON") \/ "roam" \in notices' \/ Has(queue', "ROAMING_CHANGED")
        BY <1>1, <1>6, <1>7, <1>10 DEF Allowed
    <2> QED BY <1>1, <1>6, <1>10, <2>1, <2>2 DEF Allowed, Main
<1>11. ASSUME ok, Trigger PROVE Trigger'
    <2>1. \A f \in Tries : Has(queue, f) => Has(queue', f) BY <1>6
    <2>2. "user" \in notices => "user" \in notices' \/ Has(queue', "ENABLE_CHANGED") BY <1>1, <1>7, <1>11
    <2>3. "ENABLE_CHANGED" \in Tries BY DEF Tries
    <2>4. "roam" \in notices => "roam" \in notices' \/ Has(queue', "ROAMING_CHANGED") BY <1>1, <1>7, <1>11
    <2> QED BY <1>1, <1>6, <1>11, <2>1, <2>2, <2>3, <2>4 DEF Trigger
<1>12. Wanted' => ok /\ Wanted BY <1>1 DEF Wanted, SwitchesAllow, Main
<1>13. slips' = {} => ok BY <1>1
<1> QED BY <1>0, <1>1, <1>2, <1>8, <1>10, <1>11, <1>12, <1>13, ApartKeeps

LEMMA HasOne ==
    ASSUME NEW e \in Events
    PROVE  <<e>> \in Seq(Events) /\ \A f : Has(<<e>>, f) <=> f = e
<1>1. <<e>> \in Seq(Events) /\ Len(<<e>>) = 1 /\ <<e>>[1] = e OBVIOUS
<1> QED BY <1>1 DEF Has

LEMMA HasPair ==
    /\ <<"RECORDS_LOADED", "ACCOUNT_LOADED">> \in Seq(Events)
    /\ Has(<<"RECORDS_LOADED", "ACCOUNT_LOADED">>, "ACCOUNT_LOADED")
    /\ ~Has(<<"RECORDS_LOADED", "ACCOUNT_LOADED">>, "ROAMING_ON")
<1> DEFINE q == <<"RECORDS_LOADED", "ACCOUNT_LOADED">>
<1>1. q \in Seq(Events) BY DEF Events
<1>2. Len(q) = 2 /\ q[1] = "RECORDS_LOADED" /\ q[2] = "ACCOUNT_LOADED" OBVIOUS
<1> HIDE DEF q
<1>3. \A i \in 1 .. Len(q) : q[i] # "ROAMING_ON" BY <1>2
<1>4. 2 \in 1 .. Len(q) BY <1>2
<1>5. Has(q, "ACCOUNT_LOADED") /\ ~Has(q, "ROAMING_ON") BY <1>2, <1>3, <1>4 DEF Has
<1> QED BY <1>1, <1>5 DEF q

\* The core service has changed an answer and sends what tells of it.
LEMMA AnswerKeeps ==
    ASSUME FollowInv, SwitchInv, Apart, NEW ev \in Seq(Events), queue' = queue \o ev,
           notices \subseteq notices', db'.user = db.user, db'.roam = db.roam, phone' \in Phones,
           Has(ev, "ROAMING_ON") => phone'.roaming,
           db'.airplane => ~phone'.attached,
           db'.airplane => db.airplane \/ Has(ev, "RADIO_OFF"),
           phone'.roaming # phone.roaming => ev = <<IF phone'.roaming THEN "ROAMING_ON" ELSE "ROAMING_OFF">>,
           phone'.default # phone.default => Has(ev, "DEFAULT_SLOT"),
           phone'.sim = phone.sim \/ phone'.sim \in {"READY", "LOADED"} \/ Has(ev, "SIM_STATE"),
           Wanted' => \/ phone' = phone /\ db' = db
                      \/ phone'.roaming # phone.roaming \/ \E e \in Tries : Has(ev, e)
    PROVE  SwitchInv'
<1>0. queue \in Seq(Events) /\ Ordered(queue, phone.roaming) /\ phone \in Phones
    BY DEF SwitchInv, Typed, FollowInv, TableTypeOK
<1>1. \A e : (Has(queue, e) => Has(queue', e)) /\ (Has(ev, e) => Has(queue', e)) BY <1>0, HasConcat
<1>2. /\ phone'.roaming /\ ~phone.roaming => Has(ev, "ROAMING_ON")
      /\ ~phone'.roaming /\ phone.roaming => ev = <<"ROAMING_OFF">> /\ Has(ev, "ROAMING_OFF")
    BY <1>0, HasOne DEF Phones, Events
<1>3. Ordered(queue, phone.roaming)'
    <2>1. CASE phone'.roaming BY <2>1 DEF Ordered
    <2>2. CASE ~phone'.roaming /\ phone.roaming BY <1>0, <1>2, <2>2, OrderClosed
    <2>3. CASE ~phone'.roaming /\ ~phone.roaming
        <3>1. phone'.roaming = phone.roaming BY <1>0, <2>3 DEF Phones
        <3>2. Ordered(queue \o ev, phone.roaming) BY <1>0, <2>3, OrderConcat
        <3> QED BY <3>1, <3>2
    <2> QED BY <2>1, <2>2, <2>3
<1>4. UserPending => UserPending'
    <2>1. Has(queue, "ENABLE_CHANGED") => Has(queue', "ENABLE_CHANGED") BY <1>1
    <2> QED BY <2>1 DEF UserPending, Has
<1>5. ASSUME Allowed PROVE Allowed'
    <2>1. phone'.roaming /\ ~db'.roam =>
             Has(queue', "ROAMING_ON") \/ "roam" \in notices' \/ Has(queue', "ROAMING_CHANGED")
        BY <1>1, <1>2, <1>5 DEF Allowed
    <2>2. ~phone'.default => Has(queue', "DEFAULT_SLOT") BY <1>0, <1>1, <1>5 DEF Allowed
    <2>3. phone'.sim \notin {"READY", "LOADED"} => Has(queue', "SIM_STATE") BY <1>1, <1>5 DEF Allowed
    <2>4. db'.airplane => Has(queue', "RADIO_OFF") BY <1>1, <1>5 DEF Allowed
    <2>5. Main' = Main /\ UNCHANGED <<policyDataOn, internalDataOn, saving>> BY DEF Apart, Main
    <2> QED BY <1>4, <1>5, <2>1, <2>2, <2>3, <2>4, <2>5 DEF Allowed
<1>6. ASSUME Wanted' PROVE Trigger' \/ (Wanted /\ (Trigger => Trigger'))
    <2>1. CASE \E e \in Tries : Has(ev, e) BY <1>1, <2>1 DEF Trigger
    <2>2. CASE phone'.roaming # phone.roaming BY <1>0, <1>1, <1>2, <2>2 DEF Trigger, Phones
    <2>3. CASE phone' = phone /\ db' = db
        <3>1. Wanted BY <1>6, <2>3 DEF Apart, Wanted, SwitchesAllow, Main
        <3>2. \A e \in Tries : Has(queue, e) => Has(queue', e) BY <1>1
        <3>3. Trigger => Trigger' BY <1>1, <2>3, <3>2 DEF Apart, Trigger
        <3> QED BY <3>1, <3>3
    <2> QED BY <1>6, <2>1, <2>2, <2>3
<1> QED BY <1>3, <1>5, <1>6, ApartKeeps

LEMMA PhoneGives ==
    ASSUME SwitchInv, NEW kind, NEW p, NEW ev, PhoneChanges(kind, p, ev), UNCHANGED observed
    PROVE  Apart /\ phone' = p /\ queue' = queue \o ev
BY DEF PhoneChanges, Apart, SwitchInv, Typed, switchVars, powerVars, callVars

LEMMA PhoneKeeps ==
    ASSUME FollowInv, SwitchInv,
           \/ Attach \/ Detach \/ Roams \/ DefaultSlotChanges \/ AirplaneChanges \/ CrossesBorder
           \/ FactoryReset \/ SimLoads
           \/ \E s \in {"LOCKED", "ABSENT"} : SimChanges(s)
           \/ SimReady
           \/ \E e \in {"EMERGENCY_ON", "EMERGENCY_OFF"} : Emergency(e)
    PROVE  SwitchInv'
<1>0. phone \in Phones /\ db \in Switches /\ (db.airplane => ~phone.attached)
    BY DEF SwitchInv, Typed, Held, FollowInv, TableTypeOK
<1>1. CASE Attach
    <2> DEFINE ev == <<"PS_ATTACHED">>
    <2>1. ~db.airplane /\ UNCHANGED <<db, setter, notices, observed>> BY <1>1 DEF Attach, dbVars
    <2>2. Apart /\ phone' = [phone EXCEPT !.attached = TRUE] /\ queue' = queue \o ev
        BY <1>1, <2>1, PhoneGives DEF Attach
    <2>3. ev \in Seq(Events) /\ \A f : Has(ev, f) <=> f = "PS_ATTACHED" BY HasOne DEF Events
    <2>4. /\ phone' \in Phones /\ phone'.roaming = phone.roaming /\ phone'.default = phone.default
          /\ phone'.sim = phone.sim
        BY <1>0, <2>2 DEF Phones
    <2>5. \E e \in Tries : Has(ev, e) BY <2>3 DEF Tries
    <2> HIDE DEF ev
    <2> QED BY <2>1, <2>2, <2>3, <2>4, <2>5, AnswerKeeps
<1>2. CASE Detach
    <2> DEFINE ev == <<>>
    <2>1. UNCHANGED <<db, setter, notices, observed>> BY <1>2 DEF Detach, dbVars
    <2>2. Apart /\ phone' = [phone EXCEPT !.attached = FALSE] /\ queue' = queue \o ev
        BY <1>2, <2>1, PhoneGives DEF Detach
    <2>3. ev \in Seq(Events) /\ \A f : ~Has(ev, f) BY DEF Has
    <2>4. /\ phone' \in Phones /\ phone'.roaming = phone.roaming /\ phone'.default = phone.default
          /\ phone'.sim = phone.sim /\ ~phone'.attached
        BY <1>0, <2>2 DEF Phones
    <2>5. ~Wanted' BY <2>4 DEF Wanted
    <2> HIDE DEF ev
    <2> QED BY <1>0, <2>1, <2>2, <2>3, <2>4, <2>5, AnswerKeeps
<1>3. CASE Roams
    <2> DEFINE x == IF phone.roaming THEN "ROAMING_OFF" ELSE "ROAMING_ON"
               ev == <<x>>
    <2>1. UNCHANGED <<db, setter, notices, observed>> BY <1>3 DEF Roams, dbVars
    <2>2. Apart /\ phone' = [phone EXCEPT !.roaming = ~@] /\ queue' = queue \o ev
        <3>1. PhoneChanges("roaming", [phone EXCEPT !.roaming = ~@], ev) BY <1>3 DEF Roams
        <3> HIDE DEF ev
        <3> QED BY <2>1, <3>1, PhoneGives
    <2>3. ev \in Seq(Events) /\ \A f : Has(ev, f) <=> f = x
        <3>1. x \in Events BY DEF Events
        <3> HIDE DEF x
        <3> QED BY <3>1, HasOne
    <2>4. /\ phone' \in Phones /\ phone'.roaming = ~phone.roaming /\ phone'.default = phone.default
          /\ phone'.sim = phone.sim /\ phone'.attached = phone.attached
        BY <1>0, <2>2 DEF Phones
    <2>5. x = (IF phone'.roaming THEN "ROAMING_ON" ELSE "ROAMING_OFF") BY <1>0, <2>4 DEF Phones
    <2>6. ev = <<IF phone'.roaming THEN "ROAMING_ON" ELSE "ROAMING_OFF">> BY <2>5
    <2>7. Has(ev, "ROAMING_ON") => phone'.roaming BY <2>3, <2>4
    <2>8. phone'.roaming # phone.roaming BY <1>0, <2>4 DEF Phones
    <2> HIDE DEF ev, x
    <2> QED BY <1>0, <2>1, <2>2, <2>3, <2>4, <2>6, <2>7, <2>8, AnswerKeeps
<1>4. CASE DefaultSlotChanges
    <2> DEFINE ev == <<"DEFAULT_SLOT">>
    <2>1. UNCHANGED <<db, setter, notices, observed>> BY <1>4 DEF DefaultSlotChanges, dbVars
    <2>2. Apart /\ phone' = [phone EXCEPT !.default = ~@] /\ queue' = queue \o ev
        BY <1>4, <2>1, PhoneGives DEF DefaultSlotChanges
    <2>3. ev \in Seq(Events) /\ \A f : Has(ev, f) <=> f = "DEFAULT_SLOT" BY HasOne DEF Events
    <2>4. /\ phone' \in Phones /\ phone'.roaming = phone.roaming /\ phone'.attached = phone.attached
          /\ phone'.sim = phone.sim
        BY <1>0, <2>2 DEF Phones
    <2>5. \E e \in Tries : Has(ev, e) BY <2>3 DEF Tries
    <2> HIDE DEF ev
    <2> QED BY <1>0, <2>1, <2>2, <2>3, <2>4, <2>5, AnswerKeeps
<1>5. CASE AirplaneChanges
    <2> DEFINE x == IF db.airplane THEN "RADIO_ON" ELSE "RADIO_OFF"
               ev == <<x>>
    <2>1. /\ db' = [db EXCEPT !.airplane = ~@] /\ notices \subseteq notices' /\ UNCHANGED observed
          /\ PhoneChanges("airplane", [phone EXCEPT !.attached = FALSE], ev)
        BY <1>5 DEF AirplaneChanges, Notify
    <2>2. x \in Events /\ (~db.airplane => x = "RADIO_OFF") /\ x # "ROAMING_ON" BY DEF Events
    <2>3. ev \in Seq(Events) /\ \A f : Has(ev, f) <=> f = x
        <3> HIDE DEF x
        <3> QED BY <2>2, HasOne
    <2> HIDE DEF x, ev
    <2>4. Apart /\ phone' = [phone EXCEPT !.attached = FALSE] /\ queue' = queue \o ev
        BY <2>1, PhoneGives
    <2>5. /\ phone' \in Phones /\ phone'.roaming = phone.roaming /\ phone'.default = phone.default
          /\ phone'.sim = phone.sim /\ ~phone'.attached
        BY <1>0, <2>4 DEF Phones
    <2>6. db'.user = db.user /\ db'.roam = db.roam /\ db'.airplane = ~db.airplane BY <1>0, <2>1 DEF Switches
    <2>7. ~Wanted' BY <2>5 DEF Wanted
    <2> QED BY <2>1, <2>2, <2>3, <2>4, <2>5, <2>6, <2>7, AnswerKeeps
<1>6. CASE CrossesBorder \/ FactoryReset \/ \E e \in {"EMERGENCY_ON", "EMERGENCY_OFF"} : Emergency(e)
    <2>1. PICK x \in {"RESIDENT", "FACTORY_RESET", "EMERGENCY_ON", "EMERGENCY_OFF"} :
             /\ \E kind : PhoneChanges(kind, phone, <<x>>)
             /\ UNCHANGED <<db, setter, notices, observed>>
        BY <1>6 DEF CrossesBorder, FactoryReset, Emergency, dbVars
    <2> DEFINE ev == <<x>>
    <2>2. Apart /\ phone' = phone /\ queue' = queue \o ev BY <2>1, PhoneGives
    <2>3. ev \in Seq(Events) /\ \A f : Has(ev, f) <=> f = x BY HasOne DEF Events
    <2>4. x # "ROAMING_ON" OBVIOUS
    <2> HIDE DEF ev
    <2> QED BY <1>0, <2>1, <2>2, <2>3, <2>4, AnswerKeeps
<1>7. CASE SimLoads
    <2> DEFINE ev == <<"RECORDS_LOADED", "ACCOUNT_LOADED">>
    <2>1. /\ phone' = [phone EXCEPT !.sim = "LOADED"] /\ queue' = queue \o ev
          /\ UNCHANGED <<db, setter, notices, observed>> /\ Apart
        BY <1>7 DEF SimLoads, dbVars, Apart, SwitchInv, Typed, switchVars, powerVars, callVars
    <2>2. /\ phone' \in Phones /\ phone'.roaming = phone.roaming /\ phone'.default = phone.default
          /\ phone'.sim = "LOADED" /\ phone'.attached = phone.attached
        BY <1>0, <2>1 DEF Phones
    <2>3. ev \in Seq(Events) /\ Has(ev, "ACCOUNT_LOADED") /\ ~Has(ev, "ROAMING_ON") BY HasPair
    <2>4. \E e \in Tries : Has(ev, e) BY <2>3 DEF Tries
    <2> HIDE DEF ev
    <2> QED BY <1>0, <2>1, <2>2, <2>3, <2>4, AnswerKeeps
<1>8. CASE \/ \E s \in {"LOCKED", "ABSENT"} : SimChanges(s)
           \/ SimReady
    <2> DEFINE ev == <<"SIM_STATE">>
    <2>1. UNCHANGED <<db, setter, notices, observed>> BY <1>8 DEF SimChanges, SimReady, dbVars
    <2>2. PICK p : /\ p \in Phones /\ p.roaming = phone.roaming /\ p.default = phone.default
                   /\ p.sim # "LOADED" /\ p.attached = phone.attached
                   /\ PhoneChanges("sim", p, ev)
        BY <1>0, <1>8 DEF SimChanges, SimReady, Phones
    <2>3. Apart /\ phone' = p /\ queue' = queue \o ev BY <2>1, <2>2, PhoneGives
    <2>4. ev \in Seq(Events) /\ \A f : Has(ev, f) <=> f = "SIM_STATE" BY HasOne DEF Events
    <2>5. ~Wanted' BY <2>2, <2>3 DEF Wanted
    <2> HIDE DEF ev
    <2> QED BY <1>0, <2>1, <2>2, <2>3, <2>4, <2>5, AnswerKeeps
<1> QED BY <1>1, <1>2, <1>3, <1>4, <1>5, <1>6, <1>7, <1>8

\* Another card comes when the calls are down, or unnoticed.
LEMMA NewCardKeeps ==
    ASSUME FollowInv, SwitchInv, NEW v \in BOOLEAN, NewCard(v)
    PROVE  SwitchInv'
<1>0. Typed /\ Held /\ Ordered(queue, phone.roaming) /\ db \in Switches /\ queue \in Seq(Events)
    BY DEF SwitchInv, FollowInv, TableTypeOK
<1>1. /\ db' = [db EXCEPT !.roam = v] /\ observed' = observed \ {"roam"}
      /\ phone' = [phone EXCEPT !.sim = "READY", !.newCard = TRUE]
      /\ queue' = Append(queue, "SIM_STATE")
      /\ slips' = slips \cup (IF "user" \in observed THEN {"swapped"} ELSE {})
      /\ UNCHANGED <<holder, establishEvents, retryEvents, timers>>
    BY DEF NewCard, Slip, callVars
<1>2. /\ phone' \in Phones /\ phone'.roaming = phone.roaming /\ phone'.attached = phone.attached
      /\ db'.airplane = db.airplane
    BY <1>0, <1>1 DEF Typed, Phones, Switches
<1>3. Main' = Main /\ (Up' <=> Up) BY <1>1 DEF Main, Up
<1>4. Typed' BY <1>0, <1>1, <1>2 DEF Typed, Calls, Slips
<1>5. Held' BY <1>0, <1>1, <1>2, <1>3 DEF Held
<1>6. Ordered(queue, phone.roaming)'
    <2>1. "SIM_STATE" \in Events BY DEF Events
    <2> QED BY <1>0, <1>1, <1>2, <2>1, OrderAppend
<1>7. DownInv' BY <1>0, <1>1, <1>3 DEF DownInv, Held
<1>8. ~Wanted' BY <1>1 DEF Wanted, Rows
<1> QED BY <1>4, <1>5, <1>6, <1>7, <1>8 DEF SwitchInv, UpInv

-----------------------------------------------------------------------------
(* The invariants are inductive together.                                    *)

LEMMA SwitchStep == FollowInv /\ SwitchInv /\ [Next]_vars => SwitchInv'
<1> SUFFICES ASSUME FollowInv, SwitchInv, [Next]_vars PROVE SwitchInv'
    OBVIOUS
<1>0. FollowInv' /\ Access \subseteq BOOLEAN BY FollowStep DEF Access
<1>1. CASE Environment
    <2>1. CASE \E v \in BOOLEAN : OtherWrites(v) BY <2>1, SettersKeep
    <2>2. CASE \E v \in BOOLEAN, ok \in Access : SetCellularDataEnable(v, ok) \/ SetCellularDataRoamingEnabled(v, ok)
        BY <1>0, <2>2, SettersKeep
    <2>3. CASE \E roam \in BOOLEAN : NewCard(roam) BY <2>3, NewCardKeeps
    <2> QED BY <1>0, <1>1, <2>1, <2>2, <2>3, PhoneKeeps, SwitchTurnedKeeps, EnterPowerSaveKeeps,
               ExitPowerSaveKeeps, RequestKeeps, VoiceCallKeeps DEF Environment
<1>2. CASE SimLoads BY <1>2, PhoneKeeps
<1>3. CASE Setter
    <2>1. PICK ok \in BOOLEAN : SetterContinues(ok) BY <1>0, <1>3 DEF Setter
    <2> QED BY <2>1, SettersKeep
<1>4. CASE Observer
    <2>1. PICK row \in Rows, ok \in BOOLEAN : OnChange(row, ok) BY <1>0, <1>4 DEF Observer, Rows
    <2> QED BY <2>1, ObserverKeeps
<1>5. CASE HandleEvent BY <1>0, <1>5, HandleEventKeeps
<1>6. CASE \E a \in Holders : HandleCall(a)
    BY <1>0, <1>6, EstablishMsgKeeps, RetryKeeps, CompleteKeeps, DisconnectKeeps DEF HandleCall
<1>7. CASE HandleMccChangeDelay BY <1>0, <1>7, MccDelayKeeps
<1>8. CASE HandleReplyCommonEvent BY <1>8, ReplyKeeps
<1>9. CASE UNCHANGED vars
    <2>1. /\ Apart /\ UNCHANGED <<db, notices, queue, phone>>
        BY <1>9 DEF vars, dbVars, switchVars, powerVars, callVars, Apart, SwitchInv, Typed
    <2> QED BY <2>1, CopiesKeep
<1> QED BY <1>1, <1>2, <1>3, <1>4, <1>5, <1>6, <1>7, <1>8, <1>9 DEF Next

LEMMA SwitchInitially == Init => SwitchInv
<1> SUFFICES ASSUME Init PROVE SwitchInv
    OBVIOUS
<1>0. "default" \in Holders BY KnownHolders
<1>1. holder \in HolderSets /\ Main.state = "CONNECTED" /\ Main.wanted
      /\ \A a \in Holders : holder[a].state # "DISCONNECTING"
    <2>1. holder = [a \in Holders |-> [state |-> IF a = "default" THEN "CONNECTED" ELSE "IDLE",
                                       wanted |-> a = "default", reason |-> "NONE"]]
        BY DEF Init
    <2>2. holder \in HolderSets BY <2>1 DEF HolderSets, CallStates
    <2> QED BY <1>0, <2>1, <2>2 DEF Main
<1>2. Sane(Calls) BY <1>1 DEF Init, Sane, Calls
<1>3. phone \in Phones BY DEF Init, Phones
<1>4. Typed BY <1>2, <1>3 DEF Init, Typed
<1>5. Held BY <1>1 DEF Init, Held, Rows
<1>6. Ordered(queue, phone.roaming)
    <2>1. queue = <<>> BY DEF Init
    <2>2. Len(queue) = 0 BY <2>1
    <2> QED BY <2>2 DEF Ordered
<1>7. DownInv
    <2>1. /\ db.user /\ ~db.airplane /\ ~phone.roaming /\ phone.default /\ phone.sim = "LOADED"
          /\ policyDataOn /\ internalDataOn /\ ~saving
        BY DEF Init
    <2> QED BY <2>1 DEF DownInv, Allowed
<1>8. UpInv BY <1>1 DEF UpInv
<1> QED BY <1>4, <1>5, <1>6, <1>7, <1>8 DEF SwitchInv

LEMMA SwitchAlways == Spec => [](FollowInv /\ SwitchInv)
<1>1. FollowInv /\ SwitchInv /\ [Next]_vars => (FollowInv /\ SwitchInv)' BY FollowStep, SwitchStep
<1>2. Init => FollowInv /\ SwitchInv BY FollowInitially, SwitchInitially
<1> QED BY <1>1, <1>2, PTL DEF Spec

(* The rows, the copies, the setter, the events and the calls keep their   *)
(* types: every event that is sent is one the handler knows, a holder is   *)
(* never left in a state that no event takes it out of (PROFILE_STATE_     *)
(* FAILED), and the only excuses are those that Slips names.               *)
THEOREM SwitchTypeCorrect == Spec => []SwitchTypeOK
<1>1. FollowInv /\ SwitchInv => SwitchTypeOK
    <2> SUFFICES ASSUME FollowInv, SwitchInv PROVE SwitchTypeOK
        OBVIOUS
    <2>1. db \in Switches /\ cache \in Switches /\ SetterStages /\ notices \subseteq Rows
          /\ observed \subseteq Rows /\ queue \in Seq(Events)
        BY DEF FollowInv, TableTypeOK
    <2>2. setter.key \in {"none", "user", "roam"} /\ setter.stage \in {"none", "write", "store"}
        BY <2>1 DEF SetterStages, NoSetter
    <2>3. Range(queue) \subseteq Events BY <2>1 DEF Range
    <2>4. Sane(Calls) /\ retryEvents \subseteq Holders /\ slips \subseteq Slips
          /\ timers \subseteq {"mccDelay", "replyCommonEvent"}
        BY DEF SwitchInv, Typed
    <2>5. holder \in HolderSets /\ establishEvents \subseteq Holders BY <2>4 DEF Sane, Calls
    <2> QED BY <2>1, <2>2, <2>3, <2>4, <2>5 DEF SwitchTypeOK, Switches, Rows, HolderSets, CallStates
<1> QED BY <1>1, SwitchAlways, PTL

(* No wake-up is lost: whatever the order in which the data, roaming,      *)
(* airplane, policy and power-save switches, the SIM, the attach state,    *)
(* the default slot and the voice calls change, and whoever changes them,  *)
(* a default call that is wanted and allowed is up once nothing is on its  *)
(* way to the handler.  AttemptEstablishDataConnection is tried once per   *)
(* event and never polled.                                                 *)
THEOREM WantedAlwaysUp == Spec => []WantedIsUp
<1>1. SwitchInv => WantedIsUp
    <2> SUFFICES ASSUME SwitchInv, Quiet, Wanted PROVE Main.state = "CONNECTED"
        BY DEF WantedIsUp, Wanted, Main, Rows
    <2>1. Main.state \in {"IDLE", "CONNECTED"} BY KnownHolders DEF Quiet, Main
    <2>2. \A e : ~Has(queue, e) BY DEF Quiet, Has
    <2>3. ~Trigger BY <2>2 DEF Quiet, Trigger
    <2> QED BY <2>1, <2>3 DEF SwitchInv, UpInv
<1> QED BY <1>1, SwitchAlways, PTL

(* No call outlives its permission: once nothing is on its way to the      *)
(* handler, a default call that is up is one that the switches, airplane   *)
(* mode, power-save mode, the default slot and the SIM allow, after any    *)
(* number of changes in any order.                                         *)
THEOREM ForbiddenAlwaysDown == Spec => []ForbiddenIsDown
<1>1. SwitchInv => ForbiddenIsDown
    <2> SUFFICES ASSUME SwitchInv, Quiet, slips = {}, policy # "force_open", Main.state = "CONNECTED"
                 PROVE  SwitchesAllow
        BY DEF ForbiddenIsDown, Main
    <2>1. \A e : ~Has(queue, e) BY DEF Quiet, Has
    <2>2. ~UserPending BY <2>1 DEF Quiet, UserPending, Has
    <2>3. Allowed BY DEF SwitchInv, DownInv, Up
    <2>4. Main.wanted BY DEF SwitchInv, Held, Up, Quiet
    <2> QED BY <2>1, <2>2, <2>3, <2>4 DEF Allowed, Quiet, SwitchesAllow
<1> QED BY <1>1, SwitchAlways, PTL
=============================================================================

-------------------------- MODULE ApnManagerProofs --------------------------
(***************************************************************************)
(* APN tables of any length, any types and holders: merging loses no type, *)
(* the retry policy stays in its list and is fair, and a call gets an APN  *)
(* that fits.                                                              *)
(*                                                                         *)
(* The handler's functions are operators on h, so the invariant is a       *)
(* predicate Good on its values, and each function is shown to keep it.    *)
(* Loops are recursive functions; ListProofs has the induction for them.   *)
(***************************************************************************)
EXTENDS ApnManager, ListProofs

\* The provers do not know that "default" is a string.
TypeNames == STRING \cup {"default"}

ProfileIds == {p.id : p \in Profiles}

\* A row of a table, what merging makes of it, and a profile that is left.
Row == [id : Nat \ {0}, apn : STRING, types : SUBSET STRING, proto : STRING, opt : STRING,
        mvno : BOOLEAN, edited : BOOLEAN]

Merging == [id : ProfileIds \cup {NoId}, apn : STRING, types : SUBSET TypeNames, proto : STRING,
            opt : STRING, mvno : BOOLEAN, edited : BOOLEAN]

Profile == [id : ProfileIds, apn : STRING, types : SUBSET TypeNames, proto : STRING, opt : STRING,
            mvno : BOOLEAN, edited : BOOLEAN]

Item == [gen : Nat, p : Profile]

OnlyOnce(list) == \A i, j \in DOMAIN list : list[i].id = list[j].id => i = j

LEMMA TableTyped ==
    ASSUME NEW t \in Tables
    PROVE  t \in Seq(Profiles) /\ OnlyOnce(t)
<1>1. t \in Seq(Row) /\ OnlyOnce(t) BY ApnAssumption DEF Row, OnlyOnce
<1>2. \A i \in 1 .. Len(t) : t[i] \in Profiles BY <1>1 DEF Profiles, Range
<1> QED BY <1>1, <1>2

LEMMA ProfilesTyped ==
    /\ Profiles \subseteq Profile /\ Profile \subseteq Merging
    /\ ProfileIds \subseteq Nat \ {0} /\ NoId \in Int /\ NoId \notin Nat
<1>1. \A t \in Tables : t \in Seq(Row) BY ApnAssumption DEF Row
<1>2. Profiles \subseteq Row
    <2> SUFFICES ASSUME NEW t \in Tables, NEW p \in Range(t) PROVE p \in Row
        BY DEF Profiles
    <2>1. PICK i \in DOMAIN t : p = t[i] BY DEF Range
    <2> QED BY <1>1, <2>1
<1>3. ProfileIds \subseteq Nat \ {0} BY <1>2 DEF ProfileIds, Row
<1>4. Profiles \subseteq Profile BY <1>2 DEF Profile, ProfileIds, Row, TypeNames
<1>5. Profile \subseteq Merging BY DEF Profile, Merging
<1> QED BY <1>3, <1>4, <1>5 DEF NoId

LEMMA IdsTyped == \A x \in ProfileIds \cup {NoId} : x \in Int /\ (x # NoId <=> x \in Nat \ {0})
<1>1. NoId \in Int /\ NoId \notin Nat BY ProfilesTyped
<1>2. \A x \in ProfileIds : x \in Nat \ {0} BY ProfilesTyped
<1> QED BY <1>1, <1>2

-----------------------------------------------------------------------------
(* Merging. *)

\* What merging rows into m has kept: ids are those of rows and at most once there, a profile that
\* was merged into another is none that serves default, and every type of every row is served.
Merged(m, rs) ==
    /\ m \in [vec : [1 .. Len(rs) -> Merging], preferId : Int]
    /\ \A i, j \in 1 .. Len(rs) : m.vec[i].id # NoId /\ m.vec[i].id = m.vec[j].id => i = j
    /\ \A i \in 1 .. Len(rs) : m.vec[i].id = NoId => ~HasDefault(m.vec[i])
    /\ \A i \in 1 .. Len(rs) : m.vec[i].id # NoId =>
          \E k \in 1 .. Len(rs) : rs[k].id = m.vec[i].id /\ rs[k].apn = m.vec[i].apn
    /\ \A k \in 1 .. Len(rs) : \A type \in rs[k].types :
          \E i \in 1 .. Len(rs) :
              m.vec[i].id # NoId /\ m.vec[i].apn = rs[k].apn /\ type \in m.vec[i].types

(* Of two similar profiles the one that serves default is kept, and all types with it. *)
LEMMA MergePdpProfileKeeps ==
    ASSUME NEW new \in Merging, NEW old \in Merging, new.id # NoId,
           old.id = NoId => ~HasDefault(old), IsSimilarPdpProfile(new, old)
    PROVE  LET r == MergePdpProfile(new, old)
           IN  /\ r.kept \in Merging /\ r.gone \in Merging /\ r.kept.id # NoId
               /\ r.kept.apn = new.apn /\ r.kept.apn = old.apn
               /\ new.types \subseteq r.kept.types /\ old.types \subseteq r.kept.types
               /\ ~HasDefault(r.gone)
               /\ r.kept.id = new.id \/ r.kept.id = old.id
<1> USE DEF MergePdpProfile, IsSimilarPdpProfile
<1>1. ~(HasDefault(new) /\ HasDefault(old)) /\ new.apn = old.apn OBVIOUS
<1>2. CASE HasDefault(old)
    <2>1. old.id # NoId /\ ~HasDefault(new) BY <1>1, <1>2
    <2> QED BY <1>1, <1>2, <2>1 DEF Merging
<1>3. CASE ~HasDefault(old)
    BY <1>1, <1>3 DEF Merging
<1> QED BY <1>2, <1>3

LEMMA MergePairKeeps ==
    ASSUME NEW rs \in Seq(Profiles), NEW m, Merged(m, rs),
           NEW i \in 1 .. Len(rs), NEW j \in 1 .. Len(rs), i < j
    PROVE  Merged(MergePair(m, i, j), rs)
<1> DEFINE n == Len(rs)
           new == m.vec[i]
           old == m.vec[j]
           r == MergePdpProfile(new, old)
           o == MergePair(m, i, j)
<1>1. CASE new.id = NoId \/ ~IsSimilarPdpProfile(new, old)
    BY <1>1 DEF MergePair
<1>2. CASE new.id # NoId /\ IsSimilarPdpProfile(new, old)
    <2>1. new \in Merging /\ old \in Merging /\ (old.id = NoId => ~HasDefault(old)) /\ n \in Nat
        BY DEF Merged
    <2>2. /\ r.kept \in Merging /\ r.gone \in Merging /\ r.kept.id # NoId
          /\ r.kept.apn = new.apn /\ r.kept.apn = old.apn
          /\ new.types \subseteq r.kept.types /\ old.types \subseteq r.kept.types
          /\ ~HasDefault(r.gone)
          /\ r.kept.id = new.id \/ r.kept.id = old.id
        BY <1>2, <2>1, MergePdpProfileKeeps
    <2> DEFINE gone == [r.gone EXCEPT !.id = NoId]
    <2>3. o = [vec |-> [m.vec EXCEPT ![i] = r.kept, ![j] = gone],
               preferId |-> IF m.preferId = r.gone.id THEN r.kept.id ELSE m.preferId]
        BY <1>2 DEF MergePair
    <2>4. gone \in Merging /\ gone.id = NoId /\ ~HasDefault(gone)
        BY <2>2 DEF Merging, HasDefault
    <2>5. i # j OBVIOUS
    <2> HIDE DEF r, o, gone, n
    <2>6. r.kept.id \in Int
        <3>1. r.kept.id \in ProfileIds \cup {NoId} BY <2>2 DEF Merging
        <3> QED BY <3>1, IdsTyped
    <2>7. m.vec \in [1 .. n -> Merging] /\ m.preferId \in Int BY DEF Merged, n
    <2>8. /\ o \in [vec : [1 .. n -> Merging], preferId : Int]
          /\ o.vec[i] = r.kept /\ o.vec[j] = gone
          /\ \A k \in 1 .. n : k # i /\ k # j => o.vec[k] = m.vec[k]
        BY <2>2, <2>3, <2>4, <2>5, <2>6, <2>7 DEF n
    <2> HIDE DEF new, old
    <2>9. \A k, l \in 1 .. n : o.vec[k].id # NoId /\ o.vec[k].id = o.vec[l].id => k = l
        <3> SUFFICES ASSUME NEW k \in 1 .. n, NEW l \in 1 .. n,
                            o.vec[k].id # NoId, o.vec[k].id = o.vec[l].id
                     PROVE  k = l
            OBVIOUS
        <3>1. k # j /\ l # j BY <2>4, <2>8
        <3>2. \A x \in 1 .. n : x # j /\ m.vec[x].id # NoId =>
                  (m.vec[x].id = new.id => x = i) /\ m.vec[x].id # old.id
            BY DEF Merged, n, new, old
        <3>3. \A x \in 1 .. n : x # j /\ x # i => o.vec[x].id = m.vec[x].id BY <2>8
        <3>4. CASE k = i /\ l # i BY <2>2, <2>8, <3>1, <3>2, <3>3, <3>4
        <3>5. CASE l = i /\ k # i BY <2>2, <2>8, <3>1, <3>2, <3>3, <3>5
        <3>6. CASE k # i /\ l # i BY <3>1, <3>3, <3>6 DEF Merged, n
        <3> QED BY <3>4, <3>5, <3>6
    <2>10. \A k \in 1 .. n : o.vec[k].id = NoId => ~HasDefault(o.vec[k])
        BY <2>2, <2>4, <2>8 DEF Merged, n
    <2>11. \A k \in 1 .. n : o.vec[k].id # NoId =>
               \E l \in 1 .. n : rs[l].id = o.vec[k].id /\ rs[l].apn = o.vec[k].apn
        <3> SUFFICES ASSUME NEW k \in 1 .. n, o.vec[k].id # NoId
                     PROVE  \E l \in 1 .. n : rs[l].id = o.vec[k].id /\ rs[l].apn = o.vec[k].apn
            OBVIOUS
        <3>1. k # j BY <2>4, <2>8
        <3>2. PICK x \in 1 .. n : m.vec[x].id = o.vec[k].id /\ m.vec[x].apn = o.vec[k].apn
            <4>1. CASE k = i BY <2>2, <2>8, <4>1 DEF new, old, n
            <4>2. CASE k # i BY <2>8, <3>1, <4>2
            <4> QED BY <4>1, <4>2
        <3> QED BY <3>2 DEF Merged, n
    <2>12. \A k \in 1 .. n : \A type \in rs[k].types :
               \E l \in 1 .. n :
                   o.vec[l].id # NoId /\ o.vec[l].apn = rs[k].apn /\ type \in o.vec[l].types
        <3> SUFFICES ASSUME NEW k \in 1 .. n, NEW type \in rs[k].types
                     PROVE  \E l \in 1 .. n :
                                o.vec[l].id # NoId /\ o.vec[l].apn = rs[k].apn /\ type \in o.vec[l].types
            OBVIOUS
        <3>1. PICK x \in 1 .. n :
                  m.vec[x].id # NoId /\ m.vec[x].apn = rs[k].apn /\ type \in m.vec[x].types
            BY DEF Merged, n
        <3>2. CASE x \in {i, j}
            <4>1. o.vec[i].id # NoId /\ o.vec[i].apn = rs[k].apn /\ type \in o.vec[i].types
                BY <2>2, <2>8, <3>1, <3>2 DEF new, old
            <4> QED BY <4>1 DEF n
        <3>3. CASE x \notin {i, j} BY <2>8, <3>1, <3>3
        <3> QED BY <3>2, <3>3
    <2> QED BY <2>8, <2>9, <2>10, <2>11, <2>12 DEF Merged, n, o
<1> QED BY <1>1, <1>2

LEMMA MergeLaterKeeps ==
    ASSUME NEW rs \in Seq(Profiles), NEW m, Merged(m, rs), NEW i \in 1 .. Len(rs)
    PROVE  Merged(MergeLater(m, i), rs)
<1> DEFINE n == Len(rs)
           D == {o \in [vec : [1 .. n -> Merging], preferId : Int] : Merged(o, rs)}
           Body(o, j) == IF i < j THEN MergePair(o, i, j) ELSE o
           step == [x \in D \X (1 .. n) |-> Body(x[1], x[2])]
<1>1. \A o : Merged(o, rs) <=> o \in D BY DEF Merged
<1>2. \A o \in D, j \in 1 .. n : Body(o, j) \in D
    <2> SUFFICES ASSUME NEW o \in D, NEW j \in 1 .. n PROVE Merged(Body(o, j), rs)
        BY <1>1
    <2>1. Merged(o, rs) BY <1>1
    <2>2. CASE i < j BY <2>1, <2>2, MergePairKeeps
    <2> QED BY <2>1, <2>2
<1>3. m \in D /\ n \in Nat /\ Len(m.vec) = n
    <2>1. m.vec \in [1 .. n -> Merging] /\ n \in Nat BY DEF Merged
    <2> QED BY <1>1, <2>1
<1> HIDE DEF D, n, Body
<1>4. IsStep(step, D, n) BY <1>2 DEF IsStep
<1>5. PICK f : IsRun(f, D, n, m, step)
    <2> HIDE DEF step
    <2> QED BY <1>3, <1>4, LoopRuns
<1>6. \A j \in 1 .. n : f[j] = Body(f[j - 1], j)
    <2> SUFFICES ASSUME NEW j \in 1 .. n PROVE f[j] = Body(f[j - 1], j)
        OBVIOUS
    <2>1. f[j - 1] \in D BY <1>3, <1>5 DEF IsRun
    <2> QED BY <1>5, <2>1 DEF IsRun
<1> DEFINE Def(g) == [j \in 0 .. n |-> IF j = 0 THEN m ELSE Body(g[j - 1], j)]
           after == CHOOSE g : g = Def(g)
<1>7. f = Def(f) BY <1>3, <1>5, <1>6 DEF IsRun
<1>8. after = Def(after) BY <1>7
<1>9. after[n] \in D
    <2> HIDE DEF after
    <2>1. after[0] = m /\ \A j \in 1 .. n : after[j] = Body(after[j - 1], j) BY <1>3, <1>8
    <2>2. \A j \in 1 .. n : after[j - 1] \in D => after[j] \in D BY <1>2, <2>1
    <2> QED BY <1>3, <2>1, <2>2, LoopStays
<1>10. MergeLater(m, i) = after[n]
    BY <1>3 DEF MergeLater, Body
<1> QED BY <1>1, <1>9, <1>10

LEMMA MergeAllKeeps ==
    ASSUME NEW rs \in Seq(Profiles), OnlyOnce(rs), NEW id \in Int
    PROVE  Merged(MergeAll(rs, id), rs)
<1> DEFINE n == Len(rs)
           D == {o \in [vec : [1 .. n -> Merging], preferId : Int] : Merged(o, rs)}
           m == [vec |-> rs, preferId |-> id]
           step == [x \in D \X (1 .. n) |-> MergeLater(x[1], x[2])]
<1>1. \A o : Merged(o, rs) <=> o \in D BY DEF Merged
<1>2. \A o \in D, j \in 1 .. n : MergeLater(o, j) \in D BY <1>1, MergeLaterKeeps
<1>3. m \in D /\ n \in Nat
    <2>1. n \in Nat /\ rs \in [1 .. n -> Profiles] OBVIOUS
    <2>2. \A k \in 1 .. n : rs[k] \in Profile /\ rs[k] \in Merging BY <2>1, ProfilesTyped
    <2>3. \A k \in 1 .. n : rs[k].id # NoId BY <2>2, ProfilesTyped DEF Profile
    <2>4. m \in [vec : [1 .. n -> Merging], preferId : Int] BY <2>1, <2>2
    <2>5. m.vec = rs OBVIOUS
    <2>6. \A k, l \in 1 .. n : rs[k].id = rs[l].id => k = l BY <2>1 DEF OnlyOnce
    <2>7. Merged(m, rs) BY <2>3, <2>4, <2>5, <2>6 DEF Merged
    <2> QED BY <1>1, <2>1, <2>7
<1> HIDE DEF D, n, m
<1>4. IsStep(step, D, n) BY <1>2 DEF IsStep
<1>5. PICK f : IsRun(f, D, n, m, step)
    <2> HIDE DEF step
    <2> QED BY <1>3, <1>4, LoopRuns
<1>6. \A j \in 1 .. n : f[j] = MergeLater(f[j - 1], j)
    <2> SUFFICES ASSUME NEW j \in 1 .. n PROVE f[j] = MergeLater(f[j - 1], j)
        OBVIOUS
    <2>1. f[j - 1] \in D BY <1>3, <1>5 DEF IsRun
    <2> QED BY <1>5, <2>1 DEF IsRun
<1> DEFINE Def(g) == [j \in 0 .. n |-> IF j = 0 THEN m ELSE MergeLater(g[j - 1], j)]
           after == CHOOSE g : g = Def(g)
<1>7. f = Def(f) BY <1>3, <1>5, <1>6 DEF IsRun
<1>8. after = Def(after) BY <1>7
<1>9. after[n] \in D
    <2> HIDE DEF after
    <2>1. after[0] = m /\ \A j \in 1 .. n : after[j] = MergeLater(after[j - 1], j) BY <1>3, <1>8
    <2>2. \A j \in 1 .. n : after[j - 1] \in D => after[j] \in D BY <1>2, <2>1
    <2> QED BY <1>3, <2>1, <2>2, LoopStays
<1>10. MergeAll(rs, id) = after[n]
    BY DEF MergeAll, m, n
<1> QED BY <1>1, <1>9, <1>10

\* The profiles of a list serve every type of the rows, and each is one of them.
Serve(list, rs) ==
    /\ OnlyOnce(list)
    /\ \A i \in DOMAIN list : \E k \in DOMAIN rs : rs[k].id = list[i].id /\ rs[k].apn = list[i].apn
    /\ \A k \in DOMAIN rs : \A type \in rs[k].types :
          \E i \in DOMAIN list : list[i].apn = rs[k].apn /\ type \in list[i].types

(* TryMergeSimilarPdpProfile, for rows of any number. *)
LEMMA TryMergeServes ==
    ASSUME NEW rs \in Seq(Profiles), OnlyOnce(rs), NEW id \in Int
    PROVE  LET m == TryMergeSimilarPdpProfile(rs, id)
           IN  m.vec \in Seq(Profile) /\ m.preferId \in Int /\ Serve(m.vec, rs)
<1> DEFINE n == Len(rs)
           o == MergeAll(rs, id)
           S == {p \in Range(o.vec) : p.id # NoId}
           v == Where(o.vec, S)
           m == TryMergeSimilarPdpProfile(rs, id)
<1>1. Merged(o, rs) BY MergeAllKeeps
<1>2. m.vec = v /\ m.preferId = o.preferId
    <2>1. o \in [vec : [1 .. n -> Merging], preferId : Int] BY <1>1 DEF Merged
    <2> HIDE DEF o
    <2> QED BY <2>1 DEF TryMergeSimilarPdpProfile, o
<1> HIDE DEF o, m
<1>3. /\ n \in Nat /\ o.vec \in [1 .. n -> Merging] /\ o.preferId \in Int
      /\ DOMAIN rs = 1 .. n /\ DOMAIN o.vec = 1 .. n
    BY <1>1 DEF Merged
<1>4. o.vec \in Seq(Merging) BY <1>3
<1>5. \A i \in 1 .. n : o.vec[i] \in S <=> o.vec[i].id # NoId BY <1>3 DEF Range
<1> HIDE DEF S
<1>6. /\ v \in Seq(Merging)
      /\ \A a \in DOMAIN v : v[a] \in S
      /\ \A i \in 1 .. n : o.vec[i] \in S => \E a \in DOMAIN v : v[a] = o.vec[i]
    BY <1>3, <1>4, WhereElements
<1>7. PICK f : \A a \in DOMAIN v : /\ f[a] \in 1 .. n /\ v[a] = o.vec[f[a]]
                                   /\ \A b \in DOMAIN v : f[a] = f[b] => a = b
    <2>1. \E f : \A a \in DOMAIN v : /\ f[a] \in DOMAIN o.vec /\ v[a] = o.vec[f[a]]
                                     /\ \A b \in DOMAIN v : f[a] = f[b] => a = b
        BY <1>4, WhereIndexes
    <2> QED BY <1>3, <2>1
<1> HIDE DEF v, n
<1>8. \A a \in DOMAIN v : v[a].id # NoId /\ v[a] \in Merging
    <2> SUFFICES ASSUME NEW a \in DOMAIN v PROVE v[a].id # NoId /\ v[a] \in Merging
        OBVIOUS
    <2>1. f[a] \in 1 .. n /\ v[a] = o.vec[f[a]] BY <1>7
    <2>2. o.vec[f[a]] \in S BY <1>6, <2>1
    <2>3. o.vec[f[a]].id # NoId BY <1>5, <2>1, <2>2
    <2> QED BY <1>3, <2>1, <2>3
<1>9. v \in Seq(Profile)
    <2>1. \A a \in DOMAIN v : v[a] \in Profile BY <1>8 DEF Merging, Profile
    <2> QED BY <1>6, <2>1
<1>10. OnlyOnce(v)
    <2> SUFFICES ASSUME NEW a \in DOMAIN v, NEW b \in DOMAIN v, v[a].id = v[b].id PROVE a = b
        BY DEF OnlyOnce
    <2>1. f[a] = f[b] BY <1>1, <1>7, <1>8 DEF Merged, n
    <2> QED BY <1>7, <2>1
<1>11. \A a \in DOMAIN v : \E k \in DOMAIN rs : rs[k].id = v[a].id /\ rs[k].apn = v[a].apn
    <2> SUFFICES ASSUME NEW a \in DOMAIN v
                 PROVE  \E k \in DOMAIN rs : rs[k].id = v[a].id /\ rs[k].apn = v[a].apn
        OBVIOUS
    <2>1. f[a] \in 1 .. n /\ v[a] = o.vec[f[a]] /\ v[a].id # NoId BY <1>7, <1>8
    <2>2. o.vec[f[a]].id # NoId BY <2>1
    <2>3. \E k \in 1 .. n : rs[k].id = o.vec[f[a]].id /\ rs[k].apn = o.vec[f[a]].apn
        BY <1>1, <2>1, <2>2 DEF Merged, n
    <2>4. PICK k \in 1 .. n : rs[k].id = o.vec[f[a]].id /\ rs[k].apn = o.vec[f[a]].apn BY <2>3
    <2>5. k \in DOMAIN rs /\ rs[k].id = v[a].id /\ rs[k].apn = v[a].apn BY <1>3, <2>1, <2>4
    <2> QED BY <2>5
<1>12. \A k \in DOMAIN rs : \A type \in rs[k].types :
           \E a \in DOMAIN v : v[a].apn = rs[k].apn /\ type \in v[a].types
    <2> SUFFICES ASSUME NEW k \in DOMAIN rs, NEW type \in rs[k].types
                 PROVE  \E a \in DOMAIN v : v[a].apn = rs[k].apn /\ type \in v[a].types
        OBVIOUS
    <2>1. PICK i \in 1 .. n : o.vec[i].id # NoId /\ o.vec[i].apn = rs[k].apn /\ type \in o.vec[i].types
        BY <1>1, <1>3 DEF Merged, n
    <2>2. PICK a \in DOMAIN v : v[a] = o.vec[i] BY <1>5, <1>6, <2>1
    <2> QED BY <2>1, <2>2
<1> QED BY <1>2, <1>3, <1>9, <1>10, <1>11, <1>12 DEF Serve, m

-----------------------------------------------------------------------------
(* The values of h. *)

HolderStates ==
    [items : Seq(Item), preferId : Int, bad : SUBSET (Item \cup {NoItem}), src : Seq(Profiles),
     matched : [Roles -> Seq(Item)], index : [Roles -> Nat], tries : [Roles -> 0 .. MaxCount],
     run : [Roles -> [id : Nat, n : Nat]], cur : [Roles -> Item \cup {NoItem}],
     st : [Roles -> States], en : [Roles -> BOOLEAN], est : SUBSET Roles]

ItemsOnce(list) == \A i, j \in DOMAIN list : list[i].p.id = list[j].p.id => i = j

\* The items are those of the rows they were made of (ListMatchesTable) ...
ListOK(items, src) ==
    /\ ItemsOnce(items)
    /\ \A i \in DOMAIN items :
          \E k \in DOMAIN src : src[k].id = items[i].p.id /\ src[k].apn = items[i].p.apn
    /\ \A k \in DOMAIN src : \A type \in src[k].types :
          \E i \in DOMAIN items :
              items[i].p.apn = src[k].apn /\ CanDealWithType(items[i].p, Lower(type))

\* ... and the policy is inside its list; whoever was returned last was tried that often.
PolicyOK(s, r) ==
    /\ ItemsOnce(s.matched[r])
    /\ s.index[r] < Len(s.matched[r]) \/ s.index[r] = 0
    /\ s.run[r].n = 0 => s.run[r] = NoRun
    /\ s.run[r].n > 0 =>
          /\ s.run[r].n <= s.tries[r] /\ s.index[r] < Len(s.matched[r])
          /\ s.run[r].id = s.matched[r][s.index[r] + 1].p.id

Good(s) == s \in HolderStates /\ ListOK(s.items, s.src) /\ \A r \in Roles : PolicyOK(s, r)

LEMMA ItemIsNotNone == NoItem \notin Item
<1>1. NoItem.p.id = 0 BY DEF NoItem
<1>2. \A i \in Item : i.p.id \in ProfileIds BY DEF Item, Profile
<1>3. 0 \notin ProfileIds BY ProfilesTyped
<1> QED BY <1>1, <1>2, <1>3

LEMMA EmptyGood == Good(Empty)
<1>1. Empty \in HolderStates
    <2>1. NoRun \in [id : Nat, n : Nat] BY DEF NoRun
    <2>2. 0 \in 0 .. MaxCount BY ApnAssumption
    <2> QED BY <2>1, <2>2 DEF Empty, HolderStates, States
<1>2. ListOK(<<>>, <<>>) BY DEF ListOK, ItemsOnce
<1>3. \A r \in Roles : PolicyOK(Empty, r) BY DEF Empty, PolicyOK, ItemsOnce, NoRun
<1> QED BY <1>1, <1>2, <1>3 DEF Good, Empty

(* A part of a list with distinct ids has distinct ids. *)
LEMMA WhereOnce ==
    ASSUME NEW items \in Seq(Item), ItemsOnce(items), NEW S
    PROVE  ItemsOnce(Where(items, S))
<1> DEFINE w == Where(items, S)
<1>1. PICK f : \A a \in DOMAIN w : /\ f[a] \in DOMAIN items /\ w[a] = items[f[a]]
                                   /\ \A b \in DOMAIN w : f[a] = f[b] => a = b
    BY WhereIndexes
<1> HIDE DEF w
<1>2. \A a, b \in DOMAIN w : w[a].p.id = w[b].p.id => a = b
    <2> SUFFICES ASSUME NEW a \in DOMAIN w, NEW b \in DOMAIN w, w[a].p.id = w[b].p.id PROVE a = b
        OBVIOUS
    <2>1. f[a] = f[b] BY <1>1 DEF ItemsOnce
    <2> QED BY <1>1, <2>1
<1> QED BY <1>2 DEF ItemsOnce, w

(* PreferredFirst changes the order only. *)
LEMMA PreferredFirstKeeps ==
    ASSUME NEW items \in Seq(Item), ItemsOnce(items), NEW id,
           NEW first, first = PreferredFirst(items, id)
    PROVE  /\ first \in Seq(Item) /\ ItemsOnce(first)
           /\ \A a \in DOMAIN first : \E i \in DOMAIN items : first[a] = items[i]
           /\ \A i \in DOMAIN items : \E a \in DOMAIN first : first[a] = items[i]
<1> DEFINE S1 == {i \in Range(items) : i.p.id = id}
           S2 == {i \in Range(items) : i.p.id # id}
           u == Where(items, S1)
           v == Where(items, S2)
           q == u \o v
<1>1. PreferredFirst(items, id) = q BY DEF PreferredFirst
<1>2. \A i \in DOMAIN items : (items[i] \in S1 <=> items[i].p.id = id) /\ (items[i] \in S1 \/ items[i] \in S2)
    BY DEF Range
<1>3. \A x \in S1 : x.p.id = id /\ x \in Range(items) OBVIOUS
<1>4. \A x \in S2 : x.p.id # id /\ x \in Range(items) OBVIOUS
<1> HIDE DEF S1, S2
<1>5. /\ u \in Seq(Item) /\ ItemsOnce(u)
      /\ \A a \in DOMAIN u : u[a] \in S1
      /\ \A i \in DOMAIN items : items[i] \in S1 => \E a \in DOMAIN u : u[a] = items[i]
    BY WhereElements, WhereOnce
<1>6. /\ v \in Seq(Item) /\ ItemsOnce(v)
      /\ \A a \in DOMAIN v : v[a] \in S2
      /\ \A i \in DOMAIN items : items[i] \in S2 => \E a \in DOMAIN v : v[a] = items[i]
    BY WhereElements, WhereOnce
<1> HIDE DEF u, v
<1>7. /\ q \in Seq(Item) /\ DOMAIN u = 1 .. Len(u) /\ DOMAIN v = 1 .. Len(v)
      /\ Len(u) \in Nat /\ Len(v) \in Nat /\ DOMAIN q = 1 .. Len(u) + Len(v)
      /\ \A a \in DOMAIN u : q[a] = u[a]
      /\ \A a \in DOMAIN v : q[Len(u) + a] = v[a]
    BY <1>5, <1>6
<1> HIDE DEF q
<1>8. \A a \in DOMAIN q : a \in DOMAIN u \/ \E b \in DOMAIN v : a = Len(u) + b
    <2> SUFFICES ASSUME NEW a \in DOMAIN q, a \notin DOMAIN u PROVE \E b \in DOMAIN v : a = Len(u) + b
        OBVIOUS
    <2>1. a - Len(u) \in DOMAIN v /\ a = Len(u) + (a - Len(u)) BY <1>7
    <2> QED BY <2>1
<1>9. \A a \in DOMAIN q : q[a] \in Range(items)
    BY <1>3, <1>4, <1>5, <1>6, <1>7, <1>8
<1>10. \A i \in DOMAIN items : \E a \in DOMAIN q : q[a] = items[i]
    <2> SUFFICES ASSUME NEW i \in DOMAIN items PROVE \E a \in DOMAIN q : q[a] = items[i]
        OBVIOUS
    <2>1. CASE items[i] \in S1
        <3>1. PICK a \in DOMAIN u : u[a] = items[i] BY <1>5, <2>1
        <3>2. a \in DOMAIN q /\ q[a] = items[i] BY <1>7, <3>1
        <3> QED BY <3>2
    <2>2. CASE items[i] \in S2
        <3>1. PICK a \in DOMAIN v : v[a] = items[i] BY <1>6, <2>2
        <3>2. Len(u) + a \in DOMAIN q /\ q[Len(u) + a] = items[i] BY <1>7, <3>1
        <3> QED BY <3>2
    <2> QED BY <1>2, <2>1, <2>2
<1>11. ItemsOnce(q)
    <2> SUFFICES ASSUME NEW a \in DOMAIN q, NEW b \in DOMAIN q, q[a].p.id = q[b].p.id PROVE a = b
        BY DEF ItemsOnce
    <2>1. \A c \in DOMAIN u : q[c].p.id = id BY <1>3, <1>5, <1>7
    <2>2. \A c \in DOMAIN v : q[Len(u) + c].p.id # id BY <1>4, <1>6, <1>7
    <2>3. CASE a \in DOMAIN u /\ b \in DOMAIN u BY <1>5, <1>7, <2>3 DEF ItemsOnce
    <2>4. CASE a \notin DOMAIN u /\ b \notin DOMAIN u
        <3>1. PICK c \in DOMAIN v : a = Len(u) + c BY <1>8, <2>4
        <3>2. PICK d \in DOMAIN v : b = Len(u) + d BY <1>8, <2>4
        <3>3. v[c].p.id = v[d].p.id BY <1>7, <3>1, <3>2
        <3> QED BY <1>6, <3>1, <3>2, <3>3 DEF ItemsOnce
    <2> QED BY <1>8, <2>1, <2>2, <2>3, <2>4
<1>12. \A a \in DOMAIN q : \E i \in DOMAIN items : q[a] = items[i]
    BY <1>9 DEF Range
<1> QED BY <1>1, <1>7, <1>10, <1>11, <1>12

(* There is a number that no item in use has. *)
LEMMA FreshGenTyped ==
    ASSUME NEW s \in HolderStates
    PROVE  FreshGen(s) \in Nat
<1> DEFINE H == Held(s)
           n == Cardinality(H)
           gens == {i.gen : i \in H}
           G == {g \in 1 .. n + 1 : \A i \in H : i.gen # g}
           One(r) == Range(s.matched[r]) \cup {s.cur[r]}
<1>1. IsFiniteSet(Roles)
    <2>1. SortApnHolder \in Seq(Roles) BY ApnAssumption
    <2> QED BY <2>1, RangeFinite DEF Roles
<1>2. \A r \in Roles : IsFiniteSet(One(r))
    <2> SUFFICES ASSUME NEW r \in Roles PROVE IsFiniteSet(One(r))
        OBVIOUS
    <2>1. s.matched[r] \in Seq(Item) BY DEF HolderStates
    <2>2. IsFiniteSet(Range(s.matched[r])) BY <2>1, RangeFinite
    <2> QED BY <2>2, FS_AddElement
<1> HIDE DEF One
<1> DEFINE U == {One(r) : r \in Roles}
<1>3. IsFiniteSet(U)
    <2> DEFINE f == [r \in Roles |-> One(r)]
    <2>1. f \in Surjection(Roles, U) BY DEF Surjection
    <2> QED BY <1>1, <2>1, FS_Surjection
<1>4. \A T \in U : IsFiniteSet(T) BY <1>2
<1>5. H = UNION U BY DEF Held, One
<1> HIDE DEF U
<1>6. IsFiniteSet(H) BY <1>3, <1>4, <1>5, FS_UNION
<1> HIDE DEF H
<1>7. n \in Nat BY <1>6, FS_CardinalityType
<1>8. IsFiniteSet(gens) /\ Cardinality(gens) <= n /\ Cardinality(gens) \in Nat
    <2> DEFINE f == [i \in H |-> i.gen]
    <2>1. f \in Surjection(H, gens) BY DEF Surjection
    <2> QED BY <1>6, <2>1, FS_Surjection, FS_CardinalityType
<1>9. G # {}
    <2> SUFFICES ASSUME G = {} PROVE FALSE
        OBVIOUS
    <2>1. 1 .. n + 1 \subseteq gens OBVIOUS
    <2> HIDE DEF gens, n
    <2>2. Cardinality(1 .. n + 1) <= Cardinality(gens) BY <1>8, <2>1, FS_Subset
    <2>3. Cardinality(1 .. n + 1) = n + 1 BY <1>7, FS_Interval
    <2> QED BY <1>7, <1>8, <2>2, <2>3
<1>10. G \in SUBSET Nat BY <1>7
<1> HIDE DEF G
<1>11. Min(G) \in Nat BY <1>9, <1>10, MinIsLeast
<1> QED BY <1>11 DEF FreshGen, G, H, n

-----------------------------------------------------------------------------
(* Reading the table. *)

\* Rows that a query of the table may give.
RowsOf(rs) == rs \in Seq(Profiles) /\ OnlyOnce(rs)

LEMMA WhereRows ==
    ASSUME NEW t \in Tables, NEW S
    PROVE  RowsOf(Where(t, S))
<1> DEFINE w == Where(t, S)
<1>1. t \in Seq(Profiles) /\ OnlyOnce(t) BY TableTyped
<1>2. w \in Seq(Profiles) BY <1>1, WhereElements
<1>3. PICK f : \A a \in DOMAIN w : /\ f[a] \in DOMAIN t /\ w[a] = t[f[a]]
                                   /\ \A b \in DOMAIN w : f[a] = f[b] => a = b
    BY <1>1, WhereIndexes
<1> HIDE DEF w
<1>4. \A a, b \in DOMAIN w : w[a].id = w[b].id => a = b
    <2> SUFFICES ASSUME NEW a \in DOMAIN w, NEW b \in DOMAIN w, w[a].id = w[b].id PROVE a = b
        OBVIOUS
    <2>1. f[a] = f[b] BY <1>1, <1>3 DEF OnlyOnce
    <2> QED BY <1>3, <2>1
<1> QED BY <1>2, <1>4 DEF RowsOf, OnlyOnce, w

(* A type that a profile names is one that its item serves. *)
LEMMA ServesItsTypes ==
    ASSUME NEW p \in Profile, NEW type \in p.types
    PROVE  CanDealWithType(p, Lower(type))
<1>1. Lower(type) \in {Lower(u) : u \in p.types} OBVIOUS
<1> QED BY <1>1 DEF CanDealWithType

\* What a function leaves of the holders: a new list, and no more.
OnlyList(t, s) ==
    /\ t \in HolderStates
    /\ t.bad = s.bad /\ t.matched = s.matched /\ t.index = s.index /\ t.tries = s.tries
    /\ t.run = s.run /\ t.cur = s.cur /\ t.st = s.st /\ t.en = s.en /\ t.est = s.est

LEMMA OnlyListGood ==
    ASSUME NEW s, NEW t, Good(s), OnlyList(t, s), ListOK(t.items, t.src)
    PROVE  Good(t)
BY DEF Good, OnlyList, PolicyOK

LEMMA MakeSpecificApnItemGood ==
    ASSUME NEW s, Good(s), NEW rs, RowsOf(rs)
    PROVE  Good(MakeSpecificApnItem(s, rs)) /\ OnlyList(MakeSpecificApnItem(s, rs), s)
<1> DEFINE m == TryMergeSimilarPdpProfile(rs, s.preferId)
           g == FreshGen(s)
           MakeApn(p) == IF p.id = m.preferId /\ p.types = {} THEN [p EXCEPT !.types = {"default"}] ELSE p
           made == [k \in DOMAIN m.vec |-> [gen |-> g, p |-> MakeApn(m.vec[k])]]
           q == PreferredFirst(made, m.preferId)
           t == MakeSpecificApnItem(s, rs)
<1>1. s \in HolderStates /\ s.preferId \in Int /\ rs \in Seq(Profiles) /\ OnlyOnce(rs)
    BY DEF Good, HolderStates, RowsOf
<1>2. m.vec \in Seq(Profile) /\ m.preferId \in Int /\ Serve(m.vec, rs) BY <1>1, TryMergeServes
<1>3. g \in Nat BY <1>1, FreshGenTyped
<1>4. t = [s EXCEPT !.items = q, !.preferId = m.preferId, !.src = rs]
    BY DEF MakeSpecificApnItem, MakeItems
<1> HIDE DEF m, g, t
<1>5. \A p \in Profile : /\ MakeApn(p) \in Profile /\ MakeApn(p).id = p.id /\ MakeApn(p).apn = p.apn
                         /\ p.types \subseteq MakeApn(p).types
    <2> SUFFICES ASSUME NEW p \in Profile
                 PROVE  /\ MakeApn(p) \in Profile /\ MakeApn(p).id = p.id /\ MakeApn(p).apn = p.apn
                        /\ p.types \subseteq MakeApn(p).types
        OBVIOUS
    <2>1. CASE p.id = m.preferId /\ p.types = {}
        <3> DEFINE x == [p EXCEPT !.types = {"default"}]
        <3>1. x \in Profile /\ x.id = p.id /\ x.apn = p.apn
            <4> DEFINE d == {"default"}
            <4>1. d \in SUBSET TypeNames BY DEF TypeNames
            <4> HIDE DEF d
            <4>2. [p EXCEPT !.types = d] \in Profile BY <4>1 DEF Profile
            <4>3. [p EXCEPT !.types = d].id = p.id /\ [p EXCEPT !.types = d].apn = p.apn BY DEF Profile
            <4> QED BY <4>2, <4>3 DEF d
        <3>2. MakeApn(p) = x BY <2>1
        <3> HIDE DEF x, MakeApn
        <3> QED BY <2>1, <3>1, <3>2
    <2>2. CASE ~(p.id = m.preferId /\ p.types = {})
        <3>1. MakeApn(p) = p BY <2>2
        <3> QED BY <3>1
    <2> QED BY <2>1, <2>2
<1> HIDE DEF MakeApn
<1>6. \A k \in DOMAIN m.vec : m.vec[k] \in Profile BY <1>2
<1>7. /\ DOMAIN made = DOMAIN m.vec
      /\ \A k \in DOMAIN m.vec : made[k] = [gen |-> g, p |-> MakeApn(m.vec[k])]
    OBVIOUS
<1>8. made \in Seq(Item)
    <2>1. \A k \in DOMAIN m.vec : [gen |-> g, p |-> MakeApn(m.vec[k])] \in Item
        BY <1>3, <1>5, <1>6 DEF Item
    <2>2. DOMAIN m.vec = 1 .. Len(m.vec) /\ Len(m.vec) \in Nat BY <1>2
    <2> QED BY <2>1, <2>2
<1> HIDE DEF made
<1>9. \A k \in DOMAIN made : /\ made[k].p.id = m.vec[k].id /\ made[k].p.apn = m.vec[k].apn
                             /\ m.vec[k].types \subseteq made[k].p.types
    <2> SUFFICES ASSUME NEW k \in DOMAIN made
                 PROVE  /\ made[k].p.id = m.vec[k].id /\ made[k].p.apn = m.vec[k].apn
                        /\ m.vec[k].types \subseteq made[k].p.types
        OBVIOUS
    <2> DEFINE a == MakeApn(m.vec[k])
    <2>1. m.vec[k] \in Profile /\ made[k] = [gen |-> g, p |-> a] BY <1>6, <1>7
    <2>2. a \in Profile /\ a.id = m.vec[k].id /\ a.apn = m.vec[k].apn /\ m.vec[k].types \subseteq a.types
        BY <1>5, <2>1
    <2> HIDE DEF a
    <2>3. made[k].p = a BY <2>1
    <2> QED BY <2>2, <2>3
<1>10. ItemsOnce(made) BY <1>2, <1>7, <1>9 DEF ItemsOnce, Serve, OnlyOnce
<1>11. /\ q \in Seq(Item) /\ ItemsOnce(q)
       /\ \A a \in DOMAIN q : \E i \in DOMAIN made : q[a] = made[i]
       /\ \A i \in DOMAIN made : \E a \in DOMAIN q : q[a] = made[i]
    <2> HIDE DEF q
    <2>1. q = PreferredFirst(made, m.preferId) BY DEF q
    <2> QED BY <1>8, <1>10, <2>1, PreferredFirstKeeps
<1> HIDE DEF q
<1>12. ListOK(q, rs)
    <2>1. \A a \in DOMAIN q : \E k \in DOMAIN rs : rs[k].id = q[a].p.id /\ rs[k].apn = q[a].p.apn
        <3> SUFFICES ASSUME NEW a \in DOMAIN q
                     PROVE  \E k \in DOMAIN rs : rs[k].id = q[a].p.id /\ rs[k].apn = q[a].p.apn
            OBVIOUS
        <3>1. PICK i \in DOMAIN made : q[a] = made[i] BY <1>11
        <3>2. PICK k \in DOMAIN rs : rs[k].id = m.vec[i].id /\ rs[k].apn = m.vec[i].apn
            BY <1>2, <1>7, <3>1 DEF Serve
        <3> QED BY <1>9, <3>1, <3>2
    <2>2. \A k \in DOMAIN rs : \A type \in rs[k].types :
              \E a \in DOMAIN q : q[a].p.apn = rs[k].apn /\ CanDealWithType(q[a].p, Lower(type))
        <3> SUFFICES ASSUME NEW k \in DOMAIN rs, NEW type \in rs[k].types
                     PROVE  \E a \in DOMAIN q :
                                q[a].p.apn = rs[k].apn /\ CanDealWithType(q[a].p, Lower(type))
            OBVIOUS
        <3>1. PICK i \in DOMAIN m.vec : m.vec[i].apn = rs[k].apn /\ type \in m.vec[i].types
            BY <1>2 DEF Serve
        <3>2. PICK a \in DOMAIN q : q[a] = made[i] BY <1>7, <1>11, <3>1
        <3>3. made[i].p \in Profile
            <4>1. made[i] \in Item BY <1>7, <1>8, <3>1
            <4> QED BY <4>1 DEF Item
        <3>4. made[i].p.apn = rs[k].apn /\ type \in made[i].p.types BY <1>7, <1>9, <3>1
        <3>5. CanDealWithType(made[i].p, Lower(type)) BY <3>3, <3>4, ServesItsTypes
        <3> QED BY <3>2, <3>4, <3>5
    <2> QED BY <1>11, <2>1, <2>2 DEF ListOK
<1>13. OnlyList(t, s) /\ t.items = q /\ t.src = rs
    BY <1>1, <1>2, <1>4, <1>11 DEF OnlyList, HolderStates
<1>14. Good(t) BY <1>12, <1>13, OnlyListGood
<1> QED BY <1>13, <1>14 DEF t

LEMMA OnlyListTrans ==
    ASSUME NEW s, NEW t, NEW u, OnlyList(t, s), OnlyList(u, t)
    PROVE  OnlyList(u, s)
BY DEF OnlyList

LEMMA OnlyListSelf ==
    ASSUME NEW s, Good(s)
    PROVE  OnlyList(s, s)
BY DEF OnlyList, Good

LEMMA SetPreferIdGood ==
    ASSUME NEW s, Good(s), NEW id \in Int
    PROVE  Good([s EXCEPT !.preferId = id]) /\ OnlyList([s EXCEPT !.preferId = id], s)
<1> DEFINE t == [s EXCEPT !.preferId = id]
<1>1. OnlyList(t, s) /\ t.items = s.items /\ t.src = s.src BY DEF Good, OnlyList, HolderStates
<1> HIDE DEF t
<1>2. Good(t) BY <1>1, OnlyListGood DEF Good
<1> QED BY <1>1, <1>2 DEF t

(* CreateAllApnItemByDatabase, whatever fails. *)
LEMMA CreateAllGood ==
    ASSUME NEW s, Good(s), NEW failed, rows \in Tables, prefer \in Int
    PROVE  LET c == CreateAllApnItemByDatabase(s, failed) IN Good(c.s) /\ OnlyList(c.s, s)
<1>1. RowsOf(ReadApnResult(rows)) /\ RowsOf(QueryMvnoApns(rows))
    BY WhereRows DEF ReadApnResult, QueryMvnoApns
<1>2. \A t : Good(t) /\ OnlyList(t, s) =>
          LET c == CreateGeneralApnItems(t, failed) IN Good(c.s) /\ OnlyList(c.s, s)
    <2> SUFFICES ASSUME NEW t, Good(t), OnlyList(t, s)
                 PROVE  LET c == CreateGeneralApnItems(t, failed) IN Good(c.s) /\ OnlyList(c.s, s)
        OBVIOUS
    <2> DEFINE made == MakeSpecificApnItem(t, ReadApnResult(rows))
    <2>1. Good(made) /\ OnlyList(made, s) BY <1>1, MakeSpecificApnItemGood, OnlyListTrans
    <2> HIDE DEF made
    <2> QED BY <2>1 DEF CreateGeneralApnItems, made
<1>3. \A t : Good(t) /\ OnlyList(t, s) =>
          Good(CreateMvnoApnItems(t, failed)) /\ OnlyList(CreateMvnoApnItems(t, failed), s)
    BY <1>1, MakeSpecificApnItemGood, OnlyListTrans DEF CreateMvnoApnItems
<1>4. \A t : Good(t) /\ OnlyList(t, s) =>
          LET c == UnlessMvno(t, failed) IN Good(c.s) /\ OnlyList(c.s, s)
    BY <1>2 DEF UnlessMvno
<1>5. Good(GetPreferId(s)) /\ OnlyList(GetPreferId(s), s)
    BY SetPreferIdGood DEF GetPreferId
<1>6. Good([s EXCEPT !.preferId = 0]) /\ OnlyList([s EXCEPT !.preferId = 0], s)
    BY SetPreferIdGood
<1> DEFINE u == CreateMvnoApnItems(GetPreferId(s), failed)
<1>7. Good(u) /\ OnlyList(u, s) BY <1>3, <1>5
<1> HIDE DEF u
<1>8. LET c == UnlessMvno(u, failed) IN Good(c.s) /\ OnlyList(c.s, s) BY <1>4, <1>7
<1> QED BY <1>6, <1>8, OnlyListSelf DEF CreateAllApnItemByDatabase, u

LEMMA ReadTableGood ==
    ASSUME NEW s, Good(s), NEW f1, NEW f2, rows \in Tables, prefer \in Int
    PROVE  LET c == ReadTable(s, f1, f2) IN Good(c.s) /\ OnlyList(c.s, s)
<1> DEFINE a == CreateAllApnItemByDatabase(s, f1)
<1>1. Good(a.s) /\ OnlyList(a.s, s) BY CreateAllGood
<1> HIDE DEF a
<1> DEFINE b == CreateAllApnItemByDatabase(a.s, f2)
<1>2. Good(b.s) /\ OnlyList(b.s, s) BY <1>1, CreateAllGood, OnlyListTrans
<1> HIDE DEF b
<1> QED BY <1>1, <1>2 DEF ReadTable, Again, a, b

-----------------------------------------------------------------------------
(* What the list is used for. *)

LEMMA FirstIs ==
    ASSUME NEW items \in Seq(Item), NEW S, NEW i, i = First(items, S)
    PROVE  i = NoItem \/ (i \in Item /\ i \in S)
<1> DEFINE good == {k \in DOMAIN items : items[k] \in S}
<1>1. CASE good = {} BY <1>1 DEF First
<1>2. CASE good # {}
    <2>1. good \in SUBSET Nat OBVIOUS
    <2>2. Min(good) \in good BY <1>2, <2>1, MinIsLeast
    <2>3. i = items[Min(good)] BY <1>2 DEF First
    <2> HIDE DEF First
    <2> QED BY <2>2, <2>3
<1> QED BY <1>1, <1>2

LEMMA ItemByIdIs ==
    ASSUME NEW s, Good(s), NEW id, NEW i, i = ItemById(s, id)
    PROVE  i = NoItem \/ (i \in Item /\ i.p.id = id)
<1>1. s.items \in Seq(Item) BY DEF Good, HolderStates
<1> DEFINE S == {x \in Range(s.items) : x.p.id = id}
<1>2. i = First(s.items, S) BY DEF ItemById
<1>3. \A x \in S : x.p.id = id OBVIOUS
<1> HIDE DEF S
<1> QED BY <1>1, <1>2, <1>3, FirstIs

\* The items a policy may be given for a type.
Fitting(apns, r) ==
    /\ apns \in Seq(Item) /\ ItemsOnce(apns)
    /\ \A k \in DOMAIN apns : CanDealWithType(apns[k].p, r)

LEMMA WhereServing ==
    ASSUME NEW s, Good(s), NEW r
    PROVE  Fitting(Where(s.items, Serving(s, r)), r)
<1>1. s.items \in Seq(Item) /\ ItemsOnce(s.items) BY DEF Good, HolderStates, ListOK
<1>2. \A x \in Serving(s, r) : CanDealWithType(x.p, r) BY DEF Serving
<1> DEFINE w == Where(s.items, Serving(s, r))
<1>3. w \in Seq(Item) /\ ItemsOnce(w) /\ \A a \in DOMAIN w : w[a] \in Serving(s, r)
    BY <1>1, WhereElements, WhereOnce
<1> HIDE DEF w
<1> QED BY <1>2, <1>3 DEF Fitting, w

LEMMA OneFits ==
    ASSUME NEW i \in Item, NEW r, CanDealWithType(i.p, r)
    PROVE  Fitting(<<i>>, r)
<1> DEFINE l == <<i>>
<1>1. l \in Seq(Item) /\ DOMAIN l = {1} /\ l[1] = i OBVIOUS
<1> HIDE DEF l
<1> QED BY <1>1 DEF Fitting, ItemsOnce, l

LEMMA NoneFits ==
    ASSUME NEW r
    PROVE  Fitting(<<>>, r)
BY DEF Fitting, ItemsOnce

LEMMA FetchDunApnsFit ==
    ASSUME NEW s, Good(s)
    PROVE  Fitting(FetchDunApns(s), "dun")
<1> DEFINE i == ItemById(s, s.preferId)
<1>1. i = NoItem \/ i \in Item BY ItemByIdIs
<1>2. i # NoItem /\ CanDealWithType(i.p, "dun") => Fitting(<<i>>, "dun") BY <1>1, OneFits
<1>3. Fitting(<<>>, "dun") /\ Fitting(Where(s.items, Serving(s, "dun")), "dun")
    BY NoneFits, WhereServing
<1> QED BY <1>2, <1>3 DEF FetchDunApns

(* FilterMatchedApns gives items of the holder's type, none twice. *)
LEMMA FilterMatchedApnsFit ==
    ASSUME NEW s, Good(s), NEW r
    PROVE  Fitting(FilterMatchedApns(s, r), r)
<1> DEFINE fit == Where(s.items, Serving(s, r))
<1>1. Fitting(fit, r) BY WhereServing
<1> HIDE DEF fit
<1>2. Fitting(SubSeq(fit, 1, IF fit = <<>> THEN 0 ELSE 1), r)
    <2>1. CASE fit = <<>>
        <3>1. SubSeq(fit, 1, 0) = <<>> BY <2>1
        <3> QED BY <2>1, <3>1, NoneFits
    <2>2. CASE fit # <<>>
        <3>1. fit \in Seq(Item) /\ 1 \in DOMAIN fit /\ Len(fit) \in Nat BY <1>1, <2>2 DEF Fitting
        <3>2. fit[1] \in Item /\ CanDealWithType(fit[1].p, r) BY <1>1, <3>1 DEF Fitting
        <3> DEFINE w == SubSeq(fit, 1, 1)
        <3>3. w \in Seq(Item) /\ Len(w) = 1 /\ w[1] = fit[1] BY <3>1
        <3> HIDE DEF w
        <3>4. DOMAIN w = {1} BY <3>3
        <3>5. Fitting(w, r) BY <3>2, <3>3, <3>4 DEF Fitting, ItemsOnce
        <3> QED BY <2>2, <3>5 DEF w
    <2> QED BY <2>1, <2>2
<1>3. CASE r = "dun" BY <1>3, FetchDunApnsFit DEF FilterMatchedApns
<1>4. CASE r = "bip" BY <1>2, <1>4 DEF FilterMatchedApns, fit
<1>5. CASE r # "dun" /\ r # "bip" BY <1>1, <1>5 DEF FilterMatchedApns, fit
<1> QED BY <1>3, <1>4, <1>5

-----------------------------------------------------------------------------
(* The retry policy. *)

LEMMA SetMatchedApnsGood ==
    ASSUME NEW s, Good(s), NEW r \in Roles, NEW apns, Fitting(apns, r),
           NEW t, t = SetMatchedApns(s, r, apns)
    PROVE  /\ Good(t) /\ t.matched[r] = apns
           /\ t.bad = s.bad /\ t.cur = s.cur /\ t.st = s.st /\ t.items = s.items
           /\ t.en = s.en /\ t.est = s.est
<1>1. s \in HolderStates /\ ListOK(s.items, s.src) /\ \A q \in Roles : PolicyOK(s, q) BY DEF Good
<1>2. apns \in Seq(Item) /\ ItemsOnce(apns) BY DEF Fitting
<1>3. CASE Ids(apns) = Ids(s.matched[r])
    <2>1. t = [s EXCEPT !.matched[r] = apns] BY <1>3 DEF SetMatchedApns
    <2>2. /\ t \in HolderStates /\ t.matched = [s.matched EXCEPT ![r] = apns]
          /\ t.bad = s.bad /\ t.cur = s.cur /\ t.st = s.st /\ t.items = s.items
          /\ t.en = s.en /\ t.est = s.est /\ t.src = s.src
          /\ t.index = s.index /\ t.tries = s.tries /\ t.run = s.run
        <3> DEFINE m == [s.matched EXCEPT ![r] = apns]
        <3>1. m \in [Roles -> Seq(Item)] BY <1>1, <1>2 DEF HolderStates
        <3>2. t = [s EXCEPT !.matched = m] BY <2>1
        <3> HIDE DEF m
        <3>3. t \in HolderStates BY <1>1, <3>1, <3>2 DEF HolderStates
        <3> QED BY <1>1, <3>2, <3>3 DEF HolderStates, m
    <2> DEFINE old == s.matched[r]
    <2>3. old \in Seq(Item) /\ s.index[r] \in Nat BY <1>1 DEF HolderStates
    <2>4. /\ DOMAIN apns = DOMAIN old
          /\ \A k \in DOMAIN old : apns[k].p.id = old[k].p.id
        <3>1. DOMAIN Ids(apns) = DOMAIN apns /\ DOMAIN Ids(old) = DOMAIN old BY DEF Ids
        <3>2. \A k \in DOMAIN apns : Ids(apns)[k] = apns[k].p.id BY DEF Ids
        <3>3. \A k \in DOMAIN old : Ids(old)[k] = old[k].p.id BY DEF Ids
        <3> HIDE DEF old
        <3> QED BY <1>3, <3>1, <3>2, <3>3 DEF old
    <2>5. Len(apns) = Len(old) BY <1>2, <2>3, <2>4
    <2>6. t.matched[r] = apns /\ \A q \in Roles : q # r => t.matched[q] = s.matched[q]
        BY <1>1, <2>2 DEF HolderStates
    <2>7. \A q \in Roles : PolicyOK(t, q)
        <3> SUFFICES ASSUME NEW q \in Roles PROVE PolicyOK(t, q)
            OBVIOUS
        <3>1. PolicyOK(s, q) BY <1>1
        <3>2. CASE q # r BY <2>2, <2>6, <3>1, <3>2 DEF PolicyOK
        <3>3. CASE q = r
            <4>1. s.index[r] < Len(old) => s.index[r] + 1 \in DOMAIN old BY <2>3
            <4> QED BY <1>2, <2>2, <2>4, <2>5, <2>6, <3>1, <3>3, <4>1 DEF PolicyOK
        <3> QED BY <3>2, <3>3
    <2> QED BY <1>1, <2>2, <2>6, <2>7 DEF Good
<1>4. CASE Ids(apns) # Ids(s.matched[r])
    <2>1. t = [s EXCEPT !.matched[r] = apns, !.index[r] = 0, !.run[r] = NoRun]
        BY <1>4 DEF SetMatchedApns
    <2>2. NoRun \in [id : Nat, n : Nat] /\ NoRun.n = 0 BY DEF NoRun
    <2>3. /\ t \in HolderStates /\ t.matched = [s.matched EXCEPT ![r] = apns]
          /\ t.bad = s.bad /\ t.cur = s.cur /\ t.st = s.st /\ t.items = s.items
          /\ t.en = s.en /\ t.est = s.est /\ t.src = s.src
          /\ t.index = [s.index EXCEPT ![r] = 0] /\ t.tries = s.tries
          /\ t.run = [s.run EXCEPT ![r] = NoRun]
        <3> DEFINE m == [s.matched EXCEPT ![r] = apns]
                   x == [s.index EXCEPT ![r] = 0]
                   n == [s.run EXCEPT ![r] = NoRun]
        <3>1. m \in [Roles -> Seq(Item)] BY <1>1, <1>2 DEF HolderStates
        <3>2. x \in [Roles -> Nat] BY <1>1 DEF HolderStates
        <3>3. n \in [Roles -> [id : Nat, n : Nat]] BY <1>1, <2>2 DEF HolderStates
        <3>4. t = [s EXCEPT !.matched = m, !.index = x, !.run = n] BY <1>1, <2>1 DEF HolderStates
        <3> HIDE DEF m, x, n
        <3>5. t \in HolderStates BY <1>1, <3>1, <3>2, <3>3, <3>4 DEF HolderStates
        <3> QED BY <1>1, <3>4, <3>5 DEF HolderStates, m, x, n
    <2>4. /\ t.matched[r] = apns /\ t.index[r] = 0 /\ t.run[r] = NoRun
          /\ \A q \in Roles : q # r => t.matched[q] = s.matched[q] /\ t.index[q] = s.index[q]
                                       /\ t.run[q] = s.run[q]
        BY <1>1, <2>3 DEF HolderStates
    <2>5. \A q \in Roles : PolicyOK(t, q)
        <3> SUFFICES ASSUME NEW q \in Roles PROVE PolicyOK(t, q)
            OBVIOUS
        <3>1. PolicyOK(s, q) BY <1>1
        <3>2. CASE q # r BY <2>3, <2>4, <3>1, <3>2 DEF PolicyOK
        <3>3. CASE q = r BY <1>2, <2>2, <2>4, <3>3 DEF PolicyOK
        <3> QED BY <3>2, <3>3
    <2> QED BY <1>1, <2>3, <2>4, <2>5 DEF Good
<1> QED BY <1>3, <1>4

(* NextGood finds an item that is not bad; it comes round to k only if all others are bad. *)
LEMMA NextGoodIs ==
    ASSUME NEW s, Good(s), NEW r \in Roles, ~IsAllBadApn(s, r), NEW k \in Nat,
           NEW j, j = NextGood(s, r, k)
    PROVE  /\ j \in 0 .. Len(s.matched[r]) - 1 /\ s.matched[r][j + 1] \notin s.bad
           /\ j = k => \A i \in 0 .. Len(s.matched[r]) - 1 : i # k => s.matched[r][i + 1] \in s.bad
<1> DEFINE m == s.matched[r]
           good == {x \in 0 .. Len(m) - 1 : m[x + 1] \notin s.bad}
           later == {x \in good : x > k}
<1>1. m \in Seq(Item) BY DEF Good, HolderStates
<1>2. j = IF later # {} THEN Min(later) ELSE Min(good) BY DEF NextGood
<1> HIDE DEF m
<1>3. good \in SUBSET Nat /\ later \in SUBSET Nat BY <1>1
<1>4. good # {}
    <2>1. PICK x \in DOMAIN m : m[x] \notin s.bad BY DEF IsAllBadApn, Range, m
    <2>2. x - 1 \in 0 .. Len(m) - 1 /\ (x - 1) + 1 = x BY <1>1
    <2>3. x - 1 \in good BY <2>1, <2>2
    <2> QED BY <2>3
<1>5. \A x \in later : x \in good /\ x > k OBVIOUS
<1>6. \A x \in good : x > k => x \in later OBVIOUS
<1>7. \A x \in good : x \in 0 .. Len(m) - 1 /\ m[x + 1] \notin s.bad OBVIOUS
<1>8. \A x \in 0 .. Len(m) - 1 : m[x + 1] \notin s.bad => x \in good OBVIOUS
<1> HIDE DEF good, later
<1>9. CASE later # {}
    <2>1. j \in later BY <1>2, <1>3, <1>9, MinIsLeast
    <2>2. j \in good /\ j > k BY <1>5, <2>1
    <2>3. j # k BY <1>3, <2>2
    <2> QED BY <1>7, <2>2, <2>3 DEF m
<1>10. CASE later = {}
    <2>1. j \in good /\ \A x \in good : j <= x BY <1>2, <1>3, <1>4, <1>10, MinIsLeast
    <2>2. \A x \in good : ~(x > k) BY <1>6, <1>10
    <2>3. j = k => \A x \in good : x = k BY <1>3, <2>1, <2>2
    <2> QED BY <1>7, <1>8, <2>1, <2>3 DEF m
<1> QED BY <1>9, <1>10

\* The policy of r after it has returned an item: the rest is as in s.
Returned(t, s, r, x, n, u) ==
    /\ t \in HolderStates
    /\ t.index = [s.index EXCEPT ![r] = x] /\ t.tries = [s.tries EXCEPT ![r] = n]
    /\ t.run = [s.run EXCEPT ![r] = u]
    /\ t.items = s.items /\ t.src = s.src /\ t.matched = s.matched
    /\ t.bad = s.bad /\ t.cur = s.cur /\ t.st = s.st /\ t.en = s.en /\ t.est = s.est

LEMMA ReturnedGood ==
    ASSUME NEW s, Good(s), NEW r \in Roles, NEW x \in Nat, NEW n \in 0 .. MaxCount,
           NEW u \in [id : Nat, n : Nat],
           x < Len(s.matched[r]) \/ x = 0,
           u.n = 0 => u = NoRun,
           u.n > 0 => u.n <= n /\ x < Len(s.matched[r]) /\ u.id = s.matched[r][x + 1].p.id,
           NEW t, Returned(t, s, r, x, n, u)
    PROVE  Good(t)
<1>1. s \in HolderStates /\ ListOK(s.items, s.src) /\ \A q \in Roles : PolicyOK(s, q) BY DEF Good
<1>2. /\ t.index[r] = x /\ t.tries[r] = n /\ t.run[r] = u
      /\ \A q \in Roles : q # r => /\ t.index[q] = s.index[q] /\ t.tries[q] = s.tries[q]
                                   /\ t.run[q] = s.run[q]
    BY <1>1 DEF Returned, HolderStates
<1>3. \A q \in Roles : PolicyOK(t, q)
    <2> SUFFICES ASSUME NEW q \in Roles PROVE PolicyOK(t, q)
        OBVIOUS
    <2>1. PolicyOK(s, q) /\ t.matched = s.matched BY <1>1 DEF Returned
    <2>2. CASE q # r BY <1>2, <2>1, <2>2 DEF PolicyOK
    <2>3. CASE q = r BY <1>2, <2>1, <2>3 DEF PolicyOK
    <2> QED BY <2>2, <2>3
<1> QED BY <1>1, <1>3 DEF Good, Returned

\* The calls are as they were.
SameCalls(t, s) == t.bad = s.bad /\ t.cur = s.cur /\ t.st = s.st

(* GetNextRetryApnItem: an item of the list that is not bad, and the count of its returns *)
(* in a row is at most the count of tries.                                                *)
LEMMA GetNextGood ==
    ASSUME NEW s, Good(s), NEW r \in Roles, ~IsAllBadApn(s, r),
           NEW next, next = GetNextRetryApnItem(s, r),
           NEW t, t = [next.s EXCEPT !.run[r] = CountRun(s, r, next.item)]
    PROVE  /\ Good(t)
           /\ next.item \in Range(s.matched[r]) /\ next.item \in Item /\ next.item \notin s.bad
           /\ SameCalls(t, s)
<1> DEFINE m == s.matched[r]
           out == s.index[r] >= Len(m)
           k == IF out THEN 0 ELSE s.index[r]
           n == IF out THEN 1 ELSE s.tries[r] + 1
           w == NextIndex(s, r, k, n)
           item == m[w.index + 1]
           u == CountRun(s, r, item)
<1>1. /\ s \in HolderStates /\ PolicyOK(s, r) /\ m \in Seq(Item) /\ s.index[r] \in Nat
      /\ s.tries[r] \in 0 .. MaxCount /\ s.run[r] \in [id : Nat, n : Nat]
    BY DEF Good, HolderStates
<1>2. MaxCount \in Nat /\ MaxCount > 0 BY ApnAssumption
<1>3. /\ next.s = [s EXCEPT !.index[r] = w.index, !.tries[r] = w.tries]
      /\ next.item = item
    BY DEF GetNextRetryApnItem
<1>4. Len(m) \in Nat /\ Len(m) > 0
    <2>1. PICK x \in DOMAIN m : TRUE BY DEF IsAllBadApn, Range
    <2> QED BY <1>1, <2>1
<1>5. k \in 0 .. Len(m) - 1 /\ n \in Nat /\ n > 0
    BY <1>1, <1>2, <1>4
<1> DEFINE stays == m[k + 1] \notin s.bad /\ n <= MaxCount
<1>6. stays => w.index = k /\ w.tries = n BY DEF NextIndex
<1>7. ~stays => w.index = NextGood(s, r, k) /\ w.tries = 1 BY DEF NextIndex
<1> HIDE DEF w
<1>8. /\ w.index \in 0 .. Len(m) - 1 /\ w.tries \in 1 .. MaxCount
      /\ m[w.index + 1] \notin s.bad
      /\ ~stays /\ w.index = k => \A i \in 0 .. Len(m) - 1 : i # k => m[i + 1] \in s.bad
    <2>1. CASE stays BY <1>2, <1>5, <1>6, <2>1
    <2>2. CASE ~stays
        <3>1. k \in Nat BY <1>4, <1>5
        <3> HIDE DEF k, n
        <3>2. LET j == NextGood(s, r, k)
              IN  /\ j \in 0 .. Len(m) - 1 /\ m[j + 1] \notin s.bad
                  /\ j = k => \A i \in 0 .. Len(m) - 1 : i # k => m[i + 1] \in s.bad
            BY <3>1, NextGoodIs
        <3> QED BY <1>2, <1>7, <2>2, <3>2
    <2> QED BY <2>1, <2>2
<1>9. item \in Item /\ item \in Range(m) /\ item.p.id \in Nat \ {0}
    <2>1. w.index + 1 \in DOMAIN m BY <1>1, <1>4, <1>8
    <2>2. item \in Item /\ item \in Range(m) BY <1>1, <2>1 DEF Range
    <2>3. item.p.id \in ProfileIds BY <2>2 DEF Item, Profile
    <2> QED BY <2>2, <2>3, ProfilesTyped
<1> HIDE DEF item
<1>10. /\ u \in [id : Nat, n : Nat] /\ (u.n = 0 => u = NoRun)
       /\ u.n > 0 => u.n <= w.tries /\ u.id = item.p.id
    <2> DEFINE others == \A i \in Range(m) : i \in s.bad \/ i.p.id = item.p.id
               run == s.run[r]
    <2>1. CASE others
        <3>1. u = NoRun BY <2>1 DEF CountRun
        <3> QED BY <3>1 DEF NoRun
    <2>2. CASE ~others /\ run.id # item.p.id
        <3>1. u = [id |-> item.p.id, n |-> 1] BY <2>2 DEF CountRun
        <3> QED BY <1>8, <1>9, <3>1
    <2>3. CASE ~others /\ run.id = item.p.id
        <3>1. run.n > 0 /\ run.n \in Nat
            <4>1. run.n = 0 => run.id = 0 BY <1>1 DEF PolicyOK, NoRun
            <4> QED BY <1>1, <1>9, <2>3, <4>1
        <3>2. /\ run.n <= s.tries[r] /\ s.index[r] < Len(m) /\ item.p.id = m[s.index[r] + 1].p.id
            BY <1>1, <2>3, <3>1 DEF PolicyOK
        <3>3. ~out /\ k = s.index[r] /\ n = s.tries[r] + 1 BY <1>1, <1>4, <3>2
        <3>4. w.index = k
            <4>1. w.index + 1 \in DOMAIN m /\ k + 1 \in DOMAIN m BY <1>1, <1>4, <1>5, <1>8
            <4>2. w.index + 1 = k + 1 BY <1>1, <3>2, <3>3, <4>1 DEF PolicyOK, ItemsOnce, item
            <4> QED BY <1>4, <1>5, <1>8, <4>2
        <3>5. stays
            <4> SUFFICES ASSUME ~stays PROVE FALSE
                OBVIOUS
            <4>1. PICK i \in Range(m) : i \notin s.bad /\ i.p.id # item.p.id BY <2>3
            <4>2. PICK x \in DOMAIN m : i = m[x] BY DEF Range
            <4>3. x - 1 \in 0 .. Len(m) - 1 /\ (x - 1) + 1 = x BY <1>1, <4>2
            <4>4. x - 1 = k BY <1>8, <3>4, <4>1, <4>2, <4>3
            <4>5. i = item BY <3>4, <4>2, <4>3, <4>4 DEF item
            <4> QED BY <4>1, <4>5
        <3>6. w.tries = s.tries[r] + 1 /\ s.tries[r] + 1 <= MaxCount BY <1>6, <3>3, <3>5
        <3>7. u = [run EXCEPT !.n = run.n + 1]
            <4>1. ~(run.n > MaxCount) BY <1>1, <1>2, <3>1, <3>2
            <4> QED BY <2>3, <4>1 DEF CountRun
        <3>8. u \in [id : Nat, n : Nat] /\ u.n = run.n + 1 /\ u.id = run.id BY <1>1, <3>1, <3>7
        <3> HIDE DEF u, others, stays
        <3>9. s.tries[r] \in Nat BY <1>1, <1>2
        <3>10. u.n <= w.tries BY <3>1, <3>2, <3>6, <3>8, <3>9
        <3>11. u.n # 0 BY <3>1, <3>8
        <3>12. u.id = item.p.id BY <2>3, <3>8
        <3> QED BY <3>8, <3>10, <3>11, <3>12
    <2> QED BY <2>1, <2>2, <2>3
<1> HIDE DEF u, k, n
<1>11. Returned(t, s, r, w.index, w.tries, u)
    <2> DEFINE x == [s.index EXCEPT ![r] = w.index]
               y == [s.tries EXCEPT ![r] = w.tries]
               z == [s.run EXCEPT ![r] = u]
    <2>1. x \in [Roles -> Nat] BY <1>1, <1>4, <1>8 DEF HolderStates
    <2>2. y \in [Roles -> 0 .. MaxCount] BY <1>1, <1>2, <1>8 DEF HolderStates
    <2>3. z \in [Roles -> [id : Nat, n : Nat]] BY <1>1, <1>10 DEF HolderStates
    <2>4. next.s = [s EXCEPT !.index = x, !.tries = y] BY <1>1, <1>3 DEF HolderStates
    <2>5. next.s.run = s.run BY <1>1, <2>4 DEF HolderStates
    <2>6. t = [next.s EXCEPT !.run = z] BY <1>3, <2>5 DEF u
    <2> HIDE DEF x, y, z
    <2>7. t = [s EXCEPT !.index = x, !.tries = y, !.run = z] BY <1>1, <2>4, <2>6 DEF HolderStates
    <2>8. t \in HolderStates BY <1>1, <2>1, <2>2, <2>3, <2>7 DEF HolderStates
    <2> QED BY <1>1, <2>7, <2>8 DEF Returned, HolderStates, x, y, z
<1>12. Good(t)
    <2>1. w.index < Len(m) /\ w.index \in Nat /\ w.tries \in 0 .. MaxCount BY <1>2, <1>4, <1>8
    <2>2. u.n > 0 => u.id = m[w.index + 1].p.id BY <1>10 DEF item
    <2> HIDE DEF m
    <2> QED BY <1>10, <1>11, <2>1, <2>2, ReturnedGood DEF m
<1> QED BY <1>3, <1>8, <1>9, <1>11, <1>12 DEF Returned, SameCalls, item

-----------------------------------------------------------------------------
(* The handler. *)

\* The list and the policies are as they were.
SamePolicies(t, s) ==
    /\ t \in HolderStates /\ t.items = s.items /\ t.src = s.src /\ t.matched = s.matched
    /\ t.index = s.index /\ t.tries = s.tries /\ t.run = s.run

LEMMA SamePoliciesGood ==
    ASSUME NEW s, NEW t, Good(s), SamePolicies(t, s)
    PROVE  Good(t)
BY DEF Good, SamePolicies, PolicyOK

\* What ChosenFits asks of the item of a new call.
Fit(i, bad, r) == (CanDealWithType(i.p, r) /\ i \notin bad) \/ i.p.id = prefer

\* From s to t, holders did nothing but start calls with items that fit, and release calls.
Starts(t, s) ==
    /\ t.bad = s.bad
    /\ \A q \in Roles : \/ t.st[q] = s.st[q] /\ t.cur[q] = s.cur[q]
                        \/ t.st[q] = "CONNECTING" /\ Fit(t.cur[q], t.bad, q)
                        \/ t.st[q] = "DISCONNECTING"

LEMMA StartsTrans ==
    ASSUME NEW s, NEW t, NEW u, Starts(t, s), Starts(u, t)
    PROVE  Starts(u, s)
BY DEF Starts

LEMMA NothingStarts ==
    ASSUME NEW s, NEW t, t.bad = s.bad, t.st = s.st, t.cur = s.cur
    PROVE  Starts(t, s)
BY DEF Starts

LEMMA SetEnGood ==
    ASSUME NEW s, Good(s), NEW r \in Roles, NEW b \in BOOLEAN, NEW t, t = [s EXCEPT !.en[r] = b]
    PROVE  Good(t) /\ t.bad = s.bad /\ t.st = s.st /\ t.cur = s.cur
<1> DEFINE e == [s.en EXCEPT ![r] = b]
<1>1. s \in HolderStates BY DEF Good
<1>2. e \in [Roles -> BOOLEAN] BY <1>1 DEF HolderStates
<1>3. t = [s EXCEPT !.en = e] OBVIOUS
<1> HIDE DEF e
<1>4. SamePolicies(t, s) BY <1>1, <1>2, <1>3 DEF SamePolicies, HolderStates
<1>5. t.bad = s.bad /\ t.st = s.st /\ t.cur = s.cur BY <1>1, <1>3 DEF HolderStates
<1> QED BY <1>4, <1>5, SamePoliciesGood

LEMMA SetEstGood ==
    ASSUME NEW s, Good(s), NEW e \in SUBSET Roles, NEW t, t = [s EXCEPT !.est = e]
    PROVE  Good(t) /\ t.bad = s.bad /\ t.st = s.st /\ t.cur = s.cur /\ t.en = s.en /\ t.est = e
<1>1. s \in HolderStates BY DEF Good
<1>2. SamePolicies(t, s) BY <1>1 DEF SamePolicies, HolderStates
<1>3. t.bad = s.bad /\ t.st = s.st /\ t.cur = s.cur /\ t.en = s.en /\ t.est = e
    BY <1>1 DEF HolderStates
<1> QED BY <1>2, <1>3, SamePoliciesGood

LEMMA SetStGood ==
    ASSUME NEW s, Good(s), NEW r \in Roles, NEW x \in States, NEW t, t = [s EXCEPT !.st[r] = x]
    PROVE  Good(t) /\ t.bad = s.bad /\ t.cur = s.cur /\ t.en = s.en /\ t.est = s.est
           /\ t.st = [s.st EXCEPT ![r] = x]
<1> DEFINE e == [s.st EXCEPT ![r] = x]
<1>1. s \in HolderStates BY DEF Good
<1>2. e \in [Roles -> States] BY <1>1 DEF HolderStates
<1>3. t = [s EXCEPT !.st = e] OBVIOUS
<1> HIDE DEF e
<1>4. SamePolicies(t, s) BY <1>1, <1>2, <1>3 DEF SamePolicies, HolderStates
<1>5. t.bad = s.bad /\ t.cur = s.cur /\ t.en = s.en /\ t.est = s.est /\ t.st = e
    BY <1>1, <1>3 DEF HolderStates
<1>6. Good(t) BY <1>4, SamePoliciesGood
<1> QED BY <1>5, <1>6 DEF e

LEMMA StartGood ==
    ASSUME NEW s, Good(s), NEW r \in Roles, NEW i \in Item, Fit(i, s.bad, r),
           NEW t, t = [s EXCEPT !.cur[r] = i, !.st[r] = "CONNECTING"]
    PROVE  Good(t) /\ Starts(t, s)
<1> DEFINE c == [s.cur EXCEPT ![r] = i]
           e == [s.st EXCEPT ![r] = "CONNECTING"]
<1>1. s \in HolderStates BY DEF Good
<1>2. c \in [Roles -> Item \cup {NoItem}] /\ e \in [Roles -> States] BY <1>1 DEF HolderStates, States
<1>3. t = [s EXCEPT !.cur = c, !.st = e] BY <1>1 DEF HolderStates
<1>4. /\ c[r] = i /\ e[r] = "CONNECTING"
      /\ \A q \in Roles : q # r => c[q] = s.cur[q] /\ e[q] = s.st[q]
    BY <1>1 DEF HolderStates
<1> HIDE DEF c, e
<1>5. SamePolicies(t, s) BY <1>1, <1>2, <1>3 DEF SamePolicies, HolderStates
<1>6. t.bad = s.bad /\ t.cur = c /\ t.st = e BY <1>1, <1>3 DEF HolderStates
<1>7. Starts(t, s) BY <1>4, <1>6 DEF Starts
<1> QED BY <1>5, <1>7, SamePoliciesGood

(* EstablishDataConnection with the items of the holder's type. *)
LEMMA EstablishGood ==
    ASSUME NEW s, Good(s), NEW r \in Roles, Fitting(s.matched[r], r),
           NEW t, t = EstablishDataConnection(s, r)
    PROVE  Good(t) /\ Starts(t, s)
<1> DEFINE byId == IF prefer = 0 THEN NoItem ELSE ItemById(s, prefer)
           next == GetNextRetryApnItem(s, r)
           s1   == IF byId # NoItem THEN [s EXCEPT !.run[r] = NoRun]
                   ELSE [next.s EXCEPT !.run[r] = CountRun(s, r, next.item)]
           item == IF byId # NoItem THEN byId ELSE next.item
           others == IF r \in {"default", "internal_default"} THEN {} ELSE CompatibleHolders(s1, r)
<1>1. \/ t = s
      \/ item # NoItem /\ t = [s1 EXCEPT !.en[r] = FALSE]
      \/ item # NoItem /\ t = [s1 EXCEPT !.est = s1.est \cup {r}]
      \/ item # NoItem /\ t = [s1 EXCEPT !.cur[r] = item, !.st[r] = "CONNECTING"]
    BY DEF EstablishDataConnection
<1>2. item # NoItem => /\ Good(s1) /\ item \in Item /\ Fit(item, s.bad, r)
                       /\ s1.bad = s.bad /\ s1.st = s.st /\ s1.cur = s.cur
    <2>1. CASE byId # NoItem
        <3>1. byId \in Item /\ byId.p.id = prefer BY <2>1, ItemByIdIs
        <3>2. s1 = [s EXCEPT !.run[r] = NoRun] /\ item = byId BY <2>1
        <3> HIDE DEF s1, item, byId
        <3>3. /\ s \in HolderStates /\ PolicyOK(s, r) /\ s.index[r] \in Nat
              /\ s.tries[r] \in 0 .. MaxCount /\ NoRun \in [id : Nat, n : Nat] /\ NoRun.n = 0
            BY DEF Good, HolderStates, NoRun
        <3>4. Returned(s1, s, r, s.index[r], s.tries[r], NoRun)
            <4> DEFINE z == [s.run EXCEPT ![r] = NoRun]
            <4>1. z \in [Roles -> [id : Nat, n : Nat]] BY <3>3 DEF HolderStates
            <4>2. s1 = [s EXCEPT !.run = z] BY <3>2
            <4> HIDE DEF z
            <4>3. s1 \in HolderStates BY <3>3, <4>1, <4>2 DEF HolderStates
            <4>4. s.index = [s.index EXCEPT ![r] = s.index[r]] /\ s.tries = [s.tries EXCEPT ![r] = s.tries[r]]
                BY <3>3 DEF HolderStates
            <4> QED BY <3>3, <4>2, <4>3, <4>4 DEF Returned, HolderStates, z
        <3>5. Good(s1) BY <3>3, <3>4, ReturnedGood DEF PolicyOK
        <3>6. s1.bad = s.bad /\ s1.st = s.st /\ s1.cur = s.cur BY <3>4 DEF Returned
        <3> QED BY <3>1, <3>2, <3>5, <3>6 DEF Fit
    <2>2. CASE byId = NoItem /\ ~IsAllBadApn(s, r)
        <3>1. s1 = [next.s EXCEPT !.run[r] = CountRun(s, r, next.item)] /\ item = next.item BY <2>2
        <3>2. next = GetNextRetryApnItem(s, r) /\ ~IsAllBadApn(s, r) BY <2>2
        <3> HIDE DEF s1, item, next, byId
        <3>3. Good(s1)
            BY <3>1, <3>2, GetNextGood
        <3>4. /\ next.item \in Range(s.matched[r]) /\ next.item \in Item /\ next.item \notin s.bad
            BY <3>1, <3>2, GetNextGood
        <3>5. SameCalls(s1, s) BY <3>1, <3>2, GetNextGood
        <3>6. CanDealWithType(next.item.p, r) BY <3>4 DEF Fitting, Range
        <3> QED BY <3>1, <3>3, <3>4, <3>5, <3>6 DEF Fit, SameCalls
    <2>3. CASE byId = NoItem /\ IsAllBadApn(s, r)
        <3>1. item = NoItem BY <2>3 DEF GetNextRetryApnItem
        <3> QED BY <3>1
    <2> QED BY <2>1, <2>2, <2>3
<1> HIDE DEF s1, item
<1>3. CASE t = s BY <1>3, NothingStarts
<1>4. CASE item # NoItem /\ t = [s1 EXCEPT !.en[r] = FALSE]
    <2>1. Good(t) /\ t.bad = s1.bad /\ t.st = s1.st /\ t.cur = s1.cur BY <1>2, <1>4, SetEnGood
    <2> QED BY <1>2, <1>4, <2>1, NothingStarts
<1>5. CASE item # NoItem /\ t = [s1 EXCEPT !.est = s1.est \cup {r}]
    <2>1. s1.est \cup {r} \in SUBSET Roles BY <1>2, <1>5 DEF Good, HolderStates
    <2> QED BY <1>2, <1>5, <2>1, SetEstGood, NothingStarts
<1>6. CASE item # NoItem /\ t = [s1 EXCEPT !.cur[r] = item, !.st[r] = "CONNECTING"]
    <2>1. Good(t) /\ Starts(t, s1) BY <1>2, <1>6, StartGood
    <2> QED BY <1>2, <1>6, <2>1, NothingStarts, StartsTrans
<1> QED BY <1>1, <1>3, <1>4, <1>5, <1>6

(* The holders that share the APNs of the default one are released. *)
LEMMA CheckMultiApnGood ==
    ASSUME NEW s, Good(s), NEW r, NEW t, t = CheckMultiApnState(s, r)
    PROVE  Good(t) /\ Starts(t, s) /\ t.matched = s.matched
<1> DEFINE e == [q \in Roles |-> IF /\ r = "default" /\ q \in {"bip", "dun"}
                                    /\ s.st[q] \in {"CONNECTING", "CONNECTED"}
                                 THEN "DISCONNECTING" ELSE s.st[q]]
<1>1. s \in HolderStates BY DEF Good
<1>2. t = [s EXCEPT !.st = e] BY DEF CheckMultiApnState
<1>3. e \in [Roles -> States] BY <1>1 DEF HolderStates, States
<1>4. \A q \in Roles : e[q] = s.st[q] \/ e[q] = "DISCONNECTING" OBVIOUS
<1> HIDE DEF e
<1>5. SamePolicies(t, s) BY <1>1, <1>2, <1>3 DEF SamePolicies, HolderStates
<1>6. t.bad = s.bad /\ t.cur = s.cur /\ t.st = e /\ t.matched = s.matched
    BY <1>1, <1>2 DEF HolderStates
<1>7. Starts(t, s) BY <1>4, <1>6 DEF Starts
<1> QED BY <1>5, <1>6, <1>7, SamePoliciesGood

LEMMA AttemptGood ==
    ASSUME NEW s, Good(s), NEW r \in Roles, NEW t, t = Attempt(s, r)
    PROVE  Good(t) /\ Starts(t, s)
<1> DEFINE apns == FilterMatchedApns(s, r)
           u == SetMatchedApns(s, r, apns)
           v == CheckMultiApnState(u, r)
<1>1. t = s \/ t = [s EXCEPT !.est = {r}] \/ t = EstablishDataConnection(v, r)
    BY DEF Attempt
<1>2. Fitting(apns, r) BY FilterMatchedApnsFit
<1> HIDE DEF apns
<1>3. Good(u) /\ u.matched[r] = apns /\ u.bad = s.bad /\ u.cur = s.cur /\ u.st = s.st
    BY <1>2, SetMatchedApnsGood
<1> HIDE DEF u
<1>4. Good(v) /\ Starts(v, u) /\ v.matched = u.matched BY <1>3, CheckMultiApnGood
<1> HIDE DEF v
<1>5. CASE t = s BY <1>5, NothingStarts
<1>6. CASE t = [s EXCEPT !.est = {r}]
    <2>1. {r} \in SUBSET Roles OBVIOUS
    <2> QED BY <1>6, <2>1, SetEstGood, NothingStarts
<1>7. CASE t = EstablishDataConnection(v, r)
    <2>1. Fitting(v.matched[r], r) BY <1>2, <1>3, <1>4
    <2>2. Good(t) /\ Starts(t, v) BY <1>7, <1>4, <2>1, EstablishGood
    <2>3. Starts(u, s) BY <1>3, NothingStarts
    <2> QED BY <1>4, <2>2, <2>3, StartsTrans
<1> QED BY <1>1, <1>5, <1>6, <1>7

LEMMA SetBadGood ==
    ASSUME NEW s, Good(s), NEW b, b \subseteq s.bad, NEW t, t = [s EXCEPT !.bad = b]
    PROVE  Good(t) /\ t.bad = b /\ t.st = s.st /\ t.cur = s.cur
<1>1. s \in HolderStates BY DEF Good
<1>2. b \in SUBSET (Item \cup {NoItem}) BY <1>1 DEF HolderStates
<1>3. SamePolicies(t, s) BY <1>1, <1>2 DEF SamePolicies, HolderStates
<1>4. t.bad = b /\ t.st = s.st /\ t.cur = s.cur BY <1>1 DEF HolderStates
<1> QED BY <1>3, <1>4, SamePoliciesGood

LEMMA ClearAllApnBadGood ==
    ASSUME NEW s, Good(s), NEW t, t = ClearAllApnBad(s)
    PROVE  Good(t) /\ t.st = s.st /\ t.cur = s.cur
<1> DEFINE b == s.bad \ {s.cur[r] : r \in Roles}
<1>1. b \subseteq s.bad /\ t = [s EXCEPT !.bad = b] BY DEF ClearAllApnBad
<1> HIDE DEF b
<1> QED BY <1>1, SetBadGood

LEMMA ForgetGood ==
    ASSUME NEW s, Good(s), NEW t, t = Forget(s)
    PROVE  Good(t) /\ t.bad \subseteq s.bad /\ t.st = s.st /\ t.cur = s.cur
<1> DEFINE b == s.bad \cap (Held(s) \cup Range(s.items))
<1>1. b \subseteq s.bad /\ t = [s EXCEPT !.bad = b] BY DEF Forget
<1> HIDE DEF b
<1>2. Good(t) BY <1>1, SetBadGood
<1>3. t.bad = b /\ t.st = s.st /\ t.cur = s.cur BY <1>1, SetBadGood
<1> QED BY <1>1, <1>2, <1>3

(* The loop over the holders. *)
LEMMA EstablishAllGood ==
    ASSUME NEW s, Good(s), NEW t, t = EstablishAllApnsIfConnectable(s)
    PROVE  Good(t) /\ Starts(t, ClearAllApnBad(s))
<1> DEFINE n == Len(SortApnHolder)
           m == ClearAllApnBad(s)
           D == {o \in HolderStates : Good(o) /\ Starts(o, m)}
           Body(o, i) == IF o.en[SortApnHolder[i]] THEN Attempt(o, SortApnHolder[i]) ELSE o
           step == [x \in D \X (1 .. n) |-> Body(x[1], x[2])]
<1>1. \A o : Good(o) /\ Starts(o, m) <=> o \in D BY DEF Good
<1>2. n \in Nat /\ \A i \in 1 .. n : SortApnHolder[i] \in Roles BY ApnAssumption
<1>3. \A o \in D, i \in 1 .. n : Body(o, i) \in D
    <2> SUFFICES ASSUME NEW o \in D, NEW i \in 1 .. n
                 PROVE  Good(Body(o, i)) /\ Starts(Body(o, i), m)
        BY <1>1
    <2> DEFINE r == SortApnHolder[i]
               a == Attempt(o, r)
    <2>1. Good(o) /\ Starts(o, m) /\ r \in Roles BY <1>1, <1>2
    <2> HIDE DEF m, D, r
    <2>2. Good(a) /\ Starts(a, o) BY <2>1, AttemptGood
    <2>3. Starts(a, m)
        <3> HIDE DEF a
        <3> QED BY <2>1, <2>2, StartsTrans
    <2> QED BY <2>1, <2>2, <2>3 DEF r
<1>4. m \in D
    <2>1. Good(m) BY ClearAllApnBadGood
    <2>2. Starts(m, m) BY NothingStarts
    <2> QED BY <1>1, <2>1, <2>2
<1> HIDE DEF D, n, m, Body
<1>5. IsStep(step, D, n) BY <1>3 DEF IsStep
<1>6. PICK f : IsRun(f, D, n, m, step)
    <2> HIDE DEF step
    <2> QED BY <1>2, <1>4, <1>5, LoopRuns
<1>7. \A i \in 1 .. n : f[i] = Body(f[i - 1], i)
    <2> SUFFICES ASSUME NEW i \in 1 .. n PROVE f[i] = Body(f[i - 1], i)
        OBVIOUS
    <2>1. f[i - 1] \in D BY <1>2, <1>6 DEF IsRun
    <2> QED BY <1>6, <2>1 DEF IsRun
<1> DEFINE Def(g) == [i \in 0 .. n |-> IF i = 0 THEN m ELSE Body(g[i - 1], i)]
           after == CHOOSE g : g = Def(g)
<1>8. f = Def(f) BY <1>2, <1>6, <1>7 DEF IsRun
<1>9. after = Def(after) BY <1>8
<1>10. after[n] \in D
    <2> HIDE DEF after
    <2>1. after[0] = m /\ \A i \in 1 .. n : after[i] = Body(after[i - 1], i) BY <1>2, <1>9
    <2>2. \A i \in 1 .. n : after[i - 1] \in D => after[i] \in D BY <1>3, <2>1
    <2> QED BY <1>2, <1>4, <2>1, <2>2, LoopStays
<1>11. t = after[n]
    BY DEF EstablishAllApnsIfConnectable, Body, m, n
<1> QED BY <1>1, <1>10, <1>11 DEF m

\* The step of an action from s to t starts calls only with items that fit.
Chosen(t, s) ==
    \A q \in Roles : s.st[q] # "CONNECTING" /\ t.st[q] = "CONNECTING" => Fit(t.cur[q], t.bad, q)

LEMMA ForgetChosen ==
    ASSUME NEW s, NEW u, NEW m, NEW t, Good(u), Starts(u, m), m.st = s.st, t = Forget(u)
    PROVE  Good(t) /\ Chosen(t, s)
<1>1. Good(t) /\ t.bad \subseteq u.bad /\ t.st = u.st /\ t.cur = u.cur BY ForgetGood
<1>2. Chosen(t, s)
    <2> SUFFICES ASSUME NEW q \in Roles, s.st[q] # "CONNECTING", t.st[q] = "CONNECTING"
                 PROVE  Fit(t.cur[q], t.bad, q)
        BY DEF Chosen
    <2>1. Fit(u.cur[q], u.bad, q) BY <1>1 DEF Starts
    <2> QED BY <1>1, <2>1 DEF Fit
<1> QED BY <1>1, <1>2

LEMMA AttachTyped ==
    ASSUME NEW s, Good(s), NEW a, a = GetRilAttachApn(s)
    PROVE  a \in Item \cup {NoItem}
<1>1. s.items \in Seq(Item) BY DEF Good, HolderStates
<1>2. s.items # <<>> => Head(s.items) \in Item BY <1>1
<1>3. \A S : First(s.items, S) \in Item \cup {NoItem} BY <1>1, FirstIs
<1> QED BY <1>2, <1>3 DEF GetRilAttachApn

-----------------------------------------------------------------------------
(* The steps. *)

\* No call starts from s to t.
NoStart(t, s) == \A q \in Roles : t.st[q] = "CONNECTING" => s.st[q] = "CONNECTING"

LEMMA ClearAllConnectionsGood ==
    ASSUME NEW s, Good(s), NEW t, t = ClearAllConnections(s)
    PROVE  Good(t) /\ NoStart(t, s)
<1> DEFINE e == [r \in Roles |-> IF r # "mms" /\ s.st[r] \in {"CONNECTING", "CONNECTED"}
                                 THEN "DISCONNECTING" ELSE s.st[r]]
<1>1. s \in HolderStates BY DEF Good
<1>2. t = [s EXCEPT !.st = e] BY DEF ClearAllConnections
<1>3. e \in [Roles -> States] BY <1>1 DEF HolderStates, States
<1>4. \A q \in Roles : e[q] = "CONNECTING" => s.st[q] = "CONNECTING" OBVIOUS
<1> HIDE DEF e
<1>5. SamePolicies(t, s) /\ t.st = e BY <1>1, <1>2, <1>3 DEF SamePolicies, HolderStates
<1> QED BY <1>4, <1>5, SamePoliciesGood DEF NoStart

\* The holders that wait to retry start over, in HandleApnChanged.
StartOver(s, retrying) ==
    [s EXCEPT !.st  = [r \in Roles |-> IF r \in retrying THEN "IDLE" ELSE @[r]],
              !.tries = [r \in Roles |-> IF r \in retrying THEN 0 ELSE @[r]],
              !.run = [r \in Roles |-> IF r \in retrying THEN NoRun ELSE @[r]],
              !.est = Roles]

LEMMA StartOverGood ==
    ASSUME NEW s, Good(s), NEW retrying, NEW t, t = StartOver(s, retrying)
    PROVE  Good(t) /\ NoStart(t, s)
<1> DEFINE e == [r \in Roles |-> IF r \in retrying THEN "IDLE" ELSE s.st[r]]
           y == [r \in Roles |-> IF r \in retrying THEN 0 ELSE s.tries[r]]
           z == [r \in Roles |-> IF r \in retrying THEN NoRun ELSE s.run[r]]
<1>1. s \in HolderStates /\ ListOK(s.items, s.src) /\ \A q \in Roles : PolicyOK(s, q) BY DEF Good
<1>2. t = [s EXCEPT !.st = e, !.tries = y, !.run = z, !.est = Roles]
    BY <1>1 DEF StartOver, HolderStates
<1>3. NoRun \in [id : Nat, n : Nat] /\ NoRun.n = 0 /\ 0 \in 0 .. MaxCount
    BY ApnAssumption DEF NoRun
<1>4. e \in [Roles -> States] BY <1>1 DEF HolderStates, States
<1>5. y \in [Roles -> 0 .. MaxCount] BY <1>1, <1>3 DEF HolderStates
<1>6. z \in [Roles -> [id : Nat, n : Nat]] BY <1>1, <1>3 DEF HolderStates
<1>7. /\ \A q \in Roles : e[q] = "CONNECTING" => s.st[q] = "CONNECTING"
      /\ \A q \in Roles : z[q] = NoRun \/ (z[q] = s.run[q] /\ y[q] = s.tries[q])
    OBVIOUS
<1> HIDE DEF e, y, z
<1>8. t \in HolderStates BY <1>1, <1>2, <1>4, <1>5, <1>6 DEF HolderStates
<1>9. /\ t.st = e /\ t.tries = y /\ t.run = z /\ t.items = s.items /\ t.src = s.src
      /\ t.matched = s.matched /\ t.index = s.index
    BY <1>1, <1>2 DEF HolderStates
<1>10. \A q \in Roles : PolicyOK(t, q)
    <2> SUFFICES ASSUME NEW q \in Roles PROVE PolicyOK(t, q)
        OBVIOUS
    <2>1. PolicyOK(s, q) BY <1>1
    <2>2. CASE z[q] = NoRun BY <1>3, <1>9, <2>1, <2>2 DEF PolicyOK
    <2>3. CASE z[q] = s.run[q] /\ y[q] = s.tries[q] BY <1>9, <2>1, <2>3 DEF PolicyOK
    <2> QED BY <1>7, <2>2, <2>3
<1> QED BY <1>1, <1>7, <1>8, <1>9, <1>10 DEF Good, NoStart

LEMMA ReloadGood ==
    ASSUME NEW read, Good(read.s), Reload(read)
    PROVE  /\ Good(h') /\ NoStart(h', read.s)
           /\ retryEvents' \subseteq retryEvents
<1> DEFINE attach == GetRilAttachApn(read.s)
           same == IsCompatibleApnItem(lastApn, attach.p)
           s0 == IF same THEN read.s ELSE ClearAllConnections(read.s)
           s1 == ClearAllApnBad(s0)
           retrying == {r \in Roles : s1.st[r] = "RETRYING"}
           s2 == StartOver(s1, retrying)
<1>1. h' = Forget(s2) /\ (retryEvents' = {} \/ retryEvents' = retryEvents)
    BY DEF Reload, StartOver
<1>2. Good(s0) /\ NoStart(s0, read.s) BY ClearAllConnectionsGood DEF NoStart
<1> HIDE DEF s0
<1>3. Good(s1) /\ s1.st = s0.st BY <1>2, ClearAllApnBadGood
<1> HIDE DEF s1, retrying
<1>4. Good(s2) /\ NoStart(s2, s1) BY <1>3, StartOverGood
<1> HIDE DEF s2
<1>5. Good(h') /\ h'.st = s2.st
    <2>1. Good(Forget(s2)) /\ Forget(s2).st = s2.st BY <1>4, ForgetGood
    <2> QED BY <1>1, <2>1
<1> QED BY <1>1, <1>2, <1>3, <1>4, <1>5 DEF NoStart

\* The variables other than h.
Outer ==
    /\ rows \in Tables /\ prefer \in {0} \cup ProfileIds
    /\ apnChanged \in BOOLEAN /\ createPending \in BOOLEAN /\ roaming \in BOOLEAN
    /\ created \in BOOLEAN
    /\ createTimes \in 0 .. CreateRetries
    /\ edits \in 0 .. MaxEdits /\ faults \in 0 .. MaxFaults
    /\ retryEvents \subseteq Roles

ApnInv == Good(h) /\ Outer

\* The step that ChosenFits is about.
ChosenStep ==
    \A r \in Roles :
        h.st[r] # "CONNECTING" /\ h'.st[r] = "CONNECTING" =>
            \/ CanDealWithType(h'.cur[r].p, r) /\ h'.cur[r] \notin h'.bad
            \/ h'.cur[r].p.id = prefer'

LEMMA ApnInit == Init => ApnInv
<1> SUFFICES ASSUME Init PROVE ApnInv
    OBVIOUS
<1>1. Good(h) BY EmptyGood DEF Init
<1>2. prefer \in {0} \cup ProfileIds
    BY DEF Init, ProfileIds, Profiles
<1>3. 0 \in 0 .. CreateRetries /\ 0 \in 0 .. MaxEdits /\ 0 \in 0 .. MaxFaults BY ApnAssumption
<1>4. rows \in Tables /\ retryEvents \subseteq Roles BY DEF Init
<1>5. /\ apnChanged \in BOOLEAN /\ createPending \in BOOLEAN /\ roaming \in BOOLEAN
      /\ created \in BOOLEAN
    BY DEF Init
<1>6. Outer BY <1>2, <1>3, <1>4, <1>5 DEF Init, Outer
<1> QED BY <1>1, <1>6 DEF ApnInv

LEMMA HandleApnChangedKeeps ==
    ASSUME ApnInv, NEW retry \in BOOLEAN, NEW f1 \in FaultSets, NEW f2 \in FaultSets,
           HandleApnChanged(retry, f1, f2)
    PROVE  ApnInv' /\ ChosenStep
<1> DEFINE read == ReadTable(h, f1, f2)
           attach == GetRilAttachApn(read.s)
<1>1. Good(h) /\ Outer /\ prefer \in Int
    <2>1. ProfileIds \subseteq Int BY ProfilesTyped
    <2> QED BY <2>1 DEF ApnInv, Outer
<1>2. Good(read.s) /\ OnlyList(read.s, h) BY <1>1, ReadTableGood DEF Outer
<1>3. /\ Reload(read) /\ ScheduleCreate(read.count, createPending /\ ~retry)
      /\ created' = (read.count # 0) /\ UpdateApnInfo(attach, retry /\ apnChanged)
      /\ (faults' = faults \/ (faults < MaxFaults /\ faults' = faults + 1))
      /\ UNCHANGED <<rows, roaming, edits>>
    BY DEF HandleApnChanged
<1> HIDE DEF read
<1>4. Good(h') /\ NoStart(h', read.s) /\ retryEvents' \subseteq retryEvents
    BY <1>2, <1>3, ReloadGood
<1>5. NoStart(h', h) BY <1>2, <1>4 DEF NoStart, OnlyList
<1>6. attach \in Item \cup {NoItem} BY <1>2, AttachTyped
<1> HIDE DEF attach
<1>7. prefer' \in {0} \cup ProfileIds /\ apnChanged' \in BOOLEAN
    <2>1. attach # NoItem => attach.p.id \in ProfileIds BY <1>6 DEF Item, Profile
    <2>2. prefer' = prefer \/ (attach # NoItem /\ prefer' = attach.p.id) BY <1>3 DEF UpdateApnInfo
    <2> QED BY <1>1, <1>3, <2>1, <2>2 DEF UpdateApnInfo, Outer
<1>8. createPending' \in BOOLEAN /\ createTimes' \in 0 .. CreateRetries
    <2>1. createTimes \in 0 .. CreateRetries /\ CreateRetries \in Nat
        BY <1>1, ApnAssumption DEF Outer
    <2> QED BY <1>3, <2>1 DEF ScheduleCreate
<1>9. faults' \in 0 .. MaxFaults /\ created' \in BOOLEAN BY <1>1, <1>3, ApnAssumption DEF Outer
<1>10. Outer' BY <1>1, <1>3, <1>4, <1>7, <1>8, <1>9 DEF Outer
<1>11. ChosenStep BY <1>5 DEF ChosenStep, NoStart
<1> QED BY <1>4, <1>10, <1>11 DEF ApnInv

\* A step that leaves the table and its budget alone and starts only calls that fit.
Quiet(t) == Good(t) /\ Chosen(t, h)

LEMMA QuietKeeps ==
    ASSUME ApnInv, Quiet(h'), unchangedTable, retryEvents' \subseteq Roles,
           faults' \in 0 .. MaxFaults
    PROVE  ApnInv' /\ ChosenStep
<1>1. Outer' BY DEF ApnInv, Outer, unchangedTable
<1>2. ChosenStep BY DEF Quiet, Chosen, Fit, ChosenStep, unchangedTable
<1> QED BY <1>1, <1>2 DEF ApnInv, Quiet

LEMMA NoStartQuiet ==
    ASSUME NEW t, Good(t), NoStart(t, h)
    PROVE  Quiet(t)
BY DEF Quiet, Chosen, NoStart

LEMMA EstablishKeeps ==
    ASSUME ApnInv, NEW r \in Roles, MsgEstablishDataConnection(r)
    PROVE  ApnInv' /\ ChosenStep
<1> DEFINE s == [h EXCEPT !.est = @ \ {r}]
           u == IF s.en[r] THEN Attempt(s, r)
                ELSE IF s.st[r] \in {"CONNECTING", "CONNECTED"}
                     THEN [s EXCEPT !.st[r] = "DISCONNECTING"] ELSE s
<1>1. Good(h) /\ h.est \subseteq Roles BY DEF ApnInv, Good, HolderStates
<1>2. h' = Forget(u) /\ UNCHANGED <<retryEvents, faults>> /\ unchangedTable
    BY DEF MsgEstablishDataConnection
<1>3. Good(s) /\ s.st = h.st
    <2>1. h.est \ {r} \in SUBSET Roles BY <1>1
    <2> QED BY <1>1, <2>1, SetEstGood
<1> HIDE DEF s
<1>4. Quiet(h')
    <2>1. CASE s.en[r]
        <3>1. u = Attempt(s, r) BY <2>1
        <3> HIDE DEF u
        <3>2. Good(u) /\ Starts(u, s) BY <1>3, <3>1, AttemptGood
        <3>3. Good(Forget(u)) /\ Chosen(Forget(u), h) BY <1>3, <3>2, ForgetChosen
        <3> QED BY <1>2, <3>3 DEF Quiet
    <2>2. CASE ~s.en[r]
        <3>1. Good(u) /\ NoStart(u, h)
            <4> DEFINE d == [s EXCEPT !.st[r] = "DISCONNECTING"]
            <4>1. "DISCONNECTING" \in States /\ d = [s EXCEPT !.st[r] = "DISCONNECTING"] BY DEF States
            <4>2. u = d \/ u = s BY <2>2
            <4> HIDE DEF d, u
            <4>3. Good(d) BY <1>3, <4>1, SetStGood
            <4>4. s \in HolderStates /\ s.st \in [Roles -> States] BY <1>3 DEF Good, HolderStates
            <4>5. d.st = [s.st EXCEPT ![r] = "DISCONNECTING"] BY <4>1, <4>4 DEF HolderStates
            <4>6. NoStart(d, h) BY <1>3, <4>4, <4>5 DEF NoStart
            <4> QED BY <1>3, <4>2, <4>3, <4>6 DEF NoStart
        <3> HIDE DEF u
        <3>2. Good(Forget(u)) /\ Forget(u).st = u.st BY <3>1, ForgetGood
        <3>3. NoStart(Forget(u), h) BY <3>1, <3>2 DEF NoStart
        <3> QED BY <1>2, <3>2, <3>3, NoStartQuiet
    <2> QED BY <2>1, <2>2
<1> QED BY <1>2, <1>4, QuietKeeps DEF ApnInv, Outer

LEMMA EstablishAllKeeps ==
    ASSUME ApnInv, NEW s, Good(s), s.st = h.st \/ NoStart(s, h), NEW u,
           u = s \/ u = EstablishAllApnsIfConnectable(s),
           h' = Forget(u), UNCHANGED <<retryEvents, faults>>, unchangedTable
    PROVE  ApnInv' /\ ChosenStep
<1>1. NoStart(s, h) BY DEF NoStart
<1>2. Good(u) /\ \E m : Starts(u, m) /\ m.st = s.st
    <2>1. CASE u = s BY <2>1, NothingStarts
    <2>2. CASE u = EstablishAllApnsIfConnectable(s)
        <3>1. Good(u) /\ Starts(u, ClearAllApnBad(s)) BY <2>2, EstablishAllGood
        <3>2. ClearAllApnBad(s).st = s.st BY ClearAllApnBadGood
        <3> QED BY <3>1, <3>2
    <2> QED BY <2>1, <2>2
<1>3. Good(Forget(u)) /\ Chosen(Forget(u), s) BY <1>2, ForgetChosen
<1>4. Quiet(h') BY <1>1, <1>3 DEF Quiet, Chosen, NoStart
<1> QED BY <1>4, QuietKeeps DEF ApnInv, Outer

LEMMA CallClearedKeeps ==
    ASSUME ApnInv, NEW r \in Roles, CallCleared(r)
    PROVE  ApnInv' /\ ChosenStep
<1> DEFINE s == [h EXCEPT !.st[r] = "IDLE"]
           u == IF s.en[r] THEN EstablishAllApnsIfConnectable(s) ELSE s
<1>1. h' = Forget(u) /\ UNCHANGED <<retryEvents, faults>> /\ unchangedTable BY DEF CallCleared
<1>2. "IDLE" \in States /\ Good(h) /\ h.st \in [Roles -> States]
    BY DEF States, ApnInv, Good, HolderStates
<1>3. Good(s) /\ s.st = [h.st EXCEPT ![r] = "IDLE"] BY <1>2, SetStGood
<1>4. u = s \/ u = EstablishAllApnsIfConnectable(s) OBVIOUS
<1> HIDE DEF s, u
<1>5. NoStart(s, h) BY <1>2, <1>3 DEF NoStart
<1> QED BY <1>1, <1>3, <1>4, <1>5, EstablishAllKeeps

\* The answers of a machine, and requests: no call starts.
LEMMA SmallSteps ==
    ASSUME ApnInv, NEW r \in Roles,
           \/ RetryToSetupDatacall(r) \/ EstablishDataConnectionComplete(r)
           \/ CallFails(r) \/ CallRejected(r) \/ RequestNetwork(r)
    PROVE  ApnInv' /\ ChosenStep
<1>1. /\ Good(h) /\ Outer /\ h \in HolderStates /\ h.st \in [Roles -> States]
      /\ h.est \subseteq Roles /\ {"IDLE", "RETRYING", "CONNECTED"} \subseteq States
    BY DEF ApnInv, Good, HolderStates, States
<1>2. CASE RetryToSetupDatacall(r)
    <2> DEFINE s == [h EXCEPT !.st[r] = "IDLE"]
               e == h.est \cup {r}
    <2>1. Good(s) /\ s.st = [h.st EXCEPT ![r] = "IDLE"] /\ s.est = h.est BY <1>1, SetStGood
    <2>2. h' = h \/ h' = [s EXCEPT !.est = e]
        BY <1>1, <1>2 DEF RetryToSetupDatacall, HolderStates
    <2> HIDE DEF s
    <2>3. e \in SUBSET Roles BY <1>1
    <2> HIDE DEF e
    <2>4. Good([s EXCEPT !.est = e]) /\ [s EXCEPT !.est = e].st = s.st BY <2>1, <2>3, SetEstGood
    <2>5. Good(h') /\ NoStart(h', h) BY <1>1, <2>1, <2>2, <2>4 DEF NoStart
    <2> QED BY <1>1, <1>2, <2>5, NoStartQuiet, QuietKeeps DEF RetryToSetupDatacall, Outer
<1>3. CASE EstablishDataConnectionComplete(r)
    <2> DEFINE i == InitialRetryCountValue(h, r)
    <2>1. Good(i) /\ i.st = h.st
        <3> DEFINE y == [h.tries EXCEPT ![r] = 0]
                   z == [h.run EXCEPT ![r] = NoRun]
        <3>1. /\ NoRun \in [id : Nat, n : Nat] /\ NoRun.n = 0 /\ 0 \in 0 .. MaxCount
              /\ h.index[r] \in Nat /\ PolicyOK(h, r)
            BY <1>1, ApnAssumption DEF NoRun, HolderStates, Good
        <3>2. y \in [Roles -> 0 .. MaxCount] /\ z \in [Roles -> [id : Nat, n : Nat]]
            BY <1>1, <3>1 DEF HolderStates
        <3>3. i = [h EXCEPT !.tries = y, !.run = z]
            BY <1>1 DEF InitialRetryCountValue, HolderStates
        <3> HIDE DEF i, y, z
        <3>4. i \in HolderStates BY <1>1, <3>2, <3>3 DEF HolderStates
        <3>5. h.index = [h.index EXCEPT ![r] = h.index[r]] BY <1>1 DEF HolderStates
        <3>6. Returned(i, h, r, h.index[r], 0, NoRun)
            BY <1>1, <3>3, <3>4, <3>5 DEF Returned, HolderStates, y, z
        <3>7. Good(i) BY <1>1, <3>1, <3>6, ReturnedGood DEF PolicyOK
        <3> QED BY <3>6, <3>7 DEF Returned
    <2>2. h' = [i EXCEPT !.st[r] = "CONNECTED"] BY <1>3 DEF EstablishDataConnectionComplete
    <2> HIDE DEF i
    <2>3. /\ Good([i EXCEPT !.st[r] = "CONNECTED"])
          /\ [i EXCEPT !.st[r] = "CONNECTED"].st = [i.st EXCEPT ![r] = "CONNECTED"]
        BY <1>1, <2>1, SetStGood
    <2>4. Good(h') /\ NoStart(h', h) BY <1>1, <2>1, <2>2, <2>3 DEF NoStart
    <2>5. prefer' \in {0} \cup ProfileIds /\ apnChanged' \in BOOLEAN
        <3>1. h.cur[r] # NoItem => h.cur[r].p.id \in ProfileIds
            BY <1>1 DEF HolderStates, Item, Profile
        <3>2. \/ UNCHANGED <<prefer, apnChanged>>
              \/ UpdateApnInfo(h.cur[r], apnChanged)
            BY <1>3 DEF EstablishDataConnectionComplete
        <3>3. prefer' = prefer \/ (h.cur[r] # NoItem /\ prefer' = h.cur[r].p.id)
            BY <3>2 DEF UpdateApnInfo
        <3> QED BY <1>1, <3>1, <3>2, <3>3 DEF UpdateApnInfo, Outer
    <2>6. retryEvents' \subseteq Roles
        BY <1>1, <1>3 DEF EstablishDataConnectionComplete, Outer
    <2>7. UNCHANGED <<rows, createPending, createTimes, created, roaming, edits, faults>>
        BY <1>3 DEF EstablishDataConnectionComplete
    <2>8. Outer' BY <1>1, <2>5, <2>6, <2>7 DEF Outer
    <2>9. ChosenStep BY <2>4 DEF ChosenStep, NoStart
    <2> QED BY <2>4, <2>8, <2>9 DEF ApnInv
<1>4. CASE CallFails(r)
    <2>1. \A x \in {"IDLE", "RETRYING"} :
              Good([h EXCEPT !.st[r] = x]) /\ NoStart([h EXCEPT !.st[r] = x], h)
        <3> SUFFICES ASSUME NEW x \in {"IDLE", "RETRYING"}
                     PROVE  Good([h EXCEPT !.st[r] = x]) /\ NoStart([h EXCEPT !.st[r] = x], h)
            OBVIOUS
        <3> DEFINE s == [h EXCEPT !.st[r] = x]
        <3>1. Good(s) /\ s.st = [h.st EXCEPT ![r] = x] BY <1>1, SetStGood
        <3> HIDE DEF s
        <3>2. NoStart(s, h) BY <1>1, <3>1 DEF NoStart
        <3> QED BY <3>1, <3>2 DEF s
    <2>2. Good(h') /\ NoStart(h', h) BY <1>4, <2>1 DEF CallFails
    <2>3. retryEvents' \subseteq Roles /\ faults' \in 0 .. MaxFaults
        <3>1. MaxFaults \in Nat BY ApnAssumption
        <3> QED BY <1>1, <1>4, <3>1 DEF CallFails, Outer
    <2> QED BY <1>4, <2>2, <2>3, NoStartQuiet, QuietKeeps DEF CallFails
<1>5. CASE CallRejected(r)
    <2> DEFINE b == IF h.en[r] THEN h.bad \cup {h.cur[r]} ELSE h.bad
               e == [h.st EXCEPT ![r] = "IDLE"]
    <2>1. h' = [h EXCEPT !.st = e, !.bad = b] BY <1>1, <1>5 DEF CallRejected, HolderStates
    <2>2. b \in SUBSET (Item \cup {NoItem}) /\ e \in [Roles -> States] BY <1>1 DEF HolderStates
    <2>3. \A q \in Roles : e[q] = "CONNECTING" => h.st[q] = "CONNECTING" BY <1>1
    <2> HIDE DEF b, e
    <2>4. h' \in HolderStates BY <1>1, <2>1, <2>2 DEF HolderStates
    <2>5. SamePolicies(h', h) /\ h'.st = e BY <1>1, <2>1, <2>4 DEF SamePolicies, HolderStates
    <2>6. Good(h') BY <1>1, <2>5, SamePoliciesGood
    <2>7. NoStart(h', h) BY <2>3, <2>5 DEF NoStart
    <2> QED BY <1>1, <1>5, <2>6, <2>7, NoStartQuiet, QuietKeeps DEF CallRejected, Outer
<1>6. CASE RequestNetwork(r)
    <2> DEFINE s == [h EXCEPT !.en[r] = TRUE]
               e == h.est \cup {r}
    <2>1. Good(s) /\ s.st = h.st BY <1>1, SetEnGood
    <2>2. h' = [s EXCEPT !.est = e] BY <1>1, <1>6 DEF RequestNetwork, HolderStates
    <2> HIDE DEF s
    <2>3. e \in SUBSET Roles BY <1>1
    <2> HIDE DEF e
    <2>4. Good([s EXCEPT !.est = e]) /\ [s EXCEPT !.est = e].st = s.st BY <2>1, <2>3, SetEstGood
    <2>5. Good(h') /\ NoStart(h', h) BY <2>1, <2>2, <2>4 DEF NoStart
    <2> QED BY <1>1, <1>6, <2>5, NoStartQuiet, QuietKeeps DEF RequestNetwork, Outer
<1> QED BY <1>2, <1>3, <1>4, <1>5, <1>6

LEMMA ApnStep ==
    ASSUME ApnInv, [Next]_vars
    PROVE  ApnInv' /\ (UNCHANGED vars \/ ChosenStep)
<1>1. Good(h) /\ Outer BY DEF ApnInv
<1>2. CASE UNCHANGED vars
    <2>1. ApnInv' BY <1>1, <1>2 DEF ApnInv, Outer, vars
    <2> QED BY <1>2, <2>1
<1>3. CASE \E retry \in BOOLEAN, f1, f2 \in FaultSets : HandleApnChanged(retry, f1, f2)
    BY <1>3, HandleApnChangedKeeps
<1>4. CASE \E r \in Roles : Own(r) \/ Answer(r) \/ RequestNetwork(r)
    <2>1. PICK r \in Roles : Own(r) \/ Answer(r) \/ RequestNetwork(r) BY <1>4
    <2>2. CASE MsgEstablishDataConnection(r) BY <2>2, EstablishKeeps
    <2>3. CASE CallCleared(r) BY <2>3, CallClearedKeeps
    <2>4. CASE \/ RetryToSetupDatacall(r) \/ EstablishDataConnectionComplete(r)
               \/ CallFails(r) \/ CallRejected(r) \/ RequestNetwork(r)
        BY <2>4, SmallSteps
    <2> QED BY <2>1, <2>2, <2>3, <2>4 DEF Own, Answer
<1>5. CASE EstablishAll
    <2> DEFINE u == EstablishAllApnsIfConnectable(h)
    <2>1. h' = Forget(u) /\ UNCHANGED <<retryEvents, faults>> /\ unchangedTable
        BY <1>5 DEF EstablishAll
    <2> HIDE DEF u
    <2> QED BY <1>1, <2>1, EstablishAllKeeps DEF u
<1>6. CASE \E t \in Tables : \E id \in {0} \cup {p.id : p \in Range(t)} : EditTable(t, id)
    <2>1. PICK t \in Tables : \E id \in {0} \cup {p.id : p \in Range(t)} : EditTable(t, id) BY <1>6
    <2>2. PICK id \in {0} \cup {p.id : p \in Range(t)} : EditTable(t, id) BY <2>1
    <2>3. id \in {0} \cup ProfileIds BY DEF ProfileIds, Profiles
    <2>4. edits' \in 0 .. MaxEdits
        <3>1. MaxEdits \in Nat BY ApnAssumption
        <3> QED BY <1>1, <2>2, <3>1 DEF EditTable, Outer
    <2>5. h' = h BY <2>2 DEF EditTable
    <2>6. Outer' BY <1>1, <2>2, <2>3, <2>4 DEF EditTable, Outer
    <2> QED BY <1>1, <2>5, <2>6 DEF ApnInv, ChosenStep
<1>7. CASE RoamingChanges
    <2>1. edits' \in 0 .. MaxEdits /\ roaming' \in BOOLEAN
        <3>1. MaxEdits \in Nat BY ApnAssumption
        <3> QED BY <1>1, <1>7, <3>1 DEF RoamingChanges, Outer
    <2>2. h' = h BY <1>7 DEF RoamingChanges
    <2>3. Outer' BY <1>1, <1>7, <2>1 DEF RoamingChanges, Outer
    <2> QED BY <1>1, <2>2, <2>3 DEF ApnInv, ChosenStep
<1> QED BY <1>2, <1>3, <1>4, <1>5, <1>6, <1>7 DEF Next

(* The inductive invariant: the list, the policies and the calls of h are good, whatever events *)
(* the handler takes in which order.                                                            *)
THEOREM ApnAlwaysGood == Spec => []ApnInv
<1>1. Init => ApnInv BY ApnInit
<1>2. ApnInv /\ [Next]_vars => ApnInv' BY ApnStep
<1> QED BY <1>1, <1>2, PTL DEF Spec

(* The index and the count of a retry policy stay within its list and maxCount_, and the retries *)
(* of a creation within APN_CREATE_RETRY_TIMES, for tables and holders of any number.            *)
THEOREM ApnTypeCorrect == Spec => []TypeOK
<1>1. ApnInv => TypeOK
    <2> SUFFICES ASSUME ApnInv PROVE TypeOK
        OBVIOUS
    <2>1. Good(h) /\ Outer BY DEF ApnInv
    <2>2. \A r \in Roles : /\ h.st[r] \in States /\ h.en[r] \in BOOLEAN
                           /\ h.tries[r] \in 0 .. MaxCount
                           /\ h.index[r] < Len(h.matched[r]) \/ h.index[r] = 0
        BY <2>1 DEF Good, HolderStates, PolicyOK
    <2>3. h.est \subseteq Roles BY <2>1 DEF Good, HolderStates
    <2> QED BY <2>1, <2>2, <2>3 DEF TypeOK, Outer, ProfileIds
<1> QED BY <1>1, ApnAlwaysGood, PTL

(* TryMergeSimilarPdpProfile loses no type of any row, and no id is in the list twice, for a table *)
(* of any length and whatever readings of it fail.                                                 *)
THEOREM ListAlwaysMatchesTable == Spec => []ListMatchesTable
<1>1. ApnInv => ListMatchesTable
    <2> SUFFICES ASSUME ApnInv PROVE ListMatchesTable
        OBVIOUS
    <2>1. ListOK(h.items, h.src) BY DEF ApnInv, Good
    <2>2. \A i, j \in DOMAIN h.items : h.items[i].p.id = h.items[j].p.id => i = j
        BY <2>1 DEF ListOK, ItemsOnce
    <2>3. \A i \in Range(h.items) : \E p \in Range(h.src) : p.id = i.p.id /\ p.apn = i.p.apn
        BY <2>1 DEF ListOK, Range
    <2>4. \A p \in Range(h.src) : \A type \in p.types :
              \E i \in Range(h.items) : i.p.apn = p.apn /\ CanDealWithType(i.p, Lower(type))
        BY <2>1 DEF ListOK, Range
    <2> QED BY <2>2, <2>3, <2>4 DEF ListMatchesTable
<1> QED BY <1>1, ApnAlwaysGood, PTL

(* GetNextRetryApnItem returns no APN more than maxCount_ times in a row while another is left. *)
THEOREM RotationAlwaysFair == Spec => []RotationIsFair
<1>1. ApnInv => RotationIsFair
    <2> SUFFICES ASSUME ApnInv, NEW r \in Roles PROVE h.run[r].n <= MaxCount
        BY DEF RotationIsFair
    <2>1. PolicyOK(h, r) /\ h.run[r].n \in Nat /\ h.tries[r] \in 0 .. MaxCount
        BY DEF ApnInv, Good, HolderStates
    <2>2. MaxCount \in Nat BY ApnAssumption
    <2> QED BY <2>1, <2>2 DEF PolicyOK
<1> QED BY <1>1, ApnAlwaysGood, PTL

(* Every call is set up with an APN of the holder's type that is not marked bad, or with the *)
(* preferred one of the table: EstablishDataConnection by every way that leads to it.        *)
THEOREM ChosenAlwaysFits == Spec => ChosenFits
<1>1. ApnInv /\ [Next]_vars => [ChosenStep]_vars BY ApnStep
<1> QED BY <1>1, ApnAlwaysGood, PTL DEF Spec, ChosenFits, ChosenStep
=============================================================================

----------------------------- MODULE ListProofs -----------------------------
(***************************************************************************)
(* Induction for loops, and what a loop over a vector leaves.  The         *)
(* library's induction theorems have an operator as parameter; those below *)
(* have a set, and follow from the well-foundedness of < on Nat.           *)
(***************************************************************************)
EXTENDS Lists, Functions, FiniteSetsExt, FiniteSetTheorems, WellFoundedInduction, TLAPS

LEMMA NatBySet ==
    ASSUME NEW S, 0 \in S, \A n \in Nat : n \in S => n + 1 \in S
    PROVE  Nat \subseteq S
<1> DEFINE T == Nat \ S
           R == OpToRel(<, Nat)
<1>1. IsWellFoundedOn(R, Nat) BY NatLessThanWellFounded
<1>2. \A x, y \in Nat : x < y => <<x, y>> \in R BY DEF OpToRel
<1> HIDE DEF R
<1>3. SUFFICES ASSUME T # {} PROVE FALSE OBVIOUS
<1>4. T \subseteq Nat OBVIOUS
<1> HIDE DEF T
<1>5. PICK x \in T : \A y \in T : ~(<<y, x>> \in R) BY <1>1, <1>3, <1>4, WFMin
<1> USE DEF T
<1>6. x \in Nat /\ x # 0 OBVIOUS
<1>7. x - 1 \in Nat /\ x - 1 < x /\ (x - 1) + 1 = x BY <1>6
<1>8. x - 1 \in T BY <1>5, <1>7
<1> QED BY <1>2, <1>5, <1>6, <1>7, <1>8

\* The least element of a set of naturals.
LEMMA MinIsLeast ==
    ASSUME NEW S \in SUBSET Nat, S # {}
    PROVE  Min(S) \in S /\ \A y \in S : Min(S) <= y
<1> DEFINE R == OpToRel(<, Nat)
<1>1. IsWellFoundedOn(R, Nat) BY NatLessThanWellFounded
<1>2. \A x, y \in Nat : x < y => <<x, y>> \in R BY DEF OpToRel
<1> HIDE DEF R
<1>3. PICK x \in S : \A y \in S : ~(<<y, x>> \in R) BY <1>1, WFMin
<1>4. \A y \in S : ~(y < x) BY <1>2, <1>3
<1>5. \A y \in S : x <= y BY <1>4
<1> QED BY <1>5 DEF Min

\* A loop that keeps D ends in D ...
LEMMA LoopStays ==
    ASSUME NEW D, NEW n \in Nat, NEW f, f[0] \in D, \A i \in 1 .. n : f[i - 1] \in D => f[i] \in D
    PROVE  f[n] \in D
<1> DEFINE S == {k \in Nat : k <= n => f[k] \in D}
<1>1. 0 \in S OBVIOUS
<1>2. \A k \in Nat : k \in S => k + 1 \in S
    <2> SUFFICES ASSUME NEW k \in Nat, k \in S, k + 1 <= n PROVE f[k + 1] \in D
        OBVIOUS
    <2>1. k + 1 \in 1 .. n /\ (k + 1) - 1 = k /\ f[k] \in D OBVIOUS
    <2> QED BY <2>1
<1> HIDE DEF S
<1>3. n \in S BY <1>1, <1>2, NatBySet
<1> QED BY <1>3 DEF S

\* ... and a function that gives its iterations exists.
IsStep(step, D, n) == step \in [D \X (1 .. n) -> D]

IsRun(f, D, n, s, step) ==
    f \in [0 .. n -> D] /\ f[0] = s /\ \A i \in 1 .. n : f[i] = step[<<f[i - 1], i>>]

LEMMA LoopRuns ==
    ASSUME NEW D, NEW n \in Nat, NEW s \in D, NEW step, IsStep(step, D, n)
    PROVE  \E f : IsRun(f, D, n, s, step)
<1> DEFINE Runs(k, f) == f[0] = s /\ \A i \in 1 .. k : f[i] = step[<<f[i - 1], i>>]
           S == {k \in Nat : k <= n => \E f \in [0 .. k -> D] : Runs(k, f)}
<1> USE DEF IsStep
<1>1. 0 \in S
    <2>1. [i \in 0 .. 0 |-> s] \in [0 .. 0 -> D] /\ Runs(0, [i \in 0 .. 0 |-> s]) OBVIOUS
    <2> QED BY <2>1
<1>2. \A k \in Nat : k \in S => k + 1 \in S
    <2> SUFFICES ASSUME NEW k \in Nat, k \in S, k + 1 <= n
                 PROVE  \E f \in [0 .. k + 1 -> D] : Runs(k + 1, f)
        OBVIOUS
    <2>1. PICK f \in [0 .. k -> D] : Runs(k, f) OBVIOUS
    <2> DEFINE g == [i \in 0 .. k + 1 |-> IF i = k + 1 THEN step[<<f[k], k + 1>>] ELSE f[i]]
    <2>2. step[<<f[k], k + 1>>] \in D OBVIOUS
    <2>3. g \in [0 .. k + 1 -> D] BY <2>2
    <2>4. \A i \in 0 .. k : g[i] = f[i] OBVIOUS
    <2>5. g[k + 1] = step[<<g[k], k + 1>>]
        <3>1. k \in 0 .. k /\ k + 1 \in 0 .. k + 1 OBVIOUS
        <3>2. g[k + 1] = step[<<f[k], k + 1>>] BY <3>1
        <3> HIDE DEF g
        <3> QED BY <2>4, <3>1, <3>2
    <2> HIDE DEF g
    <2>6. \A i \in 1 .. k + 1 : g[i] = step[<<g[i - 1], i>>]
        <3> SUFFICES ASSUME NEW i \in 1 .. k + 1 PROVE g[i] = step[<<g[i - 1], i>>]
            OBVIOUS
        <3>1. CASE i = k + 1 BY <2>5, <3>1
        <3>2. CASE i \in 1 .. k
            <4>1. i \in 0 .. k /\ i - 1 \in 0 .. k BY <3>2
            <4> QED BY <2>1, <2>4, <3>2, <4>1
        <3> QED BY <3>1, <3>2
    <2>7. g[0] = s BY <2>1, <2>4
    <2> QED BY <2>3, <2>6, <2>7
<1> HIDE DEF S
<1>3. n \in S BY <1>1, <1>2, NatBySet
<1> QED BY <1>3 DEF S, IsRun

-----------------------------------------------------------------------------
(* Where. *)

\* w are the elements in S of the first n of s, in their order: those at the indexes f.
PicksTo(f, s, S, w, n) ==
    /\ f \in [1 .. Len(w) -> 1 .. n]
    /\ \A a, b \in 1 .. Len(w) : a < b => f[a] < f[b]
    /\ \A a \in 1 .. Len(w) : w[a] = s[f[a]] /\ w[a] \in S
    /\ \A i \in 1 .. n : s[i] \in S => \E a \in 1 .. Len(w) : f[a] = i

LEMMA PicksMore ==
    ASSUME NEW T, NEW s \in Seq(T), NEW S, NEW w \in Seq(T), NEW n \in Nat, n + 1 <= Len(s),
           NEW f, PicksTo(f, s, S, w, n)
    PROVE  \E g : PicksTo(g, s, S, IF s[n + 1] \in S THEN Append(w, s[n + 1]) ELSE w, n + 1)
<1> DEFINE m == Len(w)
           x == s[n + 1]
<1>1. m \in Nat /\ w \in [1 .. m -> T] /\ x \in T OBVIOUS
<1>2. CASE x \notin S
    <2>1. PicksTo(f, s, S, w, n + 1)
        <3>1. f \in [1 .. m -> 1 .. n + 1] BY <1>1 DEF PicksTo
        <3>2. \A i \in 1 .. n + 1 : s[i] \in S => i \in 1 .. n BY <1>2
        <3> QED BY <3>1, <3>2 DEF PicksTo
    <2> QED BY <1>2, <2>1
<1>3. CASE x \in S
    <2> DEFINE v == Append(w, x)
               g == [a \in 1 .. m + 1 |-> IF a = m + 1 THEN n + 1 ELSE f[a]]
    <2>1. Len(v) = m + 1 /\ v[m + 1] = x /\ \A a \in 1 .. m : v[a] = w[a] BY <1>1
    <2>2. \A a \in 1 .. m : f[a] \in 1 .. n BY <1>1 DEF PicksTo
    <2>3. g \in [1 .. m + 1 -> 1 .. n + 1] BY <1>1, <2>2
    <2>4. g[m + 1] = n + 1 /\ \A a \in 1 .. m : g[a] = f[a] BY <1>1
    <2> HIDE DEF g, v, m
    <2>5. \A a \in 1 .. m + 1 : a = m + 1 \/ a \in 1 .. m BY <1>1
    <2>6. \A a, b \in 1 .. m + 1 : a < b => g[a] < g[b]
        <3> SUFFICES ASSUME NEW a \in 1 .. m + 1, NEW b \in 1 .. m + 1, a < b PROVE g[a] < g[b]
            OBVIOUS
        <3>1. a \in 1 .. m /\ g[a] = f[a] /\ f[a] \in 1 .. n BY <1>1, <2>2, <2>4
        <3>2. CASE b = m + 1 BY <2>4, <3>1, <3>2
        <3>3. CASE b \in 1 .. m BY <2>4, <3>1, <3>3 DEF PicksTo, m
        <3> QED BY <2>5, <3>2, <3>3
    <2>7. \A a \in 1 .. m + 1 : v[a] = s[g[a]] /\ v[a] \in S
        BY <1>3, <2>1, <2>4, <2>5 DEF PicksTo, m
    <2>8. \A i \in 1 .. n + 1 : s[i] \in S => \E a \in 1 .. m + 1 : g[a] = i
        <3> SUFFICES ASSUME NEW i \in 1 .. n + 1, s[i] \in S PROVE \E a \in 1 .. m + 1 : g[a] = i
            OBVIOUS
        <3>1. CASE i = n + 1 BY <1>1, <2>4, <3>1
        <3>2. CASE i \in 1 .. n
            <4>1. PICK a \in 1 .. m : f[a] = i BY <3>2 DEF PicksTo, m
            <4>2. a \in 1 .. m + 1 /\ g[a] = i BY <1>1, <2>4, <4>1
            <4> QED BY <4>2
        <3> QED BY <3>1, <3>2
    <2>9. PicksTo(g, s, S, v, n + 1) BY <2>1, <2>3, <2>6, <2>7, <2>8 DEF PicksTo
    <2> QED BY <1>3, <2>9 DEF v
<1> QED BY <1>2, <1>3

(* What Where(s, S) is. *)
LEMMA WherePicks ==
    ASSUME NEW T, NEW s \in Seq(T), NEW S
    PROVE  Where(s, S) \in Seq(T) /\ \E f : PicksTo(f, s, S, Where(s, S), Len(s))
<1> DEFINE n == Len(s)
           D == Seq(T)
           Body(w, i) == IF s[i] \in S THEN Append(w, s[i]) ELSE w
           step == [x \in D \X (1 .. n) |-> Body(x[1], x[2])]
<1>1. n \in Nat /\ <<>> \in D /\ s \in [1 .. n -> T] OBVIOUS
<1>2. \A w \in D, i \in 1 .. n : Body(w, i) \in D BY <1>1
<1>3. \A w \in D, i \in Nat : \A f : i + 1 <= n /\ PicksTo(f, s, S, w, i) =>
          \E g : PicksTo(g, s, S, Body(w, i + 1), i + 1)
    BY PicksMore
<1>4. PicksTo(<<>>, s, S, <<>>, 0) BY DEF PicksTo
<1> HIDE DEF D, n, Body
<1>5. IsStep(step, D, n) BY <1>2 DEF IsStep
<1>6. PICK r : IsRun(r, D, n, <<>>, step)
    <2> HIDE DEF step
    <2> QED BY <1>1, <1>5, LoopRuns
<1>7. \A i \in 1 .. n : r[i] = Body(r[i - 1], i)
    <2> SUFFICES ASSUME NEW i \in 1 .. n PROVE r[i] = Body(r[i - 1], i)
        OBVIOUS
    <2>1. r[i - 1] \in D BY <1>1, <1>6 DEF IsRun
    <2> QED BY <1>6, <2>1 DEF IsRun
<1> DEFINE Def(g) == [i \in 0 .. n |-> IF i = 0 THEN <<>> ELSE Body(g[i - 1], i)]
           kept == CHOOSE g : g = Def(g)
<1>8. r = Def(r) BY <1>1, <1>6, <1>7 DEF IsRun
<1>9. kept = Def(kept) BY <1>8
<1>10. kept[0] = <<>> /\ \A i \in 1 .. n : kept[i] = Body(kept[i - 1], i)
    <2> HIDE DEF kept
    <2> QED BY <1>1, <1>9
<1>11. Where(s, S) = kept[n]
    BY DEF Where, n, Body
<1> HIDE DEF kept
<1> DEFINE G == {k \in Nat : k <= n => kept[k] \in D /\ \E f : PicksTo(f, s, S, kept[k], k)}
<1>12. 0 \in G BY <1>1, <1>4, <1>10
<1>13. \A k \in Nat : k \in G => k + 1 \in G
    <2> SUFFICES ASSUME NEW k \in Nat, k \in G, k + 1 <= n
                 PROVE  kept[k + 1] \in D /\ \E f : PicksTo(f, s, S, kept[k + 1], k + 1)
        OBVIOUS
    <2>1. k + 1 \in 1 .. n /\ kept[k + 1] = Body(kept[k], k + 1) BY <1>1, <1>10
    <2>2. kept[k] \in D /\ \E f : PicksTo(f, s, S, kept[k], k) BY <1>1
    <2> QED BY <1>2, <1>3, <2>1, <2>2
<1> HIDE DEF G
<1>14. n \in G BY <1>1, <1>12, <1>13, NatBySet
<1> QED BY <1>1, <1>11, <1>14 DEF G, D, n

(* The elements of Where(s, S) ... *)
LEMMA WhereElements ==
    ASSUME NEW T, NEW s \in Seq(T), NEW S
    PROVE  /\ Where(s, S) \in Seq(T)
           /\ \A a \in DOMAIN Where(s, S) : Where(s, S)[a] \in S
           /\ \A i \in DOMAIN s : s[i] \in S => \E a \in DOMAIN Where(s, S) : Where(s, S)[a] = s[i]
<1> DEFINE w == Where(s, S)
<1>1. w \in Seq(T) BY WherePicks
<1>2. PICK f : PicksTo(f, s, S, w, Len(s)) BY WherePicks
<1> HIDE DEF w
<1>3. DOMAIN w = 1 .. Len(w) /\ DOMAIN s = 1 .. Len(s) /\ Len(w) \in Nat /\ Len(s) \in Nat BY <1>1
<1>4. \A a \in DOMAIN w : f[a] \in DOMAIN s /\ w[a] = s[f[a]] /\ w[a] \in S
    BY <1>2, <1>3 DEF PicksTo
<1>5. \A i \in DOMAIN s : s[i] \in S => \E a \in DOMAIN w : w[a] = s[i]
    BY <1>2, <1>3 DEF PicksTo
<1> QED BY <1>1, <1>4, <1>5 DEF w

(* ... and one place of s gives at most one of them. *)
LEMMA WhereIndexes ==
    ASSUME NEW T, NEW s \in Seq(T), NEW S
    PROVE  \E f : \A a \in DOMAIN Where(s, S) :
               /\ f[a] \in DOMAIN s /\ Where(s, S)[a] = s[f[a]]
               /\ \A b \in DOMAIN Where(s, S) : f[a] = f[b] => a = b
<1> DEFINE w == Where(s, S)
<1>1. w \in Seq(T) BY WherePicks
<1>2. PICK f : PicksTo(f, s, S, w, Len(s)) BY WherePicks
<1> HIDE DEF w
<1>3. DOMAIN w = 1 .. Len(w) /\ DOMAIN s = 1 .. Len(s) /\ Len(w) \in Nat /\ Len(s) \in Nat BY <1>1
<1>4. \A a \in DOMAIN w : f[a] \in DOMAIN s /\ w[a] = s[f[a]] /\ w[a] \in S
    BY <1>2, <1>3 DEF PicksTo
<1>5. \A a, b \in DOMAIN w : f[a] = f[b] => a = b
    <2> SUFFICES ASSUME NEW a \in DOMAIN w, NEW b \in DOMAIN w, a # b PROVE f[a] # f[b]
        OBVIOUS
    <2>1. a \in Nat /\ b \in Nat /\ f[a] \in Nat /\ f[b] \in Nat BY <1>3, <1>4
    <2>2. a < b \/ b < a BY <2>1
    <2>3. f[a] < f[b] \/ f[b] < f[a] BY <1>2, <1>3, <2>2 DEF PicksTo
    <2> QED BY <2>1, <2>3
<1> QED BY <1>4, <1>5 DEF w

-----------------------------------------------------------------------------
(* A sequence has finitely many elements. *)
LEMMA RangeFinite ==
    ASSUME NEW T, NEW s \in Seq(T)
    PROVE  IsFiniteSet(Range(s))
<1>1. Len(s) \in Nat /\ DOMAIN s = 1 .. Len(s) OBVIOUS
<1>2. s \in Surjection(1 .. Len(s), Range(s)) BY <1>1 DEF Surjection, Range
<1>3. IsFiniteSet(1 .. Len(s)) BY <1>1, FS_Interval
<1> QED BY <1>2, <1>3, FS_Surjection
=============================================================================

---------------------------- MODULE SendTimeProofs ----------------------------
(***************************************************************************)
(* Whatever the opens, the vectors, the window and the band: the types,    *)
(* the band and the best moment of a cohort, the prior of a user without   *)
(* opens, what the write-back leaves unserved, and what the simulation and *)
(* the distances may be relied on for.                                     *)
(*                                                                         *)
(* Sums and maxima over finite sets come first: induction over a set is    *)
(* the existence of a smallest subset in any set of its subsets.  Then the *)
(* arithmetic of one row, the invariants, the arms and the distances.      *)
(***************************************************************************)
EXTENDS Evaluation, FiniteSetTheorems, WellFoundedInduction, TLAPS

-----------------------------------------------------------------------------
(* Sums and maxima of finite sets *)

\* The element that a sum over s takes first.
Some(s) == CHOOSE x \in s : TRUE

\* iter holds the sums of f over the subsets of S, as SumFunctionOnSet folds them.
Sums(iter, f, S) ==
    iter = [s \in SUBSET S |-> IF s = {} THEN 0 ELSE f[Some(s)] + iter[s \ {Some(s)}]]

\* The equation of the fold, one set at a time.
LEMMA SumsAt ==
    ASSUME NEW S, NEW f, NEW g, Sums(g, f, S), NEW s \in SUBSET S
    PROVE  g[s] = IF s = {} THEN 0 ELSE f[Some(s)] + g[s \ {Some(s)}]
BY DEF Sums

\* Induction over a finite set: a set of its subsets has a smallest member.
LEMMA SmallestSubset ==
    ASSUME NEW S, IsFiniteSet(S), NEW B \in SUBSET (SUBSET S), B # {}
    PROVE  \E T \in B : \A U \in SUBSET T : U # T => U \notin B
<1>1. FiniteSubsetsOf(S) = SUBSET S
  BY FS_FiniteSubsetsOfFinite
<1>2. IsWellFoundedOn(StrictSubsetOrdering(S), SUBSET S)
  BY <1>1, FS_StrictSubsetOrderingWellFounded
<1>3. PICK T \in B : \A U \in B : <<U, T>> \notin StrictSubsetOrdering(S)
  BY <1>2, WFMin
<1>4. ASSUME NEW U \in SUBSET T, U # T, U \in B PROVE FALSE
  <2>1. <<U, T>> \in (SUBSET S) \X (SUBSET S)
    BY <1>4
  <2>2. <<U, T>> \in StrictSubsetOrdering(S)
    BY <2>1, <1>4 DEF StrictSubsetOrdering
  <2> QED
    BY <2>2, <1>3, <1>4
<1> QED
  BY <1>4

\* Only one function satisfies the equation.
LEMMA SumsUnique ==
    ASSUME NEW S, IsFiniteSet(S), NEW f, NEW g, NEW h, Sums(g, f, S), Sums(h, f, S)
    PROVE  g = h
<1> DEFINE B == {s \in SUBSET S : g[s] # h[s]}
<1>1. ASSUME B # {} PROVE FALSE
  <2>1. PICK T \in B : \A U \in SUBSET T : U # T => U \notin B
    <3>1. B \in SUBSET (SUBSET S)
      OBVIOUS
    <3> HIDE DEF B
    <3> QED
      BY <1>1, <3>1, SmallestSubset
  <2>2. T # {}
    <3>1. {} \in SUBSET S
      OBVIOUS
    <3>2. g[{}] = 0 /\ h[{}] = 0
      BY <3>1, SumsAt
    <3> QED
      BY <2>1, <3>2
  <2>3. Some(T) \in T
    BY <2>2 DEF Some
  <2>4. g[T \ {Some(T)}] = h[T \ {Some(T)}]
    BY <2>1, <2>3
  <2> QED
    BY <2>1, <2>2, <2>4, SumsAt
<1>2. g = [s \in SUBSET S |-> g[s]] /\ h = [s \in SUBSET S |-> h[s]]
  BY DEF Sums
<1> QED
  BY <1>1, <1>2

\* g on the subsets of T.
Restricted(g, T) == [s \in SUBSET T |-> g[s]]

\* On a subset it is that subset's own.
LEMMA SumsRestrict ==
    ASSUME NEW S, NEW T \in SUBSET S, NEW f, NEW g, Sums(g, f, S)
    PROVE  Sums(Restricted(g, T), f, T)
<1> DEFINE h == [s \in SUBSET T |-> g[s]]
<1>1. ASSUME NEW s \in SUBSET T
      PROVE  h[s] = IF s = {} THEN 0 ELSE f[Some(s)] + h[s \ {Some(s)}]
  <2>1. g[s] = IF s = {} THEN 0 ELSE f[Some(s)] + g[s \ {Some(s)}]
    BY SumsAt
  <2>2. s \ {Some(s)} \in SUBSET T
    OBVIOUS
  <2> QED
    BY <2>1, <2>2
<1>2. h = [s \in SUBSET T |-> IF s = {} THEN 0 ELSE f[Some(s)] + h[s \ {Some(s)}]]
  BY <1>1
<1> QED
  BY <1>2 DEF Sums, Restricted

\* And there is one.
LEMMA SumsExist ==
    ASSUME NEW S, IsFiniteSet(S), NEW f
    PROVE  \E g : Sums(g, f, S)
<1> DEFINE B == {T \in SUBSET S : ~ \E g : Sums(g, f, T)}
           G(T) == CHOOSE g : Sums(g, f, T)
           Own(s) == IF s = {} THEN 0 ELSE f[Some(s)] + G(s \ {Some(s)})[s \ {Some(s)}]
<1>1. ASSUME B # {} PROVE FALSE
  <2>1. PICK T \in B : \A U \in SUBSET T : U # T => U \notin B
    <3>1. B \in SUBSET (SUBSET S)
      OBVIOUS
    <3> HIDE DEF B
    <3> QED
      BY <1>1, <3>1, SmallestSubset
  <2>2. \A U \in SUBSET T : U # T => Sums(G(U), f, U)
    BY <2>1
  <2>3. ASSUME NEW s \in SUBSET T, s # {} PROVE Some(s) \in s
    BY <2>3 DEF Some
  <2>4. ASSUME NEW U \in SUBSET T, U # T PROVE G(U)[U] = Own(U)
    <3>1. CASE U = {}
      BY <3>1, <2>2, <2>4, SumsAt
    <3>2. CASE U # {}
      <4> DEFINE V == U \ {Some(U)}
      <4>1. V \in SUBSET U /\ V # T /\ V \in SUBSET T /\ V # U
        BY <2>3, <3>2, <2>4
      <4> HIDE DEF V
      <4>2. Sums(G(U), f, U) /\ Sums(G(V), f, V)
        BY <2>2, <2>4, <4>1
      <4>3. IsFiniteSet(V)
        BY <4>1, FS_Subset
      <4>4. Restricted(G(U), V) = G(V)
        <5>1. Sums(Restricted(G(U), V), f, V)
          <6> HIDE DEF G
          <6> QED
            BY <4>1, <4>2, SumsRestrict
        <5> QED
          BY <5>1, <4>2, <4>3, SumsUnique
      <4>5. Restricted(G(U), V)[V] = G(U)[V]
        BY DEF Restricted
      <4>6. G(V)[V] = G(U)[V]
        BY <4>4, <4>5
      <4>7. G(U)[U] = f[Some(U)] + G(U)[V]
        BY <3>2, <4>2, SumsAt DEF V
      <4> QED
        BY <3>2, <4>6, <4>7 DEF V
    <3> QED
      BY <3>1, <3>2
  <2> DEFINE h == [s \in SUBSET T |-> Own(s)]
  <2>5. ASSUME NEW s \in SUBSET T
        PROVE  h[s] = IF s = {} THEN 0 ELSE f[Some(s)] + h[s \ {Some(s)}]
    <3>1. CASE s = {}
      BY <3>1
    <3>2. CASE s # {}
      <4> DEFINE V == s \ {Some(s)}
      <4>1. V \in SUBSET T /\ V # T
        BY <2>3, <3>2
      <4>2. G(V)[V] = Own(V)
        BY <4>1, <2>4
      <4>3. h[V] = Own(V) /\ h[s] = Own(s)
        BY <4>1
      <4>4. Own(s) = f[Some(s)] + G(V)[V]
        BY <3>2
      <4> HIDE DEF V, h, Own, G
      <4> QED
        BY <3>2, <4>2, <4>3, <4>4 DEF V
    <3> QED
      BY <3>1, <3>2
  <2>6. h = [s \in SUBSET T |-> IF s = {} THEN 0 ELSE f[Some(s)] + h[s \ {Some(s)}]]
    <3> HIDE DEF Own
    <3> QED BY <2>5
  <2>7. Sums(h, f, T)
    BY <2>6 DEF Sums
  <2> QED
    BY <2>1, <2>7
<1> QED
  BY <1>1

\* So the sum is the first element's value and the sum of the others'.
LEMMA SumStep ==
    ASSUME NEW S, IsFiniteSet(S), NEW f, NEW T \in SUBSET S
    PROVE  /\ SumFunctionOnSet(f, {}) = 0
           /\ T # {} => SumFunctionOnSet(f, T) = f[Some(T)] + SumFunctionOnSet(f, T \ {Some(T)})
<1> DEFINE G(U) == CHOOSE g : Sums(g, f, U)
<1>1. ASSUME NEW U PROVE SumFunctionOnSet(f, U) = G(U)[U]
  BY DEF SumFunctionOnSet, FoldFunctionOnSet, MapThenFoldSet, Sums, Some
<1>2. ASSUME NEW U \in SUBSET S PROVE IsFiniteSet(U) /\ Sums(G(U), f, U)
  BY FS_Subset, SumsExist
<1> HIDE DEF G
<1>3. {} \in SUBSET S
  OBVIOUS
<1>4. G({})[{}] = 0
  BY <1>2, <1>3, SumsAt
<1>5. ASSUME T # {} PROVE SumFunctionOnSet(f, T) = f[Some(T)] + SumFunctionOnSet(f, T \ {Some(T)})
  <2> DEFINE V == T \ {Some(T)}
  <2>1. V \in SUBSET T /\ V \in SUBSET S
    OBVIOUS
  <2> HIDE DEF V
  <2>2. Sums(G(T), f, T) /\ Sums(G(V), f, V) /\ IsFiniteSet(V)
    BY <1>2, <2>1
  <2>3. Restricted(G(T), V) = G(V)
    <3>1. Sums(Restricted(G(T), V), f, V)
      BY <2>1, <2>2, SumsRestrict
    <3> QED
      BY <3>1, <2>2, SumsUnique
  <2>4. Restricted(G(T), V)[V] = G(T)[V]
    BY DEF Restricted
  <2>5. G(T)[T] = f[Some(T)] + G(T)[V]
    BY <1>5, <2>2, SumsAt DEF V
  <2> QED
    BY <1>1, <2>3, <2>4, <2>5 DEF V
<1> QED
  BY <1>1, <1>4, <1>5

LEMMA SumInt ==
    ASSUME NEW S, IsFiniteSet(S), NEW f, \A x \in S : f[x] \in Int
    PROVE  SumFunctionOnSet(f, S) \in Int
<1> DEFINE Total(T) == SumFunctionOnSet(f, T)
           B == {T \in SUBSET S : Total(T) \notin Int}
<1>1. ASSUME B # {} PROVE FALSE
  <2>1. PICK T \in B : \A U \in SUBSET T : U # T => U \notin B
    <3>1. B \in SUBSET (SUBSET S)
      OBVIOUS
    <3> HIDE DEF B
    <3> QED
      BY <1>1, <3>1, SmallestSubset
  <2>2. /\ Total({}) = 0
        /\ T # {} => Total(T) = f[Some(T)] + Total(T \ {Some(T)})
    BY SumStep
  <2>3. T # {}
    <3>1. Total({}) \in Int
      BY <2>2
    <3> HIDE DEF Total
    <3> QED
      BY <2>1, <3>1
  <2> HIDE DEF Total
  <2>4. Some(T) \in T
    BY <2>3 DEF Some
  <2>5. Total(T \ {Some(T)}) \in Int
    BY <2>1, <2>4
  <2> QED
    BY <2>1, <2>2, <2>3, <2>4, <2>5
<1> QED
  BY <1>1

LEMMA SumMonotone ==
    ASSUME NEW S, IsFiniteSet(S), NEW f, NEW g,
           \A x \in S : f[x] \in Int /\ g[x] \in Int /\ f[x] <= g[x]
    PROVE  SumFunctionOnSet(f, S) <= SumFunctionOnSet(g, S)
<1> DEFINE Holds(T) == SumFunctionOnSet(f, T) <= SumFunctionOnSet(g, T)
           B == {T \in SUBSET S : ~Holds(T)}
<1>1. ASSUME NEW T \in SUBSET S, T # {}, Holds(T \ {Some(T)}) PROVE Holds(T)
  <2>1. SumFunctionOnSet(f, T) = f[Some(T)] + SumFunctionOnSet(f, T \ {Some(T)})
    BY <1>1, SumStep
  <2>2. SumFunctionOnSet(g, T) = g[Some(T)] + SumFunctionOnSet(g, T \ {Some(T)})
    BY <1>1, SumStep
  <2>3. Some(T) \in T
    BY <1>1 DEF Some
  <2>4. T \ {Some(T)} \in SUBSET S
    OBVIOUS
  <2>5. IsFiniteSet(T \ {Some(T)})
    BY <2>4, FS_Subset
  <2>6. SumFunctionOnSet(f, T \ {Some(T)}) \in Int
    BY <2>4, <2>5, SumInt
  <2>7. SumFunctionOnSet(g, T \ {Some(T)}) \in Int
    BY <2>4, <2>5, SumInt
  <2>8. f[Some(T)] \in Int /\ g[Some(T)] \in Int /\ f[Some(T)] <= g[Some(T)]
    BY <2>3
  <2> QED
    BY <1>1, <2>1, <2>2, <2>6, <2>7, <2>8
<1>2. Holds({})
  <2>1. SumFunctionOnSet(f, {}) = 0
    BY SumStep
  <2>2. SumFunctionOnSet(g, {}) = 0
    BY SumStep
  <2> QED
    BY <2>1, <2>2
<1> HIDE DEF Holds
<1>3. ASSUME B # {} PROVE FALSE
  <2>1. PICK T \in B : \A U \in SUBSET T : U # T => U \notin B
    <3>1. B \in SUBSET (SUBSET S)
      OBVIOUS
    <3> HIDE DEF B
    <3> QED
      BY <1>3, <3>1, SmallestSubset
  <2>2. T # {}
    BY <1>2, <2>1
  <2>3. Some(T) \in T
    BY <2>2 DEF Some
  <2>4. Holds(T \ {Some(T)})
    BY <2>1, <2>3
  <2> QED
    BY <1>1, <2>1, <2>2, <2>4
<1>4. Holds(S)
  BY <1>3
<1> QED
  BY <1>4 DEF Holds

LEMMA MaxOfFinite ==
    ASSUME NEW S \in SUBSET Int, IsFiniteSet(S), S # {}
    PROVE  Max(S) \in S /\ \A y \in S : y <= Max(S)
<1> DEFINE B == {T \in SUBSET S : T # {} /\ ~ \E x \in T : \A y \in T : x >= y}
<1>1. ASSUME B # {} PROVE FALSE
  <2>1. PICK T \in B : \A U \in SUBSET T : U # T => U \notin B
    <3>1. B \in SUBSET (SUBSET S)
      OBVIOUS
    <3> HIDE DEF B
    <3> QED
      BY <1>1, <3>1, SmallestSubset
  <2>2. PICK x \in T : TRUE
    BY <2>1
  <2>3. T \ {x} # {}
    BY <2>1, <2>2
  <2>4. PICK m \in T \ {x} : \A y \in T \ {x} : m >= y
    BY <2>1, <2>2, <2>3
  <2>5. x \in Int /\ m \in Int /\ \A y \in T : y \in Int
    BY <2>1, <2>2, <2>4
  <2> QED
    BY <2>1, <2>2, <2>4, <2>5
<1>2. \E x \in S : \A y \in S : x >= y
  BY <1>1
<1> QED
  BY <1>2 DEF Max

LEMMA FiniteImage ==
    ASSUME NEW S, IsFiniteSet(S), NEW f
    PROVE  IsFiniteSet({f[x] : x \in S})
<1> DEFINE T == {f[x] : x \in S}
           g == [x \in S |-> f[x]]
<1>1. g \in Surjection(S, T)
  BY DEF Surjection
<1> QED
  BY <1>1, FS_Surjection

\* The latest of some events' times.
Latest(X) == LatestOf({e.at : e \in X})

LEMMA LatestIsOne ==
    ASSUME NEW X, IsFiniteSet(X), \A e \in X : e.at \in Nat
    PROVE  /\ Latest(X) \in Int
           /\ X = {} => Latest(X) = NoTime
           /\ X # {} => Latest(X) \in Nat
           /\ X # {} => \E e \in X : e.at = Latest(X)
           /\ \A e \in X : e.at <= Latest(X)
<1> DEFINE at == [e \in X |-> e.at]
           Times == {e.at : e \in X}
<1>1. Times = {at[e] : e \in X}
  OBVIOUS
<1>2. IsFiniteSet(Times)
  <2> HIDE DEF at
  <2> QED
    BY <1>1, FiniteImage
<1>3. Times \in SUBSET Int
  OBVIOUS
<1>4. Latest(X) = IF Times = {} THEN NoTime ELSE Max(Times)
  BY DEF Latest, LatestOf
<1>5. CASE X = {}
  <2>1. Times = {}
    BY <1>5
  <2> HIDE DEF Times
  <2> QED
    BY <1>4, <1>5, <2>1 DEF NoTime
<1>6. CASE X # {}
  <2>1. Times # {}
    BY <1>6
  <2>2. Max(Times) \in Times /\ \A t \in Times : t <= Max(Times)
    <3> HIDE DEF Times
    <3> QED
      BY <1>2, <1>3, <2>1, MaxOfFinite
  <2>3. Latest(X) \in Times /\ \A t \in Times : t <= Latest(X)
    BY <1>4, <2>1, <2>2
  <2> QED
    BY <1>6, <2>3
<1> QED
  BY <1>5, <1>6

LEMMA LatestGrows ==
    ASSUME NEW X, NEW Y, IsFiniteSet(Y), X \subseteq Y, \A e \in Y : e.at \in Nat
    PROVE  Latest(X) <= Latest(Y)
<1>1. IsFiniteSet(X)
  BY FS_Subset
<1>2. Latest(X) \in Int /\ Latest(Y) \in Int
  BY <1>1, LatestIsOne
<1>3. CASE X = {}
  <2>1. Latest(X) = NoTime
    BY <1>1, <1>3, LatestIsOne
  <2>2. Latest(Y) = NoTime \/ Latest(Y) \in Nat
    BY LatestIsOne
  <2> QED
    BY <2>1, <2>2 DEF NoTime
<1>4. CASE X # {}
  <2>1. PICK e \in X : e.at = Latest(X)
    BY <1>1, <1>4, LatestIsOne
  <2>2. e.at <= Latest(Y)
    BY <2>1, LatestIsOne
  <2> QED
    BY <2>1, <2>2
<1> QED
  BY <1>3, <1>4

-----------------------------------------------------------------------------
(* The served minute *)

\* The wrap 24 * floor(x / 24) puts any angle into the day.
LEMMA WrappedInDay == ASSUME NEW angle \in Int PROVE Wrapped(angle) \in 0..(Day - 1)
BY SMT DEF Wrapped, Day

\* The shift is the short way round, at most half a day.
LEMMA ShiftShort ==
    ASSUME NEW centre \in 0..(Day - 1), NEW moment \in Hours
    PROVE  /\ Shift(centre, moment) \in Int
           /\ -1440 <= Shift(centre, moment) /\ Shift(centre, moment) < 1440
BY SMT DEF Shift, Day, Hours, HourTicks

\* The clamp keeps the served tick within twice MaxShift ticks of the moment.
LEMMA ClampedNear ==
    ASSUME NEW centre \in 0..(Day - 1), NEW moment \in Hours, MaxShift \in Nat
    PROVE  \E s \in Int : /\ Clamped(centre, moment) = HourTicks * moment + s
                          /\ -1440 <= s /\ s < 1440
                          /\ -(2 * MaxShift) <= s /\ s <= 2 * MaxShift
<1> DEFINE s == Shift(centre, moment)
<1>1. s \in Int /\ -1440 <= s /\ s < 1440
  BY ShiftShort
<1> HIDE DEF s
<1>2. Clamped(centre, moment) =
        IF s > 2 * MaxShift THEN HourTicks * moment + 2 * MaxShift
        ELSE IF s < -(2 * MaxShift) THEN HourTicks * moment - 2 * MaxShift
        ELSE HourTicks * moment + s
  BY DEF Clamped, s
<1>3. HourTicks * moment \in Int
  BY DEF HourTicks, Hours
<1> QED
  BY <1>1, <1>2, <1>3, SMT

\* Rounding moves it to a whole minute no farther than MaxShift minutes.
LEMMA RoundedNear ==
    ASSUME NEW centre \in 0..(Day - 1), NEW moment \in Hours, MaxShift \in Nat
    PROVE  \E r \in Int : /\ RoundToMinute(Clamped(centre, moment)) = 60 * moment + r
                          /\ -720 <= r /\ r <= 720
                          /\ -MaxShift <= r /\ r <= MaxShift
<1>1. PICK s \in Int : /\ Clamped(centre, moment) = HourTicks * moment + s
                       /\ -1440 <= s /\ s < 1440
                       /\ -(2 * MaxShift) <= s /\ s <= 2 * MaxShift
  BY ClampedNear
<1>2. moment \in Int /\ 0 <= moment /\ moment <= 23
  BY DEF Hours
<1>3. RoundToMinute(120 * moment + s) \in Int
  BY <1>2, SMT DEF RoundToMinute
<1> DEFINE r == RoundToMinute(120 * moment + s) - 60 * moment
<1>4. r \in Int
  BY <1>2, <1>3
<1>5. 2 * r - 1 <= s /\ s <= 2 * r + 1
  BY <1>2, SMT DEF RoundToMinute
<1>8. RoundToMinute(Clamped(centre, moment)) = 60 * moment + r
  BY <1>1, <1>2, <1>3 DEF HourTicks
<1>6. CASE 120 * moment + s >= 0
  <2>1. s <= 2 * r
    BY <1>2, <1>6, SMT DEF RoundToMinute
  <2>2. s >= 2 * r - 1
    BY <1>5
  <2> HIDE DEF r
  <2>3. -720 <= r /\ r <= 720 /\ -MaxShift <= r /\ r <= MaxShift
    BY <1>1, <1>4, <2>1, <2>2, SMT
  <2> QED
    BY <1>4, <1>8, <2>3
<1>7. CASE 120 * moment + s < 0
  <2>1. s >= 2 * r
    BY <1>2, <1>7, SMT DEF RoundToMinute
  <2>2. s <= 2 * r + 1
    BY <1>5
  <2> HIDE DEF r
  <2>3. -720 <= r /\ r <= 720 /\ -MaxShift <= r /\ r <= MaxShift
    BY <1>1, <1>4, <2>1, <2>2, SMT
  <2> QED
    BY <1>4, <1>8, <2>3
<1> QED
  BY <1>2, <1>6, <1>7

LEMMA ServedMinute ==
    ASSUME NEW centre \in 0..(Day - 1), NEW moment \in Hours, MaxShift \in Nat
    PROVE  /\ MinuteOfDay(centre, moment) \in 0..1439
           /\ Apart(MinuteOfDay(centre, moment), 60 * moment) <= MaxShift
<1>1. PICK r \in Int : /\ RoundToMinute(Clamped(centre, moment)) = 60 * moment + r
                       /\ -720 <= r /\ r <= 720
                       /\ -MaxShift <= r /\ r <= MaxShift
  BY RoundedNear
<1>2. moment \in Int /\ 0 <= moment /\ moment <= 23
  BY DEF Hours
<1>3. MinuteOfDay(centre, moment) = (60 * moment + r + 1440) % 1440
  BY <1>1, <1>2, SMT DEF MinuteOfDay, SqlMod
<1> DEFINE minute == (60 * moment + r + 1440) % 1440
<1>4. minute \in 0..1439
  BY <1>2, SMT
<1>5. (minute - 60 * moment) % 1440 = IF r >= 0 THEN r ELSE 1440 + r
  BY <1>1, <1>2, SMT
<1> HIDE DEF minute
<1>6. Apart(minute, 60 * moment) <= MaxShift
  <2>1. CASE r >= 0
    BY <2>1, <1>1, <1>5, SMT DEF Apart
  <2>2. CASE r < 0
    BY <2>2, <1>1, <1>5, SMT DEF Apart
  <2> QED
    BY <2>1, <2>2
<1> QED
  BY <1>3, <1>4, <1>6 DEF minute

-----------------------------------------------------------------------------
(* A cohort with opens has a moment *)

\* Among some hours one is at least as good as each of the others, by any
\* measure of them: shown hour by hour up to the 23rd.
BestUpTo(f, S, k) ==
    S \cap 0..k = {} \/ \E h \in S \cap 0..k : \A g \in S \cap 0..k : f[g] <= f[h]

LEMMA BestOneMore ==
    ASSUME NEW f \in [Hours -> Int], NEW S \in SUBSET Hours, NEW k \in 0..22,
           BestUpTo(f, S, k)
    PROVE  BestUpTo(f, S, k + 1)
<1>1. S \cap 0..(k + 1) =
        IF k + 1 \in S THEN (S \cap 0..k) \cup {k + 1} ELSE S \cap 0..k
  BY DEF Hours
<1>2. \A h \in S : f[h] \in Int
  OBVIOUS
<1>3. CASE k + 1 \notin S
  BY <1>1, <1>3 DEF BestUpTo
<1>4. CASE k + 1 \in S /\ S \cap 0..k = {}
  BY <1>1, <1>2, <1>4 DEF BestUpTo
<1>5. CASE k + 1 \in S /\ S \cap 0..k # {}
  <2>1. PICK h \in S \cap 0..k : \A g \in S \cap 0..k : f[g] <= f[h]
    BY <1>5 DEF BestUpTo
  <2>2. CASE f[k + 1] <= f[h]
    BY <1>1, <1>5, <2>1, <2>2 DEF BestUpTo
  <2>3. CASE f[h] <= f[k + 1]
    <3>1. \A g \in S \cap 0..(k + 1) : f[g] <= f[k + 1]
      BY <1>1, <1>2, <1>5, <2>1, <2>3
    <3> QED
      BY <1>1, <1>5, <3>1 DEF BestUpTo
  <2> QED
    BY <1>2, <1>5, <2>1, <2>2, <2>3
<1> QED
  BY <1>3, <1>4, <1>5

LEMMA BestHour ==
    ASSUME NEW f \in [Hours -> Int], NEW S \in SUBSET Hours, S # {}
    PROVE  \E h \in S : \A g \in S : f[g] <= f[h]
<1> DEFINE U(k) == BestUpTo(f, S, k)
<1>1. U(0)
  <2>1. S \cap 0..0 \subseteq {0}
    OBVIOUS
  <2>2. \A h \in S : f[h] \in Int
    OBVIOUS
  <2> QED
    BY <2>1, <2>2 DEF BestUpTo
<1>2. \A k \in 0..22 : U(k) => U(k + 1)
  BY BestOneMore
<1> HIDE DEF U
<1>3. U(1) /\ U(2) /\ U(3) /\ U(4) /\ U(5) /\ U(6) /\ U(7) /\ U(8)
  BY <1>1, <1>2
<1>4. U(9) /\ U(10) /\ U(11) /\ U(12) /\ U(13) /\ U(14) /\ U(15) /\ U(16)
  BY <1>2, <1>3
<1>5. U(17) /\ U(18) /\ U(19) /\ U(20) /\ U(21) /\ U(22) /\ U(23)
  BY <1>2, <1>4
<1>6. S \cap 0..23 = S
  BY DEF Hours
<1> QED
  BY <1>5, <1>6 DEF BestUpTo, U

LEMMA SomeMoment ==
    ASSUME NEW c, features \subseteq OpenEvents, Feats(c) # {}
    PROVE  /\ Moment(c) \in Hours
           /\ Moment(c) \in Heaviest(c)
           /\ \A g \in Heaviest(c) : Moment(c) <= g
<1>1. IsFiniteSet(features) /\ \A o \in features : o.hour \in Hours
  BY SendTimeAssumption, FS_Subset
<1> DEFINE mass == [h \in Hours |-> Mass(c, h)]
           hours == [h \in Hours |-> -h]
<1>2. mass \in [Hours -> Int]
  <2>1. ASSUME NEW h \in Hours PROVE Mass(c, h) \in Nat
    <3>1. IsFiniteSet({o \in Feats(c) : InBins(o.hour, h, WindowBins(c))})
      BY <1>1, FS_Subset DEF Feats
    <3> QED
      BY <3>1, FS_CardinalityType DEF Mass
  <2> QED
    BY <2>1
<1>3. OpenedHours(c) \in SUBSET Hours /\ OpenedHours(c) # {}
  BY <1>1 DEF OpenedHours, Feats
<1>4. PICK h \in OpenedHours(c) : \A g \in OpenedHours(c) : mass[g] <= mass[h]
  BY <1>2, <1>3, BestHour
<1>5. h \in Heaviest(c)
  BY <1>3, <1>4 DEF Heaviest
<1>6. Heaviest(c) \in SUBSET Hours
  BY <1>3 DEF Heaviest
<1>7. hours \in [Hours -> Int]
  BY DEF Hours
<1>8. PICK first \in Heaviest(c) : \A g \in Heaviest(c) : hours[g] <= hours[first]
  BY <1>5, <1>6, <1>7, BestHour
<1>9. \A g \in Heaviest(c) : first <= g
  <2>1. ASSUME NEW g \in Heaviest(c) PROVE first <= g
    <3>1. g \in Hours /\ first \in Hours /\ hours[g] <= hours[first]
      BY <1>6, <1>8
    <3> QED
      BY <3>1 DEF Hours
  <2> QED
    BY <2>1
<1>10. Moment(c) \in Heaviest(c) /\ \A g \in Heaviest(c) : Moment(c) <= g
  BY <1>8, <1>9 DEF Moment, Min
<1> QED
  BY <1>6, <1>10

-----------------------------------------------------------------------------
(* A row has its type *)

\* What is asked of atan2 and the length of a vector: whole numbers for whole
\* numbers.
AngleAndNorm == \A x, y \in Int : Angle(x, y) \in Int /\ Norm(x, y) \in Int

LEMMA EventTyped ==
    ASSUME NEW X, X \subseteq OpenEvents
    PROVE  /\ IsFiniteSet(X)
           /\ \A o \in X : o.at \in Nat /\ o.hour \in Hours /\ o.user \in Users
BY SendTimeAssumption, FS_Subset

LEMMA SumOfInt ==
    ASSUME NEW X, X \subseteq OpenEvents, NEW table \in [Hours -> Int]
    PROVE  SumOf(table, X) \in Int
<1> DEFINE f == [o \in X |-> table[o.hour]]
<1>1. \A o \in X : f[o] \in Int
  BY EventTyped
<1>2. IsFiniteSet(X)
  BY EventTyped
<1>3. DOMAIN f = X
  OBVIOUS
<1>4. SumOf(table, X) = SumFunctionOnSet(f, X)
  BY <1>3 DEF SumOf, SumFunction
<1> HIDE DEF f
<1> QED
  BY <1>1, <1>2, <1>4, SumInt

LEMMA FeatsTyped ==
    ASSUME features \subseteq OpenEvents, NEW c
    PROVE  /\ Feats(c) \subseteq OpenEvents /\ IsFiniteSet(Feats(c))
           /\ Cardinality(Feats(c)) \in Nat
           /\ Feats(c) # {} => Cardinality(Feats(c)) > 0
<1>1. Feats(c) \subseteq OpenEvents
  BY DEF Feats
<1>2. IsFiniteSet(Feats(c))
  BY <1>1, EventTyped
<1> QED
  BY <1>1, <1>2, FS_CardinalityType, FS_EmptySet

LEMMA OpensTyped ==
    ASSUME features \subseteq OpenEvents, NEW u
    PROVE  /\ OpensOf(u) \subseteq OpenEvents /\ IsFiniteSet(OpensOf(u))
           /\ Cardinality(OpensOf(u)) \in Nat
<1>1. OpensOf(u) \subseteq OpenEvents
  BY DEF OpensOf
<1>2. IsFiniteSet(OpensOf(u))
  BY <1>1, EventTyped
<1> QED
  BY <1>1, <1>2, FS_CardinalityType

LEMMA ProductInt == ASSUME NEW a \in Int, NEW b \in Int PROVE a * b \in Int
OBVIOUS

LEMMA PosteriorInt ==
    ASSUME features \subseteq OpenEvents, NEW u, NEW c, NEW table \in [Hours -> Int]
    PROVE  Posterior(u, c, table) \in Int
<1>1. /\ SumOf(table, OpensOf(u)) \in Int /\ SumOf(table, Feats(c)) \in Int
      /\ Cardinality(Feats(c)) \in Int
  BY FeatsTyped, OpensTyped, SumOfInt
<1>2. PseudoCount \in Int
  BY SendTimeAssumption
<1>3. Cardinality(Feats(c)) * SumOf(table, OpensOf(u)) \in Int
  BY <1>1, ProductInt
<1>4. PseudoCount * SumOf(table, Feats(c)) \in Int
  BY <1>1, <1>2, ProductInt
<1> QED
  BY <1>3, <1>4 DEF Posterior

LEMMA CentreInDay ==
    ASSUME AngleAndNorm, features \subseteq OpenEvents, NEW u, NEW c
    PROVE  Centre(u, c) \in 0..(Day - 1)
<1>1. Posterior(u, c, Cos) \in Int /\ Posterior(u, c, Sin) \in Int
  BY SendTimeAssumption, PosteriorInt
<1>2. Angle(Posterior(u, c, Cos), Posterior(u, c, Sin)) \in Int
  BY <1>1 DEF AngleAndNorm
<1> QED
  BY <1>2, WrappedInDay DEF Centre

LEMMA DivInt == ASSUME NEW a \in Int, NEW b \in Nat, b > 0 PROVE a \div b \in Int
OBVIOUS

LEMMA ProductPositive ==
    ASSUME NEW a \in Nat, a > 0, NEW b \in Nat, b > 0 PROVE a * b \in Nat /\ a * b > 0
OBVIOUS

LEMMA ConfidenceInt ==
    ASSUME AngleAndNorm, features \subseteq OpenEvents, NEW u, NEW c, Feats(c) # {}
    PROVE  Confidence(u, c) \in Int
<1>1. Posterior(u, c, Cos) \in Int /\ Posterior(u, c, Sin) \in Int
  BY SendTimeAssumption, PosteriorInt
<1>2. Norm(Posterior(u, c, Cos), Posterior(u, c, Sin)) \in Int
  BY <1>1 DEF AngleAndNorm
<1> DEFINE top == 1000000 * Norm(Posterior(u, c, Cos), Posterior(u, c, Sin))
           bottom == Cardinality(Feats(c)) * (Cardinality(OpensOf(u)) + PseudoCount)
<1>3. top \in Int
  BY <1>2
<1>4. bottom \in Nat /\ bottom > 0
  <2>1. Cardinality(Feats(c)) \in Nat /\ Cardinality(Feats(c)) > 0
    BY FeatsTyped
  <2>2. Cardinality(OpensOf(u)) \in Nat
    BY OpensTyped
  <2>3. PseudoCount \in Nat \ {0}
    BY SendTimeAssumption
  <2>4. /\ Cardinality(OpensOf(u)) + PseudoCount \in Nat
        /\ Cardinality(OpensOf(u)) + PseudoCount > 0
    BY <2>2, <2>3
  <2> QED
    BY <2>1, <2>4, ProductPositive
<1> HIDE DEF top, bottom
<1>5. top \div bottom \in Int
  BY <1>3, <1>4, DivInt
<1> QED
  BY <1>5 DEF Confidence, top, bottom

LEMMA RowTyped ==
    ASSUME AngleAndNorm, TypeOK, NEW u \in Users, Scored(u)
    PROVE  ScoreRow(u) \in Row
<1> DEFINE c == dim_user_current[u]
           minute == MinuteOfDay(Centre(u, c), Moment(c))
<1>1. features \subseteq OpenEvents /\ c \in Cohorts
  BY SendTimeAssumption DEF TypeOK
<1>2. Feats(c) # {}
  BY DEF Scored
<1>3. Moment(c) \in Hours
  BY <1>1, <1>2, SomeMoment
<1>4. Centre(u, c) \in 0..(Day - 1)
  BY <1>1, CentreInDay
<1>5. minute \in 0..1439
  BY <1>3, <1>4, SendTimeAssumption, ServedMinute
<1>6. Confidence(u, c) \in Int
  BY <1>1, <1>2, ConfidenceInt
<1>7. ComputedAsOf(u) \in Nat
  <2>1. features # {}
    BY <1>2 DEF Feats
  <2>2. IsFiniteSet(features) /\ \A o \in features : o.at \in Nat
    BY <1>1, EventTyped
  <2>3. Latest(features) \in Nat
    BY <2>1, <2>2, LatestIsOne
  <2> QED
    BY <2>3 DEF ComputedAsOf, Latest
<1>8. ScoreRow(u) = [cohort |-> c, hour |-> minute \div 60,
                     minute |-> minute - 60 * (minute \div 60),
                     cohortHour |-> Moment(c), centre |-> Centre(u, c),
                     confidence |-> Confidence(u, c), asOf |-> ComputedAsOf(u)]
  BY DEF ScoreRow
<1> HIDE DEF minute, c
<1>9. minute \div 60 \in Int /\ minute - 60 * (minute \div 60) \in Int
  BY <1>5
<1> QED
  BY <1>1, <1>3, <1>4, <1>6, <1>7, <1>8, <1>9 DEF Row

LEMMA TableTyped ==
    ASSUME opens \subseteq OpenEvents, prompts \subseteq PromptEvents
    PROVE  LongestWindow \in [Cohorts -> Nat]
<1>1. ASSUME NEW c \in Cohorts PROVE LongestWindow[c] \in Nat
  <2> DEFINE Q == {q \in prompts : q.cohort = c}
             window == [q \in Q |-> q.window]
             windows == {p.window : p \in Q}
  <2>1. IsFiniteSet(Q) /\ \A q \in Q : q.window \in Nat
    BY SendTimeAssumption, FS_Subset
  <2>2. windows = {window[q] : q \in Q}
    OBVIOUS
  <2>3. IsFiniteSet(windows)
    <3> HIDE DEF window, windows, Q
    <3> QED
      BY <2>1, <2>2, FiniteImage
  <2>4. windows \in SUBSET Nat
    BY <2>1
  <2>5. LongestWindow[c] = IF windows = {} THEN 0 ELSE Max(windows)
    BY DEF LongestWindow
  <2> HIDE DEF windows
  <2>6. CASE windows = {}
    BY <2>5, <2>6
  <2>7. CASE windows # {}
    <3>1. Max(windows) \in windows
      BY <2>3, <2>4, <2>7, MaxOfFinite
    <3>2. LongestWindow[c] = Max(windows)
      BY <2>5, <2>7
    <3> QED
      BY <2>4, <3>1, <3>2
  <2> QED
    BY <2>6, <2>7
<1> QED
  BY <1>1 DEF LongestWindow

-----------------------------------------------------------------------------
(* Type correctness *)

LEMMA InitTyped == Init => TypeOK
BY SendTimeAssumption DEF Init, TypeOK

LEMMA NextTyped == ASSUME AngleAndNorm, TypeOK, [Next]_vars PROVE TypeOK'
<1>1. CASE LandSome
  BY <1>1 DEF LandSome, Land, TypeOK
<1>2. CASE BuildFeatures
  <2>1. LongestWindow \in [Cohorts -> Nat]
    BY TableTyped DEF TypeOK
  <2>2. InWindow \subseteq opens
    BY DEF InWindow
  <2>3. Untold \subseteq {"late", "slid", "window", "moved"}
    BY DEF Untold
  <2>4. untold' \subseteq {"late", "slid", "window", "moved"}
    BY <1>2, <2>3 DEF BuildFeatures, TypeOK
  <2> QED
    BY <1>2, <2>1, <2>2, <2>4 DEF BuildFeatures, TypeOK
<1>3. CASE BuildScores
  <2>1. scores' \in [Users -> Row \cup {Absent}]
    BY <1>3, RowTyped DEF BuildScores
  <2> QED
    BY <1>3, <2>1 DEF BuildScores, TypeOK
<1>4. CASE WriteBack
  BY <1>4 DEF WriteBack, TypeOK
<1>5. CASE UNCHANGED vars
  BY <1>5 DEF vars, TypeOK
<1> QED
  BY <1>1, <1>2, <1>3, <1>4, <1>5 DEF Next

\* Whatever lands, every table holds what its columns say: the minutes and the
\* moments are of a day, and computed_as_of is the time of an open.
THEOREM SendTimeTyped == ASSUME AngleAndNorm PROVE Spec => []TypeOK
<1>1. Init => TypeOK
  BY InitTyped
<1>2. TypeOK /\ [Next]_vars => TypeOK'
  BY NextTyped
<1> QED
  BY <1>1, <1>2, PTL DEF Spec

-----------------------------------------------------------------------------
(* The invariant *)

\* A row is in the band when it is made; features only holds known opens.
BandInv ==
    /\ opens \subseteq OpenEvents
    /\ features \subseteq OpenEvents
    /\ ServedInBand

LEMMA RowInBand ==
    ASSUME AngleAndNorm, features \subseteq OpenEvents, NEW u \in Users, Scored(u)
    PROVE  InBand(ScoreRow(u))
<1> DEFINE c == dim_user_current[u]
           minute == MinuteOfDay(Centre(u, c), Moment(c))
<1>1. Moment(c) \in Hours
  BY SomeMoment DEF Scored
<1>2. Centre(u, c) \in 0..(Day - 1)
  BY CentreInDay
<1>3. MaxShift \in Nat
  BY SendTimeAssumption
<1>4. minute \in 0..1439 /\ Apart(minute, 60 * Moment(c)) <= MaxShift
  BY <1>1, <1>2, <1>3, ServedMinute
<1>5. /\ ScoreRow(u).hour = minute \div 60
      /\ ScoreRow(u).minute = minute - 60 * (minute \div 60)
      /\ ScoreRow(u).cohortHour = Moment(c)
  BY DEF ScoreRow
<1> HIDE DEF minute, c
<1>6. minute \div 60 \in 0..23 /\ minute - 60 * (minute \div 60) \in 0..59
  BY <1>4, SMT
<1>7. 60 * (minute \div 60) + (minute - 60 * (minute \div 60)) = minute
  BY <1>4, <1>6, SMT
<1> QED
  BY <1>4, <1>5, <1>6, <1>7 DEF InBand

LEMMA InitBand == Init => BandInv
BY DEF Init, BandInv, ServedInBand

LEMMA NextBand ==
    ASSUME AngleAndNorm, BandInv, [Next]_vars PROVE BandInv'
<1>1. CASE LandSome
  BY <1>1 DEF LandSome, Land, BandInv, ServedInBand, InBand
<1>2. CASE BuildFeatures
  BY <1>2 DEF BuildFeatures, InWindow, BandInv, ServedInBand, InBand
<1>3. CASE BuildScores
  <2>1. ASSUME NEW u \in Users, scores'[u] # Absent PROVE InBand(scores'[u])
    <3>1. Scored(u) /\ scores'[u] = ScoreRow(u)
      BY <1>3, <2>1 DEF BuildScores
    <3> QED
      BY <3>1, RowInBand DEF BandInv
  <2>2. ServedInBand'
    BY <2>1 DEF ServedInBand, InBand, Apart
  <2> QED
    BY <1>3, <2>2 DEF BuildScores, BandInv
<1>4. CASE WriteBack
  BY <1>4 DEF WriteBack, BandInv, ServedInBand, InBand
<1>5. CASE UNCHANGED vars
  BY <1>5 DEF vars, BandInv, ServedInBand, InBand
<1> QED
  BY <1>1, <1>2, <1>3, <1>4, <1>5 DEF Next

\* Every row of scores_send_time, whatever is known of the user, serves a
\* minute of the day no farther than max_user_shift_min from its cohort's
\* moment, across midnight too.
THEOREM ServedInBandHolds ==
    ASSUME AngleAndNorm PROVE Spec => []ServedInBand
<1>1. Init => BandInv
  BY InitBand
<1>2. BandInv /\ [Next]_vars => BandInv'
  BY NextBand
<1>3. BandInv => ServedInBand
  BY DEF BandInv
<1> QED
  BY <1>1, <1>2, <1>3, PTL DEF Spec

-----------------------------------------------------------------------------
(* Scores of the tables *)

\* A build has to change the tables, and of the windows the user's cohort's own,
\* for the row of a user to change.
LEMMA SameRow ==
    ASSUME UNCHANGED <<features, dim_user_current>>, NEW u,
           LET c == dim_user_current[u] IN (cohort_window[c])' = cohort_window[c]
    PROVE  /\ Scored(u)' <=> Scored(u)
           /\ ScoreRow(u)' = ScoreRow(u)
<1> DEFINE own == dim_user_current[u]
<1>1. \A c : Feats(c)' = Feats(c)
  BY DEF Feats
<1>2. OpensOf(u)' = OpensOf(u)
  BY DEF OpensOf
<1>3. WindowBins(own)' = WindowBins(own)
  BY DEF WindowBins
<1>4. Moment(own)' = Moment(own)
  <2>1. own' = own /\ Feats(own)' = Feats(own)
    BY <1>1
  <2>2. \A h : Mass(own, h)' = Mass(own, h)
    BY <1>3, <2>1 DEF Mass
  <2>3. OpenedHours(own)' = OpenedHours(own)
    BY <2>1 DEF OpenedHours
  <2>4. Heaviest(own)' = Heaviest(own)
    BY <2>2, <2>3 DEF Heaviest
  <2> QED
    BY <2>4 DEF Moment
<1>5. \A c, t : Posterior(u, c, t)' = Posterior(u, c, t)
  BY <1>1, <1>2 DEF Posterior
<1>6. \A c : Centre(u, c)' = Centre(u, c)
  BY <1>5 DEF Centre
<1>7. \A c : Confidence(u, c)' = Confidence(u, c)
  BY <1>1, <1>2, <1>5 DEF Confidence
<1>8. ComputedAsOf(u)' = ComputedAsOf(u)
  BY DEF ComputedAsOf
<1> QED
  BY <1>1, <1>4, <1>6, <1>7, <1>8 DEF Scored, ScoreRow

LEMMA SameRows ==
    ASSUME UNCHANGED <<features, cohort_window, dim_user_current>>, NEW u
    PROVE  /\ Scored(u)' <=> Scored(u)
           /\ ScoreRow(u)' = ScoreRow(u)
BY SameRow

FreshScores ==
    Fresh => scores = [u \in Users |-> IF Scored(u) THEN ScoreRow(u) ELSE Absent]

LEMMA InitFresh == Init => FreshScores
BY DEF Init, FreshScores, Fresh

LEMMA NextFresh == ASSUME FreshScores, [Next]_vars PROVE FreshScores'
<1> DEFINE Table == [u \in Users |-> IF Scored(u) THEN ScoreRow(u) ELSE Absent]
<1>1. ASSUME UNCHANGED <<features, cohort_window, dim_user_current>> PROVE Table' = Table
  BY <1>1, SameRows
<1>2. FreshScores <=> (Fresh => scores = Table)
  BY DEF FreshScores
<1>3. FreshScores' <=> (Fresh' => scores' = Table')
  BY DEF FreshScores
<1>4. CASE LandSome
  BY <1>4, <1>3 DEF LandSome, Land, Fresh
<1>5. CASE BuildFeatures
  BY <1>5, <1>3 DEF BuildFeatures, Fresh
<1>6. CASE BuildScores
  <2>1. scores' = Table
    BY <1>6 DEF BuildScores
  <2>2. Table' = Table
    BY <1>1, <1>6 DEF BuildScores
  <2> HIDE DEF Table
  <2> QED
    BY <1>3, <2>1, <2>2
<1>7. CASE WriteBack
  <2>1. Table' = Table /\ scores' = scores /\ (Fresh' => Fresh)
    BY <1>1, <1>7 DEF WriteBack, Fresh
  <2> HIDE DEF Table
  <2> QED
    BY <1>2, <1>3, <2>1
<1>8. CASE UNCHANGED vars
  <2>1. Table' = Table /\ scores' = scores /\ (Fresh' => Fresh)
    BY <1>1, <1>8 DEF vars, Fresh
  <2> HIDE DEF Table
  <2> QED
    BY <1>2, <1>3, <2>1
<1> QED
  BY <1>4, <1>5, <1>6, <1>7, <1>8 DEF Next

-----------------------------------------------------------------------------
(* The best moment of the day *)

\* From one hour of the day on to another, and back.
Ahead(hour, start) == (hour - start + 24) % 24

LEMMA AheadIsOffset ==
    ASSUME NEW hour \in Hours, NEW start \in Hours
    PROVE  /\ Ahead(hour, start) \in 0..23
           /\ (start + Ahead(hour, start)) % 24 = hour
           /\ \A i \in 0..23 : (start + i) % 24 = hour => i = Ahead(hour, start)
           /\ SqlMod(hour - start + 24, 24) = Ahead(hour, start)
<1>1. hour \in 0..23 /\ start \in 0..23
  BY DEF Hours
<1>2. Ahead(hour, start) = IF hour >= start THEN hour - start ELSE hour - start + 24
  BY <1>1, SMT DEF Ahead
<1>3. (start + Ahead(hour, start)) % 24 = hour
  BY <1>1, <1>2, SMT
<1>4. ASSUME NEW i \in 0..23, (start + i) % 24 = hour PROVE i = Ahead(hour, start)
  BY <1>1, <1>2, <1>4, SMT
<1>5. SqlMod(hour - start + 24, 24) = Ahead(hour, start)
  BY <1>1, SMT DEF Ahead, SqlMod
<1> QED
  BY <1>1, <1>2, <1>3, <1>4, <1>5

\* The bins of a window are the hours that begin in it.
LEMMA BinsOfWindow ==
    ASSUME NEW w \in Nat, NEW i \in 0..23
    PROVE  60 * i < w <=> i < (w + 59) \div 60
BY SMT

InWindowOf(c, start) == {o \in Feats(c) : InBins(o.hour, start, WindowBins(c))}

LEMMA CoveredIsMass ==
    ASSUME features \subseteq OpenEvents, NEW c, cohort_window[c] \in Nat, NEW h \in Hours
    PROVE  Covered(c, h) = Mass(c, h)
<1> DEFINE hours == {(h + i) % 24 : i \in {j \in 0..23 : 60 * j < cohort_window[c]}}
<1>1. ASSUME NEW o \in Feats(c)
      PROVE  o.hour \in hours <=> InBins(o.hour, h, WindowBins(c))
  <2> DEFINE d == Ahead(o.hour, h)
  <2>1. o.hour \in Hours
    BY FeatsTyped, EventTyped
  <2>2. /\ d \in 0..23 /\ (h + d) % 24 = o.hour
        /\ \A i \in 0..23 : (h + i) % 24 = o.hour => i = d
        /\ SqlMod(o.hour - h + 24, 24) = d
    BY <2>1, AheadIsOffset
  <2>3. InBins(o.hour, h, WindowBins(c)) <=> d < WindowBins(c)
    BY <2>2 DEF InBins
  <2>4. 60 * d < cohort_window[c] <=> d < WindowBins(c)
    BY <2>2, BinsOfWindow DEF WindowBins
  <2> HIDE DEF d
  <2>5. o.hour \in hours <=> 60 * d < cohort_window[c]
    BY <2>2
  <2> QED
    BY <2>3, <2>4, <2>5
<1>2. {o \in Feats(c) : o.hour \in hours} = InWindowOf(c, h)
  BY <1>1 DEF InWindowOf
<1> QED
  BY <1>2 DEF Covered, Mass, InWindowOf

\* A window that begins in an unopened hour does no better than the one that
\* begins in the first opened hour that it covers.
LEMMA BestIsOpened ==
    ASSUME features \subseteq OpenEvents, NEW c, cohort_window[c] \in Nat,
           NEW h \in Hours, InWindowOf(c, h) # {}
    PROVE  \E g \in OpenedHours(c) : Mass(c, h) <= Mass(c, g)
<1> DEFINE S == {o.hour : o \in InWindowOf(c, h)}
           near == [g \in Hours |-> -Ahead(g, h)]
<1>1. S \in SUBSET Hours /\ S # {}
  BY FeatsTyped, EventTyped DEF InWindowOf
<1>2. near \in [Hours -> Int]
  BY AheadIsOffset
<1>3. PICK g \in S : \A k \in S : near[k] <= near[g]
  <2> HIDE DEF S, near
  <2> QED
    BY <1>1, <1>2, BestHour
<1>4. g \in OpenedHours(c) /\ g \in Hours
  BY <1>1 DEF OpenedHours, InWindowOf
<1>5. ASSUME NEW o \in InWindowOf(c, h) PROVE o \in InWindowOf(c, g)
  <2>1. o \in Feats(c) /\ o.hour \in Hours /\ o.hour \in S
    BY FeatsTyped, EventTyped DEF InWindowOf
  <2>2. /\ Ahead(o.hour, h) \in 0..23 /\ Ahead(g, h) \in 0..23
        /\ SqlMod(o.hour - h + 24, 24) = Ahead(o.hour, h)
        /\ SqlMod(o.hour - g + 24, 24) = Ahead(o.hour, g)
    BY <1>4, <2>1, AheadIsOffset
  <2>3. Ahead(g, h) <= Ahead(o.hour, h)
    <3>1. near[o.hour] <= near[g]
      BY <1>3, <2>1
    <3>2. near[o.hour] = -Ahead(o.hour, h) /\ near[g] = -Ahead(g, h)
      BY <1>4, <2>1
    <3> QED
      BY <2>2, <3>1, <3>2
  <2>4. Ahead(o.hour, g) = Ahead(o.hour, h) - Ahead(g, h)
    BY <1>4, <2>1, <2>3, SMT DEF Ahead, Hours
  <2>5. Ahead(o.hour, h) < WindowBins(c)
    BY <2>2 DEF InWindowOf, InBins
  <2>6. WindowBins(c) \in Int
    BY DEF WindowBins
  <2>7. Ahead(o.hour, g) < WindowBins(c)
    BY <2>2, <2>4, <2>5, <2>6
  <2> QED
    BY <2>1, <2>2, <2>7 DEF InWindowOf, InBins
<1>6. IsFiniteSet(InWindowOf(c, g))
  <2>1. IsFiniteSet(Feats(c))
    BY FeatsTyped
  <2> QED
    BY <2>1, FS_Subset DEF InWindowOf
<1>7. Cardinality(InWindowOf(c, h)) <= Cardinality(InWindowOf(c, g))
  BY <1>5, <1>6, FS_Subset
<1> QED
  BY <1>4, <1>7 DEF Mass, InWindowOf

LEMMA BestOfAll ==
    ASSUME features \subseteq OpenEvents, NEW c, cohort_window[c] \in Nat, Feats(c) # {}
    PROVE  /\ Moment(c) \in OpenedHours(c)
           /\ \A h \in Hours : Covered(c, h) <= Covered(c, Moment(c))
           /\ \A h \in OpenedHours(c) : Covered(c, h) = Covered(c, Moment(c)) => Moment(c) <= h
<1>1. /\ Moment(c) \in Hours /\ Moment(c) \in Heaviest(c)
      /\ \A g \in Heaviest(c) : Moment(c) <= g
  BY SomeMoment
<1>2. /\ Moment(c) \in OpenedHours(c)
      /\ \A g \in OpenedHours(c) : Mass(c, g) <= Mass(c, Moment(c))
  BY <1>1 DEF Heaviest
<1>3. \A h \in Hours : Mass(c, h) \in Nat /\ (InWindowOf(c, h) = {} => Mass(c, h) = 0)
  <2>1. ASSUME NEW h \in Hours
        PROVE  Mass(c, h) \in Nat /\ (InWindowOf(c, h) = {} => Mass(c, h) = 0)
    <3>1. IsFiniteSet(Feats(c))
      BY FeatsTyped
    <3>2. IsFiniteSet(InWindowOf(c, h))
      BY <3>1, FS_Subset DEF InWindowOf
    <3>3. Mass(c, h) = Cardinality(InWindowOf(c, h))
      BY DEF Mass, InWindowOf
    <3> QED
      BY <3>2, <3>3, FS_CardinalityType, FS_EmptySet
  <2> QED
    BY <2>1
<1>4. OpenedHours(c) \subseteq Hours
  BY FeatsTyped, EventTyped DEF OpenedHours
<1>5. ASSUME NEW h \in Hours PROVE Mass(c, h) <= Mass(c, Moment(c))
  <2>1. CASE InWindowOf(c, h) = {}
    BY <1>1, <1>3, <2>1
  <2>2. CASE InWindowOf(c, h) # {}
    <3>1. PICK g \in OpenedHours(c) : Mass(c, h) <= Mass(c, g)
      BY <2>2, BestIsOpened
    <3>2. Mass(c, g) <= Mass(c, Moment(c))
      BY <1>2
    <3> QED
      BY <1>1, <1>3, <1>4, <3>1, <3>2
  <2> QED
    BY <2>1, <2>2
<1>6. ASSUME NEW h \in OpenedHours(c), Mass(c, h) = Mass(c, Moment(c)) PROVE Moment(c) <= h
  <2>1. h \in Heaviest(c)
    BY <1>2, <1>6 DEF Heaviest
  <2> QED
    BY <1>1, <2>1
<1>7. \A h \in Hours : Covered(c, h) = Mass(c, h)
  BY CoveredIsMass
<1> QED
  BY <1>1, <1>2, <1>4, <1>5, <1>6, <1>7

\* No window of the cohort's length, wherever on the circle it begins, holds
\* more of the cohort's opens than the one at the moment of a scored row.
THEOREM MomentIsBestHolds == ASSUME AngleAndNorm PROVE Spec => []MomentIsBest
<1>1. TypeOK /\ FreshScores => MomentIsBest
  <2> SUFFICES ASSUME TypeOK, FreshScores, Fresh, NEW u \in Users, scores[u] # Absent
               PROVE  LET c == scores[u].cohort
                          best == scores[u].cohortHour
                      IN  /\ best \in OpenedHours(c)
                          /\ \A h \in Hours : Covered(c, h) <= Covered(c, best)
                          /\ \A h \in OpenedHours(c) :
                                 Covered(c, h) = Covered(c, best) => best <= h
    BY DEF MomentIsBest
  <2> DEFINE c == dim_user_current[u]
  <2>1. Scored(u) /\ scores[u] = ScoreRow(u)
    BY DEF FreshScores
  <2>2. scores[u].cohort = c /\ scores[u].cohortHour = Moment(c)
    BY <2>1 DEF ScoreRow
  <2>3. features \subseteq OpenEvents /\ cohort_window[c] \in Nat /\ Feats(c) # {}
    BY <2>1, SendTimeAssumption DEF TypeOK, Scored
  <2> HIDE DEF c
  <2> QED
    BY <2>2, <2>3, BestOfAll
<1>2. Init => TypeOK /\ FreshScores
  BY InitTyped, InitFresh
<1>3. TypeOK /\ FreshScores /\ [Next]_vars => (TypeOK /\ FreshScores)'
  BY NextTyped, NextFresh
<1> QED
  BY <1>1, <1>2, <1>3, PTL DEF Spec

-----------------------------------------------------------------------------
(* A new user *)

\* atan2 is the same for a longer vector of the same direction, whose length
\* is as many times the length.
Scales ==
    \A k \in Nat \ {0} : \A x, y \in Int :
        /\ Angle(k * x, k * y) = Angle(x, y)
        /\ Norm(k * x, k * y) = k * Norm(x, y)

LEMMA DivCancels ==
    ASSUME NEW k \in Nat \ {0}, NEW a \in Int, NEW b \in Nat \ {0}
    PROVE  (k * a) \div (k * b) = a \div b
<1> DEFINE q == a \div b
<1>1. q \in Int /\ b * q <= a /\ a < b * (q + 1)
  OBVIOUS
<1> HIDE DEF q
<1>2. b * q \in Int /\ b * (q + 1) \in Int /\ k * b \in Nat /\ k * b > 0
  BY <1>1, ProductInt
<1>3. k * (b * q) <= k * a /\ k * a < k * (b * (q + 1))
  BY <1>1, <1>2
<1>4. k * (b * q) = (k * b) * q /\ k * (b * (q + 1)) = (k * b) * (q + 1)
  BY <1>1
<1>5. k * a \in Int
  BY ProductInt
<1> DEFINE n == k * a
           d == k * b
<1>6. n \in Int /\ d \in Nat /\ d > 0 /\ d * q <= n /\ n < d * (q + 1)
  BY <1>2, <1>3, <1>4, <1>5
<1> HIDE DEF n, d
<1>7. n \div d = q
  BY <1>1, <1>6, SMT
<1> QED
  BY <1>7 DEF n, d, q

LEMMA PosteriorIsPrior ==
    ASSUME features \subseteq OpenEvents, NEW u, OpensOf(u) = {}, NEW c,
           NEW table \in [Hours -> Int]
    PROVE  Posterior(u, c, table) = PseudoCount * SumOf(table, Feats(c))
<1>1. SumOf(table, {}) = 0
  <2> DEFINE f == [o \in {} |-> table[o.hour]]
  <2>1. SumFunctionOnSet(f, {}) = 0
    BY FS_EmptySet, SumStep
  <2>2. DOMAIN f = {}
    OBVIOUS
  <2> QED
    BY <2>1, <2>2 DEF SumOf, SumFunction
<1>2. SumOf(table, Feats(c)) \in Int /\ Cardinality(Feats(c)) \in Int /\ PseudoCount \in Int
  BY FeatsTyped, SumOfInt, SendTimeAssumption
<1>3. PseudoCount * SumOf(table, Feats(c)) \in Int
  BY <1>2, ProductInt
<1>4. Cardinality(Feats(c)) * 0 = 0
  BY <1>2
<1> QED
  BY <1>1, <1>3, <1>4 DEF Posterior

LEMMA PriorServed ==
    ASSUME AngleAndNorm, Scales, features \subseteq OpenEvents, NEW u, NEW c,
           OpensOf(u) = {}, Feats(c) # {}
    PROVE  /\ Centre(u, c) = Wrapped(Angle(SumOf(Cos, Feats(c)), SumOf(Sin, Feats(c))))
           /\ Confidence(u, c) =
                  (1000000 * Norm(SumOf(Cos, Feats(c)), SumOf(Sin, Feats(c))))
                      \div Cardinality(Feats(c))
<1> DEFINE x == SumOf(Cos, Feats(c))
           y == SumOf(Sin, Feats(c))
           k == PseudoCount
           size == Cardinality(Feats(c))
<1>1. x \in Int /\ y \in Int
  BY FeatsTyped, SumOfInt, SendTimeAssumption
<1>2. k \in Nat \ {0} /\ size \in Nat \ {0}
  BY FeatsTyped, SendTimeAssumption
<1>3. Posterior(u, c, Cos) = k * x /\ Posterior(u, c, Sin) = k * y
  BY PosteriorIsPrior, SendTimeAssumption
<1>4. Cardinality(OpensOf(u)) = 0
  BY FS_EmptySet
<1> HIDE DEF x, y, k, size
<1>5. /\ Angle(k * x, k * y) = Angle(x, y)
      /\ Norm(k * x, k * y) = k * Norm(x, y) /\ Norm(x, y) \in Int
  BY <1>1, <1>2 DEF Scales, AngleAndNorm
<1>6. Centre(u, c) = Wrapped(Angle(x, y))
  BY <1>3, <1>5 DEF Centre
<1>7. Confidence(u, c) = (1000000 * (k * Norm(x, y))) \div (size * (0 + k))
  BY <1>3, <1>4, <1>5 DEF Confidence, k, size
<1>8. 1000000 * (k * Norm(x, y)) = k * (1000000 * Norm(x, y))
  BY <1>2, <1>5
<1>9. size * (0 + k) = k * size
  BY <1>2
<1>10. 1000000 * Norm(x, y) \in Int
  BY <1>5
<1>11. (k * (1000000 * Norm(x, y))) \div (k * size) = (1000000 * Norm(x, y)) \div size
  BY <1>2, <1>10, DivCancels
<1> QED
  BY <1>6, <1>7, <1>8, <1>9, <1>11 DEF x, y, size

\* Shrinkage without opens is the prior: for any vectors and any pseudo count a
\* user of whom nothing is known has the centre and the confidence of the cohort.
THEOREM NewUserGetsThePriorHolds ==
    ASSUME AngleAndNorm, Scales PROVE Spec => []NewUserGetsThePrior
<1>1. TypeOK /\ FreshScores => NewUserGetsThePrior
  <2> SUFFICES ASSUME TypeOK, FreshScores, Fresh, NEW u \in Users,
                      OpensOf(u) = {}, Cardinality(Feats(dim_user_current[u])) > 0,
                      cohort_window[dim_user_current[u]] > 0
               PROVE  LET c == dim_user_current[u]
                          size == Cardinality(Feats(c))
                          x == SumOf(Cos, Feats(c))
                          y == SumOf(Sin, Feats(c))
                      IN  /\ scores[u] # Absent
                          /\ scores[u].centre = Wrapped(Angle(x, y))
                          /\ scores[u].confidence = (1000000 * Norm(x, y)) \div size
    BY DEF NewUserGetsThePrior
  <2> DEFINE c == dim_user_current[u]
  <2>1. features \subseteq OpenEvents
    BY DEF TypeOK
  <2>2. Feats(c) # {}
    BY FS_EmptySet
  <2>3. Scored(u)
    BY <2>2 DEF Scored
  <2>4. scores[u] = ScoreRow(u)
    BY <2>3 DEF FreshScores
  <2>5. scores[u] # Absent
    BY <2>3, <2>4, RowTyped, SendTimeAssumption
  <2>6. scores[u].centre = Centre(u, c) /\ scores[u].confidence = Confidence(u, c)
    BY <2>4 DEF ScoreRow
  <2> HIDE DEF c
  <2> QED
    BY <2>1, <2>2, <2>5, <2>6, PriorServed DEF c
<1>2. Init => TypeOK /\ FreshScores
  BY InitTyped, InitFresh
<1>3. TypeOK /\ FreshScores /\ [Next]_vars => (TypeOK /\ FreshScores)'
  BY NextTyped, NextFresh
<1> QED
  BY <1>1, <1>2, <1>3, PTL DEF Spec

-----------------------------------------------------------------------------
(* What is written back *)

\* What is stored is of no later open than the newest of the features, or its
\* open has left the window, where none as old comes back.
StoredIsOlder ==
    \A u \in Users : schedule[u] # Absent =>
        \/ schedule[u].asOf <= Latest(features)
        \/ Horizon - schedule[u].asOf >= FeatureWindow

\* With nothing untold a stored row is older than the newest open, so that any
\* row replaces it, or it is the row that the tables make.
StoredIsTold ==
    untold = {} => \A u \in Users : schedule[u] # Absent =>
        \/ schedule[u].asOf < Latest(features)
        \/ Scored(u) /\ schedule[u] = ScoreRow(u)

ToldInv ==
    /\ TypeOK /\ FreshScores
    /\ StoredIsOlder /\ StoredIsTold /\ ServedUnlessUntold

LEMMA StoredTyped ==
    ASSUME TypeOK, NEW u \in Users, schedule[u] # Absent
    PROVE  schedule[u].asOf \in Nat
BY DEF TypeOK, Row

LEMMA LatestTyped ==
    ASSUME TypeOK
    PROVE  /\ IsFiniteSet(opens \cup prompts) /\ \A e \in opens \cup prompts : e.at \in Nat
           /\ IsFiniteSet(features) /\ \A e \in features : e.at \in Nat
           /\ IsFiniteSet(InWindow) /\ \A e \in InWindow : e.at \in Nat
           /\ Latest(features) \in Int /\ Latest(InWindow) \in Int /\ Horizon \in Int
           /\ FeatureWindow \in Nat
<1>1. opens \subseteq OpenEvents /\ prompts \subseteq PromptEvents /\ features \subseteq opens
  BY DEF TypeOK
<1>2. InWindow \subseteq opens
  BY DEF InWindow
<1>3. IsFiniteSet(opens) /\ IsFiniteSet(prompts) /\ IsFiniteSet(features) /\ IsFiniteSet(InWindow)
  <2>1. features \subseteq OpenEvents /\ InWindow \subseteq OpenEvents
    BY <1>1, <1>2
  <2> QED
    BY <1>1, <2>1, SendTimeAssumption, FS_Subset
<1>4. IsFiniteSet(opens \cup prompts)
  BY <1>3, FS_Union
<1>5. \A e \in opens \cup prompts : e.at \in Nat
  BY <1>1, SendTimeAssumption
<1>6. (\A e \in features : e.at \in Nat) /\ (\A e \in InWindow : e.at \in Nat)
  BY <1>1, <1>2, <1>5
<1>7. Latest(features) \in Int
  BY <1>3, <1>6, LatestIsOne
<1>8. Latest(InWindow) \in Int
  BY <1>3, <1>6, LatestIsOne
<1>9. Horizon \in Int
  <2>1. Latest(opens \cup prompts) \in Int
    BY <1>4, <1>5, LatestIsOne
  <2> QED
    BY <2>1 DEF Horizon, Latest
<1> QED
  BY <1>3, <1>4, <1>5, <1>6, <1>7, <1>8, <1>9, SendTimeAssumption

LEMMA LandTold ==
    ASSUME ToldInv, LandSome, TypeOK' PROVE StoredIsOlder' /\ StoredIsTold' /\ ServedUnlessUntold'
<1>1. /\ UNCHANGED <<features, cohort_window, dim_user_current, schedule, untold>>
      /\ stage' = "landed" /\ opens \subseteq opens' /\ prompts \subseteq prompts'
  BY DEF LandSome, Land
<1>2. Horizon <= Horizon'
  <2>1. /\ IsFiniteSet((opens \cup prompts)')
        /\ \A e \in (opens \cup prompts)' : e.at \in Nat
    <3>1. opens' \subseteq OpenEvents /\ prompts' \subseteq PromptEvents
      BY DEF TypeOK
    <3>2. IsFiniteSet(opens') /\ IsFiniteSet(prompts')
      BY <3>1, SendTimeAssumption, FS_Subset
    <3>3. IsFiniteSet(opens' \cup prompts')
      BY <3>2, FS_Union
    <3> QED
      BY <3>1, <3>3, SendTimeAssumption
  <2>2. opens \cup prompts \subseteq opens' \cup prompts'
    BY <1>1
  <2>3. Latest(opens \cup prompts) <= Latest(opens' \cup prompts')
    BY <2>1, <2>2, LatestGrows
  <2>4. Horizon = Latest(opens \cup prompts) /\ Horizon' = Latest(opens' \cup prompts')
    BY DEF Horizon, Latest, LatestOf
  <2> QED
    BY <2>3, <2>4
<1>3. Horizon \in Int /\ Horizon' \in Int /\ FeatureWindow \in Nat
  <2>1. Latest((opens \cup prompts)') \in Int
    <3>1. opens' \subseteq OpenEvents /\ prompts' \subseteq PromptEvents
      BY DEF TypeOK
    <3>2. IsFiniteSet(opens') /\ IsFiniteSet(prompts')
      BY <3>1, SendTimeAssumption, FS_Subset
    <3>3. IsFiniteSet(opens' \cup prompts') /\ \A e \in opens' \cup prompts' : e.at \in Nat
      BY <3>1, <3>2, FS_Union, SendTimeAssumption
    <3> QED
      BY <3>3, LatestIsOne
  <2> QED
    BY <2>1, LatestTyped DEF ToldInv, Horizon, Latest, LatestOf
<1>4. Latest(features)' = Latest(features)
  BY <1>1 DEF Latest
<1>5. StoredIsOlder'
  <2>1. ASSUME NEW u \in Users, schedule[u] # Absent
        PROVE  \/ schedule[u].asOf <= Latest(features)
               \/ Horizon' - schedule[u].asOf >= FeatureWindow
    <3>1. schedule[u].asOf \in Nat
      BY <2>1, StoredTyped DEF ToldInv
    <3>2. \/ schedule[u].asOf <= Latest(features)
          \/ Horizon - schedule[u].asOf >= FeatureWindow
      BY <2>1 DEF ToldInv, StoredIsOlder
    <3> QED
      BY <1>2, <1>3, <3>1, <3>2
  <2> QED
    BY <1>1, <1>4, <2>1 DEF StoredIsOlder
<1>6. StoredIsTold'
  BY <1>1, <1>4, SameRows DEF ToldInv, StoredIsTold
<1>7. ServedUnlessUntold'
  BY <1>1 DEF ServedUnlessUntold
<1> QED
  BY <1>5, <1>6, <1>7

\* A build that finds nothing untold, and no newer open, finds the same opens.
LEMMA SameFeatures ==
    ASSUME TypeOK, Untold = {}, ~(Latest(InWindow) > Latest(features))
    PROVE  InWindow = features
<1>1. \A o \in InWindow \ features : \A p \in features : ~(o.at <= p.at)
  BY DEF Untold
<1>2. features \subseteq InWindow
  BY DEF Untold
<1>3. ASSUME NEW o \in InWindow, o \notin features PROVE FALSE
  <2>1. o.at \in Nat /\ o.at <= Latest(InWindow)
    BY LatestTyped, LatestIsOne
  <2>2. features # {}
    <3>1. ASSUME features = {} PROVE FALSE
      <4>1. Latest(features) = NoTime
        BY <3>1, FS_EmptySet, LatestIsOne
      <4> QED
        BY <2>1, <4>1, LatestTyped DEF NoTime
    <3> QED
      BY <3>1
  <2>3. PICK p \in features : p.at = Latest(features)
    BY <2>2, LatestTyped, LatestIsOne
  <2>4. ~(o.at <= p.at)
    BY <1>1, <1>3, <2>3
  <2> QED
    BY <2>1, <2>3, <2>4, LatestTyped
<1> QED
  BY <1>2, <1>3

LEMMA BuildTold ==
    ASSUME ToldInv, BuildFeatures PROVE StoredIsOlder' /\ StoredIsTold' /\ ServedUnlessUntold'
<1> USE DEF ToldInv
<1>1. /\ features' = InWindow /\ cohort_window' = LongestWindow
      /\ dim_user_current' = dim_user /\ stage' = "featured"
      /\ UNCHANGED <<opens, prompts, dim_user, schedule>>
      /\ untold' = IF Latest(InWindow) > Latest(features) THEN {} ELSE untold \cup Untold
  BY DEF BuildFeatures, Latest
<1>2. Horizon' = Horizon /\ Latest(features)' = Latest(InWindow)
  BY <1>1 DEF Horizon, Latest
<1>3. /\ Horizon \in Int /\ FeatureWindow \in Nat
      /\ Latest(features) \in Int /\ Latest(InWindow) \in Int
  BY LatestTyped
<1>4. ASSUME NEW u \in Users, schedule[u] # Absent
      PROVE  \/ schedule[u].asOf <= Latest(InWindow)
             \/ Horizon - schedule[u].asOf >= FeatureWindow
  <2>1. schedule[u].asOf \in Nat
    BY <1>4, StoredTyped
  <2>2. CASE Horizon - schedule[u].asOf >= FeatureWindow
    BY <2>2
  <2>3. CASE schedule[u].asOf <= Latest(features)
    <3>1. features # {}
      <4>1. ASSUME features = {} PROVE FALSE
        <5>1. Latest(features) = NoTime
          BY <4>1, FS_EmptySet, LatestIsOne
        <5> QED
          BY <2>1, <2>3, <5>1 DEF NoTime
      <4> QED
        BY <4>1
    <3>2. PICK m \in features : m.at = Latest(features)
      BY <3>1, LatestTyped, LatestIsOne
    <3>3. m \in opens /\ m.at \in Nat
      BY <3>2, LatestTyped DEF TypeOK
    <3>4. CASE m \in InWindow
      <4>1. m.at <= Latest(InWindow)
        BY <3>4, LatestTyped, LatestIsOne
      <4> QED
        BY <1>3, <2>1, <2>3, <3>2, <4>1
    <3>5. CASE m \notin InWindow
      <4>1. ~(Horizon - m.at < FeatureWindow)
        BY <3>3, <3>5 DEF InWindow
      <4> QED
        BY <1>3, <2>1, <2>3, <3>2, <3>3, <4>1
    <3> QED
      BY <3>4, <3>5
  <2> QED
    BY <1>4, <2>2, <2>3 DEF StoredIsOlder
<1>5. StoredIsOlder'
  BY <1>1, <1>2, <1>4 DEF StoredIsOlder
<1>6. CASE Latest(InWindow) > Latest(features)
  <2>1. ASSUME NEW u \in Users, schedule[u] # Absent
        PROVE  schedule[u].asOf < Latest(InWindow)
    <3>1. schedule[u].asOf \in Nat
      BY <2>1, StoredTyped
    <3>2. CASE schedule[u].asOf <= Latest(features)
      BY <1>3, <1>6, <3>1, <3>2
    <3>3. CASE Horizon - schedule[u].asOf >= FeatureWindow
      <4>1. InWindow # {}
        <5>1. ASSUME InWindow = {} PROVE FALSE
          <6>1. Latest(InWindow) = NoTime
            BY <5>1, FS_EmptySet, LatestIsOne
          <6>2. Latest(features) = NoTime \/ Latest(features) \in Nat
            BY LatestTyped, LatestIsOne
          <6> QED
            BY <1>6, <6>1, <6>2 DEF NoTime
        <5> QED
          BY <5>1
      <4>2. PICK o \in InWindow : o.at = Latest(InWindow)
        BY <4>1, LatestTyped, LatestIsOne
      <4>3. Horizon - o.at < FeatureWindow /\ o.at \in Nat
        BY <4>2, LatestTyped DEF InWindow
      <4> QED
        BY <1>3, <3>1, <3>3, <4>2, <4>3
    <3> QED
      BY <2>1, <3>2, <3>3 DEF StoredIsOlder
  <2>2. StoredIsTold'
    BY <1>1, <1>2, <2>1 DEF StoredIsTold
  <2> QED
    BY <1>1, <1>5, <2>2 DEF ServedUnlessUntold
<1>7. CASE ~(Latest(InWindow) > Latest(features))
  <2>1. ASSUME untold' = {}, NEW u \in Users, schedule[u] # Absent
        PROVE  \/ schedule[u].asOf < Latest(InWindow)
               \/ Scored(u)' /\ schedule[u] = ScoreRow(u)'
    <3>1. untold = {} /\ Untold = {}
      BY <1>1, <1>7, <2>1
    <3>2. InWindow = features
      BY <1>7, <3>1, SameFeatures
    <3>3. dim_user_current' = dim_user_current
      BY <1>1, <3>1 DEF Untold
    <3>4. CASE schedule[u].asOf < Latest(features)
      BY <3>2, <3>4
    <3>5. CASE Scored(u) /\ schedule[u] = ScoreRow(u)
      <4> DEFINE c == dim_user_current[u]
      <4>1. c \in Cohorts /\ cohort_window[c] # 0
        <5>1. c \in Cohorts
          BY SendTimeAssumption DEF TypeOK
        <5>2. cohort_window[c] \in Nat /\ cohort_window[c] > 0
          BY <3>5, <5>1 DEF Scored, TypeOK
        <5> QED
          BY <5>1, <5>2
      <4>2. cohort_window[c] = LongestWindow[c]
        BY <3>1, <4>1 DEF Untold
      <4>3. (cohort_window[c])' = cohort_window[c]
        BY <1>1, <3>3, <4>2
      <4>4. UNCHANGED <<features, dim_user_current>>
        BY <1>1, <3>2, <3>3
      <4>5. (Scored(u)' <=> Scored(u)) /\ ScoreRow(u)' = ScoreRow(u)
        BY <4>3, <4>4, SameRow
      <4> QED
        BY <3>5, <4>5
    <3> QED
      BY <2>1, <3>1, <3>4, <3>5 DEF StoredIsTold
  <2>2. StoredIsTold'
    BY <1>1, <1>2, <2>1 DEF StoredIsTold
  <2> QED
    BY <1>1, <1>5, <2>2 DEF ServedUnlessUntold
<1> QED
  BY <1>6, <1>7

LEMMA WriteBackTold ==
    ASSUME ToldInv, AngleAndNorm, WriteBack
    PROVE  StoredIsOlder' /\ StoredIsTold' /\ ServedUnlessUntold'
<1> USE DEF ToldInv
<1>1. /\ UNCHANGED <<opens, prompts, features, cohort_window, dim_user_current, scores, untold>>
      /\ schedule' = [u \in Users |-> IF Replaces(scores[u], schedule[u])
                                      THEN scores[u] ELSE schedule[u]]
      /\ Fresh
  BY DEF WriteBack, Fresh
<1>2. Horizon' = Horizon /\ Latest(features)' = Latest(features) /\ Latest(features) \in Int
  BY <1>1, LatestTyped DEF Horizon, Latest
<1>3. ASSUME NEW u \in Users, scores[u] # Absent
      PROVE  Scored(u) /\ scores[u] = ScoreRow(u) /\ scores[u].asOf = Latest(features)
  <2>1. Scored(u) /\ scores[u] = ScoreRow(u)
    BY <1>1, <1>3 DEF FreshScores
  <2> QED
    BY <2>1 DEF ScoreRow, ComputedAsOf, Latest
<1>4. \A u \in Users : (Scored(u)' <=> Scored(u)) /\ ScoreRow(u)' = ScoreRow(u)
  BY <1>1, SameRows
<1>5. ASSUME NEW u \in Users
      PROVE  \/ schedule'[u] = scores[u] /\ scores[u] # Absent
             \/ /\ schedule'[u] = schedule[u]
                /\ scores[u] # Absent => /\ schedule[u] # Absent
                                         /\ ~(scores[u].asOf > schedule[u].asOf)
  BY <1>1 DEF Replaces
<1>6. StoredIsOlder'
  <2>1. ASSUME NEW u \in Users, schedule'[u] # Absent
        PROVE  \/ schedule'[u].asOf <= Latest(features)
               \/ Horizon - schedule'[u].asOf >= FeatureWindow
    <3>1. CASE schedule'[u] = scores[u] /\ scores[u] # Absent
      BY <1>2, <1>3, <3>1
    <3>2. CASE schedule'[u] = schedule[u]
      BY <2>1, <3>2 DEF StoredIsOlder
    <3> QED
      BY <1>5, <3>1, <3>2
  <2> QED
    BY <1>2, <2>1 DEF StoredIsOlder
<1>7. ASSUME untold = {}, NEW u \in Users, schedule'[u] # Absent
      PROVE  \/ schedule'[u].asOf < Latest(features)
             \/ Scored(u) /\ schedule'[u] = ScoreRow(u)
  <2>1. CASE schedule'[u] = scores[u] /\ scores[u] # Absent
    BY <1>3, <2>1
  <2>2. CASE schedule'[u] = schedule[u]
    BY <1>7, <2>2 DEF StoredIsTold
  <2> QED
    BY <1>5, <2>1, <2>2
<1>8. StoredIsTold'
  BY <1>1, <1>2, <1>4, <1>7 DEF StoredIsTold
<1>9. ServedUnlessUntold'
  <2>1. ASSUME untold = {}, NEW u \in Users, scores[u] # Absent
        PROVE  schedule'[u] = scores[u]
    <3>1. CASE schedule'[u] = schedule[u] /\ schedule[u] # Absent
               /\ ~(scores[u].asOf > schedule[u].asOf)
      <4>1. schedule[u].asOf \in Nat
        BY <3>1, StoredTyped
      <4>2. ~(schedule[u].asOf < Latest(features))
        BY <1>2, <1>3, <2>1, <3>1, <4>1
      <4>3. schedule[u] = ScoreRow(u)
        BY <2>1, <3>1, <4>2 DEF StoredIsTold
      <4> QED
        BY <1>3, <2>1, <3>1, <4>3
    <3> QED
      BY <1>5, <2>1, <3>1
  <2> QED
    BY <1>1, <2>1 DEF ServedUnlessUntold, Current
<1> QED
  BY <1>6, <1>8, <1>9

LEMMA NextTold == ASSUME AngleAndNorm, ToldInv, [Next]_vars PROVE ToldInv'
<1>1. TypeOK' /\ FreshScores'
  BY NextTyped, NextFresh DEF ToldInv
<1>2. CASE LandSome
  BY <1>1, <1>2, LandTold DEF ToldInv
<1>3. CASE BuildFeatures
  BY <1>1, <1>3, BuildTold DEF ToldInv
<1>4. CASE WriteBack
  BY <1>1, <1>4, WriteBackTold DEF ToldInv
<1>5. ASSUME UNCHANGED <<opens, prompts, features, cohort_window, dim_user_current, schedule, untold>>
      PROVE  StoredIsOlder' /\ StoredIsTold'
  <2>1. Horizon' = Horizon /\ Latest(features)' = Latest(features)
    BY <1>5 DEF Horizon, Latest
  <2>2. \A u \in Users : (Scored(u)' <=> Scored(u)) /\ ScoreRow(u)' = ScoreRow(u)
    BY <1>5, SameRows
  <2> QED
    BY <1>5, <2>1, <2>2 DEF ToldInv, StoredIsOlder, StoredIsTold
<1>6. CASE BuildScores
  <2>1. ServedUnlessUntold'
    BY <1>6 DEF BuildScores, ServedUnlessUntold
  <2> QED
    BY <1>1, <1>5, <1>6, <2>1 DEF BuildScores, ToldInv
<1>7. CASE UNCHANGED vars
  <2>1. ServedUnlessUntold'
    BY <1>7 DEF vars, ToldInv, ServedUnlessUntold, Current
  <2> QED
    BY <1>1, <1>5, <1>7, <2>1 DEF vars, ToldInv
<1> QED
  BY <1>2, <1>3, <1>4, <1>6, <1>7 DEF Next

\* The guard of the write-back loses no change that came with a newer open, and
\* none at all as long as no late open, no slide of the feature window, no
\* longer prompt window and no change of the dims is between them.
THEOREM ServedUnlessUntoldHolds == ASSUME AngleAndNorm PROVE Spec => []ServedUnlessUntold
<1>1. Init => ToldInv
  <2>1. Init => StoredIsOlder /\ StoredIsTold /\ ServedUnlessUntold
    BY DEF Init, StoredIsOlder, StoredIsTold, ServedUnlessUntold
  <2> QED
    BY <2>1, InitTyped, InitFresh DEF ToldInv
<1>2. ToldInv /\ [Next]_vars => ToldInv'
  BY NextTold
<1>3. ToldInv => ServedUnlessUntold
  BY DEF ToldInv
<1> QED
  BY <1>1, <1>2, <1>3, PTL DEF Spec

-----------------------------------------------------------------------------
(* The simulation's arms *)

LEMMA MaxOfPair ==
    ASSUME NEW a \in Int, NEW b \in Int
    PROVE  Max({a, b}) = IF a >= b THEN a ELSE b
<1>1. IsFiniteSet({a, b})
  <2>1. {a, b} = {a} \cup {b}
    OBVIOUS
  <2>2. IsFiniteSet({a})
    BY FS_Singleton
  <2>3. IsFiniteSet({a} \cup {b})
    BY <2>2, FS_AddElement
  <2> QED
    BY <2>1, <2>3
<1>2. {a, b} \in SUBSET Int /\ {a, b} # {}
  OBVIOUS
<1>3. Max({a, b}) \in {a, b} /\ \A y \in {a, b} : y <= Max({a, b})
  BY <1>1, <1>2, MaxOfFinite
<1> QED
  BY <1>3

LEMMA MinOfPair ==
    ASSUME NEW a \in Int, NEW b \in Int
    PROVE  Min({a, b}) = IF a <= b THEN a ELSE b
<1>1. \E x \in {a, b} : \A y \in {a, b} : x <= y
  OBVIOUS
<1>2. Min({a, b}) \in {a, b} /\ \A y \in {a, b} : Min({a, b}) <= y
  BY <1>1 DEF Min
<1> QED
  BY <1>2

\* The length of one of the ways from the centre to a time of day, which go
\* round the day j times more.
Way(at, centre, j) == Max({at - centre + j * Day, centre - at - j * Day})

\* The circular distance is the shortest of the ways.
LEMMA DistanceIsShortest ==
    ASSUME NEW at \in 0..(Day - 1), NEW centre \in 0..(Day - 1)
    PROVE  /\ CircularDistance(at, centre) \in 0..(Day \div 2)
           /\ \A j \in -1..1 : Way(at, centre, j) \in Int
           /\ \A j \in -1..1 : CircularDistance(at, centre) <= Way(at, centre, j)
           /\ \E j \in -1..1 : CircularDistance(at, centre) = Way(at, centre, j)
<1> DEFINE d == (at - centre) % 2880
<1>1. at \in Int /\ centre \in Int /\ 0 <= at /\ at < 2880 /\ 0 <= centre /\ centre < 2880
  BY DEF Day
<1>2. d = IF at >= centre THEN at - centre ELSE at - centre + 2880
  BY <1>1, SMT
<1>3. d \in Int /\ 0 <= d /\ d < 2880
  BY <1>1, <1>2
<1>4. CircularDistance(at, centre) = IF d <= 2880 - d THEN d ELSE 2880 - d
  <2>1. CircularDistance(at, centre) = Min({d, 2880 - d})
    BY DEF CircularDistance, Day
  <2>2. 2880 - d \in Int
    BY <1>3
  <2> HIDE DEF d
  <2> QED
    BY <1>3, <2>1, <2>2, MinOfPair
<1>5. ASSUME NEW j \in -1..1
      PROVE  Way(at, centre, j) = IF at - centre + j * 2880 >= 0
                                  THEN at - centre + j * 2880 ELSE centre - at - j * 2880
  <2>1. at - centre + j * 2880 \in Int /\ centre - at - j * 2880 \in Int
    BY <1>1
  <2>2. Max({at - centre + j * 2880, centre - at - j * 2880}) =
            IF at - centre + j * 2880 >= centre - at - j * 2880
            THEN at - centre + j * 2880 ELSE centre - at - j * 2880
    BY <2>1, MaxOfPair
  <2> QED
    BY <1>1, <2>1, <2>2 DEF Way, Day
<1> HIDE DEF d
<1>6. CircularDistance(at, centre) \in 0..1440
  BY <1>3, <1>4
<1>7. \A j \in -1..1 : Way(at, centre, j) \in Int
  BY <1>1, <1>5
<1>8. ASSUME NEW j \in -1..1 PROVE CircularDistance(at, centre) <= Way(at, centre, j)
  BY <1>1, <1>2, <1>3, <1>4, <1>5
<1>9. \E j \in -1..1 : CircularDistance(at, centre) = Way(at, centre, j)
  <2>1. /\ Way(at, centre, 0) = IF at >= centre THEN at - centre ELSE centre - at
        /\ Way(at, centre, 1) = at - centre + 2880
        /\ Way(at, centre, -1) = centre - at + 2880
    BY <1>1, <1>5
  <2> QED
    BY <1>1, <1>2, <1>3, <1>4, <2>1
<1> QED
  BY <1>6, <1>7, <1>8, <1>9 DEF Day

HalfDay == Day \div 2

\* The chance falls with the distance.
LEMMA ChanceFalls ==
    ASSUME NEW n \in 0..HalfDay, NEW f \in 0..HalfDay, n <= f
    PROVE  Chance(n) \in 0..100 /\ Chance(f) \in 0..100 /\ Chance(f) <= Chance(n)
BY EvaluationAssumption DEF HalfDay

LEMMA NearerIsLikelier ==
    ASSUME NEW near \in 0..(Day - 1), NEW far \in 0..(Day - 1), NEW u \in Users,
           AsNear(near, far, Latent[u].centre)
    PROVE  /\ OpenProbability(near, Latent[u]) \in 0..100
           /\ OpenProbability(far, Latent[u]) \in 0..100
           /\ OpenProbability(far, Latent[u]) <= OpenProbability(near, Latent[u])
<1> DEFINE centre == Latent[u].centre
           half == Latent[u].width \div 2
           Gap(at) == CircularDistance(at, centre)
           Outside(at) == Max({0, Gap(at) - half})
<1>1. centre \in 0..(Day - 1) /\ half \in Nat
  <2>1. Latent[u] \in [centre : 0..(Day - 1), width : 0..Day, sentAt : 0..(Day - 1)]
    BY EvaluationAssumption
  <2>2. Latent[u].width \in Nat
    BY <2>1
  <2>3. half \in Nat
    BY <2>2
  <2> QED
    BY <2>1, <2>3
<1> HIDE DEF half
<1>2. Gap(near) <= Gap(far)
  <2>1. PICK k \in -1..1 : CircularDistance(far, centre) = Way(far, centre, k)
    BY <1>1, DistanceIsShortest
  <2>2. PICK j \in -1..1 : Way(near, centre, j) <= Way(far, centre, k)
    BY DEF AsNear, Way
  <2>3. CircularDistance(near, centre) <= Way(near, centre, j)
    BY <1>1, DistanceIsShortest
  <2>4. /\ CircularDistance(near, centre) \in Int /\ Way(near, centre, j) \in Int
        /\ Way(far, centre, k) \in Int
    BY <1>1, DistanceIsShortest
  <2> HIDE DEF centre
  <2> QED
    BY <2>1, <2>2, <2>3, <2>4
<1>3. Gap(near) \in 0..HalfDay /\ Gap(far) \in 0..HalfDay
  BY <1>1, DistanceIsShortest DEF HalfDay
<1>4. HalfDay \in Int
  BY DEF HalfDay, Day
<1>5. /\ OpenProbability(near, Latent[u]) = Chance(Outside(near))
      /\ OpenProbability(far, Latent[u]) = Chance(Outside(far))
  BY DEF OpenProbability, half, centre
<1> HIDE DEF centre, Gap
<1>6. ASSUME NEW at, Gap(at) \in Int
      PROVE  Outside(at) = IF Gap(at) > half THEN Gap(at) - half ELSE 0
  <2> DEFINE gap == Gap(at) - half
  <2>1. gap \in Int
    BY <1>1, <1>6
  <2>2. Max({0, gap}) = IF 0 >= gap THEN 0 ELSE gap
    <3> HIDE DEF gap
    <3> QED
      BY <2>1, MaxOfPair
  <2> QED
    BY <1>1, <1>6, <2>2
<1> HIDE DEF Outside
<1>7. Outside(near) = IF Gap(near) > half THEN Gap(near) - half ELSE 0
  BY <1>3, <1>4, <1>6
<1>8. Outside(far) = IF Gap(far) > half THEN Gap(far) - half ELSE 0
  BY <1>3, <1>4, <1>6
<1>9. Outside(near) \in 0..HalfDay /\ Outside(far) \in 0..HalfDay /\ Outside(near) <= Outside(far)
  BY <1>1, <1>2, <1>3, <1>4, <1>7, <1>8
<1> QED
  BY <1>5, <1>9, ChanceFalls

\* Every arm sends at a tick of the day.
LEMMA HourInDay ==
    ASSUME TypeOK, ServedInBand, NEW u \in Built, NEW arm \in Arms
    PROVE  HourOf(arm, u) \in 0..(Day - 1)
<1>1. u \in Users /\ scores[u] \in Row /\ InBand(scores[u])
  BY DEF Built, TypeOK, ServedInBand
<1>2. CASE arm = "baseline"
  <2>1. Latent[u] \in [centre : 0..(Day - 1), width : 0..Day, sentAt : 0..(Day - 1)]
    BY <1>1, EvaluationAssumption
  <2> QED
    BY <1>2, <2>1 DEF HourOf
<1>3. CASE arm = "cohort"
  <2>1. scores[u].cohortHour \in 0..23
    BY <1>1 DEF Row, Hours
  <2> QED
    BY <1>3, <2>1 DEF HourOf, HourTicks, Day
<1>4. CASE arm = "recommended"
  <2>1. scores[u].hour \in 0..23 /\ scores[u].minute \in 0..59
    BY <1>1 DEF InBand
  <2> DEFINE h == scores[u].hour
             m == scores[u].minute
  <2>2. HourOf(arm, u) = 2 * (60 * h + m)
    BY <1>4 DEF HourOf, ServedAt
  <2>3. h \in 0..23 /\ m \in 0..59
    BY <2>1
  <2> HIDE DEF h, m
  <2>4. 2 * (60 * h + m) \in 0..2879
    BY <2>3, SMT
  <2> QED
    BY <2>2, <2>4 DEF Day
<1>5. arm = "baseline" \/ arm = "cohort" \/ arm = "recommended"
  BY DEF Arms
<1> QED
  BY <1>2, <1>3, <1>4, <1>5

\* For any latent centres and widths, rates and chances that fall with the
\* distance: the arms of the simulation lose the same prompts to delivery and to
\* the clocks, and the one that sends nearer only answers more.
THEOREM ArmsShareTheirLuckHolds == ASSUME AngleAndNorm PROVE Spec => []ArmsShareTheirLuck
<1>1. TypeOK /\ ServedInBand => ArmsShareTheirLuck
  <2> SUFFICES ASSUME TypeOK, ServedInBand, NEW u \in Built, NEW near \in Arms, NEW far \in Arms,
                      AsNear(HourOf(near, u), HourOf(far, u), Latent[u].centre),
                      NEW draw \in Uniforms
               PROVE  \/ CauseUnder(near, u, draw) = CauseUnder(far, u, draw)
                      \/ /\ CauseUnder(far, u, draw) = "timing_gap"
                         /\ CauseUnder(near, u, draw) \in {"on_time", "upload_fault"}
    BY DEF ArmsShareTheirLuck
  <2> DEFINE p == OpenProbability(HourOf(near, u), Latent[u])
             q == OpenProbability(HourOf(far, u), Latent[u])
  <2>1. u \in Users
    BY DEF Built
  <2>2. HourOf(near, u) \in 0..(Day - 1) /\ HourOf(far, u) \in 0..(Day - 1)
    BY HourInDay
  <2>3. p \in 0..100 /\ q \in 0..100 /\ q <= p
    BY <2>1, <2>2, NearerIsLikelier
  <2>4. draw[3] \in Int
    <3>1. draw \in [1..4 -> Draws] /\ 3 \in 1..4
      BY DEF Uniforms
    <3>2. draw[3] \in Draws
      BY <3>1
    <3>3. draw[3] \in 0..99
      BY <3>2, EvaluationAssumption
    <3> QED
      BY <3>3
  <2>5. /\ CauseUnder(near, u, draw) =
              IF draw[1] < DeliveryFault THEN "delivery_fault"
              ELSE IF draw[2] < ClockSkew THEN "unattributed"
              ELSE IF draw[3] >= p THEN "timing_gap"
              ELSE IF draw[4] < UploadFault THEN "upload_fault"
              ELSE "on_time"
        /\ CauseUnder(far, u, draw) =
              IF draw[1] < DeliveryFault THEN "delivery_fault"
              ELSE IF draw[2] < ClockSkew THEN "unattributed"
              ELSE IF draw[3] >= q THEN "timing_gap"
              ELSE IF draw[4] < UploadFault THEN "upload_fault"
              ELSE "on_time"
    BY DEF CauseUnder, CauseOf
  <2> HIDE DEF p, q
  <2>6. draw[3] >= p => draw[3] >= q
    BY <2>3, <2>4
  <2> QED
    BY <2>5, <2>6, Zenon
<1>2. Init => TypeOK /\ BandInv
  BY InitTyped, InitBand
<1>3. TypeOK /\ BandInv /\ [Next]_vars => (TypeOK /\ BandInv)'
  BY NextTyped, NextBand
<1>4. BandInv => ServedInBand
  BY DEF BandInv
<1> QED
  BY <1>1, <1>2, <1>3, <1>4, PTL DEF Spec

-----------------------------------------------------------------------------
(* The distances from the truth *)

LEMMA DiffBelowHalf ==
    ASSUME NEW a \in 0..(Day - 1), NEW b \in 0..(Day - 1)
    PROVE  CircularAbsDiff(a, b) \in Int /\ CircularAbsDiff(a, b) <= Day \div 2
<1> DEFINE d == a - b
           e == d - 2880 * ((d + 1440) \div 2880)
<1>1. d \in Int /\ -2880 < d /\ d < 2880
  BY DEF Day
<1>2. e \in Int /\ -1440 <= e /\ e < 1440
  BY <1>1, SMT
<1>3. CircularAbsDiff(a, b) = Max({e, -e})
  BY DEF CircularAbsDiff, Day
<1> HIDE DEF e
<1>4. -e \in Int
  BY <1>2
<1>5. Max({e, -e}) = IF e >= -e THEN e ELSE -e
  BY <1>2, <1>4, MaxOfPair
<1> QED
  BY <1>2, <1>3, <1>5 DEF Day

\* A model that leaves users of the truth without a row is never nearer to it
\* on the mean, nor does it cover a user it did not cover before.
THEOREM LosingRowsNeverHelpsHolds == ASSUME AngleAndNorm PROVE Spec => []LosingRowsNeverHelps
<1>1. TypeOK => LosingRowsNeverHelps
  <2> SUFFICES ASSUME TypeOK, NEW fewer \in SUBSET Built
               PROVE  /\ Distance(Built) <= Distance(fewer)
                      /\ CoveredUsers(fewer) \subseteq CoveredUsers(Built)
    BY DEF LosingRowsNeverHelps
  <2> DEFINE Of(built) ==
                 [u \in Users |-> IF u \in built
                                  THEN CircularAbsDiff(scores[u].centre, Latent[u].centre)
                                  ELSE Day \div 2]
  <2>1. ASSUME NEW built PROVE Distance(built) = SumFunctionOnSet(Of(built), Users)
    <3>1. DOMAIN Of(built) = Users
      OBVIOUS
    <3> QED
      BY <3>1 DEF Distance, SumFunction
  <2>2. ASSUME NEW u \in Users
        PROVE  Of(Built)[u] \in Int /\ Of(fewer)[u] \in Int /\ Of(Built)[u] <= Of(fewer)[u]
    <3>1. ASSUME u \in Built
          PROVE  /\ CircularAbsDiff(scores[u].centre, Latent[u].centre) \in Int
                 /\ CircularAbsDiff(scores[u].centre, Latent[u].centre) <= Day \div 2
      <4>1. scores[u].centre \in 0..(Day - 1)
        BY <3>1 DEF Built, TypeOK, Row
      <4>2. Latent[u].centre \in 0..(Day - 1)
        BY EvaluationAssumption
      <4> QED
        BY <4>1, <4>2, DiffBelowHalf
    <3>2. Day \div 2 = 1440
      BY DEF Day
    <3> QED
      BY <3>1, <3>2
  <2>3. IsFiniteSet(Users)
    BY EvaluationAssumption
  <2> HIDE DEF Of
  <2>4. SumFunctionOnSet(Of(Built), Users) <= SumFunctionOnSet(Of(fewer), Users)
    BY <2>2, <2>3, SumMonotone
  <2>5. CoveredUsers(fewer) \subseteq CoveredUsers(Built)
    BY DEF CoveredUsers
  <2> QED
    BY <2>1, <2>4, <2>5
<1>2. Init => TypeOK
  BY InitTyped
<1>3. TypeOK /\ [Next]_vars => TypeOK'
  BY NextTyped
<1> QED
  BY <1>1, <1>2, <1>3, PTL DEF Spec
=============================================================================

------------------------------- MODULE SendTime -------------------------------
(***************************************************************************)
(* The send-time scores: features_user_hour, scores_send_time, and how     *)
(* their computed_as_of carries a change of the scores into send_schedule. *)
(*                                                                         *)
(* The chain is land, build, write back.  Events land in any order; a      *)
(* build first replaces the tables that scores_send_time reads, then       *)
(* scores_send_time; it may stop between the two, and the next landing     *)
(* then starts a new chain.                                                *)
(*                                                                         *)
(* Times of day are ticks of half a minute, so that a centre can fall      *)
(* between two minutes and be rounded.  The vectors of the hours, atan2    *)
(* and the length of a vector are constants: the posterior is kept as      *)
(* integers by multiplying it by the number of the cohort's opens, which   *)
(* leaves its angle as it is.                                              *)
(***************************************************************************)
EXTENDS Integers, FiniteSets, FiniteSetsExt, Functions

CONSTANTS
    Users, Cohorts,
    OpenEvents,    \* app_opened: [user, at (hours), hour (local), id]
    PromptEvents,  \* prompt_sent: [cohort, at (hours), window (minutes)]
    Dims,          \* the open dim_user rows a landing may bring: [Users -> Cohorts]
    Cos, Sin,      \* [Hours -> Int], of the centre of the hour's bin
    Angle(_, _),   \* atan2, in ticks: half a day either way
    Norm(_, _),    \* the length of a vector
    FeatureWindow, \* feature_window_days, in hours
    PseudoCount,   \* shrinkage_pseudo_count
    MaxShift,      \* max_user_shift_min
    Absent         \* no row

Hours == 0..23
Day == 2880        \* ticks
HourTicks == 120
NoTime == -1       \* the as-of of an empty table

Row == [cohort : Cohorts, hour : Int, minute : Int, cohortHour : Hours,
        centre : 0..(Day - 1), confidence : Int, asOf : Nat]

ASSUME SendTimeAssumption ==
    /\ OpenEvents \subseteq [user : Users, at : Nat, hour : Hours, id : Nat]
    /\ PromptEvents \subseteq [cohort : Cohorts, at : Nat, window : Nat \ {0}]
    /\ IsFiniteSet(OpenEvents) /\ IsFiniteSet(PromptEvents)
    /\ Dims \subseteq [Users -> Cohorts] /\ Dims # {}
    /\ Cos \in [Hours -> Int] /\ Sin \in [Hours -> Int]
    /\ FeatureWindow \in Nat /\ PseudoCount \in Nat \ {0} /\ MaxShift \in Nat
    /\ Absent \notin Row

VARIABLES
    opens, prompts, dim_user,    \* what has landed
    features, cohort_window, dim_user_current,  \* the tables a build makes of it
    scores,                      \* scores_send_time: [Users -> Row \cup {Absent}]
    schedule,                    \* send_schedule, its columns of scores_send_time
    stage,                       \* how far the chain has come
    untold                       \* history: why scores may have changed at the same as-of

vars == <<opens, prompts, dim_user, features, cohort_window, dim_user_current,
          scores, schedule, stage, untold>>

-----------------------------------------------------------------------------
(* features_user_hour *)

LatestOf(times) == IF times = {} THEN NoTime ELSE Max(times)

Horizon == LatestOf({e.at : e \in opens \cup prompts})

InWindow == {o \in opens : Horizon - o.at < FeatureWindow}

(* stg_prompts, as far as the scores read it: the longest window of a cohort *)
LongestWindow ==
    [c \in Cohorts |-> LET windows == {p.window : p \in {q \in prompts : q.cohort = c}}
                       IN  IF windows = {} THEN 0 ELSE Max(windows)]

-----------------------------------------------------------------------------
(* The cohort moment *)

Feats(c) == {o \in features : dim_user_current[o.user] = c}

WindowBins(c) == (cohort_window[c] + 59) \div 60

\* SQL's mod: the sign of the dividend.
SqlMod(a, n) == IF a >= 0 THEN a % n ELSE -((-a) % n)

InBinsUnwrapped(hour, start, bins) == SqlMod(hour - start, 24) < bins
InBins(hour, start, bins) == SqlMod(hour - start + 24, 24) < bins

Mass(c, start) == Cardinality({o \in Feats(c) : InBins(o.hour, start, WindowBins(c))})

OpenedHours(c) == {o.hour : o \in Feats(c)}
Heaviest(c) == {h \in OpenedHours(c) : \A g \in OpenedHours(c) : Mass(c, g) <= Mass(c, h)}
Moment(c) == Min(Heaviest(c))

-----------------------------------------------------------------------------
(* The posterior *)

SumOf(table, rows) == SumFunction([o \in rows |-> table[o.hour]])

OpensOf(u) == {o \in features : o.user = u}

\* The user's vector plus PseudoCount times the cohort's mean vector (which is
\* rbar_c * (cos mu_c, sin mu_c)), the whole times the cohort's opens.
Posterior(u, c, table) ==
    Cardinality(Feats(c)) * SumOf(table, OpensOf(u)) + PseudoCount * SumOf(table, Feats(c))

\* To the day: negative angles are those of the afternoon and evening.
Wrapped(angle) == angle - Day * (angle \div Day)
Centre(u, c) == Wrapped(Angle(Posterior(u, c, Cos), Posterior(u, c, Sin)))

\* |combined| / (n + k), in millionths.
Confidence(u, c) ==
    (1000000 * Norm(Posterior(u, c, Cos), Posterior(u, c, Sin)))
        \div (Cardinality(Feats(c)) * (Cardinality(OpensOf(u)) + PseudoCount))

-----------------------------------------------------------------------------
(* The served minute *)

Shift(centre, moment) ==
    centre - HourTicks * moment
        - Day * ((centre - HourTicks * moment + Day \div 2) \div Day)

Clamped(centre, moment) ==
    IF Shift(centre, moment) > 2 * MaxShift THEN HourTicks * moment + 2 * MaxShift
    ELSE IF Shift(centre, moment) < -(2 * MaxShift) THEN HourTicks * moment - 2 * MaxShift
    ELSE HourTicks * moment + Shift(centre, moment)

\* SQL's round to a whole minute: halves away from zero.
RoundToMinute(ticks) == IF ticks >= 0 THEN (ticks + 1) \div 2 ELSE -((1 - ticks) \div 2)

MinuteOfDayUnwrapped(centre, moment) == SqlMod(RoundToMinute(Clamped(centre, moment)), 1440)
MinuteOfDay(centre, moment) == SqlMod(RoundToMinute(Clamped(centre, moment)) + 1440, 1440)

\* Rows only for the users of a cohort with an open and with a prompt.
ScoredIfOpened(u) ==
    LET c == dim_user_current[u] IN OpensOf(u) # {} /\ cohort_window[c] > 0
Scored(u) ==
    LET c == dim_user_current[u] IN Feats(c) # {} /\ cohort_window[c] > 0

OwnAsOf(u) == LatestOf({o.at : o \in OpensOf(u)})
ComputedAsOf(u) == LatestOf({o.at : o \in features})

ScoreRow(u) ==
    LET c == dim_user_current[u]
        minute == MinuteOfDay(Centre(u, c), Moment(c))
    IN  [cohort |-> c, hour |-> minute \div 60, minute |-> minute - 60 * (minute \div 60),
         cohortHour |-> Moment(c), centre |-> Centre(u, c),
         confidence |-> Confidence(u, c), asOf |-> ComputedAsOf(u)]

-----------------------------------------------------------------------------
Init ==
    /\ opens = {} /\ prompts = {} /\ dim_user \in Dims
    /\ features = {}
    /\ cohort_window = [c \in Cohorts |-> 0]
    /\ dim_user_current = dim_user
    /\ scores = [u \in Users |-> Absent]
    /\ schedule = [u \in Users |-> Absent]
    /\ stage = "landed"
    /\ untold = {}

LandReplacing(newOpens, newPrompts, dims) ==
    /\ opens' = newOpens
    /\ prompts' = prompts \cup newPrompts
    /\ dim_user' = dims
    /\ stage' = "landed"
    /\ UNCHANGED <<features, cohort_window, dim_user_current, scores, schedule, untold>>
\* An upload file lands, with the dims of its run.
Land(newOpens, newPrompts, dims) ==
    /\ opens' = opens \cup newOpens
    /\ prompts' = prompts \cup newPrompts
    /\ dim_user' = dims
    /\ stage' = "landed"
    /\ UNCHANGED <<features, cohort_window, dim_user_current, scores, schedule, untold>>

\* Why the scores may change while computed_as_of stays.
Untold ==
    {why \in {"late", "slid", "window", "moved"} :
        \/ why = "late" /\ \E o \in InWindow \ features :
                               \E p \in features : o.at <= p.at
        \/ why = "slid" /\ \E o \in features : o \notin InWindow
        \/ why = "window" /\ \E c \in Cohorts :
                                 cohort_window[c] # 0 /\ cohort_window[c] # LongestWindow[c]
        \/ why = "moved" /\ dim_user # dim_user_current}

BuildFeatures ==
    /\ stage = "landed"
    /\ features' = InWindow
    /\ cohort_window' = LongestWindow
    /\ dim_user_current' = dim_user
    /\ stage' = "featured"
    /\ untold' = IF LatestOf({o.at : o \in InWindow}) > LatestOf({o.at : o \in features})
                 THEN {} ELSE untold \cup Untold
    /\ UNCHANGED <<opens, prompts, dim_user, scores, schedule>>

BuildScores ==
    /\ stage = "featured"
    /\ scores' = [u \in Users |-> IF Scored(u) THEN ScoreRow(u) ELSE Absent]
    /\ stage' = "scored"
    /\ UNCHANGED <<opens, prompts, dim_user, features, cohort_window,
                   dim_user_current, schedule, untold>>

\* The write-back of one model_version: see WriteBack for its steps.
Replaces(row, stored) == row # Absent /\ (stored = Absent \/ row.asOf > stored.asOf)

WriteBack ==
    /\ stage = "scored"
    /\ schedule' = [u \in Users |-> IF Replaces(scores[u], schedule[u])
                                    THEN scores[u] ELSE schedule[u]]
    /\ stage' = "served"
    /\ UNCHANGED <<opens, prompts, dim_user, features, cohort_window,
                   dim_user_current, scores, untold>>

LandSome ==
    \E newOpens \in SUBSET (OpenEvents \ opens) :
    \E newPrompts \in SUBSET (PromptEvents \ prompts) :
    \E dims \in Dims :
        /\ <<newOpens, newPrompts, dims>> # <<{}, {}, dim_user>>
        /\ Land(newOpens, newPrompts, dims)

Next == LandSome \/ BuildFeatures \/ BuildScores \/ WriteBack

Spec == Init /\ [][Next]_vars

-----------------------------------------------------------------------------
(* Properties *)

TypeOK ==
    /\ features \subseteq opens /\ opens \subseteq OpenEvents
    /\ prompts \subseteq PromptEvents
    /\ dim_user \in Dims /\ dim_user_current \in Dims
    /\ cohort_window \in [Cohorts -> Nat]
    /\ scores \in [Users -> Row \cup {Absent}]
    /\ schedule \in [Users -> Row \cup {Absent}]
    /\ stage \in {"landed", "featured", "scored", "served"}
    /\ untold \subseteq {"late", "slid", "window", "moved"}

Fresh == stage \in {"scored", "served"}

\* The minutes between two minutes of the day, the short way round.
Apart(a, b) == LET d == (a - b) % 1440 IN IF d <= 720 THEN d ELSE 1440 - d

\* What is served is a minute of the day within max_user_shift_min of the
\* cohort moment on the circle, also across midnight and after rounding
\* (the clamped and minutes CTEs of scores_send_time).
InBand(row) ==
    /\ row.hour \in 0..23 /\ row.minute \in 0..59
    /\ Apart(60 * row.hour + row.minute, 60 * row.cohortHour) <= MaxShift
ServedInBand == \A u \in Users : scores[u] # Absent => InBand(scores[u])

\* No window of the cohort's length, started at ANY hour of the day and not
\* only at an opened one, holds more of the cohort's opens than the one at the
\* cohort moment, which is the first of the opened hours that are as good
\* (cohort_window, window_mass and cohort_moment of scores_send_time).  An hour
\* counts if its bin begins within the window.
Covered(c, start) ==
    LET hours == {(start + i) % 24 : i \in {j \in 0..23 : 60 * j < cohort_window[c]}}
    IN  Cardinality({o \in Feats(c) : o.hour \in hours})
MomentIsBest ==
    Fresh => \A u \in Users : scores[u] # Absent =>
        LET c == scores[u].cohort
            best == scores[u].cohortHour
        IN  /\ best \in OpenedHours(c)
            /\ \A h \in Hours : Covered(c, h) <= Covered(c, best)
            /\ \A h \in OpenedHours(c) : Covered(c, h) = Covered(c, best) => best <= h

\* A user of whom nothing is known gets a row as soon as the cohort has an
\* open and a prompt, and its centre and confidence are those of the cohort:
\* shrinkage with no opens is the prior itself (the posterior CTE's left join
\* and coalesce).
NewUserGetsThePrior ==
    Fresh => \A u \in Users :
        LET c == dim_user_current[u]
            size == Cardinality(Feats(c))
        IN  (OpensOf(u) = {} /\ size > 0 /\ cohort_window[c] > 0) =>
                /\ scores[u] # Absent
                /\ scores[u].centre = Wrapped(Angle(SumOf(Cos, Feats(c)), SumOf(Sin, Feats(c))))
                /\ scores[u].confidence =
                       (1000000 * Norm(SumOf(Cos, Feats(c)), SumOf(Sin, Feats(c)))) \div size

Current == \A u \in Users : scores[u] # Absent => schedule[u] = scores[u]

\* A changed score reaches the serving table with the next write-back, unless
\* no newer open came with it and one of four things happened: a late open,
\* the feature window moved on, a longer prompt window, or the dims changed
\* (computed_as_of against the guard of the write-back).
ServedUnlessUntold == stage = "served" /\ untold = {} => Current

\* tests/test_backfill.py: whenever a landing changes the served scores,
\* computed_as_of strictly increases.  Here only for landings without late
\* opens, changed windows or dims: those of a backfill of growing supersets.
ForwardLandingsAreServed == stage = "served" /\ untold \subseteq {"slid"} => Current
=============================================================================

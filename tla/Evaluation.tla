------------------------------ MODULE Evaluation ------------------------------
(***************************************************************************)
(* What eval/ says of the built scores: the counterfactual simulation of   *)
(* three schedules, and the distances of the served times from the latent  *)
(* centres the generator drew.                                             *)
(*                                                                         *)
(* Python's uniforms and rates are per cents here; the probability that a  *)
(* prompt is answered, 0.9 * exp(-outside) for an hour-long window, is a   *)
(* constant that falls with the ticks outside of the reachable window.     *)
(***************************************************************************)
EXTENDS SendTime

CONSTANTS
    Latent,        \* users.jsonl: [Users -> [centre, width, sentAt (ticks)]]
    Draws,         \* the values of a uniform, in per cent
    DeliveryFault, ClockSkew, UploadFault,  \* the rates of the profile
    Chance(_)      \* [ticks outside the reachable window -> per cent]

ASSUME EvaluationAssumption ==
    /\ Latent \in [Users -> [centre : 0..(Day - 1), width : 0..Day, sentAt : 0..(Day - 1)]]
    /\ IsFiniteSet(Users) /\ Draws \subseteq 0..99
    /\ \A outside \in 0..(Day \div 2) : Chance(outside) \in 0..100
    /\ \A near, far \in 0..(Day \div 2) : near <= far => Chance(far) <= Chance(near)

-----------------------------------------------------------------------------
(* generator/response.py *)

StraightDistance(a, b) == Max({a - b, b - a})
CircularDistance(a, b) == LET d == (a - b) % Day IN Min({d, Day - d})

OpenProbability(at, user) ==
    Chance(Max({0, CircularDistance(at, user.centre) - user.width \div 2}))

-----------------------------------------------------------------------------
(* eval/simulate.py *)

Arms == {"baseline", "cohort", "recommended"}

\* built_schedule: the served pair, never the unclamped centre.
ServedAt(row) == 2 * (60 * row.hour + row.minute)
HourOf(arm, u) ==
    CASE arm = "baseline" -> Latent[u].sentAt
      [] arm = "cohort" -> HourTicks * scores[u].cohortHour
      [] arm = "recommended" -> ServedAt(scores[u])

\* The four uniforms of a prompt, drawn once for every arm.
Uniforms == [1..4 -> Draws]

CauseRespondingFirst(draw, at, user) ==
    IF draw[1] < DeliveryFault THEN "delivery_fault"
    ELSE IF draw[3] >= OpenProbability(at, user) THEN "timing_gap"
    ELSE IF draw[2] < ClockSkew THEN "unattributed"
    ELSE IF draw[4] < UploadFault THEN "upload_fault"
    ELSE "on_time"
CauseOf(draw, at, user) ==
    IF draw[1] < DeliveryFault THEN "delivery_fault"
    ELSE IF draw[2] < ClockSkew THEN "unattributed"
    ELSE IF draw[3] >= OpenProbability(at, user) THEN "timing_gap"
    ELSE IF draw[4] < UploadFault THEN "upload_fault"
    ELSE "on_time"

CauseUnder(arm, u, draw) == CauseOf(draw, HourOf(arm, u), Latent[u])

-----------------------------------------------------------------------------
(* eval/score.py, over the users whose row `built` keeps *)

CircularAbsDiff(a, b) ==
    LET d == a - b IN LET e == d - Day * ((d + Day \div 2) \div Day) IN Max({e, -e})

\* The sum of the distances: the mean is it over the users of the truth.
DistanceOfBuilt(built) ==
    SumFunction([u \in built |-> CircularAbsDiff(scores[u].centre, Latent[u].centre)])
Distance(built) ==
    SumFunction([u \in Users |-> IF u \in built
                                 THEN CircularAbsDiff(scores[u].centre, Latent[u].centre)
                                 ELSE Day \div 2])

\* Twice the distance, against the width: width / 2 need not be a whole tick.
CoveredUsers(built) ==
    {u \in Users : /\ u \in built
                   /\ 2 * CircularAbsDiff(ServedAt(scores[u]), Latent[u].centre)
                          <= Latent[u].width}

-----------------------------------------------------------------------------
(* Properties *)

Built == {u \in Users : scores[u] # Absent}

\* The arms share their luck: whatever is drawn, a prompt that one schedule
\* loses to delivery or to a skewed clock is lost so under each of them, and
\* the arm that sends nearer to the user's centre does no worse: it differs
\* only where the farther arm has a timing gap (cause_of in eval/simulate.py
\* with response.py's circular distance).  Nearer: whichever way round the day
\* the farther one takes to the centre, a way of the nearer one is no longer.
AsNear(near, far, centre) ==
    \A k \in -1..1 : \E j \in -1..1 :
        Max({near - centre + j * Day, centre - near - j * Day})
            <= Max({far - centre + k * Day, centre - far - k * Day})
ArmsShareTheirLuck ==
    stage = "scored" => \A u \in Built, near, far \in Arms :
        AsNear(HourOf(near, u), HourOf(far, u), Latent[u].centre) =>
        \A draw \in Uniforms :
            \/ CauseUnder(near, u, draw) = CauseUnder(far, u, draw)
            \/ /\ CauseUnder(far, u, draw) = "timing_gap"
               /\ CauseUnder(near, u, draw) \in {"on_time", "upload_fault"}

\* A model that loses rows never looks better for it: a user of the truth
\* without a row counts as the worst distance and as not covered
\* (reachable_center_mae and coverage in eval/score.py).
LosingRowsNeverHelps ==
    stage = "scored" => \A fewer \in SUBSET Built :
        /\ Distance(Built) <= Distance(fewer)
        /\ CoveredUsers(fewer) \subseteq CoveredUsers(Built)
=============================================================================

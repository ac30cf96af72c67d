------------------------------ MODULE MCSendTime ------------------------------
(***************************************************************************)
(* Three users in two cohorts, four opens around midnight and at noon, one *)
(* of them a day later than the others, a prompt window of an hour and one *)
(* of an hour and a half, and a user who moves.  The circle is the one of  *)
(* the norm |x| + |y|: the same quadrants and the same symmetries as the   *)
(* round one, and integer vectors; a quarter of the day is 12 half hours.  *)
(***************************************************************************)
EXTENDS Evaluation

CONSTANTS u1, u2, u3, c1, c2

Opening(user, at, hour, id) == [user |-> user, at |-> at, hour |-> hour, id |-> id]
MCOpenEvents ==
    {Opening(u1, 1, 23, 1), Opening(u1, 2, 0, 2), Opening(u2, 2, 12, 3),
     Opening(u1, 27, 23, 4)}
MCPromptEvents ==
    {[cohort |-> c1, at |-> 1, window |-> 60], [cohort |-> c1, at |-> 26, window |-> 90],
     [cohort |-> c2, at |-> 27, window |-> 60]}
MCDims ==
    {[u \in {u1, u2, u3} |-> IF u = u2 /\ moved THEN c2 ELSE c1] : moved \in BOOLEAN}

\* The centre of an hour's bin, in half hours.
Bin(h) == 2 * h + 1
XOf(t) == IF t <= 24 THEN 12 - t ELSE t - 36
MCCos == [h \in 0..23 |-> XOf(Bin(h))]
MCSin == [h \in 0..23 |-> XOf((Bin(h) + 36) % 48)]

Magnitude(x) == IF x < 0 THEN -x ELSE x
MCNorm(x, y) == Magnitude(x) + Magnitude(y)
\* The part of a quarter (720 ticks) that y is of the whole.
Part(y, x) == (720 * y) \div (x + y)
MCAngle(x, y) ==
    CASE x = 0 /\ y = 0 -> 0
      [] x > 0 /\ y >= 0 -> Part(y, x)
      [] x <= 0 /\ y > 0 -> 720 + Part(-x, y)
      [] x < 0 /\ y <= 0 -> Part(-y, -x) - 1440
      [] x >= 0 /\ y < 0 -> Part(x, -y) - 720

MCLatent ==
    [u \in {u1, u2, u3} |->
        CASE u = u1 -> [centre |-> 60, width |-> 240, sentAt |-> 1440]
          [] u = u2 -> [centre |-> 2800, width |-> 121, sentAt |-> 0]
          [] u = u3 -> [centre |-> 1500, width |-> 0, sentAt |-> 2160]]
MCChance(outside) == 90 \div (1 + outside \div 60)
=============================================================================

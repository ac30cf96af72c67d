------------------------------ MODULE MCWriteBack ------------------------------
(***************************************************************************)
(* Two concurrent runs and five things the warehouse may offer to two      *)
(* users: versions 2 and 10, an older and a newer as-of, a tie with other  *)
(* contents, a user who has no candidate yet, a malformed version.         *)
(***************************************************************************)
EXTENDS WriteBack

CONSTANTS u1, u2

MCAsOfs == 1..2
MCServed == {"early", "late"}

Row(version, asOf, served) == [version |-> version, asOf |-> asOf, served |-> served]
Offer(row1, row2) == [u \in Users |-> IF u = u1 THEN row1 ELSE row2]

MCWarehouses ==
    {Offer(Row(2, 1, "early"), Absent),
     Offer(Row(2, 2, "late"), Row(2, 2, "early")),
     Offer(Row(2, 2, "early"), Row(2, 2, "early")),
     Offer(Row(10, 1, "early"), Row(10, 1, "late")),
     Offer(Absent, Row(Malformed, 2, "late"))}
=============================================================================

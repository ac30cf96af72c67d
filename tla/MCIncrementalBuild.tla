-------------------------- MODULE MCIncrementalBuild --------------------------
(***************************************************************************)
(* Seven days of uploads of three prompts and three opens, with uploads at *)
(* most one day late and Lookback = 3, so that a build may catch up on two *)
(* days within reach.  The copies are numbered in upload order; copies 2   *)
(* and 5 are one event, uploaded twice on two days.                        *)
(***************************************************************************)
EXTENDS IncrementalBuild

MCCopies == 1..11
MCIds == {"e1", "e2", "e3", "e4", "e6", "e7", "e8", "e9", "e10", "e11"}
MCPrompts == {"p1", "p2", "p3"}

\*            1     2     3     4     5     6     7     8     9     10     11
MCIdOf ==  <<"e1", "e3", "e2", "e4", "e3", "e6", "e7", "e8", "e9", "e10", "e11">>
MCUploadDay == <<0, 1,    1,    1,    2,    2,    3,    3,    4,    5,     6>>
MCRank == [c \in MCCopies |-> c]

\* e2 and e6, the receipts of p1 and p2, and e9, the first of the two receipts
\* of p3, are uploaded a day late; e3 has a local date ahead of its upload.
MCEventDate ==
    [i \in MCIds |-> CASE i \in {"e1", "e2"} -> 0
                       [] i \in {"e4", "e6"} -> 1
                       [] i = "e3" -> 2
                       [] i \in {"e7", "e8", "e9"} -> 3
                       [] i = "e10" -> 5
                       [] i = "e11" -> 6]
MCClientRank ==
    [i \in MCIds |-> CASE i = "e1" -> 1 [] i = "e2" -> 2 [] i = "e4" -> 3
                       [] i = "e6" -> 4 [] i = "e3" -> 5 [] i = "e7" -> 6
                       [] i = "e9" -> 7 [] i = "e8" -> 8 [] i = "e10" -> 9
                       [] i = "e11" -> 10]
MCPromptOf ==
    [i \in MCIds |-> CASE i \in {"e1", "e2"} -> "p1"
                       [] i \in {"e4", "e6"} -> "p2"
                       [] i \in {"e7", "e8", "e9"} -> "p3"
                       [] OTHER -> NoPrompt]
MCSentEvent ==
    [p \in MCPrompts |-> CASE p = "p1" -> "e1" [] p = "p2" -> "e4" [] p = "p3" -> "e7"]
MCReceipts == {"e2", "e6", "e8", "e9"}
MCThroughs == 0..6
=============================================================================

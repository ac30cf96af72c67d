------------------------------ MODULE MCBackfill ------------------------------
(***************************************************************************)
(* The smallest backfill with the project's own parameters: lookback_days  *)
(* 5 and uploads up to 3 days late (72 h).  A prompt of day 0 has its      *)
(* receipt uploaded on day 3; the landings the documents allow are of days *)
(* 2 and 7, five days apart.  One copy a day: every landing is of whole    *)
(* days.                                                                   *)
(***************************************************************************)
EXTENDS IncrementalBuild

MCCopies == 1..4
MCIds == {"sent", "open2", "receipt", "open7"}
MCIdOf == <<"sent", "open2", "receipt", "open7">>
MCRank == [c \in MCCopies |-> c]
MCUploadDay == <<0, 2, 3, 7>>
MCEventDate ==
    [i \in MCIds |-> CASE i \in {"sent", "receipt"} -> 0
                       [] i = "open2" -> 2
                       [] i = "open7" -> 7]
MCClientRank ==
    [i \in MCIds |-> CASE i = "sent" -> 1 [] i = "receipt" -> 2
                       [] i = "open2" -> 3 [] i = "open7" -> 4]
MCPromptOf == [i \in MCIds |-> IF i \in {"sent", "receipt"} THEN "p" ELSE NoPrompt]
MCSentEvent == [p \in {"p"} |-> "sent"]
=============================================================================

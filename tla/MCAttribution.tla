----------------------------- MODULE MCAttribution -----------------------------
(***************************************************************************)
(* A scaled day on which every bound of the attribution is met exactly: a  *)
(* receipt at the end of the grace, an answer in the last second of the    *)
(* window, a device online again in the first second after it, a clock one *)
(* second further ahead than the bound.                                    *)
(***************************************************************************)
EXTENDS Attribution

MCDeliverIn == {1, 2}
MCOpenIn == {1, 3}
MCCaptureIn == {1}
MCStartIn == {1}
MCCompleteIn == {1}
MCFailIn == {1}
MCRetryIn == {2}
MCReceiveIn == {2}
MCOfflineIn == {0, 3}
MCSyncIn == {0, 1}
MCSkewIn == {0, 5}
=============================================================================

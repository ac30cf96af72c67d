------------------------------ MODULE MCLanding ------------------------------
(***************************************************************************)
(* Five hourly files of three upload dates.  Rows 1 and 4 are two copies   *)
(* of one event; rows 6 and 7, in the last file, conflict.                 *)
(***************************************************************************)
EXTENDS Landing

MCFiles == 1..5
MCDateOf == <<1, 1, 2, 2, 3>>
MCRows == 1..7
MCFileOf == <<1, 2, 2, 3, 4, 5, 5>>
MCIdentity == <<"a", "b", "c", "a2", "d", "e", "e">>
MCPayload == <<"x", "x", "x", "x", "x", "x", "y">>
=============================================================================

------------------------------ MODULE RawEvents ------------------------------
(***************************************************************************)
(* What the models may rely on of raw.events (ARCHITECTURE 2.7): a table   *)
(* that a landing extends to an upload date.  Every date up to it then     *)
(* holds the rows of that date which the export had when the landing       *)
(* looked, each once; the later dates are left alone, no row is lost.      *)
(***************************************************************************)
EXTENDS Integers

CONSTANTS
    Rows,
    UploadDate,   \* [Rows -> Int], the date of server_upload_time
    Dates,        \* the dates a landing may extend the table to
    Exports       \* SUBSET SUBSET Rows, what the export has, time after time

VARIABLES
    available,    \* the rows of the export so far
    table         \* [Rows -> Nat], how many times a row is in the table

Init ==
    /\ available = {}
    /\ table = [r \in Rows |-> 0]

Export(rows) ==
    /\ available \subseteq rows
    /\ available' = rows
    /\ UNCHANGED table

LandThrough(seen, last) ==
    /\ seen \subseteq available
    /\ table' = [r \in Rows |-> IF UploadDate[r] > last THEN table[r]
                                ELSE IF r \in seen THEN 1 ELSE 0]
    /\ \A r \in Rows : table[r] <= table'[r]
    /\ UNCHANGED available

Next ==
    \/ \E rows \in Exports : Export(rows)
    \/ \E seen \in Exports, last \in Dates : LandThrough(seen, last)

Spec == Init /\ [][Next]_<<available, table>>
=============================================================================

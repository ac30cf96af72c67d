----------------------------- MODULE SendSchedule -----------------------------
(***************************************************************************)
(* What the notification service may rely on: a table with at most one     *)
(* row per user.  A write-back puts a batch of rows into it as a whole,    *)
(* and of two rows for a user the one with the greater (model_version,     *)
(* computed_as_of) pair stays, the one already there on a tie.             *)
(***************************************************************************)
EXTENDS Integers

CONSTANTS
    Users,
    Absent,       \* what the table has for a user without a row
    Batches       \* SUBSET [Users -> Row \cup {Absent}]

VARIABLE schedule

\* The rows' order: (version, asOf), lexicographically.
Above(row, other) ==
    \/ row.version > other.version
    \/ row.version = other.version /\ row.asOf > other.asOf

Kept(batch, u) == batch[u] = Absent
                  \/ (schedule[u] # Absent /\ ~Above(batch[u], schedule[u]))

Init == schedule = [u \in Users |-> Absent]

Put(batch) ==
    schedule' = [u \in Users |-> IF Kept(batch, u) THEN schedule[u] ELSE batch[u]]

Next == \E batch \in Batches : Put(batch)

Spec == Init /\ [][Next]_schedule
=============================================================================

------------------------------- MODULE WriteBack -------------------------------
(***************************************************************************)
(* The write-back: `make writeback` copies the served pair of every user   *)
(* from the warehouse into the serving table send_schedule.                *)
(*                                                                         *)
(* A run reads the candidates (scores_send_time joined with the open       *)
(* dim_user row), then, in one transaction on the serving store, reads the *)
(* stored (model_version, computed_as_of) pairs, keeps the candidates that *)
(* are strictly greater, and writes those.                                 *)
(*                                                                         *)
(*   target = "duckdb"    the candidates are read in that transaction too, *)
(*                        and the file has a single writer: neither a run  *)
(*                        nor a build can open it while a run has it open  *)
(*   target = "spanner"   the candidates come from BigQuery, outside of    *)
(*                        the transaction; runs and builds interleave; a   *)
(*                        transaction that read what another has changed   *)
(*                        is aborted, and its function called again        *)
(***************************************************************************)
EXTENDS Integers

CONSTANTS
    Users,
    Runs,         \* the processes that may run a write-back
    Served,       \* the hour, minute, cohort, tz, confidence of a row
    AsOfs,        \* the values of computed_as_of
    Malformed,    \* a model_version that is not v<int>; the others are <int>
    Absent,       \* no row
    Warehouses,   \* the candidates a build of the warehouse may offer
    Nothing       \* what a run holds when it is not running

Versions == Nat \cup {Malformed}
Rows == [version : Versions, asOf : AsOfs, served : Served]
Tables == [Users -> Rows \cup {Absent}]

ASSUME RowsAssumption ==
    /\ Malformed \notin Nat
    /\ Absent \notin Rows
    /\ AsOfs \subseteq Int
    /\ Nothing \notin Tables
    /\ Warehouses \subseteq Tables

VARIABLES
    target,       \* "duckdb" or "spanner"
    warehouse,    \* what candidates_sql returns
    stored,       \* send_schedule, as committed
    pc,           \* [Runs -> where a run is]
    candidates,   \* [Runs -> Tables \cup {Nothing}]
    existing,     \* [Runs -> Tables \cup {Nothing}], what the transaction read
    pending,      \* [Runs -> Tables \cup {Nothing}], the table the transaction sees
    done          \* history: the candidates of the runs that have committed

vars == <<target, warehouse, stored, pc, candidates, existing, pending, done>>

Steps == {"idle", "read", "compare", "deleted", "applied"}

-----------------------------------------------------------------------------
\* The order of (model_version, computed_as_of), versions compared as numbers.
Greater(row, other) ==
    \/ row.version > other.version
    \/ row.version = other.version /\ row.asOf > other.asOf

ShouldReplace(row, other) == other = Absent \/ Greater(row, other)

\* version_key refuses what is not v<int>: every candidate's version first, on
\* the insert path too, and then the stored one it is compared with.
RefusesOnCompare(r) ==
    \E u \in Users : /\ candidates[r][u] # Absent
                     /\ existing[r][u] # Absent
                     /\ Malformed \in {candidates[r][u].version, existing[r][u].version}
Refuses(r) ==
    \E u \in Users : /\ candidates[r][u] # Absent
                     /\ \/ candidates[r][u].version = Malformed
                        \/ existing[r][u] # Absent /\ existing[r][u].version = Malformed

Winners(r) ==
    {u \in Users : /\ candidates[r][u] # Absent
                   /\ ShouldReplace(candidates[r][u], existing[r][u])}

-----------------------------------------------------------------------------
Init ==
    /\ target \in {"duckdb", "spanner"}
    /\ warehouse \in Warehouses
    /\ stored = [u \in Users |-> Absent]
    /\ pc = [r \in Runs |-> "idle"]
    /\ candidates = [r \in Runs |-> Nothing]
    /\ existing = [r \in Runs |-> Nothing]
    /\ pending = [r \in Runs |-> Nothing]
    /\ done = {}

\* The DuckDB file is free.
FileFree == target = "duckdb" => \A r \in Runs : pc[r] = "idle"

\* A dbt build replaces scores_send_time or dim_user_current.
Rebuild(offered) ==
    /\ FileFree
    /\ warehouse' = offered
    /\ UNCHANGED <<target, stored, pc, candidates, existing, pending, done>>

\* ensure_table, begin (DuckDB), and the candidates_sql read.
ReadCandidates(r) ==
    /\ pc[r] = "idle"
    /\ FileFree
    /\ candidates' = [candidates EXCEPT ![r] = warehouse]
    /\ pc' = [pc EXCEPT ![r] = "read"]
    /\ UNCHANGED <<target, warehouse, stored, existing, pending, done>>

\* The stored-pair read: on Spanner the transaction starts here.
ReadExisting(r) ==
    /\ pc[r] = "read"
    /\ existing' = [existing EXCEPT ![r] = stored]
    /\ pc' = [pc EXCEPT ![r] = "compare"]
    /\ UNCHANGED <<target, warehouse, stored, candidates, pending, done>>

Stop(r) ==
    /\ pc' = [pc EXCEPT ![r] = "idle"]
    /\ candidates' = [candidates EXCEPT ![r] = Nothing]
    /\ existing' = [existing EXCEPT ![r] = Nothing]
    /\ pending' = [pending EXCEPT ![r] = Nothing]

\* A malformed version raises before anything is written, and rolls back.
Refuse(r) ==
    /\ pc[r] = "compare"
    /\ Refuses(r)
    /\ Stop(r)
    /\ UNCHANGED <<target, warehouse, stored, done>>

Without(table, users) ==
    [u \in Users |-> IF u \in users THEN Absent ELSE table[u]]
With(table, users, rows) ==
    [u \in Users |-> IF u \in users THEN rows[u] ELSE table[u]]

\* DuckDB: the winners' rows are deleted and then inserted, in the transaction.
DeleteAtOnce(r) ==
    /\ target = "duckdb"
    /\ pc[r] = "compare"
    /\ ~Refuses(r)
    /\ pending' = [pending EXCEPT ![r] = Without(existing[r], Winners(r))]
    /\ stored' = Without(existing[r], Winners(r))
    /\ pc' = [pc EXCEPT ![r] = "deleted"]
    /\ UNCHANGED <<target, warehouse, candidates, existing, done>>
Delete(r) ==
    /\ target = "duckdb"
    /\ pc[r] = "compare"
    /\ ~Refuses(r)
    /\ pending' = [pending EXCEPT ![r] = Without(existing[r], Winners(r))]
    /\ pc' = [pc EXCEPT ![r] = "deleted"]
    /\ UNCHANGED <<target, warehouse, stored, candidates, existing, done>>

Insert(r) ==
    /\ pc[r] = "deleted"
    /\ pending' = [pending EXCEPT ![r] = With(@, Winners(r), candidates[r])]
    /\ pc' = [pc EXCEPT ![r] = "applied"]
    /\ UNCHANGED <<target, warehouse, stored, candidates, existing, done>>

\* Spanner: one insert_or_update of the winners.
Upsert(r) ==
    /\ target = "spanner"
    /\ pc[r] = "compare"
    /\ ~Refuses(r)
    /\ pending' = [pending EXCEPT ![r] = With(existing[r], Winners(r), candidates[r])]
    /\ pc' = [pc EXCEPT ![r] = "applied"]
    /\ UNCHANGED <<target, warehouse, stored, candidates, existing, done>>

\* Spanner commits a transaction only if nothing it has read has changed.
Serializable(r) == target = "spanner" => stored = existing[r]

CommitUnchecked(r) ==
    /\ pc[r] = "applied"
    /\ stored' = pending[r]
    /\ done' = done \cup {candidates[r]}
    /\ Stop(r)
    /\ UNCHANGED <<target, warehouse>>
CommitUnapplied(r) ==
    /\ pc[r] \in {"compare", "applied"}
    /\ Serializable(r)
    /\ stored' = pending[r]
    /\ done' = done \cup {candidates[r]}
    /\ Stop(r)
    /\ UNCHANGED <<target, warehouse>>
Commit(r) ==
    /\ pc[r] = "applied"
    /\ Serializable(r)
    /\ stored' = pending[r]
    /\ done' = done \cup {candidates[r]}
    /\ Stop(r)
    /\ UNCHANGED <<target, warehouse>>

\* run_in_transaction calls guard_and_write again, with the candidates it has.
AbortForgetful(r) ==
    /\ pc[r] \in {"compare", "applied"}
    /\ ~Serializable(r)
    /\ pc' = [pc EXCEPT ![r] = "compare"]
    /\ UNCHANGED <<target, warehouse, stored, candidates, existing, pending, done>>
Abort(r) ==
    /\ pc[r] \in {"compare", "applied"}
    /\ ~Serializable(r)
    /\ existing' = [existing EXCEPT ![r] = Nothing]
    /\ pending' = [pending EXCEPT ![r] = Nothing]
    /\ pc' = [pc EXCEPT ![r] = "read"]
    /\ UNCHANGED <<target, warehouse, stored, candidates, done>>

\* Any other failure, the retry deadline and the end of the process included:
\* the transaction is rolled back and the run is over.
Crash(r) ==
    /\ pc[r] # "idle"
    /\ Stop(r)
    /\ UNCHANGED <<target, warehouse, stored, done>>

RunStep(r) ==
    \/ ReadExisting(r)
    \/ Refuse(r)
    \/ Delete(r)
    \/ Insert(r)
    \/ Upsert(r)
    \/ Commit(r)
    \/ Abort(r)

Next ==
    \/ \E offered \in Warehouses : Rebuild(offered)
    \/ \E r \in Runs : ReadCandidates(r) \/ RunStep(r) \/ Crash(r)

\* A run that has started is scheduled until it ends: it is one process, and no
\* step of it waits for anything but the stores' answers.
Fairness == \A r \in Runs : WF_vars(RunStep(r))

Spec == Init /\ [][Next]_vars /\ Fairness

-----------------------------------------------------------------------------
(* Properties. *)

\* Every variable has its type; a run holds what it has read so far.
TypeOK ==
    /\ target \in {"duckdb", "spanner"}
    /\ warehouse \in Warehouses
    /\ stored \in Tables
    /\ pc \in [Runs -> Steps]
    /\ candidates \in [Runs -> Warehouses \cup {Nothing}]
    /\ existing \in [Runs -> Tables \cup {Nothing}]
    /\ pending \in [Runs -> Tables \cup {Nothing}]
    /\ done \subseteq Warehouses
    /\ \A r \in Runs :
          /\ pc[r] # "idle" => candidates[r] # Nothing
          /\ pc[r] \in {"compare", "deleted", "applied"} => existing[r] # Nothing
          /\ pc[r] \in {"deleted", "applied"} => pending[r] # Nothing

\* A version that cannot be compared never gets in, so no run is ever refused
\* because of what an earlier one has stored.
NeverWedged ==
    \A u \in Users : stored[u] # Absent => stored[u].version # Malformed

\* Whatever the order in which concurrent runs read and committed, each user has
\* the greatest row any committed run had for it: none is lost to a run that
\* had read before it, and a second run over the same scores writes nothing.
GreatestIsServed ==
    \A u \in Users :
        LET offered == {table[u] : table \in done} \ {Absent}
        IN IF offered = {} THEN stored[u] = Absent
           ELSE /\ stored[u] \in offered
                /\ \A row \in offered : ~Greater(row, stored[u])

\* A row is never deleted, and only replaced by a strictly greater one.
RowsOnlyAdvance ==
    [][\A u \in Users : stored[u] # Absent =>
          /\ stored'[u] # Absent
          /\ stored'[u] # stored[u] => Greater(stored'[u], stored[u])]_vars

\* A run ends: the retries of an aborted transaction do not go on forever.
RunsEnd == \A r \in Runs : (pc[r] # "idle") ~> (pc[r] = "idle")

\* send_schedule is what the notification service expects of it: each run's
\* batch appears as a whole or not at all.
WellFormedBatches ==
    {table \in Warehouses :
        \A u \in Users : table[u] # Absent => table[u].version # Malformed}
Schedule == INSTANCE SendSchedule
                WITH schedule <- stored, Batches <- WellFormedBatches
IsSchedule == Schedule!Spec
=============================================================================

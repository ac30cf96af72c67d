------------------------------- MODULE Landing -------------------------------
(***************************************************************************)
(* One landing at a time (max_active_runs = 1) of the exported files into  *)
(* raw.events and raw.dim_user.                                            *)
(*                                                                         *)
(* The export writes one file per upload hour, in the order of the names.  *)
(* A landing lists the files once, keeps those of the dates up to THROUGH, *)
(* and replaces the partition of each of those dates by its files.         *)
(*                                                                         *)
(*   target = "duckdb"     one transaction: every partition, then the      *)
(*                         dims, then the search for conflicting copies,   *)
(*                         which rolls everything back                     *)
(*   target = "bigquery"   one load job per partition, in date order, each *)
(*                         with a commit of its own, then one for the      *)
(*                         dims; an empty selection is one job over a      *)
(*                         file of no bytes, into the whole table          *)
(*                                                                         *)
(* The objects a job reads are uploaded before it and hold what the files  *)
(* hold; nothing else reads them, and they are not modelled.               *)
(***************************************************************************)
EXTENDS Integers

CONSTANTS
    Files,        \* SUBSET Nat, in the order of the names
    DateOf,       \* [Files -> Int], the upload date in the name
    Rows,         \* the rows of all the files, each with a line of its own
    FileOf,       \* [Rows -> Files]
    Identity,     \* [Rows -> the insert_id and the three clocks of a row]
    Payload,      \* [Rows -> its event_properties]
    Throughs,     \* the THROUGH dates a landing may be asked for
    Nothing       \* no transaction

ASSUME FilesAssumption ==
    /\ Files \subseteq Nat
    /\ DateOf \in [Files -> Int]
    /\ \A f, g \in Files : f < g => DateOf[f] <= DateOf[g]
    /\ FileOf \in [Rows -> Files]
    /\ Throughs \subseteq Int
    /\ Nothing \notin [Rows -> Nat]

VARIABLES
    target,       \* "duckdb" or "bigquery"
    exported,     \* the files so far
    raw,          \* raw.events, as committed: how many times each row is there
    dims,         \* raw.dim_user, as committed, holds the seed
    pc,           \* how far the current landing has come
    selected,     \* the files the current or the last landing has listed
    todo,         \* those of them whose partition it has not replaced
    txn           \* raw.events as the DuckDB transaction sees it, or Nothing

vars == <<target, exported, raw, dims, pc, selected, todo, txn>>

Tables == [Rows -> Nat]

-----------------------------------------------------------------------------
RowDate == [r \in Rows |-> DateOf[FileOf[r]]]

\* The partition of `date` is emptied, and the files are appended to the table.
Deleted(table, date) == [r \in Rows |-> IF RowDate[r] = date THEN 0 ELSE table[r]]
Inserted(table, files) ==
    [r \in Rows |-> IF FileOf[r] \in files THEN table[r] + 1 ELSE table[r]]

Appended(table, date, files) == Inserted(table, files)
Overwritten(table, date, files) == Inserted(Deleted(table, date), files)

\* sorted(by_date): the earliest date left, and its files.
NextDate == DateOf[CHOOSE f \in todo : \A g \in todo : f <= g]
OfDate(files, date) == {f \in files : DateOf[f] = date}

\* insert_ids of which two rows tie on the three clocks and differ in payload.
Conflicting(table) ==
    {Identity[r] : r \in {s \in Rows :
        /\ table[s] > 0
        /\ \E t \in Rows : /\ table[t] > 0
                           /\ Identity[t] = Identity[s] /\ Payload[t] # Payload[s]}}

-----------------------------------------------------------------------------
Init ==
    /\ target \in {"duckdb", "bigquery"}
    /\ exported = {}
    /\ raw = [r \in Rows |-> 0]
    /\ dims = FALSE
    /\ pc = "idle"
    /\ selected = {} /\ todo = {}
    /\ txn = Nothing

\* The export writes its next file.
Export(f) ==
    /\ f \notin exported
    /\ \A g \in Files : g < f => g \in exported
    /\ exported' = exported \cup {f}
    /\ UNCHANGED <<target, raw, dims, pc, selected, todo, txn>>

\* event_files(fixture, through); on DuckDB, begin transaction.
Begin(through) ==
    /\ pc \in {"idle", "landed"}
    /\ selected' = {f \in exported : DateOf[f] <= through}
    /\ todo' = selected'
    /\ txn' = IF target = "duckdb" THEN raw ELSE Nothing
    /\ pc' = "events"
    /\ UNCHANGED <<target, exported, raw, dims>>

\* DuckDB: delete the rows of the date, insert its files.
OverwritePartition ==
    /\ target = "duckdb" /\ pc = "events" /\ todo # {}
    /\ txn' = Overwritten(txn, NextDate, OfDate(todo, NextDate))
    /\ todo' = todo \ OfDate(todo, NextDate)
    /\ UNCHANGED <<target, exported, raw, dims, pc, selected>>

\* DuckDB: load_dims, inside the transaction, and then the search.
LoadDims ==
    /\ target = "duckdb" /\ pc = "events" /\ todo = {}
    /\ pc' = "check"
    /\ UNCHANGED <<target, exported, raw, dims, selected, todo, txn>>

CommitUnchecked ==
    /\ pc = "check"
    /\ raw' = txn
    /\ dims' = TRUE
    /\ txn' = Nothing
    /\ pc' = "landed"
    /\ UNCHANGED <<target, exported, selected, todo>>
Commit ==
    /\ pc = "check"
    /\ Conflicting(txn) = {}
    /\ raw' = txn
    /\ dims' = TRUE
    /\ txn' = Nothing
    /\ pc' = "landed"
    /\ UNCHANGED <<target, exported, selected, todo>>

\* ConflictingDuplicates
RollbackUnclosed ==
    /\ pc = "check"
    /\ Conflicting(txn) # {}
    /\ pc' = "idle"
    /\ UNCHANGED <<target, exported, raw, dims, selected, todo, txn>>
Rollback ==
    /\ pc = "check"
    /\ Conflicting(txn) # {}
    /\ txn' = Nothing
    /\ pc' = "idle"
    /\ UNCHANGED <<target, exported, raw, dims, selected, todo>>

\* BigQuery: the WRITE_TRUNCATE job over the objects of one date.
LoadFileByFile ==
    /\ target = "bigquery" /\ pc = "events" /\ todo # {}
    /\ LET next == CHOOSE f \in todo : \A g \in todo : f <= g
       IN /\ raw' = Overwritten(raw, NextDate, {next})
          /\ todo' = todo \ {next}
    /\ UNCHANGED <<target, exported, dims, pc, selected, txn>>
LoadPartition ==
    /\ target = "bigquery" /\ pc = "events" /\ todo # {}
    /\ raw' = Overwritten(raw, NextDate, OfDate(todo, NextDate))
    /\ todo' = todo \ OfDate(todo, NextDate)
    /\ UNCHANGED <<target, exported, dims, pc, selected, txn>>

\* BigQuery: the job over the zero-byte object truncates the whole table.
LoadEmpty ==
    /\ target = "bigquery" /\ pc = "events" /\ selected = {}
    /\ raw' = [r \in Rows |-> 0]
    /\ pc' = "dims"
    /\ UNCHANGED <<target, exported, dims, selected, todo, txn>>

\* BigQuery: the job that replaces raw.dim_user, after all the others.
LoadDimsJob ==
    /\ target = "bigquery"
    /\ \/ pc = "events" /\ selected # {} /\ todo = {}
       \/ pc = "dims"
    /\ dims' = TRUE
    /\ pc' = "landed"
    /\ UNCHANGED <<target, exported, raw, selected, todo, txn>>

\* A job, an upload or the process fails.  DuckDB drops the transaction;
\* on BigQuery the partitions loaded so far stay.
Crash ==
    /\ pc \in {"events", "check", "dims"}
    /\ txn' = Nothing
    /\ pc' = "idle"
    /\ UNCHANGED <<target, exported, raw, dims, selected, todo>>

Next ==
    \/ \E f \in Files : Export(f)
    \/ \E through \in Throughs : Begin(through)
    \/ OverwritePartition
    \/ LoadDims
    \/ Commit
    \/ Rollback
    \/ LoadPartition
    \/ LoadEmpty
    \/ LoadDimsJob
    \/ Crash

Spec == Init /\ [][Next]_vars

-----------------------------------------------------------------------------
(* Properties. *)

\* Every variable has its type; a transaction is open exactly while a DuckDB
\* landing runs.
TypeOK ==
    /\ target \in {"duckdb", "bigquery"}
    /\ exported \subseteq Files
    /\ raw \in Tables
    /\ dims \in BOOLEAN
    /\ pc \in {"idle", "events", "check", "dims", "landed"}
    /\ todo \subseteq selected /\ selected \subseteq exported
    /\ txn \in Tables \cup {Nothing}
    /\ (txn # Nothing) <=> (target = "duckdb" /\ pc \in {"events", "check"})

\* A landing that reports success has put every row it had selected into the
\* table, once, and the dims with them, whatever crashed before it and whatever
\* the partitions held.
LandedWhole ==
    pc = "landed" =>
        /\ \A r \in Rows : FileOf[r] \in selected => raw[r] = 1
        /\ dims

\* A payload conflict never enters the DuckDB warehouse.
NeverConflicting == target = "duckdb" => Conflicting(raw) = {}

\* Each step of a landing, and the whole of it on DuckDB, is a landing through
\* some date: no partition is ever seen half replaced, no row twice, none lost.
Exports == {{r \in Rows : FileOf[r] <= f} : f \in Files}
Table == INSTANCE RawEvents
             WITH UploadDate <- RowDate, Dates <- {DateOf[f] : f \in Files} \cup Throughs,
                  Exports <- Exports,
                  available <- {r \in Rows : FileOf[r] \in exported},
                  table <- raw
IsRawEvents == Table!Spec

(* What the repository says of a landing, and the code does not do. *)

\* ARCHITECTURE 2.7: raw.events persists across loads and each load overwrites
\* only the selected upload-date partitions.
UnselectedDatesKept ==
    [][\A r \in Rows : (\A f \in selected : DateOf[f] # RowDate[r]) => raw'[r] = raw[r]]_vars
=============================================================================

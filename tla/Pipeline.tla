------------------------------- MODULE Pipeline -------------------------------
(***************************************************************************)
(* The runs of the pipeline: land, build the models, write the schedule    *)
(* back.                                                                   *)
(*                                                                         *)
(*   target = "bigquery"  Composer's DAG, a task per step: the two         *)
(*                        landings, the freshness gate, a task per model,  *)
(*                        the write-back; one run and one task at a time   *)
(*   target = "duckdb"    the local DAG, dbt_build >> writeback, beside    *)
(*                        `make pipeline`, which has the eval gate between *)
(*                        the two; DuckDB lets one process open the file   *)
(*                                                                         *)
(* A step may fail at any point, or its process be killed.  What a table   *)
(* holds is told by the files that it was made from: Landing,              *)
(* IncrementalBuild and SendTime have the rows.  Three models stand for    *)
(* the graph: one that reads raw, one that reads the first, and the scores *)
(* that read both.                                                         *)
(***************************************************************************)
EXTENDS Integers, FiniteSets, FiniteSetsExt

CONSTANTS
    DagRuns,     \* the runs Airflow may have at a time, of any interval
    MakeRuns,    \* `make pipeline`, each in a shell
    FileCount,   \* the exported files are 1..FileCount
    DateOf,      \* [1..FileCount -> Nat], their upload dates
    Throughs,    \* the THROUGH a run is started with
    Nobody

Runs == DagRuns \cup MakeRuns
Files == 1..FileCount

ASSUME PipelineAssumption ==
    /\ DagRuns \cap MakeRuns = {} /\ Nobody \notin Runs
    /\ FileCount \in Nat /\ DateOf \in [Files -> Nat] /\ Throughs \subseteq Nat

VARIABLES
    target,
    raw,         \* the files of raw.events
    spanner_dims,\* the dims seed is in Spanner
    table,       \* what each model was made from
    schedule,    \* the scores last written back
    task,        \* [Runs -> [Steps -> Status]]
    listed,      \* the files the run's landing selected
    todo,        \* the dates its BigQuery landing has not loaded
    open,        \* the run whose process has the DuckDB file open
    alerted,     \* [Runs -> the tasks whose failure was mailed]
    db, wal,     \* is there a DuckDB file; the files in its write-ahead log
    dropping,    \* drop-db is between its two removals
    dropped      \* history: drop-db has said OK, and nothing was loaded since

vars == <<target, raw, spanner_dims, table, schedule, task, listed,
          todo, open, alerted, db, wal, dropping, dropped>>

Models == {"stg", "features"}
Steps == {"load", "spanner_load", "freshness", "stg", "features", "scores",
          "eval", "writeback"}
Status == {"idle", "waiting", "running", "done", "failed", "skipped"}
Scores == [Models -> SUBSET Files]
NoScores == [m \in Models |-> {}]
NoWal == {0}  \* no file is 0

-----------------------------------------------------------------------------
(* The graphs of the steps *)

StepsOf(r) ==
    IF target = "bigquery" THEN Steps \ {"eval"}
    ELSE {"load", "stg", "features", "scores", "writeback"}
             \cup (IF r \in MakeRuns THEN {"eval"} ELSE {})

\* {bq_load, spanner_load} >> dbt (freshness, then the models) >> writeback;
\* within a dbt build the models follow their refs.
UpstreamOf ==
    [s \in Steps |->
        CASE s \in {"load", "spanner_load"} -> {}
          [] s = "freshness" -> {"load", "spanner_load"}
          [] s = "stg" -> {"load", "freshness"}
          [] s = "features" -> {"stg"}
          [] s = "scores" -> {"stg", "features"}
          [] s = "eval" -> {"scores"}
          [] s = "writeback" -> {"stg", "features", "scores", "eval"}]
Upstream(r, s) == UpstreamOf[s] \cap StepsOf(r)

Active(r) == \E s \in StepsOf(r) : task[r][s] \in {"waiting", "running"}
Started(r) == \E s \in StepsOf(r) : task[r][s] # "idle"

\* max_active_tasks = 1 in Composer; local tasks are subprocesses of their own.
SlotFree(r) ==
    target = "bigquery" =>
        \A q \in Runs, s \in Steps : task[q][s] # "running"

Ready(r, s) ==
    /\ s \in StepsOf(r) /\ task[r][s] = "waiting"
    /\ \A u \in Upstream(r, s) : task[r][u] = "done"
    /\ SlotFree(r)

Becomes(r, s, status) == task' = [task EXCEPT ![r][s] = status]

-----------------------------------------------------------------------------
Init ==
    /\ target \in {"duckdb", "bigquery"}
    /\ raw = {} /\ spanner_dims = FALSE
    /\ table = [m \in Models \cup {"scores"} |-> IF m = "scores" THEN NoScores ELSE {}]
    /\ schedule = NoScores
    /\ task = [r \in Runs |-> [s \in Steps |-> "idle"]]
    /\ listed = [r \in Runs |-> {}] /\ todo = [r \in Runs |-> {}]
    /\ open = Nobody
    /\ alerted = [r \in Runs |-> {}]
    /\ db = FALSE /\ wal = NoWal /\ dropping = FALSE /\ dropped = FALSE

\* What the runs that have ended did is forgotten when the next one starts.
Starts(r) ==
    /\ ~Active(r) /\ ~dropping
    /\ r \in MakeRuns => target = "duckdb"
    /\ task' = [q \in Runs |-> IF q = r
                               THEN [s \in Steps |-> IF s \in StepsOf(r) THEN "waiting" ELSE "idle"]
                               ELSE IF Active(q) THEN task[q] ELSE [s \in Steps |-> "idle"]]
    /\ listed' = [q \in Runs |-> IF Active(q) THEN listed[q] ELSE {}]
    /\ alerted' = [q \in Runs |-> IF Active(q) THEN alerted[q] ELSE {}]
    /\ UNCHANGED <<target, raw, spanner_dims, table, schedule,
                   todo, open, db, wal, dropping, dropped>>

TriggerAnyTime(r) == Starts(r)
\* A DAG has max_active_runs = 1, whichever the intervals; a shell has not.
Trigger(r) == (r \in DagRuns => \A q \in DagRuns : ~Active(q)) /\ Starts(r)

-----------------------------------------------------------------------------
(* The landings *)

Selected(through) == {f \in Files : DateOf[f] <= through}
Replaced(table_, files) ==
    {f \in table_ : \A g \in files : DateOf[f] # DateOf[g]} \cup files

\* make load: one transaction; the log is gone when the file is closed, and
\* stays, with what was committed, when the process is killed before that.
Load(r, through, killed) ==
    LET before == IF db THEN raw ELSE IF wal = NoWal THEN {} ELSE wal
        files == Selected(through)
    IN  /\ target = "duckdb" /\ Ready(r, "load") /\ open = Nobody /\ ~dropping
        /\ listed' = [listed EXCEPT ![r] = files]
        /\ raw' = Replaced(before, files)
        /\ db' = TRUE
        /\ wal' = IF killed THEN files ELSE NoWal
        /\ dropped' = FALSE
        /\ Becomes(r, "load", IF killed THEN "failed" ELSE "done")
        /\ UNCHANGED <<target, spanner_dims, table, schedule, todo,
                       open, alerted, dropping>>

BqListAlwaysRuns(r, through) ==
    /\ target = "bigquery" /\ Ready(r, "load")
    /\ listed' = [listed EXCEPT ![r] = Selected(through)]
    /\ todo' = [todo EXCEPT ![r] = {DateOf[f] : f \in Selected(through)}]
    /\ Becomes(r, "load", "running")
    /\ UNCHANGED <<target, raw, spanner_dims, table, schedule, open, alerted,
                   db, wal, dropping, dropped>>
\* make bq-load: the files are listed, then a load job per date; no file at
\* all is one job that empties the table.
BqList(r, through) ==
    /\ target = "bigquery" /\ Ready(r, "load")
    /\ listed' = [listed EXCEPT ![r] = Selected(through)]
    /\ todo' = [todo EXCEPT ![r] = {DateOf[f] : f \in Selected(through)}]
    /\ raw' = IF Selected(through) = {} THEN {} ELSE raw
    /\ Becomes(r, "load", IF Selected(through) = {} THEN "done" ELSE "running")
    /\ UNCHANGED <<target, spanner_dims, table, schedule, open, alerted,
                   db, wal, dropping, dropped>>

BqLoadDate(r) ==
    LET date == Min(todo[r])
    IN  /\ task[r]["load"] = "running"
        /\ raw' = Replaced(raw, {f \in listed[r] : DateOf[f] = date})
        /\ todo' = [todo EXCEPT ![r] = @ \ {date}]
        /\ Becomes(r, "load", IF todo[r] = {date} THEN "done" ELSE "running")
        /\ UNCHANGED <<target, spanner_dims, table, schedule, listed,
                       open, alerted, db, wal, dropping, dropped>>

\* One batch upsert of the seed.
SpannerLoad(r) ==
    /\ Ready(r, "spanner_load")
    /\ spanner_dims' = TRUE
    /\ Becomes(r, "spanner_load", "done")
    /\ UNCHANGED <<target, raw, table, schedule, listed, todo, open,
                   alerted, db, wal, dropping, dropped>>

-----------------------------------------------------------------------------
(* dbt *)

Freshness(r) ==
    /\ Ready(r, "freshness")
    /\ Becomes(r, "freshness", "done")
    /\ UNCHANGED <<target, raw, spanner_dims, table, schedule, listed,
                   todo, open, alerted, db, wal, dropping, dropped>>

\* Locally one dbt process builds the models of a run and has the file open.
MayOpen(r, m) ==
    target = "duckdb" => db /\ open = IF m = "stg" THEN Nobody ELSE r

Model(r, m) ==
    /\ Ready(r, m) /\ MayOpen(r, m)
    /\ table' = [table EXCEPT ![m] =
                    CASE m = "stg" -> raw
                      [] m = "features" -> table["stg"]
                      [] m = "scores" -> [n \in Models |-> table[n]]]
    /\ open' = IF target = "duckdb" /\ m # "scores" THEN r ELSE Nobody
    /\ wal' = NoWal
    /\ Becomes(r, m, "done")
    /\ UNCHANGED <<target, raw, spanner_dims, schedule, listed, todo,
                   alerted, db, dropping, dropped>>

\* The scores' label accuracy and pins, in `make pipeline`.
Eval(r) ==
    /\ Ready(r, "eval") /\ open = Nobody /\ db
    /\ Becomes(r, "eval", "done")
    /\ UNCHANGED <<target, raw, spanner_dims, table, schedule, listed,
                   todo, open, alerted, db, wal, dropping, dropped>>

-----------------------------------------------------------------------------
(* The write-back: replace iff the scores' computed_as_of is greater *)

AsOf(scores) == IF scores["features"] = {} THEN 0 ELSE Max(scores["features"])

WriteBack(r) ==
    /\ Ready(r, "writeback") /\ (target = "duckdb" => open = Nobody /\ db)
    /\ schedule' = IF AsOf(table["scores"]) > AsOf(schedule)
                   THEN table["scores"] ELSE schedule
    /\ Becomes(r, "writeback", "done")
    /\ UNCHANGED <<target, raw, spanner_dims, table, listed, todo, open,
                   alerted, db, wal, dropping, dropped>>

-----------------------------------------------------------------------------
(* Failure *)

CanFail(r, s) == Ready(r, s) \/ task[r][s] = "running"

\* on_failure_callback of the Composer DAG's default_args: of every task.
AlertsOfPods(r, s) ==
    alerted' = IF target = "bigquery" /\ s \in {"load", "spanner_load", "writeback"}
               THEN [alerted EXCEPT ![r] = @ \cup {s}] ELSE alerted
Alerts(r, s) ==
    alerted' = IF target = "bigquery" THEN [alerted EXCEPT ![r] = @ \cup {s}]
               ELSE alerted

\* retries = 0; a file that another process has open is a failure too.
Fail(r, s) ==
    /\ CanFail(r, s)
    /\ Becomes(r, s, "failed")
    /\ Alerts(r, s)
    /\ open' = IF open = r THEN Nobody ELSE open
    /\ todo' = [todo EXCEPT ![r] = {}]
    /\ UNCHANGED <<target, raw, spanner_dims, table, schedule, listed,
                   db, wal, dropping, dropped>>

\* Upstream failed: not run, in Airflow, in dbt's graph or in make's chain.
BlockedByFailure(r, s) == \E u \in Upstream(r, s) : task[r][u] = "failed"
Blocked(r, s) == \E u \in Upstream(r, s) : task[r][u] \in {"failed", "skipped"}

Skip(r) ==
    LET blocked == {s \in StepsOf(r) : task[r][s] = "waiting" /\ Blocked(r, s)}
    IN  /\ blocked # {}
        /\ task' = [task EXCEPT ![r] = [s \in Steps |-> IF s \in blocked
                                                        THEN "skipped" ELSE @[s]]]
        /\ UNCHANGED <<target, raw, spanner_dims, table, schedule, listed,
                       todo, open, alerted, db, wal, dropping, dropped>>

-----------------------------------------------------------------------------
(* drop-db, between two runs *)

Resting == \A r \in Runs : ~Active(r)

\* The file goes first, and with it everything in it.
DropFile ==
    /\ target = "duckdb" /\ Resting /\ ~dropping
    /\ db' = FALSE /\ raw' = {} /\ schedule' = NoScores
    /\ table' = [m \in Models \cup {"scores"} |-> IF m = "scores" THEN NoScores ELSE {}]
    /\ dropping' = TRUE
    /\ UNCHANGED <<target, spanner_dims, task, listed, todo, open,
                   alerted, wal, dropped>>

DropWalOfFile ==
    /\ dropping
    /\ wal' = wal
    /\ dropping' = FALSE /\ dropped' = TRUE
    /\ UNCHANGED <<target, raw, spanner_dims, table, schedule, task,
                   listed, todo, open, alerted, db>>
DropWal ==
    /\ dropping
    /\ wal' = NoWal
    /\ dropping' = FALSE /\ dropped' = TRUE
    /\ UNCHANGED <<target, raw, spanner_dims, table, schedule, task,
                   listed, todo, open, alerted, db>>

\* Killed between the two: the log replays into the next file.
DropKilled ==
    /\ dropping
    /\ dropping' = FALSE
    /\ UNCHANGED <<target, raw, spanner_dims, table, schedule, task,
                   listed, todo, open, alerted, db, wal, dropped>>

-----------------------------------------------------------------------------
Land(r) ==
    \/ \E through \in Throughs : BqList(r, through)
    \/ \E through \in Throughs, killed \in BOOLEAN : Load(r, through, killed)
    \/ BqLoadDate(r)
    \/ SpannerLoad(r)

Step(r) ==
    \/ Land(r) \/ Freshness(r) \/ \E m \in Models \cup {"scores"} : Model(r, m)
    \/ Eval(r) \/ WriteBack(r)
    \/ \E s \in Steps : Fail(r, s)
    \/ Skip(r)

DropDb == DropFile \/ DropWal \/ DropKilled

Next == DropDb \/ \E r \in Runs : Trigger(r) \/ Step(r)

\* Every process of a run ends, and the scheduler goes on to the next task.
Fairness == \A r \in Runs : WF_vars(Step(r))

Spec == Init /\ [][Next]_vars /\ Fairness

-----------------------------------------------------------------------------
(* Properties *)

TypeOK ==
    /\ target \in {"duckdb", "bigquery"}
    /\ raw \subseteq Files /\ spanner_dims \in BOOLEAN
    /\ \A m \in Models : table[m] \subseteq Files
    /\ table["scores"] \in Scores /\ schedule \in Scores
    /\ task \in [Runs -> [Steps -> Status]]
    /\ listed \in [Runs -> SUBSET Files]
    /\ todo \in [Runs -> SUBSET Nat]
    /\ \A r \in Runs : todo[r] # {} <=> task[r]["load"] = "running"
    /\ open \in Runs \cup {Nobody}
    /\ alerted \in [Runs -> SUBSET Steps]
    /\ wal = NoWal \/ wal \subseteq Files
    /\ {db, dropping, dropped} \subseteq BOOLEAN

\* A write-back reads scores whose two upstream models were made of one and
\* the same landing, and of one that has every file that its own run landed:
\* no half-built graph and no other run's is served (the order of the tasks,
\* max_active_runs = 1, and pipeline() stopping at the first non-zero exit).
ServesOwnBuild ==
    [][\A r \in Runs :
        (task'[r]["writeback"] = "done" /\ task[r]["writeback"] = "waiting") =>
            /\ table["scores"]["stg"] = table["scores"]["features"]
            /\ listed[r] \subseteq table["scores"]["features"]
            /\ target = "bigquery" => spanner_dims]_vars

\* A Composer run that ends without its write-back has mailed the failure of
\* one of its tasks.
FailedRunIsMailed ==
    \A r \in Runs :
        (target = "bigquery" /\ Started(r) /\ ~Active(r)
            /\ task[r]["writeback"] # "done") => alerted[r] # {}

\* Every run ends, whatever fails in it, and so lets the next one start.
RunsEnd == \A r \in Runs : Active(r) ~> ~Active(r)

\* The first landing after a drop-db that said OK finds nothing of the
\* database before it, also when an earlier drop-db was killed halfway.
FreshAfterDrop ==
    [][dropped /\ raw' # raw => \E r \in Runs : raw' = listed'[r]]_vars
=============================================================================

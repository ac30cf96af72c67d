---------------------------- MODULE PipelineProofs ----------------------------
(***************************************************************************)
(* Theorems about Pipeline, for any number of runs, files and dates.       *)
(*                                                                         *)
(* What a run has done it finds again: on BigQuery because no other run is *)
(* active (MutexInv), on DuckDB because the landings of other runs only    *)
(* add files and nobody builds while a run's dbt has the file open         *)
(* (BuildInv).  The rest follows the graph of the tasks (GraphInv).        *)
(***************************************************************************)
EXTENDS Pipeline, TLAPS

Tables == Models \cup {"scores"}

\* Tasks are done after their upstream; only the BigQuery landing takes steps.
GraphInv ==
    \A r \in Runs :
        /\ \A s \in Steps : task[r][s] = "running" => s = "load" /\ target = "bigquery"
        /\ \A s \in StepsOf(r) : task[r][s] = "done" =>
              \A u \in Upstream(r, s) : task[r][u] = "done"
        /\ Started(r) => \A s \in StepsOf(r) : task[r][s] # "idle"

MutexInv ==
    target = "bigquery" =>
        \A r, q \in Runs : Active(r) => r \in DagRuns /\ (Active(q) => q = r)

MailInv ==
    target = "bigquery" =>
        \A r \in Runs : (\E s \in Steps : task[r][s] \in {"failed", "skipped"})
                            => alerted[r] # {}

\* What a run has landed and built is there, while it is active.
BuiltBy(r) ==
    /\ task[r]["load"] = "running" =>
          {f \in listed[r] : DateOf[f] \notin todo[r]} \subseteq raw
    /\ task[r]["load"] = "done" => listed[r] \subseteq raw /\ (target = "duckdb" => db)
    /\ task[r]["spanner_load"] = "done" => spanner_dims
    /\ task[r]["stg"] = "done" => listed[r] \subseteq table["stg"]
    /\ task[r]["features"] = "done" => listed[r] \subseteq table["features"]
    /\ (task[r]["features"] = "done" /\ (target = "bigquery" \/ open = r))
          => table["features"] = table["stg"]
    /\ task[r]["scores"] = "done" => listed[r] \subseteq table["scores"]["features"]
BuildInv == \A r \in Runs : Active(r) => BuiltBy(r)

TableInv ==
    /\ DOMAIN table = Tables /\ table = [m \in Tables |-> table[m]]
    /\ table["scores"]["stg"] = table["scores"]["features"]

DropInv ==
    /\ dropping => ~db /\ target = "duckdb"
    /\ dropped => ~db /\ wal = NoWal /\ target = "duckdb"
    /\ (target = "duckdb" /\ ~db) => raw = {}

PipelineInv ==
    TypeOK /\ GraphInv /\ MutexInv /\ MailInv /\ BuildInv /\ TableInv /\ DropInv

-----------------------------------------------------------------------------
(* The tasks *)

LEMMA StepsFacts ==
    /\ \A r \in Runs : StepsOf(r) \subseteq Steps
    /\ \A r \in Runs : {"load", "stg", "features", "scores", "writeback"} \subseteq StepsOf(r)
    /\ \A r \in Runs : target = "bigquery" => "spanner_load" \in StepsOf(r)
    /\ \A r \in Runs : Upstream(r, "load") = {} /\ Upstream(r, "spanner_load") = {}
    /\ \A r \in Runs : "load" \in Upstream(r, "stg") /\ "stg" \in Upstream(r, "features")
    /\ \A r \in Runs : {"stg", "features"} \subseteq Upstream(r, "scores")
    /\ \A r \in Runs : {"stg", "features", "scores"} \subseteq Upstream(r, "writeback")
    /\ \A r \in Runs : target = "bigquery" =>
          "freshness" \in Upstream(r, "stg") /\ "spanner_load" \in Upstream(r, "freshness")
BY DEF StepsOf, Steps, Upstream, UpstreamOf

\* The status of one task changes.
LEMMA TaskBecomes ==
    ASSUME TypeOK, NEW r \in Runs, NEW s \in Steps, NEW status \in Status,
           Becomes(r, s, status)
    PROVE  /\ task' \in [Runs -> [Steps -> Status]]
           /\ task'[r][s] = status
           /\ \A q \in Runs, t \in Steps : (q # r \/ t # s) => task'[q][t] = task[q][t]
BY DEF TypeOK, Becomes

\* A task that was ready or running becomes what it may: the graph and the
\* mutual exclusion stay, and no run becomes active.
LEMMA TaskKeeps ==
    ASSUME PipelineInv, NEW r \in Runs, NEW s \in Steps, NEW status \in Status,
           Becomes(r, s, status), target' = target,
           CanFail(r, s),
           status \in {"running", "done", "failed"},
           status = "running" => s = "load" /\ target = "bigquery"
    PROVE  /\ GraphInv' /\ MutexInv'
           /\ Active(r)
           /\ \A q \in Runs : Active(q)' => Active(q)
<1>1. /\ task' \in [Runs -> [Steps -> Status]]
      /\ task'[r][s] = status
      /\ \A q \in Runs, t \in Steps : (q # r \/ t # s) => task'[q][t] = task[q][t]
  BY TaskBecomes DEF PipelineInv
<1>2. s \in StepsOf(r) /\ task[r][s] \in {"waiting", "running"}
      /\ \A u \in Upstream(r, s) : task[r][u] = "done"
  <2>1. CASE Ready(r, s)
    BY <2>1 DEF Ready
  <2>2. CASE task[r][s] = "running"
    BY <2>2, StepsFacts DEF PipelineInv, GraphInv
  <2> QED
    BY <2>1, <2>2 DEF CanFail
<1>3. \A q \in Runs : StepsOf(q)' = StepsOf(q)
      /\ \A t \in Steps : Upstream(q, t)' = Upstream(q, t) /\ Upstream(q, t) \subseteq Steps
  BY DEF StepsOf, Upstream, Steps
<1>4. Active(r)
  BY <1>2 DEF Active
<1>5. ASSUME NEW q \in Runs, Active(q)' PROVE Active(q)
  <2>1. CASE q = r
    BY <1>4, <2>1
  <2>2. CASE q # r
    BY <1>1, <1>3, <1>5, <2>2, StepsFacts DEF Active
  <2> QED
    BY <2>1, <2>2
<1>6. MutexInv'
  BY <1>5 DEF PipelineInv, MutexInv
<1>7. ASSUME NEW q \in Runs
      PROVE  /\ \A t \in Steps : task'[q][t] = "running" => t = "load" /\ target' = "bigquery"
             /\ \A t \in StepsOf(q)' : task'[q][t] = "done" =>
                   \A u \in Upstream(q, t)' : task'[q][u] = "done"
             /\ Started(q)' => \A t \in StepsOf(q)' : task'[q][t] # "idle"
  <2>1. \A t \in Steps : task'[q][t] = "running" => t = "load" /\ target' = "bigquery"
    BY <1>1 DEF PipelineInv, GraphInv
  <2>2. ASSUME NEW t \in StepsOf(q), task'[q][t] = "done", NEW u \in Upstream(q, t)
        PROVE  task'[q][u] = "done"
    <3>1. u \in Steps /\ t \in Steps
      BY <1>3, StepsFacts
    <3>2. task[q][u] = "done"
      <4>1. CASE q = r /\ t = s
        BY <1>2, <4>1
      <4>2. CASE ~(q = r /\ t = s)
        BY <1>1, <2>2, <3>1, <4>2 DEF PipelineInv, GraphInv
      <4> QED
        BY <4>1, <4>2
    <3> QED
      BY <1>1, <1>2, <3>1, <3>2
  <2>3. ASSUME Started(q)', NEW t \in StepsOf(q) PROVE task'[q][t] # "idle"
    <3>1. Started(q)
      BY <1>1, <1>2, <1>3, <2>3, StepsFacts DEF Started
    <3> QED
      BY <1>1, <3>1, StepsFacts DEF PipelineInv, GraphInv
  <2>4. ASSUME NEW t \in StepsOf(q)', task'[q][t] = "done", NEW u \in Upstream(q, t)'
        PROVE  task'[q][u] = "done"
    <3>1. t \in StepsOf(q) /\ t \in Steps
      BY <1>3, <2>4, StepsFacts
    <3>2. u \in Upstream(q, t)
      BY <1>3, <2>4, <3>1
    <3> QED
      BY <2>2, <2>4, <3>1, <3>2
  <2>5. Started(q)' => \A t \in StepsOf(q)' : task'[q][t] # "idle"
    BY <1>3, <2>3
  <2> QED
    BY <2>1, <2>4, <2>5
<1>8. GraphInv'
  BY <1>7 DEF GraphInv
<1> QED
  BY <1>4, <1>5, <1>6, <1>8

\* Nothing failed, nothing to mail.
LEMMA MailKeeps ==
    ASSUME PipelineInv, NEW r \in Runs, NEW s \in Steps, NEW status \in {"running", "done"},
           Becomes(r, s, status), target' = target, alerted' = alerted
    PROVE  MailInv'
<1>1. status \in Status
  BY DEF Status
<1>2. \A q \in Runs, t \in Steps :
          task'[q][t] \in {"failed", "skipped"} => task[q][t] \in {"failed", "skipped"}
  BY <1>1, TaskBecomes DEF PipelineInv
<1> QED
  BY <1>2 DEF PipelineInv, MailInv

\* A run that finds what it has done, and all others too, but for the task
\* that changes: what is left to show of each operation.
LEMMA ActiveStays ==
    ASSUME PipelineInv, \A q \in Runs : Active(q)' => Active(q),
           \A q \in Runs : Active(q) => BuiltBy(q)'
    PROVE  BuildInv'
BY DEF BuildInv

LEMMA StatusOf ==
    /\ {"load", "spanner_load", "freshness", "stg", "features", "scores", "eval",
        "writeback"} = Steps
    /\ {"idle", "waiting", "running", "done", "failed", "skipped"} = Status
    /\ Models = {"stg", "features"} /\ Tables = {"stg", "features", "scores"}
BY DEF Steps, Status, Models, Tables

-----------------------------------------------------------------------------
(* The landings *)

LEMMA LandedFacts ==
    /\ \A through \in Throughs : Selected(through) \subseteq Files
    /\ \A through \in Throughs : {DateOf[f] : f \in Selected(through)} \subseteq Nat
    /\ \A through \in Throughs :
          {DateOf[f] : f \in Selected(through)} = {} <=> Selected(through) = {}
    /\ \A through \in Throughs, rows \in SUBSET Files :
          /\ rows \subseteq Replaced(rows, Selected(through))
          /\ Selected(through) \subseteq Replaced(rows, Selected(through))
          /\ Replaced(rows, Selected(through)) \subseteq Files
    /\ \A through \in Throughs :
          Replaced({}, Selected(through)) = Selected(through)
<1>1. DateOf \in [Files -> Nat] /\ Throughs \subseteq Nat
  BY PipelineAssumption
<1>2. ASSUME NEW through \in Throughs, NEW rows \in SUBSET Files, NEW f \in rows
      PROVE  f \in Replaced(rows, Selected(through))
  <2>1. CASE \E g \in Selected(through) : DateOf[f] = DateOf[g]
    BY <1>1, <2>1 DEF Selected, Replaced
  <2>2. CASE ~ \E g \in Selected(through) : DateOf[f] = DateOf[g]
    BY <2>2 DEF Replaced
  <2> QED
    BY <2>1, <2>2
<1> QED
  BY <1>1, <1>2 DEF Selected, Replaced

LEMMA LoadKeeps ==
    ASSUME PipelineInv, NEW r \in Runs, NEW through \in Throughs, NEW killed \in BOOLEAN,
           Load(r, through, killed)
    PROVE  PipelineInv'
<1> DEFINE before == IF db THEN raw ELSE IF wal = NoWal THEN {} ELSE wal
           status == IF killed THEN "failed" ELSE "done"
<1>1. /\ target = "duckdb" /\ target' = target /\ Ready(r, "load") /\ open = Nobody
      /\ ~dropping /\ listed' = [listed EXCEPT ![r] = Selected(through)]
      /\ raw' = Replaced(before, Selected(through)) /\ db' = TRUE
      /\ wal' = IF killed THEN Selected(through) ELSE NoWal
      /\ dropped' = FALSE /\ Becomes(r, "load", status)
      /\ UNCHANGED <<spanner_dims, table, schedule, todo, open, alerted, dropping>>
  BY DEF Load
<1>2. /\ before \subseteq Files /\ (db => before = raw)
      /\ status \in Status /\ "load" \in Steps /\ status \in {"done", "failed"}
  BY DEF PipelineInv, TypeOK, Status, Steps
<1> HIDE DEF before, status
<1>3. /\ GraphInv' /\ MutexInv' /\ Active(r)
      /\ \A q \in Runs : Active(q)' => Active(q)
  BY <1>1, <1>2, TaskKeeps DEF CanFail
<1>4. /\ task' \in [Runs -> [Steps -> Status]] /\ task'[r]["load"] = status
      /\ \A q \in Runs, t \in Steps : (q # r \/ t # "load") => task'[q][t] = task[q][t]
  BY <1>1, <1>2, TaskBecomes DEF PipelineInv
<1>5. /\ Selected(through) \subseteq raw' /\ raw' \subseteq Files
      /\ Selected(through) \subseteq Files
      /\ db => raw \subseteq raw'
  BY <1>1, <1>2, LandedFacts
<1>6. TypeOK'
  <2>1. listed' \in [Runs -> SUBSET Files]
    BY <1>1, <1>5 DEF PipelineInv, TypeOK
  <2>2. \A q \in Runs : todo'[q] # {} <=> task'[q]["load"] = "running"
    <3>1. task[r]["load"] # "running"
      BY <1>1 DEF Ready
    <3> QED
      BY <1>1, <1>2, <1>4, <3>1 DEF PipelineInv, TypeOK
  <2>3. wal' = NoWal \/ wal' \subseteq Files
    BY <1>1, <1>5
  <2>4. {db', dropping', dropped'} \subseteq BOOLEAN
    BY <1>1 DEF PipelineInv, TypeOK
  <2> QED
    BY <1>1, <1>4, <1>5, <2>1, <2>2, <2>3, <2>4 DEF PipelineInv, TypeOK
<1>7. MailInv' /\ TableInv' /\ DropInv'
  BY <1>1 DEF PipelineInv, MailInv, TableInv, DropInv
<1>8. ASSUME NEW q \in Runs, Active(q) PROVE BuiltBy(q)'
  <2>1. BuiltBy(q) /\ task[q]["load"] # "running"
    BY <1>1, <1>8, StatusOf DEF PipelineInv, BuildInv, GraphInv
  <2>2. CASE q # r
    <3>1. listed'[q] = listed[q] /\ \A t \in Steps : task'[q][t] = task[q][t]
      BY <1>1, <1>4, <2>2 DEF PipelineInv, TypeOK
    <3>2. task[q]["load"] = "done" => listed[q] \subseteq raw'
      BY <1>1, <1>5, <2>1 DEF BuiltBy
    <3> QED
      BY <1>1, <2>1, <3>1, <3>2, StatusOf DEF BuiltBy
  <2>3. CASE q = r
    <3>1. task[r]["load"] = "waiting"
      BY <1>1 DEF Ready
    <3>2. /\ task[r]["stg"] # "done" /\ task[r]["features"] # "done" /\ task[r]["scores"] # "done"
      BY <3>1, StepsFacts DEF PipelineInv, GraphInv
    <3>3. \A t \in Steps \ {"load"} : task'[r][t] = task[r][t]
      BY <1>4
    <3>4. listed'[r] = Selected(through)
      BY <1>1 DEF PipelineInv, TypeOK
    <3> QED
      BY <1>1, <1>2, <1>4, <1>5, <2>1, <2>3, <3>2, <3>3, <3>4, StatusOf DEF BuiltBy
  <2> QED
    BY <2>2, <2>3
<1>9. BuildInv'
  BY <1>3, <1>8, ActiveStays
<1> QED
  BY <1>3, <1>6, <1>7, <1>9 DEF PipelineInv

\* On BigQuery the active run is the only one.
LEMMA OneActive ==
    ASSUME PipelineInv, target = "bigquery", NEW r \in Runs, Active(r),
           NEW q \in Runs, Active(q)
    PROVE  q = r
BY DEF PipelineInv, MutexInv

LEMMA BqListKeeps ==
    ASSUME PipelineInv, NEW r \in Runs, NEW through \in Throughs, BqList(r, through)
    PROVE  PipelineInv'
<1> DEFINE status == IF Selected(through) = {} THEN "done" ELSE "running"
<1>1. /\ target = "bigquery" /\ target' = target /\ Ready(r, "load")
      /\ listed' = [listed EXCEPT ![r] = Selected(through)]
      /\ todo' = [todo EXCEPT ![r] = {DateOf[f] : f \in Selected(through)}]
      /\ raw' = IF Selected(through) = {} THEN {} ELSE raw
      /\ Becomes(r, "load", status)
      /\ UNCHANGED <<spanner_dims, table, schedule, open, alerted, db, wal, dropping, dropped>>
  BY DEF BqList
<1>2. status \in Status /\ status \in {"running", "done"} /\ "load" \in Steps
  BY DEF Status, Steps
<1>3. /\ GraphInv' /\ MutexInv' /\ Active(r)
      /\ \A q \in Runs : Active(q)' => Active(q)
  BY <1>1, <1>2, TaskKeeps DEF CanFail
<1>4. /\ task' \in [Runs -> [Steps -> Status]] /\ task'[r]["load"] = status
      /\ \A q \in Runs, t \in Steps : (q # r \/ t # "load") => task'[q][t] = task[q][t]
  BY <1>1, <1>2, TaskBecomes DEF PipelineInv
<1>5. /\ Selected(through) \subseteq Files
      /\ {DateOf[f] : f \in Selected(through)} \subseteq Nat
      /\ {DateOf[f] : f \in Selected(through)} = {} <=> status = "done"
  BY LandedFacts
<1>6. /\ listed'[r] = Selected(through)
      /\ todo'[r] = {DateOf[f] : f \in Selected(through)}
      /\ \A q \in Runs : q # r => todo'[q] = todo[q] /\ listed'[q] = listed[q]
  BY <1>1 DEF PipelineInv, TypeOK
<1>7. TypeOK'
  <2>1. listed' \in [Runs -> SUBSET Files] /\ todo' \in [Runs -> SUBSET Nat]
    BY <1>1, <1>5 DEF PipelineInv, TypeOK
  <2>2. \A q \in Runs : todo'[q] # {} <=> task'[q]["load"] = "running"
    BY <1>2, <1>4, <1>5, <1>6 DEF PipelineInv, TypeOK
  <2>3. raw' \subseteq Files
    BY <1>1 DEF PipelineInv, TypeOK
  <2> QED
    BY <1>1, <1>4, <2>1, <2>2, <2>3 DEF PipelineInv, TypeOK
<1>8. TableInv' /\ DropInv'
  BY <1>1 DEF PipelineInv, TableInv, DropInv
<1>9. MailInv'
  BY <1>1, <1>2, MailKeeps
<1>10. BuiltBy(r)'
  <2>1. task[r]["load"] = "waiting"
    BY <1>1 DEF Ready
  <2>2. /\ task[r]["stg"] # "done" /\ task[r]["features"] # "done" /\ task[r]["scores"] # "done"
    BY <2>1, StepsFacts DEF PipelineInv, GraphInv
  <2>3. \A t \in Steps \ {"load"} : task'[r][t] = task[r][t]
    BY <1>4
  <2>4. BuiltBy(r)
    BY <1>3 DEF PipelineInv, BuildInv
  <2>5. /\ {f \in listed'[r] : DateOf[f] \notin todo'[r]} = {}
        /\ status = "done" => listed'[r] = {}
    BY <1>6
  <2> QED
    BY <1>1, <1>4, <2>2, <2>3, <2>4, <2>5, StatusOf DEF BuiltBy
<1>11. BuildInv'
  BY <1>1, <1>3, <1>10, OneActive, ActiveStays
<1> QED
  BY <1>3, <1>7, <1>8, <1>9, <1>11 DEF PipelineInv

LEMMA BqLoadDateKeeps ==
    ASSUME PipelineInv, NEW r \in Runs, BqLoadDate(r)
    PROVE  PipelineInv'
<1> DEFINE date == Min(todo[r])
           files == {f \in listed[r] : DateOf[f] = date}
           status == IF todo[r] = {date} THEN "done" ELSE "running"
<1>1. /\ task[r]["load"] = "running" /\ raw' = Replaced(raw, files)
      /\ todo' = [todo EXCEPT ![r] = @ \ {date}]
      /\ Becomes(r, "load", status)
      /\ UNCHANGED <<target, spanner_dims, table, schedule, listed, open, alerted,
                     db, wal, dropping, dropped>>
  BY DEF BqLoadDate
<1>2. status \in Status /\ status \in {"running", "done"} /\ "load" \in Steps
  BY DEF Status, Steps
<1>3. target = "bigquery" /\ todo[r] # {} /\ listed[r] \subseteq Files
  BY <1>1, StatusOf DEF PipelineInv, GraphInv, TypeOK
<1>4. status = "done" <=> todo[r] \ {date} = {}
  BY <1>3
<1> HIDE DEF date, status
<1>5. /\ GraphInv' /\ MutexInv' /\ Active(r)
      /\ \A q \in Runs : Active(q)' => Active(q)
  BY <1>1, <1>2, <1>3, TaskKeeps DEF CanFail
<1>6. /\ task' \in [Runs -> [Steps -> Status]] /\ task'[r]["load"] = status
      /\ \A q \in Runs, t \in Steps : (q # r \/ t # "load") => task'[q][t] = task[q][t]
  BY <1>1, <1>2, TaskBecomes DEF PipelineInv
<1>7. /\ todo'[r] = todo[r] \ {date}
      /\ \A q \in Runs : q # r => todo'[q] = todo[q]
  BY <1>1 DEF PipelineInv, TypeOK
<1>8. TypeOK'
  <2>1. todo' \in [Runs -> SUBSET Nat]
    BY <1>1 DEF PipelineInv, TypeOK
  <2>2. \A q \in Runs : todo'[q] # {} <=> task'[q]["load"] = "running"
    BY <1>2, <1>4, <1>6, <1>7 DEF PipelineInv, TypeOK
  <2>3. raw' \subseteq Files
    BY <1>1, <1>3 DEF PipelineInv, TypeOK, Replaced
  <2> QED
    BY <1>1, <1>6, <2>1, <2>2, <2>3 DEF PipelineInv, TypeOK
<1>9. TableInv' /\ DropInv'
  BY <1>1, <1>3 DEF PipelineInv, TableInv, DropInv
<1>10. MailInv'
  BY <1>1, <1>2, MailKeeps
<1>11. BuiltBy(r)'
  <2>1. BuiltBy(r)
    BY <1>5 DEF PipelineInv, BuildInv
  <2>2. /\ task[r]["stg"] # "done" /\ task[r]["features"] # "done" /\ task[r]["scores"] # "done"
    BY <1>1, StepsFacts DEF PipelineInv, GraphInv
  <2>3. \A t \in Steps \ {"load"} : task'[r][t] = task[r][t]
    BY <1>6
  <2>4. {f \in listed[r] : DateOf[f] \notin todo'[r]} \subseteq raw'
    <3>1. ASSUME NEW f \in listed[r], DateOf[f] \notin todo'[r] PROVE f \in raw'
      <4>1. CASE DateOf[f] = date
        BY <1>1, <4>1 DEF Replaced
      <4>2. CASE DateOf[f] # date
        BY <1>1, <1>7, <2>1, <3>1, <4>2 DEF BuiltBy, Replaced
      <4> QED
        BY <4>1, <4>2
    <3> QED
      BY <3>1
  <2>5. status = "done" => listed[r] \subseteq raw'
    BY <1>4, <1>7, <2>4
  <2> QED
    BY <1>1, <1>2, <1>3, <1>6, <2>1, <2>2, <2>3, <2>4, <2>5, StatusOf DEF BuiltBy
<1>12. BuildInv'
  BY <1>3, <1>5, <1>11, OneActive, ActiveStays
<1> QED
  BY <1>5, <1>8, <1>9, <1>10, <1>12 DEF PipelineInv

\* A step that ends well and changes no table.
LEMMA QuietKeeps ==
    ASSUME PipelineInv, NEW r \in Runs,
           NEW s \in {"spanner_load", "freshness", "eval", "writeback"},
           Ready(r, s), Becomes(r, s, "done"),
           spanner_dims' \in BOOLEAN, spanner_dims => spanner_dims',
           s = "spanner_load" => spanner_dims',
           schedule' \in Scores,
           UNCHANGED <<target, raw, table, listed, todo, open, alerted, db, wal,
                       dropping, dropped>>
    PROVE  PipelineInv'
<1>1. "done" \in Status /\ s \in Steps /\ s # "load"
  BY DEF Status, Steps
<1>2. /\ GraphInv' /\ MutexInv' /\ Active(r)
      /\ \A q \in Runs : Active(q)' => Active(q)
  BY <1>1, TaskKeeps DEF CanFail
<1>3. /\ task' \in [Runs -> [Steps -> Status]]
      /\ \A q \in Runs, t \in Steps : (q # r \/ t # s) => task'[q][t] = task[q][t]
  BY <1>1, TaskBecomes DEF PipelineInv
<1>4. TypeOK'
  <2>1. \A q \in Runs : todo'[q] # {} <=> task'[q]["load"] = "running"
    BY <1>1, <1>3, StatusOf DEF PipelineInv, TypeOK
  <2> QED
    BY <1>3, <2>1 DEF PipelineInv, TypeOK
<1>5. TableInv' /\ DropInv'
  BY DEF PipelineInv, TableInv, DropInv
<1>6. MailInv'
  BY <1>1, MailKeeps
<1>7. ASSUME NEW q \in Runs, Active(q) PROVE BuiltBy(q)'
  <2>1. BuiltBy(q)
    BY <1>7 DEF PipelineInv, BuildInv
  <2>2. /\ \A t \in {"load", "stg", "features", "scores"} : task'[q][t] = task[q][t]
        /\ task'[q]["spanner_load"] = task[q]["spanner_load"] \/ spanner_dims'
    BY <1>3, StatusOf
  <2> QED
    BY <2>1, <2>2 DEF BuiltBy
<1>8. BuildInv'
  BY <1>2, <1>7, ActiveStays
<1> QED
  BY <1>2, <1>4, <1>5, <1>6, <1>8 DEF PipelineInv

LEMMA SpannerLoadKeeps ==
    ASSUME PipelineInv, NEW r \in Runs, SpannerLoad(r) PROVE PipelineInv'
BY QuietKeeps DEF SpannerLoad, PipelineInv, TypeOK

LEMMA FreshnessKeeps ==
    ASSUME PipelineInv, NEW r \in Runs, Freshness(r) PROVE PipelineInv'
BY QuietKeeps DEF Freshness, PipelineInv, TypeOK

LEMMA EvalKeeps ==
    ASSUME PipelineInv, NEW r \in Runs, Eval(r) PROVE PipelineInv'
BY QuietKeeps DEF Eval, PipelineInv, TypeOK

LEMMA WriteBackKeeps ==
    ASSUME PipelineInv, NEW r \in Runs, WriteBack(r) PROVE PipelineInv'
<1>1. schedule' \in Scores
  BY DEF WriteBack, PipelineInv, TypeOK
<1> QED
  BY <1>1, QuietKeeps DEF WriteBack, PipelineInv, TypeOK

-----------------------------------------------------------------------------
(* dbt *)

LEMMA ModelFacts ==
    ASSUME PipelineInv, NEW r \in Runs, NEW m \in Tables, Model(r, m)
    PROVE  /\ GraphInv' /\ MutexInv' /\ MailInv' /\ DropInv' /\ Active(r)
           /\ \A q \in Runs : Active(q)' => Active(q)
           /\ task' \in [Runs -> [Steps -> Status]] /\ task'[r][m] = "done"
           /\ \A q \in Runs, t \in Steps : (q # r \/ t # m) => task'[q][t] = task[q][t]
           /\ DOMAIN table' = Tables /\ table' = [n \in Tables |-> table'[n]]
           /\ \A n \in Tables \ {m} : table'[n] = table[n]
           /\ task[r][m] = "waiting" /\ \A u \in Upstream(r, m) : task[r][u] = "done"
<1>1. m \in Steps /\ m \in {"stg", "features", "scores"} /\ "done" \in Status
  BY StatusOf
<1>2. Ready(r, m) /\ Becomes(r, m, "done") /\ target' = target /\ alerted' = alerted
  BY DEF Model
<1>3. /\ GraphInv' /\ MutexInv' /\ Active(r)
      /\ \A q \in Runs : Active(q)' => Active(q)
  BY <1>1, <1>2, TaskKeeps DEF CanFail
<1>4. MailInv'
  BY <1>1, <1>2, MailKeeps
<1>5. /\ task' \in [Runs -> [Steps -> Status]] /\ task'[r][m] = "done"
      /\ \A q \in Runs, t \in Steps : (q # r \/ t # m) => task'[q][t] = task[q][t]
  BY <1>1, <1>2, TaskBecomes DEF PipelineInv
<1>6. DropInv'
  BY DEF Model, PipelineInv, DropInv
<1>7. /\ DOMAIN table' = Tables /\ table' = [n \in Tables |-> table'[n]]
      /\ \A n \in Tables \ {m} : table'[n] = table[n]
  <2>1. PICK made : table' = [table EXCEPT ![m] = made]
    BY DEF Model
  <2>2. DOMAIN table = Tables /\ table = [n \in Tables |-> table[n]]
    BY DEF PipelineInv, TableInv
  <2> QED
    BY <2>1, <2>2
<1> QED
  BY <1>2, <1>3, <1>4, <1>5, <1>6, <1>7 DEF Ready

\* What a model leaves alone.
LEMMA ModelTypes ==
    ASSUME PipelineInv, NEW r \in Runs, NEW m \in Tables, Model(r, m),
           \A n \in Models : table'[n] \subseteq Files, table'["scores"] \in Scores
    PROVE  TypeOK'
<1>1. /\ UNCHANGED <<target, raw, spanner_dims, schedule, listed, todo, alerted, db,
                     dropping, dropped>>
      /\ open' \in Runs \cup {Nobody} /\ wal' = NoWal
  BY DEF Model
<1>2. \A q \in Runs : todo'[q] # {} <=> task'[q]["load"] = "running"
  BY <1>1, ModelFacts, StatusOf DEF PipelineInv, TypeOK
<1> QED
  BY <1>1, <1>2, ModelFacts DEF PipelineInv, TypeOK

\* Events: every active run that is past them has its landing in raw.
LEMMA StgKeeps ==
    ASSUME PipelineInv, NEW r \in Runs, Model(r, "stg") PROVE PipelineInv'
<1>1. "stg" \in Tables /\ Models = {"stg", "features"}
  BY StatusOf
<1>2. /\ table'["stg"] = raw
      /\ open' = IF target = "duckdb" THEN r ELSE Nobody
      /\ UNCHANGED <<target, raw, spanner_dims, listed, todo, db>>
  BY <1>1 DEF Model, PipelineInv, TableInv
<1>3. table'["features"] = table["features"] /\ table'["scores"] = table["scores"]
  BY <1>1, ModelFacts, StatusOf
<1>4. TypeOK'
  BY <1>1, <1>2, <1>3, ModelTypes DEF PipelineInv, TypeOK
<1>5. TableInv'
  BY <1>1, <1>3, ModelFacts DEF PipelineInv, TableInv
<1>6. ASSUME NEW q \in Runs, Active(q) PROVE BuiltBy(q)'
  <2>1. BuiltBy(q)
    BY <1>6 DEF PipelineInv, BuildInv
  <2>2. \A t \in Steps \ {"stg"} : task'[q][t] = task[q][t]
    BY <1>1, ModelFacts
  <2>3. task'[q]["stg"] = "done" => task[q]["load"] = "done"
    <3>1. CASE q = r
      BY <1>1, <3>1, ModelFacts, StepsFacts
    <3>2. CASE q # r
      BY <1>1, <3>2, ModelFacts, StepsFacts, StatusOf DEF PipelineInv, GraphInv
    <3> QED
      BY <3>1, <3>2
  <2>4. ~(task[q]["features"] = "done" /\ (target = "bigquery" \/ open' = q))
    <3>1. task[r]["features"] # "done"
      BY <1>1, ModelFacts, StepsFacts DEF PipelineInv, GraphInv
    <3>2. (target = "bigquery" \/ open' = q) => q = r
      BY <1>1, <1>2, <1>6, ModelFacts, OneActive, PipelineAssumption DEF PipelineInv, TypeOK
    <3> QED
      BY <3>1, <3>2
  <2> QED
    BY <1>2, <1>3, <2>1, <2>2, <2>3, <2>4, StatusOf DEF BuiltBy
<1>7. BuildInv'
  BY <1>1, <1>6, ModelFacts, ActiveStays
<1> QED
  BY <1>1, <1>4, <1>5, <1>7, ModelFacts DEF PipelineInv

LEMMA FeaturesKeeps ==
    ASSUME PipelineInv, NEW r \in Runs, Model(r, "features") PROVE PipelineInv'
<1>1. "features" \in Tables /\ Models = {"stg", "features"}
  BY StatusOf
<1>2. /\ table'["features"] = table["stg"]
      /\ UNCHANGED <<target, raw, spanner_dims, listed, todo, db>>
  BY <1>1 DEF Model, PipelineInv, TableInv
<1>3. table'["stg"] = table["stg"] /\ table'["scores"] = table["scores"]
  BY <1>1, ModelFacts, StatusOf
<1>4. TypeOK'
  BY <1>1, <1>2, <1>3, ModelTypes DEF PipelineInv, TypeOK
<1>5. TableInv'
  BY <1>1, <1>3, ModelFacts DEF PipelineInv, TableInv
<1>6. ASSUME NEW q \in Runs, Active(q) PROVE BuiltBy(q)'
  <2>1. BuiltBy(q)
    BY <1>6 DEF PipelineInv, BuildInv
  <2>2. \A t \in Steps \ {"features"} : task'[q][t] = task[q][t]
    BY <1>1, ModelFacts
  <2>3. task'[q]["features"] = "done" => task[q]["stg"] = "done"
    <3>1. CASE q = r
      BY <1>1, <3>1, ModelFacts, StepsFacts
    <3>2. CASE q # r
      BY <1>1, <3>2, ModelFacts, StepsFacts, StatusOf DEF PipelineInv, GraphInv
    <3> QED
      BY <3>1, <3>2
  <2> QED
    BY <1>2, <1>3, <2>1, <2>2, <2>3, StatusOf DEF BuiltBy
<1>7. BuildInv'
  BY <1>1, <1>6, ModelFacts, ActiveStays
<1> QED
  BY <1>1, <1>4, <1>5, <1>7, ModelFacts DEF PipelineInv

\* The scores: nobody has built since this run's first model.
LEMMA ScoresKeeps ==
    ASSUME PipelineInv, NEW r \in Runs, Model(r, "scores") PROVE PipelineInv'
<1>1. "scores" \in Tables /\ Models = {"stg", "features"}
  BY StatusOf
<1>2. /\ table'["scores"] = [n \in Models |-> table[n]]
      /\ open' = Nobody /\ MayOpen(r, "scores")
      /\ UNCHANGED <<target, raw, spanner_dims, listed, todo, db>>
  BY <1>1 DEF Model, PipelineInv, TableInv
<1>3. table'["stg"] = table["stg"] /\ table'["features"] = table["features"]
  BY <1>1, ModelFacts, StatusOf
<1>4. TypeOK'
  <2>1. table'["scores"] \in Scores
    BY <1>2 DEF PipelineInv, TypeOK, Scores
  <2> QED
    BY <1>1, <1>3, <2>1, ModelTypes DEF PipelineInv, TypeOK
<1>5. TableInv'
  <2>1. task[r]["features"] = "done" /\ Active(r)
    BY <1>1, ModelFacts, StepsFacts
  <2>2. target = "bigquery" \/ open = r
    BY <1>2 DEF MayOpen, PipelineInv, TypeOK
  <2>3. table["features"] = table["stg"]
    BY <2>1, <2>2 DEF PipelineInv, BuildInv, BuiltBy
  <2> QED
    BY <1>1, <1>2, <2>3, ModelFacts DEF TableInv
<1>6. ASSUME NEW q \in Runs, Active(q) PROVE BuiltBy(q)'
  <2>1. BuiltBy(q)
    BY <1>6 DEF PipelineInv, BuildInv
  <2>2. \A t \in Steps \ {"scores"} : task'[q][t] = task[q][t]
    BY <1>1, ModelFacts
  <2>3. task'[q]["scores"] = "done" => task[q]["features"] = "done"
    <3>1. CASE q = r
      BY <1>1, <3>1, ModelFacts, StepsFacts
    <3>2. CASE q # r
      BY <1>1, <3>2, ModelFacts, StepsFacts, StatusOf DEF PipelineInv, GraphInv
    <3> QED
      BY <3>1, <3>2
  <2>4. open' # q
    BY <1>2, PipelineAssumption
  <2> QED
    BY <1>1, <1>2, <1>3, <2>1, <2>2, <2>3, <2>4, StatusOf DEF BuiltBy
<1>7. BuildInv'
  BY <1>1, <1>6, ModelFacts, ActiveStays
<1> QED
  BY <1>1, <1>4, <1>5, <1>7, ModelFacts DEF PipelineInv

LEMMA ModelKeeps ==
    ASSUME PipelineInv, NEW r \in Runs, NEW m \in Tables, Model(r, m) PROVE PipelineInv'
BY StgKeeps, FeaturesKeeps, ScoresKeeps, StatusOf

-----------------------------------------------------------------------------
(* Failures *)

LEMMA FailKeeps ==
    ASSUME PipelineInv, NEW r \in Runs, NEW s \in Steps, Fail(r, s) PROVE PipelineInv'
<1>1. /\ CanFail(r, s) /\ Becomes(r, s, "failed") /\ Alerts(r, s)
      /\ open' = (IF open = r THEN Nobody ELSE open)
      /\ todo' = [todo EXCEPT ![r] = {}]
      /\ UNCHANGED <<target, raw, spanner_dims, table, schedule, listed,
                     db, wal, dropping, dropped>>
  BY DEF Fail
<1>2. "failed" \in Status
  BY DEF Status
<1>3. /\ GraphInv' /\ MutexInv' /\ Active(r)
      /\ \A q \in Runs : Active(q)' => Active(q)
  BY <1>1, <1>2, TaskKeeps
<1>4. /\ task' \in [Runs -> [Steps -> Status]] /\ task'[r][s] = "failed"
      /\ \A q \in Runs, t \in Steps : (q # r \/ t # s) => task'[q][t] = task[q][t]
  BY <1>1, <1>2, TaskBecomes DEF PipelineInv
<1>5. /\ todo'[r] = {} /\ task'[r]["load"] # "running"
      /\ \A q \in Runs : q # r => todo'[q] = todo[q]
  <2>1. task'[r]["load"] # "running"
    <3>1. CASE s = "load"
      BY <1>4, <3>1
    <3>2. CASE s # "load"
      <4>1. Ready(r, s)
        BY <1>1, <3>2 DEF CanFail, PipelineInv, GraphInv
      <4>2. task[r]["load"] # "running"
        BY <4>1, StatusOf DEF Ready, SlotFree, PipelineInv, GraphInv
      <4> QED
        BY <1>4, <3>2, <4>2, StatusOf
    <3> QED
      BY <3>1, <3>2
  <2> QED
    BY <1>1, <2>1 DEF PipelineInv, TypeOK
<1>6. /\ alerted' \in [Runs -> SUBSET Steps]
      /\ \A q \in Runs : alerted[q] \subseteq alerted'[q]
      /\ target = "bigquery" => alerted'[r] # {}
  BY <1>1 DEF Alerts, PipelineInv, TypeOK
<1>7. TypeOK'
  <2>1. \A q \in Runs : todo'[q] # {} <=> task'[q]["load"] = "running"
    BY <1>4, <1>5, StatusOf DEF PipelineInv, TypeOK
  <2>2. todo' \in [Runs -> SUBSET Nat]
    BY <1>1 DEF PipelineInv, TypeOK
  <2> QED
    BY <1>1, <1>4, <1>6, <2>1, <2>2 DEF PipelineInv, TypeOK
<1>8. TableInv' /\ DropInv'
  BY <1>1 DEF PipelineInv, TableInv, DropInv
<1>9. MailInv'
  BY <1>1, <1>4, <1>6 DEF PipelineInv, MailInv
<1>10. ASSUME NEW q \in Runs, Active(q) PROVE BuiltBy(q)'
  <2>1. BuiltBy(q)
    BY <1>10 DEF PipelineInv, BuildInv
  <2>2. \A t \in Steps : task'[q][t] = task[q][t] \/ (q = r /\ task'[q][t] = "failed")
    BY <1>4
  <2>3. open' = q => open = q
    BY <1>1, PipelineAssumption
  <2>4. task'[q]["load"] = "running" => todo'[q] = todo[q]
    BY <1>5
  <2> QED
    BY <1>1, <2>1, <2>2, <2>3, <2>4, StatusOf DEF BuiltBy
<1>11. BuildInv'
  BY <1>3, <1>10, ActiveStays
<1> QED
  BY <1>3, <1>7, <1>8, <1>9, <1>11 DEF PipelineInv

LEMMA SkipKeeps ==
    ASSUME PipelineInv, NEW r \in Runs, Skip(r) PROVE PipelineInv'
<1> DEFINE blocked == {s \in StepsOf(r) : task[r][s] = "waiting" /\ Blocked(r, s)}
<1>1. /\ task' = [task EXCEPT ![r] = [s \in Steps |-> IF s \in blocked
                                                      THEN "skipped" ELSE @[s]]]
      /\ UNCHANGED <<target, raw, spanner_dims, table, schedule, listed, todo, open,
                     alerted, db, wal, dropping, dropped>>
  BY DEF Skip
<1>2. /\ blocked \subseteq Steps /\ "load" \notin blocked
      /\ \A s \in blocked : task[r][s] = "waiting"
      /\ \A s \in blocked : \E t \in Steps : task[r][t] \in {"failed", "skipped"}
  <2>1. "load" \notin blocked
    BY StepsFacts DEF Blocked
  <2>2. \A s \in blocked : \E t \in Steps : task[r][t] \in {"failed", "skipped"}
    BY StepsFacts DEF Blocked, Upstream
  <2> QED
    BY <2>1, <2>2, StepsFacts
<1> HIDE DEF blocked
<1>3. /\ task' \in [Runs -> [Steps -> Status]]
      /\ \A q \in Runs, t \in Steps :
            task'[q][t] = IF q = r /\ t \in blocked THEN "skipped" ELSE task[q][t]
  <2>1. task \in [Runs -> [Steps -> Status]] /\ "skipped" \in Status
    BY DEF PipelineInv, TypeOK, Status
  <2> QED
    BY <1>1, <2>1
<1>4. \A q \in Runs : StepsOf(q)' = StepsOf(q) /\ StepsOf(q) \subseteq Steps
      /\ \A t \in Steps : Upstream(q, t)' = Upstream(q, t) /\ Upstream(q, t) \subseteq Steps
  BY <1>1 DEF StepsOf, Upstream, Steps
<1>5. ASSUME NEW q \in Runs, Active(q)' PROVE Active(q)
  BY <1>2, <1>3, <1>4, <1>5 DEF Active
<1>6. MutexInv'
  BY <1>1, <1>5 DEF PipelineInv, MutexInv
<1>7. GraphInv'
  <2>1. \A q \in Runs, t \in Steps : task'[q][t] = "running" => t = "load" /\ target' = "bigquery"
    BY <1>1, <1>3 DEF PipelineInv, GraphInv
  <2>2. ASSUME NEW q \in Runs, NEW t \in StepsOf(q), task'[q][t] = "done",
               NEW u \in Upstream(q, t)
        PROVE  task'[q][u] = "done"
    <3>1. t \in Steps /\ u \in Steps
      BY <1>4
    <3>2. task[q][u] = "done"
      BY <1>3, <2>2, <3>1 DEF PipelineInv, GraphInv
    <3> QED
      BY <1>2, <1>3, <3>1, <3>2
  <2>3. ASSUME NEW q \in Runs, Started(q)', NEW t \in StepsOf(q) PROVE task'[q][t] # "idle"
    <3>1. Started(q)
      BY <1>2, <1>3, <1>4, <2>3 DEF Started
    <3> QED
      BY <1>3, <1>4, <3>1 DEF PipelineInv, GraphInv
  <2>4. ASSUME NEW q \in Runs, NEW t \in StepsOf(q)', task'[q][t] = "done",
               NEW u \in Upstream(q, t)'
        PROVE  task'[q][u] = "done"
    <3>1. t \in StepsOf(q) /\ t \in Steps
      BY <1>4, <2>4
    <3>2. u \in Upstream(q, t)
      BY <1>4, <2>4, <3>1
    <3> QED
      BY <2>2, <2>4, <3>1, <3>2
  <2>5. \A q \in Runs : Started(q)' => \A t \in StepsOf(q)' : task'[q][t] # "idle"
    BY <1>4, <2>3
  <2> QED
    BY <2>1, <2>4, <2>5 DEF GraphInv
<1>8. MailInv'
  BY <1>1, <1>2, <1>3 DEF PipelineInv, MailInv
<1>9. TypeOK'
  <2>1. \A q \in Runs : todo'[q] # {} <=> task'[q]["load"] = "running"
    BY <1>1, <1>2, <1>3, StatusOf DEF PipelineInv, TypeOK
  <2> QED
    BY <1>1, <1>3, <2>1 DEF PipelineInv, TypeOK
<1>10. TableInv' /\ DropInv'
  BY <1>1 DEF PipelineInv, TableInv, DropInv
<1>11. ASSUME NEW q \in Runs, Active(q) PROVE BuiltBy(q)'
  <2>1. BuiltBy(q)
    BY <1>11 DEF PipelineInv, BuildInv
  <2>2. \A t \in Steps : task'[q][t] = task[q][t] \/ task'[q][t] = "skipped"
    BY <1>3
  <2> QED
    BY <1>1, <2>1, <2>2, StatusOf DEF BuiltBy
<1>12. BuildInv'
  BY <1>5, <1>11, ActiveStays
<1> QED
  BY <1>6, <1>7, <1>8, <1>9, <1>10, <1>12 DEF PipelineInv

-----------------------------------------------------------------------------
(* The start of a run, and drop-db *)

LEMMA TriggerKeeps ==
    ASSUME PipelineInv, NEW r \in Runs, Trigger(r) PROVE PipelineInv'
<1>1. /\ ~Active(r)
      /\ r \in MakeRuns => target = "duckdb"
      /\ task' = [q \in Runs |-> IF q = r
                                 THEN [s \in Steps |-> IF s \in StepsOf(r) THEN "waiting" ELSE "idle"]
                                 ELSE IF Active(q) THEN task[q] ELSE [s \in Steps |-> "idle"]]
      /\ listed' = [q \in Runs |-> IF Active(q) THEN listed[q] ELSE {}]
      /\ alerted' = [q \in Runs |-> IF Active(q) THEN alerted[q] ELSE {}]
      /\ UNCHANGED <<target, raw, spanner_dims, table, schedule, todo, open, db, wal,
                     dropping, dropped>>
  BY DEF Trigger, Starts
<1>2. \A q \in Runs : StepsOf(q)' = StepsOf(q) /\ StepsOf(q) \subseteq Steps
      /\ \A t \in Steps : Upstream(q, t)' = Upstream(q, t)
  BY <1>1 DEF StepsOf, Upstream, Steps
<1>3. /\ \A t \in Steps : task'[r][t] = IF t \in StepsOf(r) THEN "waiting" ELSE "idle"
      /\ \A q \in Runs : q # r /\ Active(q) =>
            task'[q] = task[q] /\ listed'[q] = listed[q] /\ alerted'[q] = alerted[q]
      /\ \A q \in Runs, t \in Steps : q # r /\ ~Active(q) => task'[q][t] = "idle"
  BY <1>1
<1>4. ASSUME NEW q \in Runs, q # r, Active(q)' PROVE Active(q)
  BY <1>2, <1>3, <1>4 DEF Active
<1>5. TypeOK'
  <2>1. task' \in [Runs -> [Steps -> Status]]
    <3>1. task \in [Runs -> [Steps -> Status]] /\ {"waiting", "idle"} \subseteq Status
      BY DEF PipelineInv, TypeOK, Status
    <3> QED
      BY <1>1, <3>1
  <2>2. \A q \in Runs : ~Active(q) => task[q]["load"] # "running"
    BY StepsFacts DEF Active
  <2>3. \A q \in Runs : todo'[q] # {} <=> task'[q]["load"] = "running"
    BY <1>1, <1>3, <2>2, StatusOf DEF PipelineInv, TypeOK
  <2>4. listed' \in [Runs -> SUBSET Files] /\ alerted' \in [Runs -> SUBSET Steps]
    BY <1>1 DEF PipelineInv, TypeOK
  <2> QED
    BY <1>1, <2>1, <2>3, <2>4 DEF PipelineInv, TypeOK
<1>6. MutexInv'
  <2>1. ASSUME target = "bigquery" PROVE \A q \in Runs : ~Active(q)
    <3>1. r \in DagRuns
      BY <1>1, <2>1 DEF Runs
    <3> QED
      BY <2>1, <3>1 DEF Trigger, PipelineInv, MutexInv
  <2>2. ASSUME target = "bigquery" PROVE r \in DagRuns
    BY <1>1, <2>2 DEF Runs
  <2> QED
    BY <1>1, <1>4, <2>1, <2>2 DEF MutexInv
<1>7. GraphInv'
  <2>1. \A q \in Runs : /\ q # r /\ Active(q)
                        \/ \A t \in Steps : task'[q][t] \in {"waiting", "idle"}
    BY <1>3
  <2>2. \A q \in Runs, t \in Steps : task'[q][t] = "running" => t = "load" /\ target' = "bigquery"
    BY <1>1, <1>3, <2>1 DEF PipelineInv, GraphInv
  <2>3. ASSUME NEW q \in Runs, NEW t \in StepsOf(q)', task'[q][t] = "done",
               NEW u \in Upstream(q, t)'
        PROVE  task'[q][u] = "done"
    <3>1. t \in StepsOf(q) /\ t \in Steps
      BY <1>2, <2>3
    <3>2. u \in Upstream(q, t)
      BY <1>2, <2>3, <3>1
    <3>3. q # r /\ Active(q)
      BY <2>1, <2>3, <3>1
    <3>4. task'[q] = task[q]
      BY <1>3, <3>3
    <3> QED
      BY <2>3, <3>1, <3>2, <3>4 DEF PipelineInv, GraphInv
  <2>4. ASSUME NEW q \in Runs, Started(q)', NEW t \in StepsOf(q)' PROVE task'[q][t] # "idle"
    <3>1. t \in StepsOf(q) /\ t \in Steps
      BY <1>2, <2>4
    <3>2. CASE q = r
      BY <1>3, <3>1, <3>2
    <3>3. CASE q # r /\ Active(q)
      <4>1. task'[q] = task[q]
        BY <1>3, <3>3
      <4>2. Started(q)
        BY <3>3 DEF Started, Active
      <4> QED
        BY <3>1, <4>1, <4>2 DEF PipelineInv, GraphInv
    <3>4. CASE q # r /\ ~Active(q)
      BY <1>2, <1>3, <2>4, <3>4 DEF Started
    <3> QED
      BY <3>2, <3>3, <3>4
  <2> QED
    BY <2>2, <2>3, <2>4 DEF GraphInv
<1>8. MailInv'
  BY <1>1, <1>3 DEF PipelineInv, MailInv
<1>9. TableInv' /\ DropInv'
  BY <1>1 DEF PipelineInv, TableInv, DropInv
<1>10. ASSUME NEW q \in Runs, Active(q)' PROVE BuiltBy(q)'
  <2>1. CASE q = r
    BY <1>3, <2>1, StatusOf DEF BuiltBy
  <2>2. CASE q # r
    <3>1. BuiltBy(q) /\ task'[q] = task[q] /\ listed'[q] = listed[q]
      BY <1>3, <1>4, <1>10, <2>2 DEF PipelineInv, BuildInv
    <3> QED
      BY <1>1, <3>1 DEF BuiltBy
  <2> QED
    BY <2>1, <2>2
<1> QED
  BY <1>5, <1>6, <1>7, <1>8, <1>9, <1>10 DEF PipelineInv, BuildInv

\* While nothing runs the tables may go.
LEMMA DropFileKeeps == ASSUME PipelineInv, DropFile PROVE PipelineInv'
<1>1. /\ target = "duckdb" /\ Resting
      /\ db' = FALSE /\ raw' = {} /\ schedule' = NoScores /\ dropping' = TRUE
      /\ table' = [m \in Tables |-> IF m = "scores" THEN NoScores ELSE {}]
      /\ UNCHANGED <<target, spanner_dims, task, listed, todo, open, alerted, wal, dropped>>
  BY DEF DropFile, Tables
<1>2. NoScores \in Scores /\ NoScores["stg"] = NoScores["features"]
  BY DEF NoScores, Scores, Models
<1>3. TypeOK'
  <2>1. \A m \in Models : table'[m] \subseteq Files
    BY <1>1 DEF Tables, Models
  <2>2. table'["scores"] \in Scores
    BY <1>1, <1>2 DEF Tables
  <2> QED
    BY <1>1, <1>2, <2>1, <2>2 DEF PipelineInv, TypeOK
<1>4. TableInv'
  BY <1>1, <1>2 DEF TableInv, Tables
<1>5. DropInv' /\ MailInv'
  BY <1>1 DEF PipelineInv, DropInv, MailInv
<1>6. GraphInv'
  BY <1>1 DEF PipelineInv, GraphInv, StepsOf, Upstream, Started
<1>7. \A q \in Runs : ~Active(q)'
  BY <1>1 DEF Resting, Active, StepsOf
<1> QED
  BY <1>3, <1>4, <1>5, <1>6, <1>7 DEF PipelineInv, MutexInv, BuildInv

\* The state but for the log and what is said of it.
LEMMA LogKeeps ==
    ASSUME PipelineInv, dropping' \in BOOLEAN, dropped' \in BOOLEAN,
           wal' = NoWal \/ wal' = wal, DropInv',
           UNCHANGED <<target, raw, spanner_dims, table, schedule, task, listed, todo,
                       open, alerted, db>>
    PROVE  PipelineInv'
<1>1. TypeOK' /\ TableInv' /\ MailInv'
  BY DEF PipelineInv, TypeOK, TableInv, MailInv
<1>2. \A q \in Runs : Active(q)' = Active(q) /\ BuiltBy(q)' = BuiltBy(q)
  BY DEF Active, StepsOf, BuiltBy
<1>3. GraphInv'
  BY DEF PipelineInv, GraphInv, StepsOf, Upstream, Started
<1> QED
  BY <1>1, <1>2, <1>3 DEF PipelineInv, MutexInv, BuildInv

LEMMA DropWalKeeps == ASSUME PipelineInv, DropWal PROVE PipelineInv'
<1>1. DropInv'
  BY DEF DropWal, PipelineInv, DropInv
<1> QED
  BY <1>1, LogKeeps DEF DropWal

LEMMA DropKilledKeeps == ASSUME PipelineInv, DropKilled PROVE PipelineInv'
<1>1. DropInv' /\ dropped' \in BOOLEAN
  BY DEF DropKilled, PipelineInv, DropInv, TypeOK
<1> QED
  BY <1>1, LogKeeps DEF DropKilled

-----------------------------------------------------------------------------
LEMMA InitPipeline == Init => PipelineInv
<1> SUFFICES ASSUME Init PROVE PipelineInv
  OBVIOUS
<1>1. NoScores \in Scores /\ NoScores["stg"] = NoScores["features"]
  BY DEF NoScores, Scores, Models
<1>2. /\ task \in [Runs -> [Steps -> Status]]
      /\ \A r \in Runs, s \in Steps : task[r][s] = "idle"
  BY StatusOf DEF Init
<1>3. TypeOK
  <2>1. \A m \in Models : table[m] \subseteq Files
    BY DEF Init, Models
  <2>2. table["scores"] \in Scores
    BY <1>1 DEF Init
  <2>3. \A r \in Runs : todo[r] # {} <=> task[r]["load"] = "running"
    BY <1>2, StatusOf DEF Init
  <2> QED
    BY <1>1, <1>2, <2>1, <2>2, <2>3 DEF Init, TypeOK
<1>4. TableInv
  BY <1>1 DEF Init, TableInv, Tables
<1>5. \A r \in Runs : ~Active(r) /\ ~Started(r)
  BY <1>2, StepsFacts DEF Active, Started
<1>6. GraphInv
  BY <1>2, <1>5, StepsFacts DEF GraphInv
<1>7. MutexInv /\ MailInv /\ BuildInv /\ DropInv
  BY <1>2, <1>5 DEF Init, MutexInv, MailInv, BuildInv, DropInv
<1> QED
  BY <1>3, <1>4, <1>6, <1>7 DEF PipelineInv

LEMMA NextPipeline == PipelineInv /\ [Next]_vars => PipelineInv'
<1> SUFFICES ASSUME PipelineInv, [Next]_vars PROVE PipelineInv'
  OBVIOUS
<1>1. CASE DropDb
  BY <1>1, DropFileKeeps, DropWalKeeps, DropKilledKeeps DEF DropDb
<1>2. ASSUME NEW r \in Runs, Trigger(r) PROVE PipelineInv'
  BY <1>2, TriggerKeeps
<1>3. ASSUME NEW r \in Runs, Step(r) PROVE PipelineInv'
  <2>1. CASE Land(r)
    BY <2>1, BqListKeeps, LoadKeeps, BqLoadDateKeeps, SpannerLoadKeeps DEF Land
  <2>2. CASE Freshness(r) \/ Eval(r) \/ WriteBack(r)
    BY <2>2, FreshnessKeeps, EvalKeeps, WriteBackKeeps
  <2>3. CASE \E m \in Models \cup {"scores"} : Model(r, m)
    BY <2>3, ModelKeeps DEF Tables
  <2>4. CASE \E s \in Steps : Fail(r, s)
    BY <2>4, FailKeeps
  <2>5. CASE Skip(r)
    BY <2>5, SkipKeeps
  <2> QED
    BY <1>3, <2>1, <2>2, <2>3, <2>4, <2>5 DEF Step
<1>4. CASE UNCHANGED vars
  <2>1. DropInv'
    BY <1>4 DEF vars, PipelineInv, DropInv
  <2>2. dropping' \in BOOLEAN /\ dropped' \in BOOLEAN
    BY <1>4 DEF vars, PipelineInv, TypeOK
  <2> QED
    BY <1>4, <2>1, <2>2, LogKeeps DEF vars
<1> QED
  BY <1>1, <1>2, <1>3, <1>4 DEF Next

\* Only the write-back itself is ever done as one.
LEMMA WriteBackStep ==
    ASSUME PipelineInv, [Next]_vars, NEW r \in Runs,
           task[r]["writeback"] = "waiting", task'[r]["writeback"] = "done"
    PROVE  WriteBack(r)
<1>1. \A q \in Runs, s \in Steps, status \in Status :
          Becomes(q, s, status) => q = r /\ s = "writeback" /\ status = "done"
  BY TaskBecomes, StatusOf DEF PipelineInv
<1>2. \A q \in Runs, status \in Status, s \in Steps \ {"writeback"} : ~Becomes(q, s, status)
  BY <1>1
<1>3. ~DropDb /\ ~UNCHANGED vars
  BY DEF DropDb, DropFile, DropWal, DropKilled, vars
<1>4. ASSUME NEW q \in Runs, Trigger(q) PROVE FALSE
  <2>1. task'[r]["writeback"] \in {"waiting", "idle", task[r]["writeback"]}
    BY <1>4, StatusOf DEF Trigger, Starts
  <2> QED
    BY <2>1
<1>5. ASSUME NEW q \in Runs, Step(q) PROVE WriteBack(r)
  <2>1. CASE Land(q)
    <3>1. \E status \in Status, s \in {"load", "spanner_load"} : Becomes(q, s, status)
      BY <2>1, StatusOf DEF Land, Load, BqList, BqLoadDate, SpannerLoad
    <3> QED
      BY <1>2, <3>1, StatusOf
  <2>2. CASE Freshness(q) \/ Eval(q)
    BY <1>2, <2>2, StatusOf DEF Freshness, Eval
  <2>3. CASE \E m \in Models \cup {"scores"} : Model(q, m)
    BY <1>2, <2>3, StatusOf DEF Model
  <2>4. CASE WriteBack(q)
    BY <1>1, <2>4, StatusOf DEF WriteBack
  <2>5. CASE \E s \in Steps : Fail(q, s)
    BY <1>1, <2>5, StatusOf DEF Fail
  <2>6. CASE Skip(q)
    <3>1. task'[r]["writeback"] \in {"skipped", task[r]["writeback"]}
      BY <2>6, StatusOf DEF Skip, PipelineInv, TypeOK
    <3> QED
      BY <3>1
  <2> QED
    BY <1>5, <2>1, <2>2, <2>3, <2>4, <2>5, <2>6 DEF Step
<1> QED
  BY <1>3, <1>4, <1>5 DEF Next

-----------------------------------------------------------------------------
\* The inductive invariant holds of every behaviour of the runs.
THEOREM PipelineInvariant == Spec => []PipelineInv
BY InitPipeline, NextPipeline, PTL DEF Spec

\* Every variable of the pipeline has its type, and a BigQuery landing has
\* dates left exactly while it runs.
THEOREM PipelineTyped == Spec => []TypeOK
<1>1. PipelineInv => TypeOK
  BY DEF PipelineInv
<1> QED
  BY <1>1, PipelineInvariant, PTL

\* A Composer run that ends without its write-back has mailed a failure
\* (on_failure_callback of composer_dag.py's default_args).
THEOREM PipelineFailedRunIsMailed == Spec => []FailedRunIsMailed
<1>1. PipelineInv => FailedRunIsMailed
  <2> SUFFICES ASSUME PipelineInv, NEW r \in Runs, target = "bigquery",
                      Started(r), ~Active(r), task[r]["writeback"] # "done"
               PROVE  alerted[r] # {}
    BY DEF FailedRunIsMailed
  <2>1. "writeback" \in StepsOf(r) /\ "writeback" \in Steps
    BY StepsFacts, StatusOf
  <2>2. task[r]["writeback"] \in Status
    BY <2>1 DEF PipelineInv, TypeOK
  <2>3. task[r]["writeback"] \in {"failed", "skipped"}
    BY <2>1, <2>2 DEF PipelineInv, GraphInv, Active, Status
  <2> QED
    BY <2>1, <2>3 DEF PipelineInv, MailInv
<1> QED
  BY <1>1, PipelineInvariant, PTL

\* Nothing half-built and nothing of another run is served (the order of the
\* tasks, max_active_runs, the single writer of DuckDB).
THEOREM PipelineServesOwnBuild == Spec => ServesOwnBuild
<1>1. ASSUME PipelineInv, [Next]_vars, NEW r \in Runs,
             task'[r]["writeback"] = "done", task[r]["writeback"] = "waiting"
      PROVE  /\ table["scores"]["stg"] = table["scores"]["features"]
             /\ listed[r] \subseteq table["scores"]["features"]
             /\ target = "bigquery" => spanner_dims
  <2>1. table["scores"]["stg"] = table["scores"]["features"]
    BY <1>1 DEF PipelineInv, TableInv
  <2>2. Active(r) /\ BuiltBy(r)
    BY <1>1, StepsFacts DEF Active, PipelineInv, BuildInv
  <2>3. \A u \in Upstream(r, "writeback") : task[r][u] = "done"
    BY <1>1, WriteBackStep DEF WriteBack, Ready
  <2>4. task[r]["scores"] = "done" /\ task[r]["stg"] = "done"
    BY <2>3, StepsFacts
  <2>5. ASSUME target = "bigquery" PROVE task[r]["spanner_load"] = "done"
    <3>1. /\ "freshness" \in Upstream(r, "stg") /\ "freshness" \in StepsOf(r)
          /\ "spanner_load" \in Upstream(r, "freshness") /\ "stg" \in StepsOf(r)
      BY <2>5, StepsFacts DEF StepsOf, Steps
    <3>2. task[r]["freshness"] = "done"
      BY <1>1, <2>4, <3>1 DEF PipelineInv, GraphInv
    <3> QED
      BY <1>1, <3>1, <3>2 DEF PipelineInv, GraphInv
  <2> QED
    BY <2>1, <2>2, <2>4, <2>5 DEF BuiltBy
<1>2. PipelineInv /\ [Next]_vars =>
        [\A r \in Runs :
            (task'[r]["writeback"] = "done" /\ task[r]["writeback"] = "waiting") =>
                /\ table["scores"]["stg"] = table["scores"]["features"]
                /\ listed[r] \subseteq table["scores"]["features"]
                /\ target = "bigquery" => spanner_dims]_vars
  BY <1>1
<1> QED
  BY <1>2, PipelineInvariant, PTL DEF Spec, ServesOwnBuild

\* After a drop-db that said OK the first landing finds nothing of the
\* database before it (drop_db unlinks the log with the file).
THEOREM PipelineFreshAfterDrop == Spec => FreshAfterDrop
<1>1. ASSUME PipelineInv, [Next]_vars, dropped, raw' # raw
      PROVE  \E r \in Runs : raw' = listed'[r]
  <2>1. ~db /\ wal = NoWal /\ target = "duckdb" /\ raw = {}
    BY <1>1 DEF PipelineInv, DropInv
  <2>2. ~DropDb /\ ~UNCHANGED vars
    BY <1>1, <2>1 DEF DropDb, DropFile, DropWal, DropKilled, vars
  <2>3. \A r \in Runs : ~Trigger(r)
    BY <1>1 DEF Trigger, Starts
  <2>4. ASSUME NEW r \in Runs, Step(r) PROVE raw' = listed'[r]
    <3>1. PICK through \in Throughs, killed \in BOOLEAN : Load(r, through, killed)
      <4>1. ~BqLoadDate(r) /\ \A through \in Throughs : ~BqList(r, through)
        BY <1>1, <2>1, StatusOf DEF BqLoadDate, BqList, PipelineInv, GraphInv
      <4>2. ~SpannerLoad(r) /\ ~Freshness(r) /\ ~Eval(r) /\ ~WriteBack(r) /\ ~Skip(r)
        BY <1>1 DEF SpannerLoad, Freshness, Eval, WriteBack, Skip
      <4>3. /\ \A m \in Models \cup {"scores"} : ~Model(r, m)
            /\ \A s \in Steps : ~Fail(r, s)
        BY <1>1 DEF Model, Fail
      <4> QED
        BY <2>4, <4>1, <4>2, <4>3 DEF Step, Land
    <3>2. raw' = Replaced({}, Selected(through)) /\ listed' = [listed EXCEPT ![r] = Selected(through)]
      BY <2>1, <3>1 DEF Load
    <3>3. raw' = Selected(through)
      BY <3>2, LandedFacts
    <3>4. listed'[r] = Selected(through)
      BY <1>1, <3>2 DEF PipelineInv, TypeOK
    <3> QED
      BY <3>3, <3>4
  <2> QED
    BY <1>1, <2>2, <2>3, <2>4 DEF Next
<1>2. PipelineInv /\ [Next]_vars =>
        [dropped /\ raw' # raw => \E r \in Runs : raw' = listed'[r]]_vars
  BY <1>1
<1> QED
  BY <1>2, PipelineInvariant, PTL DEF Spec, FreshAfterDrop
=============================================================================

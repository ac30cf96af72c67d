--------------------------- MODULE IncrementalBuild ---------------------------
(***************************************************************************)
(* The incremental warehouse build: `dbt build` after a landing.           *)
(*                                                                         *)
(* The export is a sequence of raw event copies in upload order.  A        *)
(* landing puts every exported file uploaded on or before THROUGH into     *)
(* raw.events, one upload-date partition at a time.  The build then        *)
(* brings three incremental tables up to date, in order, each in a commit  *)
(* of its own:                                                             *)
(*                                                                         *)
(*    stg_events    one row per insert_id, the earliest copy               *)
(*    stg_prompts   one row per prompt_sent, with its first receipt        *)
(*    attribution   one row per prompt: its evidence and its status        *)
(*                                                                         *)
(* An incremental build of a model recomputes only the date partitions     *)
(* within `Lookback` days of the horizon, the latest upload date it can    *)
(* see.  The question of the module is when that is enough: when the       *)
(* accumulated tables are those a build from scratch would make.           *)
(*                                                                         *)
(* Days are integers.  What a label is computed from is kept (the set of   *)
(* the prompt's events and its receipt), the label itself is not: two      *)
(* rows with the same evidence have the same label (module Attribution).   *)
(***************************************************************************)
EXTENDS Integers

CONSTANTS
    Copies,       \* the rows of the export, duplicates included
    Ids,          \* the insert_ids
    Prompts,      \* the prompt_ids
    NoPrompt,     \* what an app_opened has instead of a prompt_id
    IdOf,         \* [Copies -> Ids]
    Rank,         \* [Copies -> Nat], the order of (server_upload_time,
                  \* server_received_time, client_event_time)
    UploadDay,    \* [Copies -> 0..LastDay], the date of server_upload_time
    EventDate,    \* [Ids -> Int], the local date of client_event_time
    ClientRank,   \* [Ids -> Nat], the order of (client_event_time, insert_id)
    PromptOf,     \* [Ids -> Prompts \cup {NoPrompt}]
    SentEvent,    \* [Prompts -> Ids], the prompt's prompt_sent event
    Receipts,     \* SUBSET Ids, the prompt_delivered events
    LastDay,      \* the last upload date of the export
    Throughs,     \* the THROUGH dates a landing may be asked for
    Lookback,     \* var lookback_days
    Margin,       \* var source_prune_margin_days
    Late,         \* the most days an upload is behind the local date of its
                  \* event, or of its prompt
    Ahead         \* the most days a local date is ahead of the upload

ASSUME DataAssumption ==
    /\ NoPrompt \notin Prompts
    /\ IdOf \in [Copies -> Ids]
    /\ Rank \in [Copies -> Nat]
    /\ LastDay \in Nat
    /\ UploadDay \in [Copies -> 0..LastDay]
    /\ EventDate \in [Ids -> Int]
    /\ ClientRank \in [Ids -> Nat]
    /\ PromptOf \in [Ids -> Prompts \cup {NoPrompt}]
    /\ SentEvent \in [Prompts -> Ids]
    /\ Receipts \subseteq Ids
    /\ Throughs \subseteq Int

\* lookback_days covers the late arrivals, source_prune_margin_days the time
\* zones: the identities pinned by tests/test_incremental.py, in whole days.
ASSUME ParameterAssumption ==
    /\ Lookback \in Nat /\ Late \in Nat /\ Late < Lookback
    /\ Margin \in Nat /\ Ahead \in Nat /\ Ahead < Margin

(***************************************************************************)
(* Copies that tie on the three clocks are identical by contract (the      *)
(* landing refuses the others), so one of them stands for all; a copy      *)
(* uploaded on an earlier day precedes one of a later day.                 *)
(***************************************************************************)
ASSUME OrderAssumption ==
    /\ \A c, d \in Copies : Rank[c] = Rank[d] => c = d
    /\ \A c, d \in Copies : UploadDay[c] < UploadDay[d] => Rank[c] < Rank[d]

ASSUME PromptAssumption ==
    \A p \in Prompts : PromptOf[SentEvent[p]] = p

\* What the generator and the time zones allow between the clocks of an event.
ASSUME ClockAssumption ==
    \A c \in Copies :
        LET i == IdOf[c]
        IN /\ UploadDay[c] <= EventDate[i] + Late
           /\ EventDate[i] <= UploadDay[c] + Ahead
           /\ PromptOf[i] # NoPrompt =>
                 UploadDay[c] <= EventDate[SentEvent[PromptOf[i]]] + Late

VARIABLES
    target,       \* the warehouse: "duckdb" or "bigquery"
    exported,     \* the copies in the export's files so far
    raw,          \* raw.events
    stgEvents,    \* staging.stg_events, a set of copies
    stgPrompts,   \* staging.stg_prompts
    attribution,  \* attribution.attribution
    built,        \* the models whose relation exists in the warehouse
    stage,        \* how far the current `dbt build` has come
    fullRefresh   \* it runs with --full-refresh (FULL=yes)

\* History variables: they record, and no action of the build reads them.
VARIABLES
    basis,        \* [Models -> SUBSET Copies], what each model was last
                  \* built from: raw for stg_events, else stg_events
    reach         \* [Models -> Nat], the most days of uploads any build of
                  \* the model, or of one upstream, has had to catch up on
                  \* since it was last rebuilt from scratch

vars == <<target, exported, raw, stgEvents, stgPrompts, attribution, built, stage,
          fullRefresh, basis, reach>>

Models == {"stg_events", "stg_prompts", "attribution"}
Stages == {"idle", "landed", "staged", "prompted", "built"}

-----------------------------------------------------------------------------
(* What the models compute. *)

\* The first copy of each insert_id: the row_number() of the dedupe.
Dedupe(rows) ==
    {c \in rows : \A d \in rows : IdOf[d] = IdOf[c] => Rank[c] <= Rank[d]}

\* max(server_upload_time) as a date.  An empty table has no horizon and
\* gives an empty batch; 0 stands for it.
Horizon(rows) ==
    IF rows = {} THEN 0
    ELSE CHOOSE day \in {UploadDay[c] : c \in rows} :
            \A c \in rows : UploadDay[c] <= day

\* The reprocessing window, and the boundary that must not be strict;
\* a lookback that covers the late arrivals of one day catches up on one.
InLookbackStrict(date, horizon) == horizon - date < Lookback
InLookbackOfADay(date, horizon) == horizon - date <= Late + 1
InLookback(date, horizon) == horizon - date <= Lookback

EventDateOf(c) == EventDate[IdOf[c]]
PromptDate(p) == EventDate[SentEvent[p]]

\* The insert_ids of a prompt's events among the rows of stg_events.
Evidence(p, rows) ==
    {i \in Ids : PromptOf[i] = p /\ \E c \in rows : IdOf[c] = i}

First(ids) == {i \in ids : \A j \in ids : ClientRank[i] <= ClientRank[j]}

PromptRow(p, rows) ==
    [prompt |-> p, delivered |-> First(Evidence(p, rows) \cap Receipts)]

\* select * from stg_prompts, over a whole stg_events
PromptsOf(rows) ==
    {PromptRow(p, rows) : p \in {q \in Prompts : \E c \in rows : IdOf[c] = SentEvent[q]}}

\* Not before Lookback: on the last day of the late arrivals, hours of it may
\* still be to come.
StatusNoElse(p, horizon) ==
    IF horizon - PromptDate(p) >= Lookback THEN "final" ELSE "null"
StatusEarly(p, horizon) ==
    IF horizon - PromptDate(p) >= Late THEN "final" ELSE "provisional"
Status(p, horizon) ==
    IF horizon - PromptDate(p) >= Lookback THEN "final" ELSE "provisional"

AttributionRow(row, rows, horizon) ==
    [prompt    |-> row.prompt,
     delivered |-> row.delivered,
     evidence  |-> Evidence(row.prompt, rows),
     status    |-> Status(row.prompt, horizon)]

AttributionOf(prompts, rows) ==
    {AttributionRow(row, rows, Horizon(rows)) : row \in prompts}

-----------------------------------------------------------------------------
(* How a model is materialized. *)

Incremental(model) == model \in built /\ ~fullRefresh

\* The rows in the partitions that a batch has rows of.
RowDate(row) == PromptDate(row.prompt)
StaleEvents(batch) ==
    {c \in stgEvents : EventDateOf(c) \in {EventDateOf(b) : b \in batch}}
StaleRows(table, batch) ==
    {row \in table : RowDate(row) \in {RowDate(b) : b \in batch}}

\* partition_overwrite: delete those, insert the batch.
Replaced(table, stale, batch) == batch
Overwritten(table, stale, batch) == (table \ stale) \cup batch

\* The raw rows an incremental build of stg_events scans.  On BigQuery the scan
\* is pruned to uploads at most Lookback + Margin days before the latest one,
\* to the microsecond: of the boundary day it keeps the copies from `r` on.
ScanFrom(bound, r) ==
    {c \in raw : \/ UploadDay[c] > bound
                 \/ UploadDay[c] = bound /\ Rank[c] >= r}
ScansNoMargin ==
    IF target = "bigquery" /\ Incremental("stg_events")
    THEN {ScanFrom(Horizon(raw) - Lookback, 0)}
    ELSE {raw}
Scans ==
    IF target = "bigquery" /\ Incremental("stg_events")
    THEN {ScanFrom(Horizon(raw) - (Lookback + Margin), r) :
            r \in {0} \cup {Rank[c] + 1 : c \in raw}}
    ELSE {raw}

\* How many days of uploads separate the horizon from the oldest row that was
\* not there when the model was last built, or from the horizon of that build.
CatchUp(rows, old, horizon) ==
    LET days == {Horizon(old)} \cup {UploadDay[c] : c \in rows \ old}
    IN horizon - (CHOOSE day \in days : \A other \in days : day <= other)

MaxOf(a, b) == IF a >= b THEN a ELSE b

\* The bookkeeping of a build of `model` over the rows `source`, `rows` of them
\* after the dedupe, with `upstream` the reach of the model it reads.
Record(model, source, rows, upstream) ==
    /\ built' = built \cup {model}
    /\ basis' = [basis EXCEPT ![model] = source]
    /\ reach' = [reach EXCEPT ![model] =
            IF Incremental(model)
            THEN MaxOf(MaxOf(@, upstream), CatchUp(rows, basis[model], Horizon(source)))
            ELSE upstream]

-----------------------------------------------------------------------------
Init ==
    /\ target \in {"duckdb", "bigquery"}
    /\ exported = {}
    /\ raw = {}
    /\ stgEvents = {} /\ stgPrompts = {} /\ attribution = {}
    /\ built = {}
    /\ stage = "idle"
    /\ fullRefresh = FALSE
    /\ basis = [m \in Models |-> {}]
    /\ reach = [m \in Models |-> 0]

\* The export writes its next hourly file: copies appear in upload order.
Export(c) ==
    /\ c \notin exported
    /\ \A d \in Copies : Rank[d] < Rank[c] => d \in exported
    /\ exported' = exported \cup {c}
    /\ UNCHANGED <<target, raw, stgEvents, stgPrompts, attribution, built, stage,
                   fullRefresh, basis, reach>>

\* The upload-date partitions of the selected files replace those of raw.events.
\* A selection of no file leaves it alone on DuckDB; on BigQuery it empties it,
\* which is not in this module (see Landing).
LandPartitions(through) ==
    LET files == {c \in exported : UploadDay[c] <= through}
        dates == {UploadDay[c] : c \in files}
    IN /\ files = {} => target = "duckdb"
       /\ raw' = {c \in raw : UploadDay[c] \notin dates} \cup files

Land(through) ==
    /\ stage \in {"idle", "built"}
    /\ LandPartitions(through)
    /\ stage' = "landed"
    /\ fullRefresh' \in BOOLEAN
    /\ UNCHANGED <<target, exported, stgEvents, stgPrompts, attribution, built,
                   basis, reach>>

\* On BigQuery each partition is a load job of its own, in date order: a crash
\* leaves the dates up to `last` landed, and no build starts.
LandCrash(last) ==
    /\ target = "bigquery"
    /\ stage \in {"idle", "built"}
    /\ LandPartitions(last)
    /\ stage' = "idle"
    /\ UNCHANGED <<target, exported, stgEvents, stgPrompts, attribution, built,
                   fullRefresh, basis, reach>>

BuildStgEvents ==
    /\ stage = "landed"
    /\ \E scan \in Scans :
          LET staged == Dedupe(scan)
              batch  == {c \in staged : InLookback(EventDateOf(c), Horizon(raw))}
          IN stgEvents' = IF Incremental("stg_events")
                          THEN Overwritten(stgEvents, StaleEvents(batch), batch)
                          ELSE staged
    /\ Record("stg_events", raw, Dedupe(raw), 0)
    /\ stage' = "staged"
    /\ UNCHANGED <<target, exported, raw, stgPrompts, attribution, fullRefresh>>

BuildStgPrompts ==
    /\ stage = "staged"
    /\ LET staged == PromptsOf(stgEvents)
           batch  == {row \in staged : InLookback(RowDate(row), Horizon(stgEvents))}
       IN stgPrompts' = IF Incremental("stg_prompts")
                        THEN Overwritten(stgPrompts, StaleRows(stgPrompts, batch), batch)
                        ELSE staged
    /\ Record("stg_prompts", stgEvents, stgEvents, reach["stg_events"])
    /\ stage' = "prompted"
    /\ UNCHANGED <<target, exported, raw, stgEvents, attribution, fullRefresh>>

BuildAttribution ==
    /\ stage = "prompted"
    /\ LET labelled == AttributionOf(stgPrompts, stgEvents)
           batch == {row \in labelled : InLookback(RowDate(row), Horizon(stgEvents))}
       IN attribution' = IF Incremental("attribution")
                         THEN Overwritten(attribution, StaleRows(attribution, batch), batch)
                         ELSE labelled
    /\ Record("attribution", stgEvents, stgEvents, reach["stg_prompts"])
    /\ stage' = "built"
    /\ UNCHANGED <<target, exported, raw, stgEvents, stgPrompts, fullRefresh>>

\* A model or one of its tests fails: dbt skips everything downstream, the
\* models built before it keep their commits, and nothing is retried.
Fail ==
    /\ stage \in {"landed", "staged", "prompted"}
    /\ stage' = "idle"
    /\ UNCHANGED <<target, exported, raw, stgEvents, stgPrompts, attribution, built,
                   fullRefresh, basis, reach>>

Next ==
    \/ \E c \in Copies : Export(c)
    \/ \E through \in Throughs : Land(through)
    \/ \E last \in Throughs : LandCrash(last)
    \/ BuildStgEvents
    \/ BuildStgPrompts
    \/ BuildAttribution
    \/ Fail

Spec == Init /\ [][Next]_vars

-----------------------------------------------------------------------------
(* Properties. *)

PromptRows == [prompt : Prompts, delivered : SUBSET Ids]
AttributionRows ==
    [prompt : Prompts, delivered : SUBSET Ids, evidence : SUBSET Ids,
     status : {"provisional", "final"}]

\* Every variable has its type, and a model not built yet is empty.
TypeOK ==
    /\ target \in {"duckdb", "bigquery"}
    /\ exported \subseteq Copies
    /\ raw \subseteq exported
    /\ stgEvents \subseteq Copies
    /\ stgPrompts \subseteq PromptRows
    /\ attribution \subseteq AttributionRows
    /\ built \subseteq Models
    /\ stage \in Stages
    /\ fullRefresh \in BOOLEAN
    /\ basis \in [Models -> SUBSET Copies]
    /\ reach \in [Models -> Nat]

\* However the builds were spaced and whichever of them failed, stg_events never
\* holds two copies of an event, nor any copy but the earliest one landed: the
\* partition overwrite never splits a duplicate, pruned scan or not.
OneCopyPerEvent == stgEvents \subseteq Dedupe(raw)

\* One row per prompt in stg_prompts and in attribution (the unique tests).
OneRowPerPrompt ==
    /\ \A r, s \in stgPrompts : r.prompt = s.prompt => r = s
    /\ \A r, s \in attribution : r.prompt = s.prompt => r = s

Evidences(rows) ==
    {[prompt |-> r.prompt, delivered |-> r.delivered, evidence |-> r.evidence] : r \in rows}

\* No build had to catch up on so many days that the lookback misses the latest
\* of the late arrivals.
InReach == reach["attribution"] + Late <= Lookback

\* Builds that keep within reach leave the tables a build from scratch would
\* make of raw.events, but for the status of old prompts: no event is lost, no
\* label differs.
EvidenceConverges ==
    stage = "built" /\ InReach =>
        /\ stgEvents = Dedupe(raw)
        /\ stgPrompts = PromptsOf(stgEvents)
        /\ Evidences(attribution) = Evidences(AttributionOf(stgPrompts, stgEvents))

\* Builds at most a day apart leave exactly those tables, statuses included: the
\* day a partition is Lookback days old is the one on which it is both
\* reprocessed and final.
DailyBuildIsFullBuild ==
    stage = "built" /\ reach["attribution"] <= 1 =>
        /\ stgEvents = Dedupe(raw)
        /\ stgPrompts = PromptsOf(stgEvents)
        /\ attribution = AttributionOf(stgPrompts, stgEvents)

\* A final label never changes (ARCHITECTURE invariant 3), as long as the builds
\* keep within reach: not even a rebuild from scratch changes what it rests on.
FinalNeverChanges ==
    [][InReach /\ InReach' =>
        \A r \in attribution : r.status = "final" => r \in attribution']_vars

\* A prompt once labelled stays labelled, and its status only advances from
\* provisional to final, whatever was lost on the way.
StatusOnlyAdvances ==
    [][\A r \in attribution : \E s \in attribution' :
          s.prompt = r.prompt /\ (r.status = "final" => s.status = "final")]_vars

\* The builds run over the raw.events that the landing provides (Landing shows
\* that its jobs and transactions do).
Exports == {{d \in Copies : Rank[d] <= Rank[c]} : c \in Copies}
Table == INSTANCE RawEvents
             WITH Rows <- Copies, UploadDate <- UploadDay, Dates <- Throughs,
                  Exports <- Exports,
                  available <- exported,
                  table <- [c \in Copies |-> IF c \in raw THEN 1 ELSE 0]
IsRawEvents == Table!Spec

(* What the repository says of the builds, and the code does not do. *)

\* Successive builds at most lookback_days apart.
WithinLookback == reach["attribution"] <= Lookback

\* DECISIONS.md: the incremental tables converge to the union when intervals are
\* spaced <= lookback_days.  No event is missing after builds that far apart.
BackfillLosesNoEvent ==
    stage = "built" /\ WithinLookback => stgEvents = Dedupe(raw)

\* docs/ARCHITECTURE.md: `final` once a partition is >= LOOKBACK_DAYS behind the
\* horizon, `provisional` otherwise.  After builds that far apart, it is so.
FinalOnceOld ==
    stage = "built" /\ WithinLookback =>
        \A r \in attribution : r.status = Status(r.prompt, Horizon(stgEvents))
=============================================================================

# A TLA+ model of the on-time rate recovery pipeline

The program takes the hourly files of an analytics export, lands them in a
warehouse, builds attribution labels and send-time scores from them with dbt,
and writes the send time of every user back into a serving table. It runs once
a day, on DuckDB (one file, one process at a time) or on BigQuery and Spanner.
Its correctness claims are about *repetition*: a day landed twice, a day
skipped, a build that stopped half-way, a run that was retried or raced
another, and nothing of it visible in the result. That is what these modules
are about.

Paths below are relative to the repository.

## 1. Inventory

| Component | State | Operations | Talks to |
|---|---|---|---|
| Landing, DuckDB (`landing/load.py`) | `raw.events`, `raw.dim_user` in the file | `load(through)`: partitions, dims, conflict search in one transaction; `drop-db` | reads the export's files; the build follows |
| Landing, BigQuery (`landing/bq.py`) | the same tables, staged objects | `bq_load(through)`: one load job per upload date, one for the dims, one for an empty selection | the same |
| Landing, Spanner dims (`landing/spanner.py`) | `dim_user` in Spanner | one batch upsert of a constant seed | the federation view |
| Incremental build (`dbt/models/staging`, `dbt/models/attribution`, `dbt/macros`, `pipeline/cli.py`) | `stg_events`, `stg_prompts`, `attribution`, accumulated over the builds | `dbt_build`: land, then each model in turn, each with a commit of its own | reads `raw`; scores and marts read it |
| Attribution rules (`attribution.sql`) | none: a function of a prompt's events | one label per prompt | compared with the generator's truth by `eval` |
| Scores (`scores_send_time.sql`, `features_user_hour.sql`), marts | tables rebuilt whole | one row per user; daily rates, retention | the write-back reads the scores and `dim_user_current` |
| Write-back (`serving/writeback.py`, `serving/spanner.py`) | `send_schedule` | `write_back`: candidates, stored pairs, guard, replace | the notification service reads the table |
| Orchestration (`orchestration/`, `serving/cli.py`) | Airflow's runs | `dbt_build >> writeback`, or `{bq_load, spanner_load} >> dbt >> writeback`; `make pipeline` in a shell | runs the commands above |
| Generator and fixtures (`generator/`) | `data/out`, `fixtures`, `MANIFEST.sha256` | `seed`, `freeze` | makes the export and the ground truth |
| Evaluation (`eval/`) | goldens, reports, blocks of documents | goldens, score, simulate, holdout, readme | reads the warehouse and the fixture |
| Infrastructure (`infra/cli.py`, `infra/*.tf`) | terraform's state, a saved plan | plan, apply, destroy, migrate-state, freeze | makes the cloud resources |
| Repository tooling (`scripts/`) | git's worktrees, tags, review records | mutation sweep, round tags, review gate, document checks | the repository itself, while others work in it |

What makes each of them correct, and what is hard about it:

- *Landing.* Landing a date again adds nothing; a later landing loses nothing;
  a failure in the middle leaves something the next landing repairs; two rows
  that agree on all clocks but not on their payload never get in. Hard: the two
  warehouses have different atomicity (a transaction, a job per partition), the
  export grows between landings, and an empty selection takes another path.
- *Incremental build.* The accumulated tables are those of a build from
  scratch, and a label once final stays. Hard: two clocks (the local date of an
  event, the date of its upload), late and duplicated uploads, two boundary
  comparisons on the same day, a scan that is pruned on one warehouse only, and
  tables left at different ages by a build that stopped.
- *Attribution.* Boundaries of windows on two clocks, and a cascade whose order
  decides.
- *Scores.* A circle of minutes, a window that moves with the data, users of
  whom nothing is known, and an as-of that has to tell the write-back of every
  change.
- *Write-back.* A user's row only advances, a batch appears as a whole, and the
  newest scores win whatever the order in which runs read and committed. Hard:
  on Spanner the candidates are read outside of the transaction, which may be
  aborted and run again.
- *Orchestration.* What is served is one whole build, of the landing of its own
  run, and no failure goes unseen or blocks the next interval. Hard: two kinds
  of runs over one DuckDB file, tasks that are one process each on one target
  and share one on the other.
- *Fixtures.* A golden is never lost and never checked against the wrong data,
  across commands that may be killed and a tree that is edited and restored.
- *Evaluation.* A comparison of schedules that is not luck, an error that a model
  cannot lower by losing rows. Several commands keep a block each in one
  document, which the author edits too: none may lose another's.
- *Mutation sweep.* A mutation counts as killed only if the suite was green
  without it. Hard: the suite takes minutes, every line has a worktree of
  whatever HEAD names by then, HEAD moves, and other sweeps prune, list and die.
- *Infrastructure.* What was checked is what is used: the typed variables, the
  saved plan. Hard: several operators, an environment and files that terraform
  reads unasked, applies that fail halfway.

`PROJECT.json` lists the hazards one by one, each at its line, with the
properties that would catch it or a note on why none does yet.

## 2. Modules

```
RawEvents  <--- refined by ---  Landing            <- LandingProofs
    ^                              MCLanding, MCLandingEmpty.cfg
    +---------- refined by ---  IncrementalBuild   <- IncrementalBuildProofs
                                   MCIncrementalBuild, MCBackfill
SendSchedule <- refined by ---  WriteBack          <- WriteBackProofs
                                   MCWriteBack
Attribution                        <- AttributionProofs
                                   MCAttribution
SendTime                           <- SendTimeProofs
    ^--- extended by Evaluation    MCSendTime, MCSendTimeSlid.cfg
Pipeline                           <- PipelineProofs
                                   MCPipeline
InfraCommands                      <- InfraCommandsProofs
                                   MCInfraCommands
Fixtures      <--+
MutationSweep <--+- Repository     <- RepositoryProofs
MarkerBlocks  <--+                 MCRepository
```

`RawEvents` is the seam between landing and build: it says what a landing does
to `raw.events` and nothing of how. `Landing` implements it with jobs,
transactions and crashes; the `raw` of `IncrementalBuild`, which takes landings
as single steps, implements it as well, so that the builds are checked and
proved over what the landing provides.

### RawEvents (abstract)

A multiset of rows. `LandThrough(seen, last)` makes every date up to `last`
hold the rows of that date the export had when the landing looked (`seen`),
each once; it leaves the later dates alone and loses no row.

### Landing

| TLA+ | code |
|---|---|
| `raw`, `dims` | the committed `raw.events` (a count per row: the table has no key) and whether the dims are in place |
| `selected`, `todo` | `event_files(fixture, through)`, and what the loop over `by_date` has left |
| `txn` | `raw.events` inside the DuckDB transaction of `load` |
| `Begin` | `event_files` / `selected_files`; the begin of the transaction |
| `OverwritePartition`, `LoadDims`, `Commit`, `Rollback` | the steps of `load` in `landing/load.py` |
| `LoadPartition`, `LoadEmpty`, `LoadDimsJob` | the jobs of `bq_load` in `landing/bq.py` |
| `Crash` | any exception or the end of the process between two of them |

Files are numbers in the order of their names, several to a date. The export
may write its next file at any moment; a landing works with the list it took at
its beginning, as both implementations do. One landing runs at a time
(`max_active_runs = 1`, and DuckDB has a single writer). The staged objects are
written before the job that reads them and by nobody else: they are not
modelled. The manifest check refuses before anything changes, and is not either.

### IncrementalBuild

| TLA+ | code |
|---|---|
| `raw` | `raw.events`; the landing is one step, or on BigQuery a crashed prefix of it (`LandCrash`) |
| `stgEvents`, `stgPrompts`, `attribution` | the three incremental models |
| `built` | the relations that exist, which `is_incremental()` asks for |
| `stage`, `fullRefresh` | where the running `dbt build` is, and its `--full-refresh` |
| `Dedupe` | `qualify row_number() … = 1` of `stg_events.sql` |
| `InLookback`, `Horizon` | the `where` of the incremental batches and their horizons |
| `Scans` | the source-scan prune: all of `raw` on DuckDB and in a first or full build, a suffix by upload time on BigQuery |
| `Overwritten` | `partition_overwrite.sql`, and BigQuery's `insert_overwrite` |
| `Status` | `final` or `provisional`, from the same horizon |
| `Fail` | a model or a test that fails: dbt skips what is downstream and nothing is retried |

An event is an `insert_id` with one or more *copies* (rows of the export). A
copy has an upload date and a rank in the order of the dedupe; an event has a
local date and, unless it is an `app_opened`, a prompt. The label itself is
abstracted to what it is computed from (the prompt's events and its first
receipt): if these agree, so do the labels. The time-of-day of the prune bound
is a nondeterministic cut inside its day.

The constants carry assumptions the code states elsewhere:
`lookback_days · 24 > late_arrival_max_hours` and the pruning margin
(`dbt_project.yml`, pinned by `tests/test_incremental.py`), here in whole days
and for a prompt's events as well as its `prompt_sent` (`Late < Lookback`,
`Ahead < Margin`, `ClockAssumption`), and copies that tie on all clocks are
identical (one copy stands for them; the landing and
`assert_no_conflicting_duplicates` refuse the others).

Two history variables, which no action reads, say how far apart the builds
were: `basis` is what each model was last built from, and `reach` the most days
of uploads a model, or one upstream of it, had to catch up on since it was last
rebuilt from scratch. A build each day has reach 1; a build after a failed one
has more. The convergence properties are stated in terms of it.

### SendSchedule (abstract) and WriteBack

`SendSchedule` is what the notification service sees: a table into which whole
batches are put, and in which of two rows for a user the one with the greater
(version, as-of) pair stays.

| TLA+ | code |
|---|---|
| `warehouse` | the rows `candidates_sql` returns; `Rebuild` is a dbt build that replaces them |
| `stored` | `send_schedule`, as committed |
| `candidates`, `existing`, `pending` | what a run has read and what its transaction sees |
| `ReadCandidates`, `ReadExisting`, `Refuse`, `Delete`, `Insert`, `Commit` | `write_back` in `serving/writeback.py`, statement by statement |
| `Upsert`, `Abort` | `guard_and_write` and `run_in_transaction` in `serving/spanner.py` |
| `Crash` | any other failure, the end of the process and the retry deadline included |

On DuckDB the file has one writer: a build or a second run waits (`FileFree`).
On Spanner runs and builds interleave freely between the steps of a run; a
transaction commits only if what it has read is unchanged (the contract of
Spanner's read-write transactions, external) and is otherwise aborted and
called again with the candidates it has. Hour, minute, cohort, time zone and
confidence of a row are one value, `served`. Versions are numbers, or
`Malformed`. `done` is a history variable, the candidates of committed runs.

### Attribution

One prompt from its cause to its label. The generator's half draws a cause
(`assign_cause`) and emits the events that cause implies, each with the client's
and the server's clock; what it draws at random is a nondeterministic choice.
The warehouse's half labels the prompt by the events that have arrived.

| TLA+ | code |
|---|---|
| `cause`, `step`, `at`, `attempts` | the drawn cause and the local variables of `_prompt` in `generator/generate.py` |
| `Send` ... `Upload` | the statements of `_prompt` and `_response`, up to the next early return |
| `CaptureOffline`, `FailUpload`, `GiveUp` | the two ways an upload fails |
| `InjectSkew` | `inject_clock_skew` |
| `Arrive` | the uploads, each with a delay of its own (`inject_late_arrival`), landed and staged |
| `HasResponse` ... | the columns of the same names in `attribution.sql` |
| `ClockAhead` | `min_upload_delay_seconds` below `-skew_max_min` |
| `Label` | the `case` |

A prompt has at most one receipt and one response here, as `_prompt` makes them;
several receipts are `IncrementalBuild`'s (`First`). `ProfileAssumption` is what
the numbers of the profiles give: a delivery takes less than the grace, all
delays before an answer less than the window, and a skewed clock is further
ahead than the bound by more than an upload takes. The second and the third
are not checked by `Profile._consistent`, which asks of `clock_skew_min` only that
it exceed `SKEW_MAX_MIN`, and of `window_minutes` that it be positive; all
profiles of the repository (60 and 30 minutes) satisfy all three.

### SendTime and Evaluation

| TLA+ | code |
|---|---|
| `opens`, `prompts`, `dim_user` | what has landed, by hour |
| `features`, `cohort_window`, `dim_user_current` | `features_user_hour`, `max(window_minutes)` of `stg_prompts`, `dim_user_current`, as last built |
| `InWindow`, `Horizon` | the window of `feature_window_days` behind the latest event of any kind |
| `Mass`, `Moment` | `window_mass`, `cohort_moment` |
| `Posterior`, `Centre`, `Confidence` | `user_vec`, `cohort_prior`, `posterior`, `centred` |
| `Shift`, `Clamped`, `MinuteOfDay` | `shifted`, `clamped`, `minutes` |
| `Scored`, `ComputedAsOf`, `ScoreRow` | the joins that give a row, and the row |
| `BuildFeatures`, `BuildScores`, `WriteBack` | a build, which may stop between the two; the guard of the write-back for one version |
| `HourOf`, `CauseOf`, `OpenProbability` | the arms and the shared uniforms of `eval/simulate.py`, `generator/response.py` |
| `Distance`, `CoveredUsers` | `reachable_center_mae`, `coverage` of `eval/score.py` |

Times of day are half minutes, so that roundings happen. The unit vectors of the
hours, `atan2` and the norm are constants: the posterior is kept in integers by
multiplying it by the number of the cohort's opens, which leaves its angle
alone. TLC uses the circle of the norm |x| + |y|, with the quadrants and the
symmetries of the round one; the proofs ask of them that angles and norms be
integers (`AngleAndNorm`), and one of them that a stretched vector keep its angle
and have its norm stretched (`Scales`). The error of floating point is not modelled. (The comment at
`scores_send_time.sql:22` gives the shift as (−12, 12]; the code's floor makes it
[−12, 12), and so does the model. Nothing depends on it.)

### Pipeline

| TLA+ | code |
|---|---|
| `task` | Airflow's task instances, or the lines of `pipeline()` in `serving/cli.py` |
| `UpstreamOf`, `StepsOf` | the DAGs; the order dbt gives the models |
| `Trigger`, `SlotFree` | `max_active_runs`, `max_active_tasks` |
| `BqList`, `BqLoadDate` | `bq_load`, a job per date |
| `Load`, `open`, `wal`, `db` | `load` in its one transaction; who has the DuckDB file open, its log, is it there |
| `Model` | one model, in the run's dbt process or in a task of its own |
| `Fail`, `Alerts`, `Skip` | `retries: 0`, `on_failure_callback`, `upstream_failed` and the non-zero exit |
| `DropFile`, `DropWal`, `DropKilled` | the two `unlink`s of `drop_db` |

Rows are told by the file they came from: `Landing`, `IncrementalBuild` and
`SendTime` have the rows, this module has the runs. It does not instantiate them,
it takes from each what a run can see: a landing replaces the dates it selected
(`RawEvents`), a model becomes a function of its inputs, and the write-back
replaces iff the as-of is greater (`SendSchedule`). Three models stand for the
graph. A process that is killed while it loads leaves the log with what it
committed. The mail itself is assumed to arrive. A run that has ended is
forgotten when the next one starts.

### Fixtures

| TLA+ | code |
|---|---|
| `out`, `fixture`, `manifest` | `data/out/<p>`, `fixtures/<p>`, its `MANIFEST.sha256` |
| `raw`, `tables` | of `data/<p>.duckdb`, the raw tables and what the builds made of them |
| `MakeSeed` | `seed`, killed at any file |
| `Land`, `FixtureDir`, `ManifestDrift` | `load` in `landing/cli.py`: the choice of the directory, its check, and a landing, which keeps the dates it does not replace (`Landed`) |
| `Load`, `Build`, `DropDb` | `make load`; `make dbt-build`, which lands and builds; `make drop-db` |
| `BuildModels`, `BuildStops` | dbt: from scratch into an empty file or with `FULL=yes`, else incrementally; stopped by a failure |
| `Freeze` | `freeze` with `missing_from_output`, killed in the removal, in the copy, or before the manifest |
| `GoldenWrite`, `GoldenCheck` | `_golden` in `eval/cli.py`, for each golden: `Shows` is `export_rows` and `render`, `Says` is `diff_rows` |
| `EditCode`, `EditFixture`, `Commit`, `Restore` | the author, and git |

`raw/`, `dims/` and `truth/` are one content, `Seeded`, told by the version of
the code that wrote it, or one of `Parts`: some of its files, as a killed command
leaves them, with the file names whole. A golden is told by the data it was built
of and the code that built it; equal hashes are equal contents. Which upload
dates two contents share, and how far back a lookback reaches into them, is
`IncrementalBuild`'s; here rows of several landings, or of one that `THROUGH` cut
short, and tables that an incremental build brought forward, are those of the one
content and code or a `Blend`, whichever the case may be. A golden of a blend may
be anything. `clean`, `fresh`, `torn`, `frozen` and `parts` are history
variables: `clean` is a warehouse landed, into an empty file, of the data a
landing takes now, and `fresh` one whose tables, besides, were built from scratch
of them by the code as it is.

### InfraCommands

| TLA+ | code |
|---|---|
| `Refused`, `Confirmed`, `VarsRefused`, `UnlistedCloudEnv` | the refusals of `tf`, in `infra/cli.py` |
| `TfEnv`, `Toggles` | what a terraform child gets: allowlisted environment, typed variables, auto-loaded files |
| `PlanOut`, `Gate`, `ApplyPlan` | the three children of `_apply` and `require_safe_plan` between them |
| `EndedWithoutPlan` | the `finally` of `_apply` |
| `Destroy`, `MigrateState` | the other two commands that change something |
| `Edit`, `WriteTfvars` | the author of the tree, at any moment |

Terraform and the cloud are external: a file declares one resource, an apply that
fails has made part of its changes and recorded them, a saved plan is refused
when the state has moved on. An environment variable is a member of one of the
classes the code tells apart, not a string.

### MutationSweep

| TLA+ | code |
|---|---|
| `headCommit`, `registered`, `onDisk` | the main tree's commit, `.git/worktrees`, the directories |
| `phase`, `line`, `before`, `green`, `verdicts`, `registryChanged` | where each run of `sweep` in `scripts/mutate.py` is, and its local variables |
| `Start` | `resolve_spec` and `parse_mutations`, which accept or refuse |
| `PruneFirst`, `List` | the prune and the first listing of `sweep` |
| `Add`, `AddFails`, `RunBaseline`, `Remove`, `Prune` | `_baseline_is_green`, and the body of the loop for each line |
| `Apply`, `RunSuite`, `Compare`, `Report` | `apply_mutation`, the suite, the comparison of the listings, the exit code |
| `MoveHead`, `Kill`, `CleanTemp` | the others: commits and checkouts, SIGKILL, whatever cleans the temporary directory |

A commit is what the suite makes of it (`Red`), of each line (`Unfit`, `Caught`).
The result of `git worktree remove` is read by nobody, so it may do any half of
its work. Branch names in the listing, worktrees added by hand, an interrupt and
other exceptions are not modelled; the temporary directory is cleaned of dead
sweeps only. `placed` and `returned` are history variables.

### MarkerBlocks

| TLA+ | code |
|---|---|
| `text` | `docs/RESULTS.md` |
| `at`, `job`, `rendering`, `base` | where a shell's command is, its block, what it rendered, what `write_block` read |
| `Render`, `Look` | `simulate_cmd`, `holdout_cmd` and `_block_cmd` in `eval/cli.py`, in check mode and with `WRITE=yes` |
| `ReadText`, `Truncate`, `Flush` | `write_block` in `eval/blocks.py`: `read_text`, then `write_text`, which empties the file and writes it |
| `FindBlock`, `ReplaceBlock` | `find_block`, `replace_block` |
| `KillWriter`, `Author` | SIGKILL; the author saving the file, or git restoring it |

A text is a sequence of lines instead of bytes, a rendering is one line, and a
file is written in one piece: a write over a file that another has filled since
leaves the end of the longer text behind (`WrittenOver`). The documents of the
power analysis and the README have one writer each. `written` and `spoiled` are
history variables: the latter is set when a write is overtaken or killed, and
cleared when the author mends the file.

### Repository

`Fixtures`, `MutationSweep` and `MarkerBlocks` side by side. They have no
variable in common; the module exists so that one run and one type theorem can
speak of all of them.

## 3. Runs

| Run | Model | Shows |
|---|---|---|
| `incremental` | 11 copies of 10 events, 3 prompts, upload days 0..6, lookback 3, margin 2, lateness 1, both warehouses | properties below, 371,070 states |
| `backfill_events`, `backfill_status` | 4 copies, the project's parameters (5, 5, 3 days) | two divergences from the documents |
| `landing` | 5 files of 3 dates, 7 rows, one duplicate, one conflict, both warehouses | `raw.events` is what `RawEvents` says |
| `landing_empty` | the same, and a `THROUGH` before the first upload | a divergence from the documents |
| `attribution` | one prompt on a scaled day, every bound met exactly | the label is the cause, 18,032 states |
| `writeback` | 2 runs, 2 users, 5 warehouses | the send schedule, 65,538 states |
| `send_time` | 3 users, 2 cohorts, 4 opens, 3 prompts, a user who moves | scores, their write-back and their evaluation |
| `send_time_slid` | the same | a divergence from a test |
| `pipeline` | 2 DAG runs, 1 `make pipeline`, 2 files of 2 dates, both targets | runs and their failures, 23,365 states |
| `infra_commands` | 2 operators, 2 resources, 15 command lines | the gate |
| `repository` | 2 versions of the code, a golden, one command killed; 2 sweeps, 2 lines, 3 commits; 2 shells, 2 blocks, 2 renderings | goldens, sweeps, blocks, 845,023 states |

`incremental`:
- `OneCopyPerEvent`: `stg_events` holds of each event only the earliest landed
  copy, whatever was skipped; this is what the margin of the prune is for.
- `EvidenceConverges`: builds within reach (`reach + Late <= Lookback`) leave
  what a build from scratch would leave, statuses aside.
- `DailyBuildIsFullBuild`: builds at most a day apart leave exactly that.
- `FinalNeverChanges`: within reach, a final row is never touched again, not
  even by a full rebuild.
- `StatusOnlyAdvances`: always, a labelled prompt stays and does not go back
  from final to provisional.

The bounds: with lateness 1, a lookback of 3 is the smallest for which
"reprocessed", "final", "still in reach" and "late" are different days and a
build that catches up on two days at once is within reach, so that
`EvidenceConverges` says more than `DailyBuildIsFullBuild` (a build that reaches
back only as far as a daily one must, `InLookbackOfADay`, violates it). Seven
days let a partition pass through all of them and leave; the copies include a
duplicate over two upload days, a late receipt, a second receipt that precedes
the first one landed, an event with a local date ahead of its upload. The
backfill runs need the real parameters to speak of the documents' numbers, and
few copies.

`landing`: `LandedWhole` (a landing that reports success has put each selected
row in once, whatever crashed before), `NeverConflicting`, and `IsRawEvents`,
the refinement. Two files of a date, a date landed twice with a longer list,
and a conflict in the last file are all there; three dates let a crash leave
one landed, one not, one not selected.

`writeback`: `NeverWedged` (no malformed version is ever stored, so no run is
refused for what an earlier one did), `GreatestIsServed` (of all candidates
committed runs had for a user the greatest is served: nothing is lost to a run
that had read earlier), `IsSchedule` (the refinement: no half batch is ever
visible, no row is lost or goes back) and `RunsEnd` (liveness). Two runs suffice for each race
of a read with a commit, and two users for a batch to be half visible; the
warehouses hold versions 2 and 10, an older as-of under a newer version, a tie
with other contents, an absent candidate and a malformed version.

`attribution`: `LabelIsCause` (with all its events a prompt has the label it was
generated for), `BlameIsEarned` (on any part of them, in any order, the pipeline
is blamed only for its own faults, and a prompt counts as on time only if it was
answered in time, a skew not yet known apart), `LabelSharpens` (an arrival moves
the label in one direction only: nothing, delivery fault, timing gap,
unattributed, a verdict, a skewed clock). The delays are those of a short day in
which a receipt comes at the end of the grace, an answer in the last second of
the window, a device is online in the first second after it and a clock is one
second further ahead than the bound; so each comparison that is off by one
shows. This model ends when all events have arrived, and its run does not ask
for deadlocks.

`send_time`: `ServedInBand` (every served minute is within the band around the
cohort's moment, across midnight), `MomentIsBest` (no window anywhere on the
circle holds more opens than the one at the moment, although only opened hours
are tried), `NewUserGetsThePrior`, `ServedUnlessUntold` (a changed score is
served by the next write-back unless one of four named things happened without a
newer open), `ArmsShareTheirLuck` and `LosingRowsNeverHelps`. The opens lie on
both sides of midnight and at noon, so windows and vectors wrap, cancel and tie;
one comes a day later and lets the feature window slide; the two prompt windows
need one and two hour bins.

`pipeline`: `ServesOwnBuild` (a write-back reads scores whose models were all made
of one landing, which has every file its own run landed), `FailedRunIsMailed`,
`RunsEnd`, `FreshAfterDrop`. Two DAG runs are what `max_active_runs` has to keep
apart, the third run is the shell beside the DAG, and two dates let one be landed
and the other not; a `THROUGH` of 0 is the empty landing. `drop-db` is typed
while nothing runs: nothing in the code keeps it from a running command. Cloud
commands typed by hand beside the DAG are serialised by nothing in the code
either, and are not modelled.

`repository`: one of its three parts at a time, since none of them sees the
others. Of the fixture, `GoldensKept` (what a freeze has listed stays listed, unless a freeze
was killed), `GoldenIsReproduced` (a golden that was checked OK is what the code
builds of the frozen data, if the warehouse was started afresh: landed of these
data into an empty file and built from scratch by this code, and landed and built
however often since). The fixture is seen in three ways, each with all of
the commands but for what it leaves out: one version of the code and one command
killed; two versions and a kill, without commits and edits of the fixture; two
versions and commits, nothing killed. One kill is enough for each half-done state
to meet every command; a second one adds only their pairs. A golden of a blend is
written as a blend or as what it ought to be, the two that a check may confuse.
The proof has none of these bounds.

What is not promised shows in the conditions. A killed freeze loses the manifest,
and with it both the next freeze's guard and the landing's drift check. A
warehouse that has accumulated vouches for nothing: after a freeze that was
killed in the copy, a build over a file that still holds all the dates says OK of
a golden although some of the frozen files are gone; after an edit of the code, a
build without `FULL=yes` leaves the partitions behind the lookback to the old
code; a `THROUGH` leaves files out. Only `drop-db`, a landing of everything and a
build (or, for the code alone, a `FULL=yes` over such a landing) tie the check to
the fixture. Without the fixture's data it compares a build of `data/out`. And a
freeze may pair new data with goldens of the old fixture, which the next fresh
check reports.

Of the sweep, `OkIsEarned`: a sweep that says OK has killed every line on the one
commit it saw green, unless HEAD went away and came back, and leaves no
worktree. One commit is caught, one red whatever the line, one has lost what the
second line mutates; two lines let HEAD move between them. The sweep is run
alone while HEAD moves at any moment, and then beside a second one that goes as
far as its baseline (prune, list, add, remove, killed anywhere) while HEAD stays:
both at once are 5 million states and more. The proof has no such bound.

Of the blocks, `BlocksKept`: as long as no write is overtaken or killed, every
block is as its last writer left it, whatever has become of the document since
the command looked for its pair. Two shells are what an overtaking takes, and
two blocks one to lose. That a write is overtaken the code does not prevent, and
the property says nothing of what is lost then.

`infra_commands`: `NothingBillsUnknown`, `TypedIsPlanned`, `LostOnlyIfAsked`. One
resource may be removed or forgotten, the other is toggled or replaced; the
commands differ in what they say and from where: typed, exported, or not at all.
`kill -9` during `tf-apply` leaves the plan file and is not modelled. There is one
state: where it is kept (`backend`) is recorded and read by nothing, so that a
state which `migrate-state` moves under a saved plan is not exercised. Nor does
`TypedIsPlanned` speak of a variable file that appears between the check and
terraform's reading of it (`appeared`): nothing in the code keeps it from setting
a toggle.

*Fairness.* Only `WriteBack` and `Pipeline` state it. In `Pipeline` it is
`WF_vars(Step(r))`: every process of a run ends, in success or failure, and the
scheduler goes on to the next task. It says nothing of which, so a run may fail
at every step; starting runs and `drop-db` are not fair. In `WriteBack` it is for the steps of a run that has
started: a run is one process, and none of its steps waits for anything but the
answer of a store. Starting a run, rebuilding and crashing are not fair. An
abort needs another run to have changed a row under this one; rows only advance,
so among the finitely many candidates of the model that happens finitely often.
In the program the bound is the number of distinct scores built while a run is
going on, and the client's retry deadline (a `Crash`) ends it in any case.

Deadlock is checked in every run but `attribution`.

### What the runs found

1. *Backfill with intervals of `lookback_days`* (`DECISIONS.md:2059`,
   `tests/pins.py:150`) can lose events: the batch reaches back `lookback_days`
   from the new horizon, but an upload in the skipped interval may be up to
   three days younger than its date. What does hold is
   `gap + lateness <= lookback_days` (`EvidenceConverges`, proved).
2. *`final` once a partition is `LOOKBACK_DAYS` old* (`docs/ARCHITECTURE.md:167`):
   a partition becomes final only in a build whose horizon is exactly that far
   ahead. After a longer gap it is jumped over and stays provisional.
   With daily builds it cannot happen (`DailyBuildIsFullBuild`, proved).
3. *"each load overwrites only the selected upload-date partitions"*
   (`docs/ARCHITECTURE.md:173`): on BigQuery a landing with a `THROUGH` before
   the first upload empties all partitions; on DuckDB it leaves them.
4. *"whenever a landing CHANGES the served scores, `computed_as_of` STRICTLY
   increases"* (`tests/test_backfill.py:83`): the feature window ends at the
   latest event of any kind, the as-of is the latest open. A landing whose newest
   event is a prompt slides the window over old opens; the scores change, the
   as-of ties, and the stored rows stay. The gap recorded in `DECISIONS.md:2085`
   is another one, back-dated opens (`late` in `Untold`).

Three more sentences of the documents are not what the code does. No run shows
them; each is a condition that a property above had to be given.

- *"a red HEAD is a refusal, never `KILLED`"* (`specs/phase-0-skeleton.md:87`):
  only of the HEAD of the baseline. A line judged after HEAD has moved to a red
  commit is printed as `KILLED`; the sweep then says FAIL, because the listing
  has changed, unless HEAD has come back by the next comparison (`returned`).
- *"stale ones pruned at start"* (`scripts/mutate.py:42`): `git worktree prune`
  drops what has lost its directory, and a sweep that was killed has left its
  directory as well as the registration.
- *"the worst case of a stray `WRITE=yes` is a block the check mode would have
  regenerated anyway"* (`specs/phase-6-simulation.md:513`): a command killed
  between the opening of the document and the write leaves it empty, and then
  there is no marker pair to write between (`spoiled`).

## 4. Proofs

All theorems are for every value of the constants that satisfies the named
assumptions; `tlapm` checks them to the last leaf.

*IncrementalBuildProofs.* The properties are not inductive: after a failed build
the tables are of different ages, and nothing in the tables says which. The
invariant therefore says what each table is *in terms of the rows it was last
built from* (`basis`): `stg_events` is part of the dedupe of its basis, and all
of it if the model has kept within reach (`EventsInv`); `stg_prompts` and the
evidence of `attribution` are those of their bases if they have (`PromptsInv`,
`AttributionInv`), and the statuses are too if reach is at most 1, where no
partition can be jumped over; the bases of the models the current build has
passed are up to date (`StageInv`). A build step then compares the rows there
are now with the basis of the last build: `raw` and the bases are prefixes of
the export in upload order (`RawInv`), so a row that is new, or that had not
been seen, was uploaded at most `reach` days before the horizon, and its
partition is at most `reach + Late` days old. That the pruned scan gives the
same batch as the whole table is a lemma of its own (`PrunedBatch`): both copies
of an event in the batch lie behind the margin. Theorems: `TypeCorrect`,
`OneCopy`, `OneRow`, `Converges`, `DailyConverges`, `FinalStays`,
`StatusAdvances`, and `ImplementsRawEvents` (its `raw` is that of `RawEvents`;
proved only, TLC takes too long over it at the size of the run).

*LandingProofs.* The heart is that the listing of a landing has every file up to
its `THROUGH` whose rows are already in the table (`ListingInv`), so replacing a
partition by the listed files loses nothing; and that the rows of the files done
are in, once, in `txn` on DuckDB and in `raw` on BigQuery (`ProgressInv`).
`Implements` assumes what finding 3 makes necessary: no `THROUGH` before the
first upload (`Covered`).

*WriteBackProofs.* The heart is that a run which gets to commit has read the
table it replaces: on Spanner it would have been aborted, on DuckDB no other run
has the file open (`SingleWriter`). `TransactionInv` says what a transaction
holds at each step in terms of what it has read: `pending` is `existing` with
the winners deleted, then replaced. From it: `Unwedged`, `ServesGreatest`,
`OnlyAdvance`, `Implements`.

*AttributionProofs.* The label is a function of a set of events, so the invariant
says what the generator's events are at each step: which receipts there are
(`ReceiptInv`), that only a skewed clock is ahead (`SkewInv`), that a response
is inside the window on both clocks unless the upload failed and then was
received after it, and that a failed upload has no response (`ResponseInv`);
`ClockInv` keeps the sum of delays that `ProfileAssumption` bounds. What holds
of all events gives `LabelRecoversCause`; what holds of each event, and so of
any part of them, gives `NoPrematureBlame` (`EvidenceFacts`); and because
evidence only grows, `LabelsSharpen`.

*SendTimeProofs.* Of the two constants that stand for the circle the proofs ask
`AngleAndNorm`: angles are ticks and norms integers. One of them,
`NewUserGetsThePriorHolds`, asks `Scales` as well: a vector stretched by a whole
number keeps its angle, and its norm is stretched by it. Both are exact for the
circle of the run, and for the real `atan2` and Euclidean norm; for rounded ones
they hold up to the rounding. The sums over sets of rows are folds, of which the prover has no induction; the
lemmas about them (a sum of integers is one, a sum over fewer rows is no
greater) take a smallest subset for which they fail instead (`WFMin`). The
theorems: `SendTimeTyped`; `ServedInBandHolds` (the wrap puts a centre into the
day, the shift is the short way round, the clamp and the rounding stay within
the band, and a cohort with an open has a moment, `BandInv`);
`MomentIsBestHolds` (a window anywhere holds no more than one that begins at the
first opened hour inside of it); `NewUserGetsThePriorHolds`;
`ServedUnlessUntoldHolds`, whose invariant (`ToldInv`) says that scores built
since the features are those of the features (`FreshScores`), that a stored row
is of no later open than the newest or of one that has left the window
(`StoredIsOlder`), and that with nothing untold it is older than the newest open
or the row the tables make (`StoredIsTold`); `ArmsShareTheirLuckHolds` and `LosingRowsNeverHelpsHolds`, which
are about any latent centres and any users.

*PipelineProofs.* A run finds again what it has done: on BigQuery because it is
the only one active (`MutexInv`), on DuckDB because other landings only add files
and nobody builds while its dbt process has the file open (`BuildInv`); tasks
are done only after their upstream (`GraphInv`), failures have been mailed
(`MailInv`), and without a file there are neither rows nor, after a completed
drop, a log (`DropInv`). From it: `PipelineServesOwnBuild`,
`PipelineFailedRunIsMailed`, `PipelineFreshAfterDrop`, for any number of runs,
files and dates.

*RepositoryProofs.* Of the fixture: the committed manifest is as good as the one
in the tree (`HeadInv`); a clean warehouse holds the data in force and nothing
else, since landing them again replaces like by like (`CleanInv`), the tables of a
fresh one are of it and of the code (`FreshInv`), and an OK about tables that are
no blend is of the golden in the fixture (`CheckInv`); every edit, seed, freeze
and restore outdates what it has to (`OutdateKeeps`). From it:
`FixturesGoldensKept`, `FixturesReproduced`.

Of the sweep: as long as HEAD has not come back to where the sweep found it, its
being there means that it never left, and every tree is of that commit
(`PlacedInv`); a listing equal to the
first vouches for the trees before it (`ComparedInv`); a verdict is that of the
commit in its tree (`JudgedInv`), and after the baseline the sweep has seen it
green (`GreenInv`). What another sweep does to it is no more than to prune a
registration it has no use for (`Undisturbed`). From it: `OkIsEarnedHolds`, for
any number of sweeps, commits and lines.

Of the blocks: what a writer holds is a text with its pair (`Based`), and a write
that nothing has spoiled is the only one under way, over the emptied file, of a
text in which each block is as last written (`Emptied`). That the new text keeps
all other blocks is a fact about sequences and first occurrences
(`ReplacedIsFound`, `ReplacedKeepsOthers`, `ReplacedWellFormed`). From it:
`BlocksKeptHolds` and `NothingElseHolds` (what is before and after the markers
stays, for every text with its pair, well formed or not).

`RepositoryTyped` puts the three together.

*InfraCommandsProofs.* What each command still holds of its checks at each phase
(`Checked`), and which phases have a plan (`Planned`). From it:
`InfraNothingBillsUnknown`, `InfraTypedIsPlanned`, `InfraLostOnlyIfAsked`, and
`InfraPlanFileRemoved`, which no run repeats.

Proved only, because a run would repeat what it says already: `OneRow` (the
unique keys of the incremental tables), `OnlyAdvance` (which `IsSchedule`
implies), `InfraPlanFileRemoved`, `NothingElseHolds`, `ImplementsRawEvents`.

*Model-checked only:* the two `RunsEnd` (liveness under fairness is out of the
prover's reach), and the four violations. Every invariant and every action
property of a passing run is also proved.

## 5. Not modelled

- Of the repository tooling (`scripts/`): review rounds, document checks and code
  generation are text and git manipulation by one process at a time; what they
  promise is about documents and sources, not about the system.
- `tf-freeze` and the pins of the terraform tree, and the `.tf` declarations.
- The two rate marts: stateless aggregations of `attribution`, rebuilt whole.
- The statistics of the holdout and of power, the rendering of reports and of
  what goes into a marker block: floating point and text.
- The generator's shards, ids, organic opens and random draws, beyond what
  `Attribution` takes from them; the cells' conversions of the Spanner landing.
- The local DAG with a cloud target; cloud commands typed by hand beside a DAG
  run, which nothing serialises.
- The rounding of floating point in the scores.

What would add most next: `Pipeline` as an instance of `RawEvents` and
`SendSchedule`, so that its runs land and serve by the abstract specifications'
own actions, and the review gate with its round tags.

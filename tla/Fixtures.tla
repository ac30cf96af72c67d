------------------------------- MODULE Fixtures -------------------------------
(***************************************************************************)
(* The life of a profile's fixture: seed, build, golden, freeze, commit.   *)
(*                                                                         *)
(*   data/out/<p>   what the generator of the working tree's code wrote,   *)
(*                  and the goldens that `WRITE=yes` put beside it         *)
(*   fixtures/<p>   a copy of it that `make freeze` made, with a manifest  *)
(*   data/<p>.duckdb  what was landed since the last drop-db, from the     *)
(*                  fixture if there is one and else from data/out, and    *)
(*                  the tables that incremental builds made of it          *)
(*                                                                         *)
(* One command runs at a time, and any that writes may be killed.  Two     *)
(* seeds by the same code write the same bytes, by different codes others; *)
(* a golden is told by the data it was built of and the code that built    *)
(* it.  The manifest stands for the hashes: equal contents, equal hashes.  *)
(***************************************************************************)
CONSTANTS
    Codes,     \* the versions of the generator and the models
    Goldens,   \* the files under expected/
    Seeded,    \* raw/, dims/ and truth/: what the generator writes
    Absent, Cut, Edited,
        \* of a file: not there; cut short; changed by hand.  Of Seeded: no
        \* raw/; all of it, one file cut short; one changed
    Parts,     \* some files of Seeded, one for each command that is killed
    Blend,     \* rows of more than one landing, or of some files of one; tables
               \* of more than one build, or of one that stopped; a golden of
               \* these that no single build would show
    None

Files == {Seeded} \cup Goldens
Data == Codes \cup Parts \cup {Edited}      \* what can be landed
Golden == [of : Data, by : Codes]
Content == Data \cup Golden \cup {Absent, Cut, Blend}
Tree == [Files -> Content]

ASSUME FixturesAssumption ==
    /\ Edited \notin {Absent, Cut, Blend, None} /\ Absent \notin {Cut, Blend, None}
    /\ Cut \notin {Blend, None} /\ Blend # None
    /\ (Codes \cup Parts \cup Golden) \cap {Absent, Cut, Edited, Blend, None} = {}
    /\ Codes \cap Parts = {} /\ (Codes \cup Parts) \cap Golden = {}
    /\ Seeded \notin Goldens /\ None \notin Tree

VARIABLES
    code,       \* of the working tree
    out,        \* data/out/<p>
    fixture,    \* fixtures/<p>
    manifest,   \* its MANIFEST.sha256, or None
    raw,        \* the raw tables of the DuckDB file, or None
    tables,     \* what the builds made of them, or None
    verdict,    \* [Goldens -> {"OK", "FAIL", "none"}], of the last check of
                \* that file and those tables
    head,       \* the committed fixture
    clean,      \* history: raw was landed into an empty file, of the data that
                \* a landing takes now
    fresh,      \* history: and tables were built from scratch of it, by the
                \* code as it is
    torn,       \* history: those whose listing a killed freeze has lost
    frozen,     \* history: the goldens that a freeze has listed
    parts       \* history: those that killed commands have left

warehouse == <<raw, tables>>
listings == <<torn, frozen>>
vars == <<code, out, fixture, manifest, warehouse, verdict, head, clean, fresh,
          listings, parts>>

Empty == [f \in Files |-> Absent]
Unchecked == [g \in Goldens |-> "none"]

-----------------------------------------------------------------------------
(* What the commands read *)

\* fixture_dir: the fixture if it has a raw/, else the generator's output.
FixtureDirOutFirst(out_, fixture_) ==
    IF out_[Seeded] # Absent THEN out_ ELSE fixture_
FixtureDir(out_, fixture_) ==
    IF fixture_[Seeded] # Absent THEN fixture_ ELSE out_

\* manifest_drift: against the manifest of the directory landed from, and
\* data/out has none.
ManifestDrift(dir) ==
    dir = fixture /\ manifest # None /\ dir[Seeded] # manifest[Seeded]

\* What the manifest lists and data/out lacks; of a part, some files are missing.
Lacks(tree, listed, f) ==
    listed[f] # Absent /\ (tree[f] = Absent \/ tree[f] \in Parts \ {listed[f]})
MissingFromSeed(out_, manifest_) ==
    IF manifest_ = None THEN {} ELSE {f \in {Seeded} : Lacks(out_, manifest_, f)}
MissingFromOutput(out_, manifest_) ==
    IF manifest_ = None THEN {} ELSE {f \in Files : Lacks(out_, manifest_, f)}

-----------------------------------------------------------------------------
Init ==
    /\ code \in Codes
    /\ out = Empty /\ fixture = Empty /\ manifest = None
    /\ raw = None /\ tables = None /\ verdict = Unchecked
    /\ head = [fixture |-> Empty, manifest |-> None, torn |-> {}, frozen |-> {}]
    /\ clean = FALSE /\ fresh = FALSE
    /\ torn = {} /\ frozen = {} /\ parts = {}

\* The process is killed, and leaves a part that nobody has seen before.
Killed(part) == part \notin parts /\ parts' = parts \cup {part}

\* What a killed rmtree, which takes the files in any order, leaves of a tree.
RemovedSome(tree, part) ==
    {t \in Tree : \A f \in Files :
        t[f] \in {tree[f], Absent}
                    \cup (IF f = Seeded /\ tree[f] # Absent THEN {part} ELSE {})}

\* What an edit, a seed, a freeze or a restore makes of what is known of the
\* warehouse: the data in force may be others now, the code too, and a golden
\* that was replaced has not been checked.
InForce == IF fixture[Seeded] # Absent THEN fixture[Seeded] ELSE out[Seeded]
Outdate ==
    /\ clean' = (clean /\ InForce' = InForce)
    /\ fresh' = (fresh /\ clean' /\ code' = code)
    /\ verdict' = [g \in Goldens |->
                      IF fixture'[g] = fixture[g] THEN verdict[g] ELSE "none"]

-----------------------------------------------------------------------------
(* make seed: data/out is removed, then written *)

Seed == out' = [Empty EXCEPT ![Seeded] = code] /\ UNCHANGED parts
SeedKilled ==
    \E part \in Parts :
        /\ Killed(part)
        /\ out' \in RemovedSome(out, part)
                       \cup {[Empty EXCEPT ![Seeded] = c] : c \in {part, Cut}}

MakeSeed ==
    /\ Seed \/ SeedKilled
    /\ UNCHANGED <<code, fixture, manifest, warehouse, head, listings>>
    /\ Outdate

-----------------------------------------------------------------------------
(* make load, make dbt-build, make drop-db *)

\* A landing replaces the upload dates of its files, some of which THROUGH may
\* leave out, and keeps the other dates that were landed before.
Landed(data, some) ==
    CASE raw = None -> IF some THEN {Blend} ELSE {data}
      [] raw = data -> {data}
      [] OTHER -> {data, raw, Blend}

\* A drifted or unreadable file stops it, and nothing is committed.
LandUnread ==
    LET dir == FixtureDir(out, fixture)
    IN  /\ dir[Seeded] # Absent /\ ~ManifestDrift(dir)
        /\ \E some \in BOOLEAN :
              /\ raw' \in Landed(dir[Seeded], some)
              /\ clean' = (clean \/ (raw = None /\ ~some))
Land ==
    LET dir == FixtureDir(out, fixture)
    IN  /\ dir[Seeded] \in Data /\ ~ManifestDrift(dir)
        /\ \E some \in BOOLEAN :
              /\ raw' \in Landed(dir[Seeded], some)
              /\ clean' = (clean \/ (raw = None /\ ~some))

\* The tables that the code makes of rows from scratch.
Scratch(rows) == IF rows = Blend THEN Blend ELSE [of |-> rows, by |-> code]

\* dbt build: from scratch with FULL=yes or into an empty file; else it brings
\* up to date what is within the lookback, and nothing if nothing has changed.
BuildModels ==
    \E full \in BOOLEAN :
        LET scratch == full \/ tables = None
        IN  /\ tables' \in {Scratch(raw')}
                              \cup (IF scratch \/ tables = Scratch(raw') THEN {} ELSE {Blend})
            /\ fresh' = (clean' /\ (scratch \/ fresh))

\* It fails: some of the models were built, or none.
BuildStops == tables' \in {tables, Blend} /\ fresh' = FALSE

Build ==
    /\ Land
    /\ BuildModels \/ BuildStops
    /\ verdict' = Unchecked
    /\ UNCHANGED <<code, out, fixture, manifest, head, listings, parts>>

Load ==
    /\ Land
    /\ UNCHANGED <<code, out, fixture, manifest, tables, verdict, head, fresh,
                   listings, parts>>

DropDb ==
    /\ raw' = None /\ tables' = None /\ verdict' = Unchecked
    /\ clean' = FALSE /\ fresh' = FALSE
    /\ UNCHANGED <<code, out, fixture, manifest, head, listings, parts>>

-----------------------------------------------------------------------------
(* make attribution-golden, scores-golden, report *)

\* WRITE=yes: to data/out, never to fixtures/.  The one table of a blend that a
\* golden shows may be whole, of whatever build.
Shows == IF tables = Blend THEN Golden \cup {Blend} ELSE {tables}
GoldenWrite(g) ==
    /\ tables # None
    /\ \/ out' \in {[out EXCEPT ![g] = c] : c \in Shows} /\ UNCHANGED parts
       \/ out' = [out EXCEPT ![g] = Cut] /\ \E part \in Parts : Killed(part)
    /\ UNCHANGED <<code, fixture, manifest, warehouse, verdict, head, clean, fresh,
                   listings>>

Says(g) ==
    CASE tables = Blend -> {"OK", "FAIL"}
      [] fixture[g] = tables -> {"OK"}
      [] OTHER -> {"FAIL"}

GoldenCheck(g) ==
    /\ tables # None /\ fixture[g] # Absent
    /\ \E says \in Says(g) : verdict' = [verdict EXCEPT ![g] = says]
    /\ UNCHANGED <<code, out, fixture, manifest, warehouse, head, clean, fresh,
                   listings, parts>>

-----------------------------------------------------------------------------
(* make freeze: rmtree, copytree, then the manifest *)

Listed(tree) == {g \in Goldens : tree[g] # Absent}

FreezeWhole ==
    /\ fixture' = out /\ manifest' = out
    /\ torn' = torn \ Listed(out)
    /\ frozen' = frozen \cup Listed(out)
    /\ UNCHANGED parts

\* In the removal, which may have taken the manifest too.
KilledRemoving(part) ==
    fixture' \in RemovedSome(fixture, part) /\ manifest' \in {manifest, None}
\* In the copy, or between the copy and the manifest.
KilledCopying(part) ==
    /\ fixture' \in {t \in Tree : \A f \in Files :
                        t[f] \in {out[f], Absent}
                                     \cup (IF out[f] # Absent THEN {Cut} ELSE {})
                                     \cup (IF f = Seeded /\ out[f] # Absent
                                           THEN {part} ELSE {})}
    /\ manifest' = None
FreezeKilled ==
    /\ \E part \in Parts :
          Killed(part) /\ (KilledRemoving(part) \/ KilledCopying(part))
    /\ torn' = frozen
    /\ frozen' = frozen

\* Of a killed seed the directory may be all there is.
Freeze ==
    /\ out # Empty \/ parts # {}
    /\ MissingFromOutput(out, manifest) = {}
    /\ FreezeWhole \/ FreezeKilled
    /\ UNCHANGED <<code, out, warehouse, head>>
    /\ Outdate

-----------------------------------------------------------------------------
(* The working tree *)

EditCode(c) ==
    /\ code' = c /\ c # code
    /\ UNCHANGED <<out, fixture, manifest, warehouse, head, listings, parts>>
    /\ Outdate

EditFixture ==
    /\ fixture[Seeded] # Absent
    /\ fixture' = [fixture EXCEPT ![Seeded] = Edited]
    /\ UNCHANGED <<code, out, manifest, warehouse, head, listings, parts>>
    /\ Outdate

Commit ==
    /\ head' = [fixture |-> fixture, manifest |-> manifest, torn |-> torn, frozen |-> frozen]
    /\ UNCHANGED <<code, out, fixture, manifest, warehouse, verdict, clean, fresh,
                   listings, parts>>

\* git restore and clean, of fixtures/ alone.
Restore ==
    /\ fixture' = head.fixture /\ manifest' = head.manifest
    /\ torn' = head.torn /\ frozen' = head.frozen
    /\ UNCHANGED <<code, out, warehouse, head, parts>>
    /\ Outdate

Next ==
    \/ MakeSeed \/ Load \/ Build \/ DropDb \/ Freeze
    \/ \E g \in Goldens : GoldenWrite(g) \/ GoldenCheck(g)
    \/ \E c \in Codes : EditCode(c)
    \/ EditFixture \/ Commit \/ Restore

Spec == Init /\ [][Next]_vars

-----------------------------------------------------------------------------
(* Properties *)

TypeOK ==
    /\ code \in Codes
    /\ out \in Tree /\ fixture \in Tree
    /\ manifest \in Tree \cup {None}
    /\ raw \in Data \cup {Blend, None}
    /\ tables \in Golden \cup {Blend, None}
    /\ verdict \in [Goldens -> {"OK", "FAIL", "none"}]
    /\ head.fixture \in Tree /\ head.manifest \in Tree \cup {None}
    /\ torn \subseteq frozen /\ frozen \subseteq Goldens
    /\ clean \in BOOLEAN /\ fresh \in BOOLEAN /\ parts \subseteq Parts

\* Once a freeze has listed a golden, the fixture's manifest lists it ever
\* after, whatever is seeded, written and frozen again, unless a freeze was
\* killed and has lost the manifest that the next one would be held to
\* (missing_from_output, called by freeze).
GoldensKept ==
    \A g \in frozen \ torn : manifest # None /\ manifest[g] # Absent

\* What a golden check says OK of is reproducible: the frozen golden is what
\* the code as it is builds of the frozen data as they are, whatever was
\* seeded, killed, edited, restored, landed in part or built by halves, if the
\* warehouse was landed of these data into an empty file and built from scratch
\* by this code, once and however often since.  An accumulated warehouse shows
\* nothing of the kind, nor does a fixture whose data are gone, when fixture_dir
\* falls back on data/out (_golden in eval/cli.py, over what load landed).
GoldenIsReproduced ==
    \A g \in Goldens :
        (verdict[g] = "OK" /\ fresh /\ fixture[Seeded] # Absent)
            => fixture[g] = [of |-> fixture[Seeded], by |-> code]
=============================================================================

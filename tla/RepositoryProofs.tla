--------------------------- MODULE RepositoryProofs ---------------------------
(***************************************************************************)
(* Theorems about what the repository keeps: the fixture (Fixtures), for   *)
(* any versions, goldens and kills, the worktrees of the                   *)
(* mutation sweep (MutationSweep), for any sweeps, commits and lines, and  *)
(* the blocks of the results (MarkerBlocks), for any texts and writers.    *)
(*                                                                         *)
(* Fixtures: the committed manifest, too, lists what every freeze has      *)
(* listed (HeadInv); a clean landing is of the data in force (CleanInv),   *)
(* fresh tables are of it and of the code (FreshInv), and what a check     *)
(* said OK of is what whole tables show (CheckInv).                        *)
(*                                                                         *)
(* MutationSweep: as long as HEAD has not come back, being where the sweep *)
(* found it means never having left it (PlacedInv), and the listings that  *)
(* were equal to the first vouch for the trees before them (ComparedInv).  *)
(*                                                                         *)
(* MarkerBlocks: what a writer holds is a text with its pair (Based), and  *)
(* a write that nothing has spoiled is the only one, of the file emptied,  *)
(* over a text in which every block is as last written (Emptied).          *)
(***************************************************************************)
EXTENDS Repository, SequenceTheorems, WellFoundedInduction, TLAPS

HeadInv ==
    /\ head.fixture \in Tree
    /\ head.manifest \in Tree \cup {None}
    /\ head.torn \subseteq head.frozen /\ head.frozen \subseteq Goldens
    /\ \A g \in head.frozen \ head.torn :
          head.manifest # None /\ head.manifest[g] # Absent

CleanInv == clean => raw \in Data /\ raw = InForce
FreshInv == fresh => clean /\ tables = [of |-> raw, by |-> code]
CheckInv == \A g \in Goldens : verdict[g] = "OK" /\ tables # Blend => fixture[g] = tables
WarehouseInv == CleanInv /\ FreshInv /\ CheckInv

FixturesInv == TypeOK /\ HeadInv /\ GoldensKept /\ WarehouseInv

-----------------------------------------------------------------------------
LEMMA TreeContents ==
    /\ Empty \in Tree
    /\ Data \cup Golden \cup {Absent, Cut, Blend} = Content
    /\ \A t \in Tree, f \in Files : t[f] \in Content
    /\ \A t \in Tree, f \in Files, c \in Content : [t EXCEPT ![f] = c] \in Tree
    /\ \A d \in Data, c \in Codes : [of |-> d, by |-> c] \in Golden
    /\ Codes \cup Parts \subseteq Data
    /\ Seeded \in Files /\ Goldens \subseteq Files
BY DEF Empty, Tree, Content, Files, Golden, Data

LEMMA Apart == None \notin Data /\ Blend \notin Data /\ Blend \notin Golden
BY FixturesAssumption DEF Data

\* What a killed command left of a tree is a tree.
LEMMA KilledTrees ==
    ASSUME TypeOK, NEW part \in Parts, KilledRemoving(part) \/ KilledCopying(part)
    PROVE  fixture' \in Tree /\ manifest' \in Tree \cup {None}
BY DEF TypeOK, KilledRemoving, KilledCopying, RemovedSome

LEMMA InitFixtures == Init => FixturesInv
<1> SUFFICES ASSUME Init PROVE FixturesInv
  OBVIOUS
<1>1. TypeOK
  <2>1. verdict \in [Goldens -> {"OK", "FAIL", "none"}]
    BY DEF Init, Unchecked
  <2> QED
    BY <2>1, TreeContents DEF Init, TypeOK
<1>2. HeadInv /\ GoldensKept
  BY TreeContents DEF Init, HeadInv, GoldensKept
<1>3. WarehouseInv
  BY DEF Init, Unchecked, WarehouseInv, CleanInv, FreshInv, CheckInv
<1> QED
  BY <1>1, <1>2, <1>3 DEF FixturesInv

\* A change of the tree that tells the truth of the warehouse as it is.
LEMMA OutdateKeeps ==
    ASSUME FixturesInv, Outdate, UNCHANGED warehouse
    PROVE  /\ WarehouseInv'
           /\ clean' \in BOOLEAN /\ fresh' \in BOOLEAN
           /\ verdict' \in [Goldens -> {"OK", "FAIL", "none"}]
<1>1. raw' = raw /\ tables' = tables
  BY DEF warehouse
<1>2. verdict' \in [Goldens -> {"OK", "FAIL", "none"}]
  BY DEF Outdate, FixturesInv, TypeOK
<1>3. CleanInv'
  BY <1>1 DEF Outdate, FixturesInv, WarehouseInv, CleanInv
<1>4. FreshInv'
  BY <1>1 DEF Outdate, FixturesInv, WarehouseInv, FreshInv
<1>5. CheckInv'
  BY <1>1 DEF Outdate, FixturesInv, WarehouseInv, CheckInv
<1>6. clean' \in BOOLEAN /\ fresh' \in BOOLEAN
  BY DEF Outdate, FixturesInv, TypeOK
<1> QED
  BY <1>2, <1>3, <1>4, <1>5, <1>6 DEF WarehouseInv

-----------------------------------------------------------------------------
(* Each operation keeps the invariant *)

LEMMA RemovedTrees ==
    ASSUME NEW tree, NEW part PROVE RemovedSome(tree, part) \subseteq Tree
BY DEF RemovedSome

LEMMA SeedKeeps == ASSUME FixturesInv, MakeSeed PROVE FixturesInv'
<1>1. out' \in Tree /\ parts' \subseteq Parts
  <2>1. CASE Seed
    BY <2>1, TreeContents DEF Seed, FixturesInv, TypeOK
  <2>2. CASE SeedKilled
    <3>1. PICK part \in Parts :
            /\ Killed(part)
            /\ out' \in RemovedSome(out, part)
                           \cup {[Empty EXCEPT ![Seeded] = c] : c \in {part, Cut}}
      BY <2>2 DEF SeedKilled
    <3>2. {part, Cut} \subseteq Content
      BY TreeContents
    <3>3. out' \in Tree
      BY <3>1, <3>2, TreeContents, RemovedTrees
    <3>4. parts' \subseteq Parts
      BY <3>1 DEF Killed, FixturesInv, TypeOK
    <3> QED
      BY <3>3, <3>4
  <2> QED
    BY <2>1, <2>2 DEF MakeSeed
<1>2. UNCHANGED <<code, fixture, manifest, warehouse, head, listings>> /\ Outdate
  BY DEF MakeSeed
<1>3. TypeOK'
  BY <1>1, <1>2, OutdateKeeps DEF warehouse, listings, FixturesInv, TypeOK
<1>4. HeadInv' /\ GoldensKept'
  BY <1>2 DEF listings, FixturesInv, HeadInv, GoldensKept
<1> QED
  BY <1>2, <1>3, <1>4, OutdateKeeps DEF FixturesInv

\* A landing into an empty file, or over a clean one, leaves the data in force.
LEMMA LandKeeps ==
    ASSUME FixturesInv, Land, UNCHANGED <<out, fixture>>
    PROVE  /\ raw' \in Data \cup {Blend}
           /\ clean' \in BOOLEAN /\ CleanInv'
           /\ clean => clean' /\ raw' = raw
<1> DEFINE data == FixtureDir(out, fixture)[Seeded]
<1>1. PICK some \in BOOLEAN :
         raw' \in Landed(data, some) /\ clean' = (clean \/ (raw = None /\ ~some))
  BY DEF Land
<1>2. data \in Data /\ data = InForce /\ InForce' = InForce
  BY DEF Land, FixtureDir, InForce
<1>3. raw \in Data \cup {Blend, None} /\ clean \in BOOLEAN
  BY DEF FixturesInv, TypeOK
<1>4. CASE raw = None
  <2>1. ~clean
    BY <1>4, Apart DEF FixturesInv, WarehouseInv, CleanInv
  <2>2. (some => raw' = Blend) /\ (~some => raw' = data)
    <3>1. Landed(data, some) = IF some THEN {Blend} ELSE {data}
      BY <1>2, <1>4, Apart DEF Landed
    <3> HIDE DEF data
    <3> QED
      BY <1>1, <3>1
  <2> QED
    BY <1>1, <1>2, <1>4, <2>1, <2>2 DEF CleanInv
<1>5. CASE raw # None
  <2>1. raw' \in {data, raw, Blend} /\ (raw = data => raw' = data)
    BY <1>1, <1>5 DEF Landed
  <2>2. clean' = clean /\ (clean => raw = data)
    BY <1>1, <1>2, <1>3, <1>5 DEF FixturesInv, WarehouseInv, CleanInv
  <2> QED
    BY <1>2, <1>3, <1>5, <2>1, <2>2 DEF CleanInv
<1> QED
  BY <1>4, <1>5

LEMMA ScratchType == \A d \in Data \cup {Blend} :
    code \in Codes => Scratch(d) \in Golden \cup {Blend}
BY TreeContents DEF Scratch

LEMMA BuildKeeps == ASSUME FixturesInv, Build PROVE FixturesInv'
<1>1. /\ Land /\ verdict' = Unchecked
      /\ UNCHANGED <<code, out, fixture, manifest, head, listings, parts>>
  BY DEF Build
<1>2. raw' \in Data \cup {Blend} /\ clean' \in BOOLEAN /\ CleanInv' /\ (clean => clean' /\ raw' = raw)
  BY <1>1, LandKeeps
<1>3. tables' \in Golden \cup {Blend, None} /\ fresh' \in BOOLEAN /\ FreshInv'
  <2>1. CASE BuildStops
    BY <2>1 DEF BuildStops, FreshInv, FixturesInv, TypeOK
  <2>2. CASE BuildModels
    <3>1. PICK full \in BOOLEAN :
            /\ tables' \in {Scratch(raw')}
                  \cup (IF full \/ tables = None \/ tables = Scratch(raw')
                        THEN {} ELSE {Blend})
            /\ fresh' = (clean' /\ (full \/ tables = None \/ fresh))
      BY <2>2 DEF BuildModels
    <3>2. tables' \in Golden \cup {Blend, None}
      BY <1>2, <3>1, ScratchType DEF FixturesInv, TypeOK
    <3>3. fresh' \in BOOLEAN
      BY <1>2, <3>1 DEF FixturesInv, TypeOK
    <3>4. ASSUME fresh' PROVE tables' = [of |-> raw', by |-> code']
      <4>1. raw' \in Data
        BY <1>2, <3>1, <3>4 DEF CleanInv
      <4>2. Scratch(raw') = [of |-> raw', by |-> code']
        BY <1>1, <4>1, Apart DEF Scratch
      <4>3. CASE full \/ tables = None
        BY <3>1, <4>2, <4>3
      <4>4. CASE fresh
        <5>1. tables = Scratch(raw')
          BY <1>1, <1>2, <4>2, <4>4 DEF FixturesInv, WarehouseInv, FreshInv
        <5> QED
          BY <3>1, <4>2, <5>1
      <4> QED
        BY <3>1, <3>4, <4>3, <4>4
    <3> QED
      BY <3>1, <3>2, <3>3, <3>4 DEF FreshInv
  <2> QED
    BY <2>1, <2>2 DEF Build
<1>4. TypeOK'
  BY <1>1, <1>2, <1>3 DEF listings, FixturesInv, TypeOK, Unchecked
<1>5. HeadInv' /\ GoldensKept'
  BY <1>1 DEF listings, FixturesInv, HeadInv, GoldensKept
<1>6. CheckInv'
  BY <1>1 DEF CheckInv, Unchecked
<1> QED
  BY <1>2, <1>3, <1>4, <1>5, <1>6 DEF FixturesInv, WarehouseInv

LEMMA LoadKeeps == ASSUME FixturesInv, Load PROVE FixturesInv'
<1>1. /\ Land
      /\ UNCHANGED <<code, out, fixture, manifest, tables, verdict, head, fresh, listings, parts>>
  BY DEF Load
<1>2. raw' \in Data \cup {Blend} /\ clean' \in BOOLEAN /\ CleanInv' /\ (clean => clean' /\ raw' = raw)
  BY <1>1, LandKeeps
<1>3. TypeOK'
  BY <1>1, <1>2 DEF listings, FixturesInv, TypeOK
<1>4. HeadInv' /\ GoldensKept'
  BY <1>1 DEF listings, FixturesInv, HeadInv, GoldensKept
<1>5. FreshInv' /\ CheckInv'
  BY <1>1, <1>2 DEF FixturesInv, WarehouseInv, FreshInv, CheckInv
<1> QED
  BY <1>2, <1>3, <1>4, <1>5 DEF FixturesInv, WarehouseInv

LEMMA DropKeeps == ASSUME FixturesInv, DropDb PROVE FixturesInv'
<1>1. TypeOK'
  BY DEF DropDb, listings, FixturesInv, TypeOK, Unchecked
<1>2. HeadInv' /\ GoldensKept'
  BY DEF DropDb, listings, FixturesInv, HeadInv, GoldensKept
<1>3. WarehouseInv'
  BY DEF DropDb, Unchecked, WarehouseInv, CleanInv, FreshInv, CheckInv
<1> QED
  BY <1>1, <1>2, <1>3 DEF FixturesInv

LEMMA GoldenWriteKeeps ==
    ASSUME FixturesInv, NEW g \in Goldens, GoldenWrite(g) PROVE FixturesInv'
<1>1. PICK c \in Content : out' = [out EXCEPT ![g] = c]
  <2>1. Shows \cup {Cut} \subseteq Content
    BY TreeContents DEF Shows, GoldenWrite, FixturesInv, TypeOK
  <2> QED
    BY <2>1 DEF GoldenWrite
<1>2. out' \in Tree
  BY <1>1, TreeContents DEF FixturesInv, TypeOK
<1>3. parts' \subseteq Parts
  BY DEF GoldenWrite, Killed, FixturesInv, TypeOK
<1>4. UNCHANGED <<code, fixture, manifest, warehouse, verdict, head, clean, fresh, listings>>
  BY DEF GoldenWrite
<1>5. TypeOK'
  BY <1>2, <1>3, <1>4 DEF warehouse, listings, FixturesInv, TypeOK
<1>6. HeadInv' /\ GoldensKept'
  BY <1>4 DEF listings, FixturesInv, HeadInv, GoldensKept
<1>7. InForce' = InForce
  BY <1>1, <1>4, FixturesAssumption, TreeContents DEF InForce, FixturesInv, TypeOK, Tree
<1>8. WarehouseInv'
  BY <1>4, <1>7 DEF warehouse, FixturesInv, WarehouseInv, CleanInv, FreshInv, CheckInv
<1> QED
  BY <1>5, <1>6, <1>8 DEF FixturesInv

LEMMA GoldenCheckKeeps ==
    ASSUME FixturesInv, NEW g \in Goldens, GoldenCheck(g) PROVE FixturesInv'
<1>1. PICK says \in Says(g) : verdict' = [verdict EXCEPT ![g] = says]
  BY DEF GoldenCheck
<1>2. UNCHANGED <<code, out, fixture, manifest, warehouse, head, clean, fresh, listings, parts>>
  BY DEF GoldenCheck
<1>3. says \in {"OK", "FAIL"} /\ (says = "OK" /\ tables # Blend => fixture[g] = tables)
  BY <1>1 DEF Says
<1>4. TypeOK'
  BY <1>1, <1>2, <1>3 DEF warehouse, listings, FixturesInv, TypeOK
<1>5. HeadInv' /\ GoldensKept'
  BY <1>2 DEF listings, FixturesInv, HeadInv, GoldensKept
<1>6. CleanInv' /\ FreshInv'
  BY <1>2 DEF warehouse, FixturesInv, WarehouseInv, CleanInv, FreshInv, InForce
<1>7. CheckInv'
  BY <1>1, <1>2, <1>3 DEF warehouse, FixturesInv, TypeOK, WarehouseInv, CheckInv
<1> QED
  BY <1>4, <1>5, <1>6, <1>7 DEF FixturesInv, WarehouseInv

\* The guard of a freeze is about every file the manifest lists, so none that
\* an earlier freeze has listed can be missing from the new one.
LEMMA FreezeKeeps == ASSUME FixturesInv, Freeze PROVE FixturesInv'
<1>1. UNCHANGED <<code, out, warehouse, head>> /\ Outdate
  BY DEF Freeze
<1>2. HeadInv'
  BY <1>1 DEF FixturesInv, HeadInv
<1>3. CASE FreezeWhole
  <2>1. TypeOK'
    BY <1>1, <1>3, OutdateKeeps DEF FreezeWhole, warehouse, FixturesInv, TypeOK, Listed
  <2>2. ASSUME NEW g \in frozen', g \notin torn' PROVE manifest' # None /\ manifest'[g] # Absent
    <3>1. manifest' = out /\ out # None
      BY <1>3, FixturesAssumption DEF FreezeWhole, FixturesInv, TypeOK
    <3>2. CASE g \in Listed(out)
      BY <3>1, <3>2 DEF Listed
    <3>3. CASE g \notin Listed(out)
      <4>1. g \in frozen \ torn /\ g \in Files
        BY <1>3, <2>2, <3>3, TreeContents DEF FreezeWhole, FixturesInv, TypeOK
      <4>2. manifest # None /\ manifest[g] # Absent
        BY <4>1 DEF FixturesInv, GoldensKept
      <4>3. out[g] # Absent
        BY <4>1, <4>2 DEF Freeze, MissingFromOutput, Lacks
      <4> QED
        BY <3>1, <4>3
    <3> QED
      BY <3>2, <3>3
  <2> QED
    BY <1>1, <1>2, <2>1, <2>2, OutdateKeeps DEF FixturesInv, GoldensKept
<1>4. CASE FreezeKilled
  <2>1. PICK part \in Parts : Killed(part) /\ (KilledRemoving(part) \/ KilledCopying(part))
    BY <1>4 DEF FreezeKilled
  <2>2. fixture' \in Tree /\ manifest' \in Tree \cup {None}
    BY <2>1, KilledTrees DEF FixturesInv
  <2>3. parts' \subseteq Parts
    BY <2>1 DEF Killed, FixturesInv, TypeOK
  <2>4. torn' = frozen /\ frozen' = frozen
    BY <1>4 DEF FreezeKilled
  <2>5. TypeOK'
    BY <1>1, <2>2, <2>3, <2>4, OutdateKeeps DEF warehouse, FixturesInv, TypeOK
  <2>6. GoldensKept'
    BY <2>4 DEF GoldensKept
  <2> QED
    BY <1>1, <1>2, <2>5, <2>6, OutdateKeeps DEF FixturesInv
<1> QED
  BY <1>3, <1>4 DEF Freeze

LEMMA EditCodeKeeps ==
    ASSUME FixturesInv, NEW c \in Codes, EditCode(c) PROVE FixturesInv'
<1>1. /\ code' = c /\ Outdate
      /\ UNCHANGED <<out, fixture, manifest, warehouse, head, listings, parts>>
  BY DEF EditCode
<1>2. TypeOK'
  BY <1>1, OutdateKeeps DEF warehouse, listings, FixturesInv, TypeOK
<1>3. HeadInv' /\ GoldensKept'
  BY <1>1 DEF listings, FixturesInv, HeadInv, GoldensKept
<1> QED
  BY <1>1, <1>2, <1>3, OutdateKeeps DEF FixturesInv

LEMMA EditFixtureKeeps == ASSUME FixturesInv, EditFixture PROVE FixturesInv'
<1>1. /\ fixture' = [fixture EXCEPT ![Seeded] = Edited] /\ Outdate
      /\ UNCHANGED <<code, out, manifest, warehouse, head, listings, parts>>
  BY DEF EditFixture
<1>2. fixture' \in Tree
  <2>1. Edited \in Content
    BY DEF Content, Data
  <2> QED
    BY <1>1, <2>1, TreeContents DEF FixturesInv, TypeOK
<1>3. TypeOK'
  BY <1>1, <1>2, OutdateKeeps DEF warehouse, listings, FixturesInv, TypeOK
<1>4. HeadInv' /\ GoldensKept'
  BY <1>1 DEF listings, FixturesInv, HeadInv, GoldensKept
<1> QED
  BY <1>1, <1>3, <1>4, OutdateKeeps DEF FixturesInv

LEMMA CommitKeeps == ASSUME FixturesInv, Commit PROVE FixturesInv'
<1>1. head' = [fixture |-> fixture, manifest |-> manifest, torn |-> torn, frozen |-> frozen]
  BY DEF Commit
<1>2. UNCHANGED <<code, out, fixture, manifest, warehouse, verdict, clean, fresh, listings, parts>>
  BY DEF Commit
<1>3. HeadInv'
  BY <1>1 DEF FixturesInv, TypeOK, GoldensKept, HeadInv
<1>4. TypeOK' /\ GoldensKept'
  BY <1>1, <1>2 DEF warehouse, listings, FixturesInv, TypeOK, GoldensKept
<1>5. WarehouseInv'
  BY <1>2 DEF warehouse, FixturesInv, WarehouseInv, CleanInv, FreshInv, CheckInv, InForce
<1> QED
  BY <1>3, <1>4, <1>5 DEF FixturesInv

\* The committed manifest is as good as the one it replaces.
LEMMA RestoreKeeps == ASSUME FixturesInv, Restore PROVE FixturesInv'
<1>1. /\ fixture' = head.fixture /\ manifest' = head.manifest
      /\ torn' = head.torn /\ frozen' = head.frozen
      /\ UNCHANGED <<code, out, warehouse, head, parts>> /\ Outdate
  BY DEF Restore
<1>2. TypeOK' /\ HeadInv' /\ GoldensKept'
  BY <1>1, OutdateKeeps DEF warehouse, FixturesInv, TypeOK, HeadInv, GoldensKept
<1> QED
  BY <1>1, <1>2, OutdateKeeps DEF FixturesInv

LEMMA NextFixtures == FixturesInv /\ [Next]_vars => FixturesInv'
<1> SUFFICES ASSUME FixturesInv, [Next]_vars PROVE FixturesInv'
  OBVIOUS
<1>1. CASE MakeSeed
  BY <1>1, SeedKeeps
<1>2. CASE Load \/ Build \/ DropDb
  BY <1>2, LoadKeeps, BuildKeeps, DropKeeps
<1>3. CASE Freeze
  BY <1>3, FreezeKeeps
<1>4. CASE \E g \in Goldens : GoldenWrite(g) \/ GoldenCheck(g)
  BY <1>4, GoldenWriteKeeps, GoldenCheckKeeps
<1>5. CASE \E c \in Codes : EditCode(c)
  BY <1>5, EditCodeKeeps
<1>6. CASE EditFixture \/ Commit \/ Restore
  BY <1>6, EditFixtureKeeps, CommitKeeps, RestoreKeeps
<1>7. CASE UNCHANGED vars
  BY <1>7 DEF vars, warehouse, listings, FixturesInv, TypeOK, HeadInv, GoldensKept,
              WarehouseInv, CleanInv, FreshInv, CheckInv, InForce
<1> QED
  BY <1>1, <1>2, <1>3, <1>4, <1>5, <1>6, <1>7 DEF Next

-----------------------------------------------------------------------------
\* The inductive invariant holds of every behaviour of the commands.
THEOREM FixturesInvariant == Spec => []FixturesInv
BY InitFixtures, NextFixtures, PTL DEF Spec

\* Every variable of the fixture's life has its type (data/out, fixtures/,
\* the manifest, the warehouse).
THEOREM FixturesTyped == Spec => []TypeOK
<1>1. FixturesInv => TypeOK
  BY DEF FixturesInv
<1> QED
  BY <1>1, FixturesInvariant, PTL

\* Once listed by a freeze a golden stays listed, through every freeze that
\* was not killed (missing_from_output in generator/cli.py).
THEOREM FixturesGoldensKept == Spec => []GoldensKept
<1>1. FixturesInv => GoldensKept
  BY DEF FixturesInv
<1> QED
  BY <1>1, FixturesInvariant, PTL

\* What a golden check said OK of is what the code builds of the frozen data,
\* over a warehouse landed of these alone and built from scratch by this code
\* (fixture_dir, partition_overwrite_events, dbt_build, _golden in eval/cli.py).
THEOREM FixturesReproduced == Spec => []GoldenIsReproduced
<1>1. FixturesInv => GoldenIsReproduced
  <2> SUFFICES ASSUME FixturesInv, NEW g \in Goldens,
                      verdict[g] = "OK", fresh, fixture[Seeded] # Absent
               PROVE  fixture[g] = [of |-> fixture[Seeded], by |-> code]
    BY DEF GoldenIsReproduced
  <2>1. raw \in Data /\ raw = fixture[Seeded] /\ tables = [of |-> raw, by |-> code]
    BY DEF FixturesInv, WarehouseInv, CleanInv, FreshInv, InForce
  <2>2. tables # Blend
    BY <2>1, Apart, TreeContents DEF FixturesInv, TypeOK
  <2> QED
    BY <2>1, <2>2 DEF FixturesInv, WarehouseInv, CheckInv
<1> QED
  BY <1>1, FixturesInvariant, PTL

-----------------------------------------------------------------------------
(* The mutation sweep *)

Working == {"add", "apply", "suite", "remove", "prune", "compare", "report"}
Judged(s, i) ==
    \/ i < line[s]
    \/ i = line[s] /\ phase[s] \in {"remove", "prune", "compare", "report", "OK"}
\* A listing was compared after tree i was removed.
Vouched(s, i) == phase[s] \in {"report", "OK"} \/ (line[s] > 1 /\ i < line[s])

\* Before the listing nothing of the sweep's own is there.
UntouchedInv(s) ==
    phase[s] \in {"idle", "prune first", "list"} =>
        /\ line[s] = 0 /\ ~green[s]
        /\ \A i \in 0..Lines : registered[<<s, i>>] = NoCommit /\ placed[<<s, i>>] = NoCommit
ListedInv(s) ==
    phase[s] \in Working \cup {"OK"} =>
        /\ before[s] \in Listings
        /\ \A i \in 0..Lines : before[s].registered[<<s, i>>] = NoCommit
AheadInv(s) ==
    phase[s] \in Working => \A i \in 0..Lines :
        i > line[s] \/ (i = line[s] /\ phase[s] = "add") =>
            registered[<<s, i>>] = NoCommit /\ placed[<<s, i>>] = NoCommit
TreeInv(s) ==
    phase[s] \in {"apply", "suite"} =>
        /\ <<s, line[s]>> \in onDisk /\ placed[<<s, line[s]>>] \in Commits
        /\ registered[<<s, line[s]>>] = placed[<<s, line[s]>>]
        /\ phase[s] = "apply" => line[s] > 0
        /\ phase[s] = "suite" /\ line[s] > 0 => <<placed[<<s, line[s]>>], line[s]>> \notin Unfit
GreenInv(s) ==
    phase[s] \in Working \cup {"OK"} =>
        /\ line[s] = 0 /\ phase[s] \in {"add", "suite"} => ~green[s]
        /\ line[s] > 0 => green[s]
        /\ green[s] => placed[<<s, 0>>] \in Commits \ Red
        /\ phase[s] = "compare" => line[s] > 0
        /\ phase[s] \in {"report", "OK"} => line[s] = Lines
JudgedInv(s) ==
    phase[s] \in Working \cup {"OK"} => \A i \in 1..Lines : Judged(s, i) =>
        /\ verdicts[s][i] # ""
        /\ verdicts[s][i] = "KILLED" =>
              placed[<<s, i>>] \in Commits /\ <<placed[<<s, i>>], i>> \in Caught \ Unfit
\* Being where the sweep found it, HEAD has never left.
PlacedInv(s) ==
    phase[s] \in Working /\ ~returned[s] /\ headCommit = before[s].head =>
        \A i \in 0..Lines : placed[<<s, i>>] \in {NoCommit, before[s].head}
ComparedInv(s) ==
    phase[s] \in Working \cup {"OK"} /\ ~registryChanged[s] =>
        \A i \in 0..Lines : Vouched(s, i) =>
            /\ registered[<<s, i>>] = NoCommit
            /\ returned[s] \/ placed[<<s, i>>] \in {NoCommit, before[s].head}
OkInv(s) ==
    phase[s] = "OK" =>
        ~registryChanged[s] /\ \A i \in 1..Lines : verdicts[s][i] \notin {"SURVIVED", "ERROR"}

SweepLocal(s) ==
    /\ UntouchedInv(s) /\ ListedInv(s) /\ AheadInv(s) /\ TreeInv(s) /\ GreenInv(s)
    /\ JudgedInv(s) /\ PlacedInv(s) /\ ComparedInv(s) /\ OkInv(s)
SweepInv == SweepTypeOK /\ \A s \in Sweeps : SweepLocal(s)

-----------------------------------------------------------------------------
(* Types of the sweep *)

LEMMA LineTyped ==
    ASSUME SweepTypeOK, NEW s \in Sweeps
    PROVE  line[s] \in Nat /\ line[s] <= Lines /\ Lines \in Nat /\ Lines > 0
<1>1. line \in [Sweeps -> 0..Lines]
  BY DEF SweepTypeOK
<1>2. line[s] \in 0..Lines
  BY <1>1
<1>3. Lines \in Nat /\ Lines > 0
  BY SweepAssumption
<1> QED
  BY <1>2, <1>3

LEMMA InRange ==
    ASSUME NEW i \in Nat, NEW n \in Nat, i <= n, i > 0 PROVE i \in 1..n
OBVIOUS

LEMMA SweepInitTyped == SweepInit => SweepTypeOK
<1> SUFFICES ASSUME SweepInit PROVE SweepTypeOK
  OBVIOUS
<1>1. line \in [Sweeps -> 0..Lines]
  <2>1. 0 \in 0..Lines
    BY SweepAssumption
  <2> QED
    BY <2>1 DEF SweepInit
<1>2. verdicts \in [Sweeps -> [1..Lines -> {"", "KILLED", "SURVIVED", "ERROR"}]]
  BY DEF SweepInit
<1>3. phase \in [Sweeps -> Phases] /\ before \in [Sweeps -> Listings \cup {NoListing}]
  BY DEF SweepInit, Phases, Over
<1>4. /\ headCommit \in Commits
      /\ registered \in [Trees -> Commits \cup {NoCommit}] /\ onDisk \subseteq Trees
      /\ placed \in [Trees -> Commits \cup {NoCommit}]
  BY DEF SweepInit
<1>5. /\ green \in [Sweeps -> BOOLEAN] /\ registryChanged \in [Sweeps -> BOOLEAN]
      /\ returned \in [Sweeps -> BOOLEAN]
  BY DEF SweepInit
<1> QED
  BY <1>1, <1>2, <1>3, <1>4, <1>5 DEF SweepTypeOK

LEMMA ListingTyped ==
    ASSUME SweepTypeOK PROVE Listing \in Listings
BY DEF SweepTypeOK, Listing, Listings

LEMMA PrunedTyped ==
    ASSUME SweepTypeOK PROVE Pruned \in [Trees -> Commits \cup {NoCommit}]
BY DEF SweepTypeOK, Pruned

LEMMA SweepNextTyped == SweepInv /\ [SweepNext]_sweepVars => SweepTypeOK'
<1> SUFFICES ASSUME SweepInv, [SweepNext]_sweepVars PROVE SweepTypeOK'
  OBVIOUS
<1> USE DEF SweepInv
<1>1. ASSUME NEW s \in Sweeps, NEW p \in Phases, Goto(s, p)
      PROVE  phase' \in [Sweeps -> Phases]
  BY <1>1 DEF SweepTypeOK, Goto
<1>2. ASSUME NEW s \in Sweeps, NEW v \in {"", "KILLED", "SURVIVED", "ERROR"}, line[s] > 0,
             Judge(s, v)
      PROVE  verdicts' \in [Sweeps -> [1..Lines -> {"", "KILLED", "SURVIVED", "ERROR"}]]
  <2>1. line[s] \in 1..Lines
    <3>1. line[s] \in Nat /\ line[s] <= Lines /\ Lines \in Nat
      BY LineTyped
    <3>2. line[s] > 0
      BY <1>2
    <3> QED
      BY <3>1, <3>2, InRange
  <2> QED
    BY <1>2, <2>1 DEF SweepTypeOK, Judge
<1>3. ASSUME NEW s \in Sweeps PROVE <<s, line[s]>> \in Trees
  BY DEF SweepTypeOK, Trees
<1>4. ASSUME NEW s \in Sweeps, Start(s) PROVE SweepTypeOK'
  BY <1>1, <1>4 DEF Start, SweepTypeOK, Phases, Over, repositoryVars
<1>5. ASSUME NEW s \in Sweeps, PruneFirst(s) PROVE SweepTypeOK'
  <2>1. phase' \in [Sweeps -> Phases]
    BY <1>1, <1>5 DEF PruneFirst, Phases
  <2> QED
    BY <1>5, <2>1, PrunedTyped DEF PruneFirst, SweepTypeOK
<1>6. ASSUME NEW s \in Sweeps, List(s) PROVE SweepTypeOK'
  <2>1. phase' \in [Sweeps -> Phases]
    BY <1>1, <1>6 DEF List, Phases
  <2>2. before' \in [Sweeps -> Listings \cup {NoListing}]
    BY <1>6, ListingTyped DEF List, SweepTypeOK
  <2> QED
    BY <1>6, <2>1, <2>2 DEF List, SweepTypeOK, repositoryVars
<1>7. ASSUME NEW s \in Sweeps, Add(s) PROVE SweepTypeOK'
  <2>1. phase' \in [Sweeps -> Phases]
    BY <1>1, <1>7 DEF Add, Phases
  <2>2. /\ registered' \in [Trees -> Commits \cup {NoCommit}]
        /\ placed' \in [Trees -> Commits \cup {NoCommit}] /\ onDisk' \subseteq Trees
    BY <1>3, <1>7 DEF Add, SweepTypeOK
  <2> QED
    BY <1>7, <2>1, <2>2 DEF Add, SweepTypeOK
<1>8. ASSUME NEW s \in Sweeps, AddFails(s) PROVE SweepTypeOK'
  <2>1. phase' \in [Sweeps -> Phases]
    BY <1>1, <1>8 DEF AddFails, Phases
  <2>2. verdicts' \in [Sweeps -> [1..Lines -> {"", "KILLED", "SURVIVED", "ERROR"}]]
    <3>1. line[s] = 0 \/ line[s] > 0
      BY LineTyped
    <3> QED
      BY <1>2, <1>8, <3>1 DEF AddFails, SweepTypeOK
  <2> QED
    BY <1>8, <2>1, <2>2 DEF AddFails, SweepTypeOK, repositoryVars
<1>9. ASSUME NEW s \in Sweeps, Apply(s) PROVE SweepTypeOK'
  <2>1. phase' \in [Sweeps -> Phases]
    BY <1>1, <1>9 DEF Apply, Phases
  <2>2. line[s] > 0
    BY <1>9 DEF Apply, SweepLocal, TreeInv
  <2>3. verdicts' \in [Sweeps -> [1..Lines -> {"", "KILLED", "SURVIVED", "ERROR"}]]
    BY <1>2, <1>9, <2>2 DEF Apply, SweepTypeOK
  <2> QED
    BY <1>9, <2>1, <2>3 DEF Apply, SweepTypeOK, repositoryVars
<1>10. ASSUME NEW s \in Sweeps, RunBaseline(s) PROVE SweepTypeOK'
  <2>1. phase' \in [Sweeps -> Phases]
    BY <1>1, <1>10 DEF RunBaseline, Phases
  <2> QED
    BY <1>10, <2>1 DEF RunBaseline, SweepTypeOK, repositoryVars
<1>11. ASSUME NEW s \in Sweeps, RunSuite(s) PROVE SweepTypeOK'
  <2>1. phase' \in [Sweeps -> Phases]
    BY <1>1, <1>11 DEF RunSuite, Phases
  <2>2. verdicts' \in [Sweeps -> [1..Lines -> {"", "KILLED", "SURVIVED", "ERROR"}]]
    BY <1>2, <1>11 DEF RunSuite
  <2> QED
    BY <1>11, <2>1, <2>2 DEF RunSuite, SweepTypeOK, repositoryVars
<1>12. ASSUME NEW s \in Sweeps, Remove(s) PROVE SweepTypeOK'
  <2>1. phase' \in [Sweeps -> Phases]
    BY <1>1, <1>12 DEF Remove, Phases
  <2>2. registered' \in [Trees -> Commits \cup {NoCommit}] /\ onDisk' \subseteq Trees
    BY <1>12 DEF Remove, SweepTypeOK
  <2> QED
    BY <1>12, <2>1, <2>2 DEF Remove, SweepTypeOK
<1>13. ASSUME NEW s \in Sweeps, Prune(s) PROVE SweepTypeOK'
  <2>1. phase' \in [Sweeps -> Phases]
    BY <1>1, <1>13 DEF Prune, Phases, Over
  <2>2. line' \in [Sweeps -> 0..Lines]
    <3>1. 1 \in 0..Lines
      BY SweepAssumption
    <3> QED
      BY <1>13, <3>1 DEF Prune, SweepTypeOK
  <2> QED
    BY <1>13, <2>1, <2>2, PrunedTyped DEF Prune, SweepTypeOK
<1>14. ASSUME NEW s \in Sweeps, Compare(s) PROVE SweepTypeOK'
  <2>1. phase' \in [Sweeps -> Phases]
    BY <1>1, <1>14 DEF Compare, Phases
  <2>2. line' \in [Sweeps -> 0..Lines]
    <3>1. line[s] < Lines => line[s] + 1 \in 0..Lines
      BY LineTyped
    <3> QED
      BY <1>14, <3>1 DEF Compare, SweepTypeOK
  <2>3. registryChanged' \in [Sweeps -> BOOLEAN]
    BY <1>14 DEF Compare, SweepTypeOK
  <2> QED
    BY <1>14, <2>1, <2>2, <2>3 DEF Compare, SweepTypeOK, repositoryVars
<1>15. ASSUME NEW s \in Sweeps, Report(s) PROVE SweepTypeOK'
  <2>1. phase' \in [Sweeps -> Phases]
    BY <1>1, <1>15 DEF Report, Phases, Over
  <2> QED
    BY <1>15, <2>1 DEF Report, SweepTypeOK, repositoryVars
<1>16. ASSUME NEW s \in Sweeps, Kill(s) PROVE SweepTypeOK'
  <2>1. phase' \in [Sweeps -> Phases]
    BY <1>1, <1>16 DEF Kill, Phases, Over
  <2> QED
    BY <1>16, <2>1 DEF Kill, SweepTypeOK, repositoryVars
<1>17. ASSUME NEW c \in Commits, MoveHead(c) PROVE SweepTypeOK'
  <2>1. returned' \in [Sweeps -> BOOLEAN]
    BY <1>17 DEF MoveHead, SweepTypeOK
  <2> QED
    BY <1>17, <2>1 DEF MoveHead, SweepTypeOK
<1>18. CASE CleanTemp
  BY <1>18 DEF CleanTemp, SweepTypeOK
<1>19. CASE UNCHANGED sweepVars
  BY <1>19 DEF sweepVars, repositoryVars, SweepTypeOK
<1> QED
  BY <1>4, <1>5, <1>6, <1>7, <1>8, <1>9, <1>10, <1>11, <1>12, <1>13, <1>14, <1>15, <1>16,
     <1>17, <1>18, <1>19 DEF SweepNext, Step

-----------------------------------------------------------------------------
(* What the sweep keeps *)

LEMMA LineInRange ==
    ASSUME SweepTypeOK, NEW s \in Sweeps
    PROVE  line[s] \in 0..Lines
BY DEF SweepTypeOK

\* A step that is not of sweep s: it may lose a registration of a tree of s
\* that s has no use for.
Undisturbed(s) ==
    /\ phase'[s] = phase[s] /\ line'[s] = line[s] /\ before'[s] = before[s]
    /\ green'[s] = green[s] /\ verdicts'[s] = verdicts[s]
    /\ registryChanged'[s] = registryChanged[s] /\ returned'[s] = returned[s]
    /\ headCommit' = headCommit
    /\ \A i \in 0..Lines :
          /\ placed'[<<s, i>>] = placed[<<s, i>>]
          /\ registered'[<<s, i>>] \in {registered[<<s, i>>], NoCommit}
    /\ phase[s] \in {"apply", "suite"} =>
          /\ <<s, line[s]>> \in onDisk'
          /\ registered'[<<s, line[s]>>] = registered[<<s, line[s]>>]

LEMMA UndisturbedKeeps ==
    ASSUME SweepTypeOK, NEW s \in Sweeps, SweepLocal(s), Undisturbed(s)
    PROVE  SweepLocal(s)'
<1>1. UntouchedInv(s)'
  BY DEF SweepLocal, UntouchedInv, Undisturbed
<1>2. ListedInv(s)'
  BY DEF SweepLocal, ListedInv, Undisturbed, Working, Listings
<1>3. AheadInv(s)'
  BY DEF SweepLocal, AheadInv, Undisturbed, Working
<1>4. TreeInv(s)'
  BY LineInRange DEF SweepLocal, TreeInv, Undisturbed
<1>5. GreenInv(s)'
  <2>1. 0 \in 0..Lines
    BY SweepAssumption
  <2> QED
    BY <2>1 DEF SweepLocal, GreenInv, Undisturbed, Working
<1>6. JudgedInv(s)'
  <2>1. \A i \in 1..Lines : i \in 0..Lines
    BY SweepAssumption
  <2> QED
    BY <2>1 DEF SweepLocal, JudgedInv, Judged, Undisturbed, Working
<1>7. PlacedInv(s)'
  BY DEF SweepLocal, PlacedInv, Undisturbed, Working
<1>8. ComparedInv(s)'
  BY DEF SweepLocal, ComparedInv, Vouched, Undisturbed, Working
<1>9. OkInv(s)'
  BY DEF SweepLocal, OkInv, Undisturbed
<1> QED
  BY <1>1, <1>2, <1>3, <1>4, <1>5, <1>6, <1>7, <1>8, <1>9 DEF SweepLocal

\* A sweep that has ended, and not with OK, is held to nothing.
LEMMA EndedKeeps ==
    ASSUME NEW s, phase'[s] \in {"refused", "FAIL", "killed"}
    PROVE  SweepLocal(s)'
BY DEF SweepLocal, UntouchedInv, ListedInv, AheadInv, TreeInv, GreenInv, JudgedInv, PlacedInv,
       ComparedInv, OkInv, Working

LEMMA SweepInitInv == SweepInit => SweepInv
<1> SUFFICES ASSUME SweepInit PROVE SweepInv
  OBVIOUS
<1>1. ASSUME NEW s \in Sweeps PROVE SweepLocal(s)
  <2>1. UntouchedInv(s)
    BY DEF SweepInit, UntouchedInv, Trees
  <2>2. phase[s] = "idle"
    BY DEF SweepInit
  <2> QED
    BY <2>1, <2>2 DEF SweepLocal, ListedInv, AheadInv, TreeInv, GreenInv, JudgedInv, PlacedInv,
       ComparedInv, OkInv, Working
<1> QED
  BY <1>1, SweepInitTyped DEF SweepInv

LEMMA StartKeeps ==
    ASSUME SweepInv, NEW s \in Sweeps, Start(s) PROVE SweepLocal(s)'
<1>1. CASE phase'[s] = "refused"
  BY <1>1, EndedKeeps
<1>2. CASE phase'[s] # "refused"
  <2>1. /\ phase[s] = "idle" /\ phase'[s] = "prune first" /\ line'[s] = line[s]
        /\ green'[s] = green[s] /\ registered' = registered /\ placed' = placed
    BY <1>2 DEF Start, Goto, SweepInv, SweepTypeOK, repositoryVars
  <2>2. UntouchedInv(s)'
    BY <2>1 DEF SweepInv, SweepLocal, UntouchedInv
  <2> QED
    BY <2>1, <2>2 DEF SweepLocal, ListedInv, AheadInv, TreeInv, GreenInv, JudgedInv, PlacedInv,
       ComparedInv, OkInv, Working
<1> QED
  BY <1>1, <1>2

LEMMA PruneFirstKeeps ==
    ASSUME SweepInv, NEW s \in Sweeps, PruneFirst(s) PROVE SweepLocal(s)'
<1>1. /\ phase[s] = "prune first" /\ phase'[s] = "list" /\ line'[s] = line[s]
      /\ green'[s] = green[s] /\ placed' = placed
  BY DEF PruneFirst, Goto, SweepInv, SweepTypeOK
<1>2. \A i \in 0..Lines : registered'[<<s, i>>] \in {registered[<<s, i>>], NoCommit}
  BY DEF PruneFirst, Pruned, Trees
<1>3. UntouchedInv(s)'
  BY <1>1, <1>2 DEF SweepInv, SweepLocal, UntouchedInv
<1> QED
  BY <1>1, <1>3 DEF SweepLocal, ListedInv, AheadInv, TreeInv, GreenInv, JudgedInv, PlacedInv,
     ComparedInv, OkInv, Working

LEMMA ListKeeps ==
    ASSUME SweepInv, NEW s \in Sweeps, List(s) PROVE SweepLocal(s)'
<1>1. /\ phase[s] = "list" /\ phase'[s] = "add" /\ line'[s] = 0 /\ ~green'[s]
      /\ registered' = registered /\ placed' = placed /\ before'[s] = Listing
      /\ verdicts' = verdicts
  BY DEF List, Goto, SweepInv, SweepTypeOK, SweepLocal, UntouchedInv, repositoryVars
<1>2. \A i \in 0..Lines : registered[<<s, i>>] = NoCommit /\ placed[<<s, i>>] = NoCommit
  BY <1>1 DEF SweepInv, SweepLocal, UntouchedInv
<1>3. UntouchedInv(s)' /\ TreeInv(s)' /\ OkInv(s)'
  BY <1>1 DEF UntouchedInv, TreeInv, OkInv
<1>4. ListedInv(s)'
  <2>1. Listing \in Listings /\ Listing.registered = registered
    BY ListingTyped DEF SweepInv, Listing
  <2>2. before'[s] \in Listings /\ before'[s].registered = registered
    BY <1>1, <2>1
  <2> QED
    BY <1>2, <2>2 DEF ListedInv, Listings
<1>5. AheadInv(s)'
  BY <1>1, <1>2 DEF AheadInv
<1>6. GreenInv(s)'
  BY <1>1 DEF GreenInv
<1>7. JudgedInv(s)'
  <2>1. \A i \in 1..Lines : ~(i < 0)
    BY SweepAssumption
  <2>2. \A i \in 1..Lines : ~Judged(s, i)'
    BY <1>1, <2>1 DEF Judged
  <2> QED
    BY <2>2 DEF JudgedInv
<1>8. PlacedInv(s)'
  BY <1>1, <1>2 DEF PlacedInv
<1>9. ComparedInv(s)'
  BY <1>1 DEF ComparedInv, Vouched
<1> QED
  BY <1>3, <1>4, <1>5, <1>6, <1>7, <1>8, <1>9 DEF SweepLocal

LEMMA AddKeeps ==
    ASSUME SweepInv, NEW s \in Sweeps, Add(s) PROVE SweepLocal(s)'
<1> DEFINE tree == <<s, line[s]>>
<1>1. /\ phase[s] = "add" /\ phase'[s] = IF line[s] = 0 THEN "suite" ELSE "apply"
      /\ line'[s] = line[s] /\ green'[s] = green[s] /\ before'[s] = before[s]
      /\ verdicts'[s] = verdicts[s] /\ registryChanged'[s] = registryChanged[s]
      /\ returned'[s] = returned[s] /\ headCommit' = headCommit /\ headCommit \in Commits
  BY DEF Add, Goto, SweepInv, SweepTypeOK
<1>2. line[s] \in 0..Lines /\ \A i \in 0..Lines : <<s, i>> \in Trees
  BY LineInRange DEF SweepInv, Trees
<1>3. /\ registered'[tree] = headCommit /\ placed'[tree] = headCommit /\ tree \in onDisk'
      /\ \A i \in 0..Lines : i # line[s] =>
            registered'[<<s, i>>] = registered[<<s, i>>] /\ placed'[<<s, i>>] = placed[<<s, i>>]
  BY <1>2 DEF Add, SweepInv, SweepTypeOK
<1>4. line[s] \in Nat /\ line[s] <= Lines /\ Lines \in Nat
  BY LineTyped DEF SweepInv
<1>5. UntouchedInv(s)' /\ OkInv(s)'
  BY <1>1 DEF UntouchedInv, OkInv
<1>6. ListedInv(s)'
  BY <1>1 DEF SweepInv, SweepLocal, ListedInv, Working
<1>7. AheadInv(s)'
  BY <1>1, <1>3, <1>4 DEF SweepInv, SweepLocal, AheadInv, Working
<1>8. TreeInv(s)'
  BY <1>1, <1>3, <1>4 DEF TreeInv
<1>9. GreenInv(s)'
  <2>1. 0 \in 0..Lines
    BY <1>4
  <2> QED
    BY <1>1, <1>3, <1>4, <2>1 DEF SweepInv, SweepLocal, GreenInv, Working
<1>10. JudgedInv(s)'
  <2>1. ASSUME NEW i \in 1..Lines, Judged(s, i)'
        PROVE  Judged(s, i) /\ i # line[s] /\ i \in 0..Lines
    <3>1. i < line[s]
      BY <1>1, <2>1 DEF Judged
    <3> QED
      BY <1>4, <3>1 DEF Judged
  <2> QED
    BY <1>1, <1>3, <2>1 DEF SweepInv, SweepLocal, JudgedInv, Working
<1>11. PlacedInv(s)'
  BY <1>1, <1>3 DEF SweepInv, SweepLocal, PlacedInv, Working
<1>12. ComparedInv(s)'
  BY <1>1, <1>3, <1>4 DEF SweepInv, SweepLocal, ComparedInv, Vouched, Working
<1> QED
  BY <1>5, <1>6, <1>7, <1>8, <1>9, <1>10, <1>11, <1>12 DEF SweepLocal

LEMMA LineNumbers ==
    \A i \in 1..Lines : i > 0 /\ i \in Nat /\ i \in 0..Lines
BY SweepAssumption

LEMMA NotBefore == \A n \in Nat : ~(n < n)
OBVIOUS

LEMMA JudgeJudges ==
    ASSUME SweepTypeOK, NEW s \in Sweeps, NEW v, Judge(s, v)
    PROVE  /\ \A i \in 1..Lines : i # line[s] => verdicts'[s][i] = verdicts[s][i]
           /\ line[s] \in 1..Lines => verdicts'[s][line[s]] = v
<1>1. verdicts \in [Sweeps -> [1..Lines -> {"", "KILLED", "SURVIVED", "ERROR"}]]
  BY DEF SweepTypeOK
<1>2. verdicts[s] \in [1..Lines -> {"", "KILLED", "SURVIVED", "ERROR"}]
  BY <1>1
<1>3. verdicts'[s] = [verdicts[s] EXCEPT ![line[s]] = v]
  BY <1>1 DEF Judge
<1> QED
  BY <1>2, <1>3

\* The steps inside a tree, which leave the trees alone: the verdict and the
\* baseline are what they change.
Within(s) ==
    /\ line'[s] = line[s] /\ before'[s] = before[s] /\ registryChanged'[s] = registryChanged[s]
    /\ returned'[s] = returned[s] /\ headCommit' = headCommit
    /\ registered' = registered /\ onDisk' = onDisk /\ placed' = placed
    /\ \A i \in 1..Lines : i # line[s] => verdicts'[s][i] = verdicts[s][i]

LEMMA WithinKeeps ==
    ASSUME SweepInv, NEW s \in Sweeps, Within(s), phase[s] \in {"add", "apply", "suite"},
           phase'[s] \in {"suite", "remove"}
    PROVE  /\ UntouchedInv(s)' /\ ListedInv(s)' /\ PlacedInv(s)' /\ ComparedInv(s)' /\ OkInv(s)'
           /\ AheadInv(s)'
<1>1. UntouchedInv(s)' /\ OkInv(s)'
  BY DEF UntouchedInv, OkInv
<1>2. ListedInv(s)'
  BY DEF SweepInv, SweepLocal, ListedInv, Within, Working
<1>3. PlacedInv(s)'
  BY DEF SweepInv, SweepLocal, PlacedInv, Within, Working
<1>4. ComparedInv(s)'
  BY DEF SweepInv, SweepLocal, ComparedInv, Vouched, Within, Working
<1>5. AheadInv(s)'
  BY DEF SweepInv, SweepLocal, AheadInv, Within, Working
<1> QED
  BY <1>1, <1>2, <1>3, <1>4, <1>5

\* The verdicts stay justified when that of the line justifies itself.
LEMMA VerdictKeeps ==
    ASSUME SweepInv, NEW s \in Sweeps, Within(s), phase[s] \in {"add", "apply", "suite"},
           phase'[s] \in {"suite", "remove"},
           phase'[s] = "remove" /\ line[s] > 0 =>
              /\ verdicts'[s][line[s]] # ""
              /\ verdicts'[s][line[s]] = "KILLED" =>
                    /\ placed[<<s, line[s]>>] \in Commits
                    /\ <<placed[<<s, line[s]>>], line[s]>> \in Caught \ Unfit
    PROVE  JudgedInv(s)'
<1>1. \A i \in 1..Lines : i > 0
  BY LineNumbers
<1>2. ASSUME NEW i \in 1..Lines, Judged(s, i)', i # line[s]
      PROVE  /\ verdicts'[s][i] # ""
             /\ verdicts'[s][i] = "KILLED" =>
                   placed[<<s, i>>] \in Commits /\ <<placed[<<s, i>>], i>> \in Caught \ Unfit
  <2>1. Judged(s, i)
    BY <1>2 DEF Judged, Within
  <2>2. verdicts'[s][i] = verdicts[s][i]
    BY <1>2 DEF Within
  <2> QED
    BY <2>1, <2>2 DEF SweepInv, SweepLocal, JudgedInv, Working
<1>3. ASSUME NEW i \in 1..Lines, Judged(s, i)', i = line[s]
      PROVE  /\ verdicts'[s][i] # ""
             /\ verdicts'[s][i] = "KILLED" =>
                   placed[<<s, i>>] \in Commits /\ <<placed[<<s, i>>], i>> \in Caught \ Unfit
  <2>1. line[s] \in Nat
    BY LineTyped DEF SweepInv
  <2>2. ~(i < line[s])
    BY <1>3, <2>1, NotBefore
  <2>3. phase'[s] = "remove"
    BY <1>3, <2>2 DEF Judged, Within
  <2> QED
    BY <1>1, <1>3, <2>3
<1>4. placed' = placed
  BY DEF Within
<1> QED
  BY <1>2, <1>3, <1>4 DEF JudgedInv

LEMMA AddFailsKeeps ==
    ASSUME SweepInv, NEW s \in Sweeps, AddFails(s) PROVE SweepLocal(s)'
<1>1. phase[s] = "add" /\ phase'[s] = "remove" /\ green'[s] = green[s] /\ Within(s)
  <2>1. \A i \in 1..Lines : i # line[s] => verdicts'[s][i] = verdicts[s][i]
    BY JudgeJudges DEF AddFails, SweepInv
  <2> QED
    BY <2>1 DEF AddFails, Goto, Within, SweepInv, SweepTypeOK, repositoryVars
<1>2. line[s] > 0 => verdicts'[s][line[s]] = "ERROR"
  <2>1. line[s] \in Nat /\ line[s] <= Lines /\ Lines \in Nat
    BY LineTyped DEF SweepInv
  <2>2. ASSUME line[s] > 0 PROVE line[s] # 0 /\ line[s] \in 1..Lines
    BY <2>1, <2>2, InRange
  <2> QED
    BY <2>2, JudgeJudges DEF AddFails, SweepInv
<1>3. JudgedInv(s)'
  BY <1>1, <1>2, VerdictKeeps
<1>4. TreeInv(s)'
  BY <1>1 DEF TreeInv
<1>5. GreenInv(s)'
  BY <1>1 DEF SweepInv, SweepLocal, GreenInv, Within, Working
<1> QED
  BY <1>1, <1>3, <1>4, <1>5, WithinKeeps DEF SweepLocal

LEMMA ApplyKeeps ==
    ASSUME SweepInv, NEW s \in Sweeps, Apply(s) PROVE SweepLocal(s)'
<1>1. /\ phase[s] = "apply" /\ phase'[s] \in {"suite", "remove"} /\ green'[s] = green[s]
      /\ Within(s)
  <2>1. \A i \in 1..Lines : i # line[s] => verdicts'[s][i] = verdicts[s][i]
    BY JudgeJudges DEF Apply, SweepInv
  <2> QED
    BY <2>1 DEF Apply, Goto, Within, SweepInv, SweepTypeOK, repositoryVars
<1>2. line[s] \in 1..Lines
  <2>1. line[s] \in Nat /\ line[s] <= Lines /\ Lines \in Nat
    BY LineTyped DEF SweepInv
  <2>2. line[s] > 0
    BY <1>1 DEF SweepInv, SweepLocal, TreeInv
  <2> QED
    BY <2>1, <2>2, InRange
<1>3. /\ phase'[s] = "remove" => verdicts'[s][line[s]] = "ERROR"
      /\ phase'[s] = "suite" => <<registered[<<s, line[s]>>], line[s]>> \notin Unfit
  BY <1>2, JudgeJudges DEF Apply, Goto, SweepInv, SweepTypeOK
<1>4. JudgedInv(s)'
  BY <1>1, <1>3, VerdictKeeps
<1>5. TreeInv(s)'
  BY <1>1, <1>3 DEF SweepInv, SweepLocal, TreeInv, Within
<1>6. GreenInv(s)'
  <2>1. line[s] # 0
    BY <1>2, SweepAssumption
  <2> QED
    BY <1>1, <2>1 DEF SweepInv, SweepLocal, GreenInv, Within, Working
<1> QED
  BY <1>1, <1>4, <1>5, <1>6, WithinKeeps DEF SweepLocal

LEMMA RunBaselineKeeps ==
    ASSUME SweepInv, NEW s \in Sweeps, RunBaseline(s) PROVE SweepLocal(s)'
<1>1. phase[s] = "suite" /\ phase'[s] = "remove" /\ line[s] = 0 /\ Within(s)
  BY DEF RunBaseline, Goto, Within, SweepInv, SweepTypeOK, repositoryVars
<1>2. ~(line[s] > 0)
  BY <1>1
<1>3. JudgedInv(s)'
  BY <1>1, <1>2, VerdictKeeps
<1>4. TreeInv(s)'
  BY <1>1 DEF TreeInv
<1>5. GreenInv(s)'
  <2>1. green'[s] = (placed[<<s, 0>>] \notin Red) /\ placed[<<s, 0>>] \in Commits
    BY <1>1 DEF RunBaseline, SweepInv, SweepLocal, TreeInv, SweepTypeOK
  <2> QED
    BY <1>1, <1>2, <2>1 DEF GreenInv, Within
<1> QED
  BY <1>1, <1>3, <1>4, <1>5, WithinKeeps DEF SweepLocal

LEMMA RunSuiteKeeps ==
    ASSUME SweepInv, NEW s \in Sweeps, RunSuite(s) PROVE SweepLocal(s)'
<1>1. /\ phase[s] = "suite" /\ phase'[s] = "remove" /\ line[s] > 0 /\ green'[s] = green[s]
      /\ Within(s)
  <2>1. \A i \in 1..Lines : i # line[s] => verdicts'[s][i] = verdicts[s][i]
    BY JudgeJudges DEF RunSuite, SweepInv
  <2> QED
    BY <2>1 DEF RunSuite, Goto, Within, SweepInv, SweepTypeOK, repositoryVars
<1>2. line[s] \in 1..Lines
  <2>1. line[s] \in Nat /\ line[s] <= Lines /\ Lines \in Nat
    BY LineTyped DEF SweepInv
  <2> QED
    BY <1>1, <2>1, InRange
<1>3. verdicts'[s][line[s]] = IF <<placed[<<s, line[s]>>], line[s]>> \in Caught
                              THEN "KILLED" ELSE "SURVIVED"
  BY <1>1, <1>2, JudgeJudges DEF RunSuite, SweepInv, SweepLocal, TreeInv
<1>4. /\ placed[<<s, line[s]>>] \in Commits
      /\ <<placed[<<s, line[s]>>], line[s]>> \notin Unfit
  BY <1>1 DEF SweepInv, SweepLocal, TreeInv
<1>5. JudgedInv(s)'
  BY <1>1, <1>3, <1>4, VerdictKeeps
<1>6. TreeInv(s)'
  BY <1>1 DEF TreeInv
<1>7. GreenInv(s)'
  BY <1>1 DEF SweepInv, SweepLocal, GreenInv, Within, Working
<1> QED
  BY <1>1, <1>5, <1>6, <1>7, WithinKeeps DEF SweepLocal

LEMMA RemoveKeeps ==
    ASSUME SweepInv, NEW s \in Sweeps, Remove(s) PROVE SweepLocal(s)'
<1>1. /\ phase[s] = "remove" /\ phase'[s] = "prune" /\ line'[s] = line[s]
      /\ before'[s] = before[s] /\ green'[s] = green[s] /\ verdicts'[s] = verdicts[s]
      /\ registryChanged'[s] = registryChanged[s] /\ returned'[s] = returned[s]
      /\ headCommit' = headCommit /\ placed' = placed
  BY DEF Remove, Goto, SweepInv, SweepTypeOK
<1>2. \A i \in 0..Lines : registered'[<<s, i>>] \in {registered[<<s, i>>], NoCommit}
  BY DEF Remove, Trees, SweepInv, SweepTypeOK
<1>3. UntouchedInv(s)' /\ TreeInv(s)' /\ OkInv(s)'
  BY <1>1 DEF UntouchedInv, TreeInv, OkInv
<1>4. ListedInv(s)'
  BY <1>1 DEF SweepInv, SweepLocal, ListedInv, Working
<1>5. AheadInv(s)'
  BY <1>1, <1>2 DEF SweepInv, SweepLocal, AheadInv, Working
<1>6. GreenInv(s)'
  BY <1>1 DEF SweepInv, SweepLocal, GreenInv, Working
<1>7. JudgedInv(s)'
  BY <1>1 DEF SweepInv, SweepLocal, JudgedInv, Judged, Working
<1>8. PlacedInv(s)'
  BY <1>1 DEF SweepInv, SweepLocal, PlacedInv, Working
<1>9. ComparedInv(s)'
  BY <1>1, <1>2 DEF SweepInv, SweepLocal, ComparedInv, Vouched, Working
<1> QED
  BY <1>3, <1>4, <1>5, <1>6, <1>7, <1>8, <1>9 DEF SweepLocal

LEMMA PruneKeeps ==
    ASSUME SweepInv, NEW s \in Sweeps, Prune(s) PROVE SweepLocal(s)'
<1>1. /\ phase[s] = "prune" /\ before'[s] = before[s] /\ green'[s] = green[s]
      /\ verdicts'[s] = verdicts[s] /\ registryChanged'[s] = registryChanged[s]
      /\ returned'[s] = returned[s] /\ headCommit' = headCommit /\ placed' = placed
  BY DEF Prune
<1>2. \A i \in 0..Lines : registered'[<<s, i>>] \in {registered[<<s, i>>], NoCommit}
  BY DEF Prune, Pruned, Trees
<1>3. line[s] \in Nat /\ line[s] <= Lines /\ Lines \in Nat
  BY LineTyped DEF SweepInv
<1>4. ListedInv(s)
  BY DEF SweepInv, SweepLocal
<1>5. CASE line[s] > 0
  <2>1. phase'[s] = "compare" /\ line'[s] = line[s]
    BY <1>5 DEF Prune, Goto, SweepInv, SweepTypeOK
  <2>2. UntouchedInv(s)' /\ TreeInv(s)' /\ OkInv(s)'
    BY <2>1 DEF UntouchedInv, TreeInv, OkInv
  <2>3. ListedInv(s)'
    BY <1>1, <1>4, <2>1 DEF ListedInv, Working
  <2>4. AheadInv(s)'
    BY <1>1, <1>2, <2>1 DEF SweepInv, SweepLocal, AheadInv, Working
  <2>5. GreenInv(s)'
    BY <1>1, <1>5, <2>1 DEF SweepInv, SweepLocal, GreenInv, Working
  <2>6. JudgedInv(s)'
    BY <1>1, <2>1 DEF SweepInv, SweepLocal, JudgedInv, Judged, Working
  <2>7. PlacedInv(s)'
    BY <1>1, <2>1 DEF SweepInv, SweepLocal, PlacedInv, Working
  <2>8. ComparedInv(s)'
    BY <1>1, <1>2, <2>1 DEF SweepInv, SweepLocal, ComparedInv, Vouched, Working
  <2> QED
    BY <2>2, <2>3, <2>4, <2>5, <2>6, <2>7, <2>8 DEF SweepLocal
<1>6. CASE line[s] = 0 /\ green[s]
  <2>1. ~(line[s] > 0)
    BY <1>6
  <2>2. phase'[s] = "add" /\ line'[s] = 1
    BY <1>6, <2>1 DEF Prune, Goto, SweepInv, SweepTypeOK
  <2>3. UntouchedInv(s)' /\ TreeInv(s)' /\ OkInv(s)'
    BY <2>2 DEF UntouchedInv, TreeInv, OkInv
  <2>4. ListedInv(s)'
    BY <1>1, <1>4, <2>2 DEF ListedInv, Working
  <2>5. AheadInv(s)'
    <3>1. \A i \in 0..Lines :
            \/ registered[<<s, i>>] = NoCommit /\ placed[<<s, i>>] = NoCommit
            \/ i = 0
      <4>1. \A i \in 0..Lines : i > 0 \/ i = 0
        BY <1>3
      <4> QED
        BY <1>1, <1>6, <4>1 DEF SweepInv, SweepLocal, AheadInv, Working
    <3>2. ~(0 > 1) /\ 0 # 1
      OBVIOUS
    <3> QED
      BY <1>1, <1>2, <2>2, <3>1, <3>2 DEF AheadInv
  <2>6. GreenInv(s)'
    <3>1. placed[<<s, 0>>] \in Commits \ Red
      BY <1>1, <1>6 DEF SweepInv, SweepLocal, GreenInv, Working
    <3> QED
      BY <1>1, <1>6, <2>2, <3>1 DEF GreenInv
  <2>7. JudgedInv(s)'
    <3>1. \A i \in 1..Lines : ~(i < 1)
      BY <1>3
    <3>2. \A i \in 1..Lines : ~Judged(s, i)'
      BY <2>2, <3>1 DEF Judged
    <3> QED
      BY <3>2 DEF JudgedInv
  <2>8. PlacedInv(s)'
    BY <1>1, <2>2 DEF SweepInv, SweepLocal, PlacedInv, Working
  <2>9. ComparedInv(s)'
    BY <2>2 DEF ComparedInv, Vouched
  <2> QED
    BY <2>3, <2>4, <2>5, <2>6, <2>7, <2>8, <2>9 DEF SweepLocal
<1>7. CASE line[s] = 0 /\ ~green[s]
  <2>1. ~(line[s] > 0)
    BY <1>7
  <2>2. phase'[s] = "refused"
    BY <1>7, <2>1 DEF Prune, Goto, SweepInv, SweepTypeOK
  <2> QED
    BY <2>2, EndedKeeps
<1> QED
  BY <1>3, <1>5, <1>6, <1>7

LEMMA CompareKeeps ==
    ASSUME SweepInv, NEW s \in Sweeps, Compare(s) PROVE SweepLocal(s)'
<1>1. /\ phase[s] = "compare" /\ before'[s] = before[s] /\ green'[s] = green[s]
      /\ verdicts'[s] = verdicts[s] /\ returned'[s] = returned[s]
      /\ registered' = registered /\ headCommit' = headCommit /\ placed' = placed
  BY DEF Compare, repositoryVars
<1>2. line[s] \in Nat /\ line[s] <= Lines /\ Lines \in Nat /\ line[s] > 0
  BY <1>1, LineTyped DEF SweepInv, SweepLocal, GreenInv, Working
<1>3. \/ line[s] < Lines /\ phase'[s] = "add" /\ line'[s] = line[s] + 1
      \/ line[s] = Lines /\ phase'[s] = "report" /\ line'[s] = line[s]
  <2>1. line[s] < Lines \/ (line[s] = Lines /\ ~(line[s] < Lines))
    BY <1>2
  <2> QED
    BY <2>1 DEF Compare, Goto, SweepInv, SweepTypeOK
<1>4. before[s] \in Listings /\ \A i \in 0..Lines : before[s].registered[<<s, i>>] = NoCommit
  BY <1>1 DEF SweepInv, SweepLocal, ListedInv, Working
<1>5. UntouchedInv(s)' /\ TreeInv(s)' /\ OkInv(s)'
  BY <1>3 DEF UntouchedInv, TreeInv, OkInv
<1>6. ListedInv(s)'
  BY <1>1, <1>3, <1>4 DEF ListedInv
<1>7. AheadInv(s)'
  <2>1. \A i \in 0..Lines : i > line'[s] \/ (i = line'[s] /\ phase'[s] = "add") => i > line[s]
    BY <1>2, <1>3
  <2>2. \A i \in 0..Lines : i > line[s] => registered[<<s, i>>] = NoCommit
                                            /\ placed[<<s, i>>] = NoCommit
    BY <1>1 DEF SweepInv, SweepLocal, AheadInv, Working
  <2> QED
    BY <1>1, <2>1, <2>2 DEF AheadInv
<1>8. GreenInv(s)'
  <2>1. green[s] /\ placed[<<s, 0>>] \in Commits \ Red
    BY <1>1, <1>2 DEF SweepInv, SweepLocal, GreenInv, Working
  <2>2. line'[s] # 0
    BY <1>2, <1>3
  <2> QED
    BY <1>1, <1>3, <2>1, <2>2 DEF GreenInv
<1>9. JudgedInv(s)'
  <2>1. ASSUME NEW i \in 1..Lines, Judged(s, i)' PROVE Judged(s, i)
    <3>1. i < line[s] \/ i = line[s]
      BY <1>2, <1>3, <2>1 DEF Judged
    <3> QED
      BY <1>1, <3>1 DEF Judged
  <2> QED
    BY <1>1, <2>1 DEF SweepInv, SweepLocal, JudgedInv, Working
<1>10. PlacedInv(s)'
  BY <1>1 DEF SweepInv, SweepLocal, PlacedInv, Working
<1>11. ComparedInv(s)'
  <2> SUFFICES ASSUME ~registryChanged'[s], NEW i \in 0..Lines
               PROVE  /\ registered[<<s, i>>] = NoCommit
                      /\ returned[s] \/ placed[<<s, i>>] \in {NoCommit, before[s].head}
    BY <1>1 DEF ComparedInv
  <2>1. Listing = before[s]
    BY DEF Compare, SweepInv, SweepTypeOK
  <2>2. headCommit = before[s].head /\ registered = before[s].registered
    BY <2>1 DEF Listing
  <2>3. PlacedInv(s)
    BY DEF SweepInv, SweepLocal
  <2> QED
    BY <1>1, <1>4, <2>2, <2>3 DEF PlacedInv, Working
<1> QED
  BY <1>5, <1>6, <1>7, <1>8, <1>9, <1>10, <1>11 DEF SweepLocal

LEMMA ReportKeeps ==
    ASSUME SweepInv, NEW s \in Sweeps, Report(s) PROVE SweepLocal(s)'
<1>1. CASE phase'[s] = "FAIL"
  BY <1>1, EndedKeeps
<1>2. CASE phase'[s] # "FAIL"
  <2>1. /\ phase[s] = "report" /\ phase'[s] = "OK" /\ line'[s] = line[s]
        /\ before'[s] = before[s] /\ green'[s] = green[s] /\ verdicts'[s] = verdicts[s]
        /\ registryChanged'[s] = registryChanged[s] /\ returned'[s] = returned[s]
        /\ registered' = registered /\ placed' = placed
        /\ ~registryChanged[s] /\ \A i \in 1..Lines : verdicts[s][i] \notin {"SURVIVED", "ERROR"}
    BY <1>2 DEF Report, Goto, SweepInv, SweepTypeOK, repositoryVars
  <2>2. UntouchedInv(s)' /\ AheadInv(s)' /\ TreeInv(s)' /\ PlacedInv(s)'
    BY <2>1 DEF UntouchedInv, AheadInv, TreeInv, PlacedInv, Working
  <2>3. ListedInv(s)'
    BY <2>1 DEF SweepInv, SweepLocal, ListedInv, Working
  <2>4. GreenInv(s)'
    BY <2>1 DEF SweepInv, SweepLocal, GreenInv, Working
  <2>5. JudgedInv(s)'
    BY <2>1 DEF SweepInv, SweepLocal, JudgedInv, Judged, Working
  <2>6. ComparedInv(s)'
    BY <2>1 DEF SweepInv, SweepLocal, ComparedInv, Vouched, Working
  <2>7. OkInv(s)'
    BY <2>1 DEF OkInv
  <2> QED
    BY <2>2, <2>3, <2>4, <2>5, <2>6, <2>7 DEF SweepLocal
<1> QED
  BY <1>1, <1>2

\* HEAD has come back where a sweep that has begun found it: that is recorded.
LEMMA MoveHeadKeeps ==
    ASSUME SweepInv, NEW s \in Sweeps, NEW c \in Commits, MoveHead(c) PROVE SweepLocal(s)'
<1>1. /\ phase' = phase /\ line' = line /\ before' = before /\ green' = green
      /\ verdicts' = verdicts /\ registryChanged' = registryChanged
      /\ registered' = registered /\ onDisk' = onDisk /\ placed' = placed
      /\ headCommit' = c /\ c # headCommit
  BY DEF MoveHead
<1>2. ~returned'[s] =>
         ~returned[s] /\ ~(phase[s] \notin Over /\ before[s] # NoListing /\ before[s].head = c)
  BY DEF MoveHead
<1>3. /\ UntouchedInv(s) /\ ListedInv(s) /\ AheadInv(s) /\ TreeInv(s) /\ GreenInv(s)
      /\ JudgedInv(s) /\ PlacedInv(s) /\ ComparedInv(s) /\ OkInv(s)
  BY DEF SweepInv, SweepLocal
<1>4. UntouchedInv(s)' /\ ListedInv(s)' /\ AheadInv(s)' /\ OkInv(s)'
  BY <1>1, <1>3 DEF UntouchedInv, ListedInv, AheadInv, OkInv, Working, Listings
<1>5. TreeInv(s)' /\ GreenInv(s)'
  BY <1>1, <1>3 DEF TreeInv, GreenInv, Working
<1>6. JudgedInv(s)'
  BY <1>1, <1>3 DEF JudgedInv, Judged, Working
<1>7. PlacedInv(s)'
  <2>1. ASSUME phase[s] \in Working, ~returned'[s] PROVE before[s].head # c
    <3>1. before[s] \in Listings
      BY <1>3, <2>1 DEF ListedInv
    <3>2. before[s] # NoListing
      BY <3>1, SweepAssumption DEF Listings
    <3>3. phase[s] \notin Over
      BY <2>1 DEF Working, Over
    <3> QED
      BY <1>2, <2>1, <3>2, <3>3
  <2> QED
    BY <1>1, <2>1 DEF PlacedInv
<1>8. ComparedInv(s)'
  BY <1>1, <1>2, <1>3 DEF ComparedInv, Vouched, Working
<1> QED
  BY <1>4, <1>5, <1>6, <1>7, <1>8 DEF SweepLocal

\* What a step of sweep a does to another one.
LEMMA OthersKeep ==
    ASSUME SweepInv, NEW a \in Sweeps, Step(a), NEW s \in Sweeps, s # a PROVE SweepLocal(s)'
<1>1. SweepTypeOK /\ SweepLocal(s)
  BY DEF SweepInv
<1>2. /\ phase'[s] = phase[s] /\ line'[s] = line[s] /\ before'[s] = before[s]
      /\ green'[s] = green[s] /\ headCommit' = headCommit
  BY <1>1 DEF Step, Start, PruneFirst, List, Add, AddFails, Apply, RunBaseline, RunSuite, Remove,
     Prune, Compare, Report, Kill, Goto, SweepTypeOK, repositoryVars
<1>3. /\ verdicts'[s] = verdicts[s] /\ registryChanged'[s] = registryChanged[s]
      /\ returned'[s] = returned[s]
  BY <1>1 DEF Step, Start, PruneFirst, List, Add, AddFails, Apply, RunBaseline, RunSuite, Remove,
     Prune, Compare, Report, Kill, Judge, SweepTypeOK
<1>4. \A i \in 0..Lines : <<s, i>> \in Trees /\ <<s, i>> # <<a, line[a]>>
  BY DEF Trees
<1>5. \A i \in 0..Lines : placed'[<<s, i>>] = placed[<<s, i>>]
  BY <1>1, <1>4 DEF Step, Start, PruneFirst, List, Add, AddFails, Apply, RunBaseline, RunSuite,
     Remove, Prune, Compare, Report, Kill, SweepTypeOK
<1>6. \A i \in 0..Lines : <<s, i>> \in onDisk => <<s, i>> \in onDisk'
  BY <1>4 DEF Step, Start, PruneFirst, List, Add, AddFails, Apply, RunBaseline, RunSuite, Remove,
     Prune, Compare, Report, Kill, repositoryVars
<1>7. \A i \in 0..Lines :
         \/ registered'[<<s, i>>] = registered[<<s, i>>]
         \/ registered'[<<s, i>>] = NoCommit /\ <<s, i>> \notin onDisk
  BY <1>1, <1>4 DEF Step, Start, PruneFirst, List, Add, AddFails, Apply, RunBaseline, RunSuite,
     Remove, Prune, Compare, Report, Kill, Pruned, SweepTypeOK, repositoryVars
<1>8. phase[s] \in {"apply", "suite"} => line[s] \in 0..Lines /\ <<s, line[s]>> \in onDisk
  BY <1>1, LineInRange DEF SweepLocal, TreeInv
<1>9. Undisturbed(s)
  BY <1>2, <1>3, <1>5, <1>6, <1>7, <1>8 DEF Undisturbed
<1> QED
  BY <1>1, <1>9, UndisturbedKeeps

LEMMA CleanTempKeeps ==
    ASSUME SweepInv, NEW s \in Sweeps, CleanTemp PROVE SweepLocal(s)'
<1>1. SweepTypeOK /\ SweepLocal(s)
  BY DEF SweepInv
<1>2. phase[s] \in {"apply", "suite"} => <<s, line[s]>> \in onDisk'
  <2>1. phase[s] \in {"apply", "suite"} => <<s, line[s]>> \in onDisk /\ s \notin Dead
    BY <1>1 DEF SweepLocal, TreeInv, Dead
  <2> QED
    BY <2>1 DEF CleanTemp
<1>3. Undisturbed(s)
  BY <1>2 DEF CleanTemp, Undisturbed
<1> QED
  BY <1>1, <1>3, UndisturbedKeeps

LEMMA SweepStepInv == SweepInv /\ [SweepNext]_sweepVars => SweepInv'
<1> SUFFICES ASSUME SweepInv, [SweepNext]_sweepVars PROVE SweepInv'
  OBVIOUS
<1>1. SweepTypeOK'
  BY SweepNextTyped
<1>2. ASSUME NEW a \in Sweeps, Step(a), NEW s \in Sweeps PROVE SweepLocal(s)'
  <2>1. CASE s # a
    BY <1>2, <2>1, OthersKeep
  <2>2. CASE s = a
    <3>1. CASE Start(s)
      BY <3>1, StartKeeps
    <3>2. CASE PruneFirst(s)
      BY <3>2, PruneFirstKeeps
    <3>3. CASE List(s)
      BY <3>3, ListKeeps
    <3>4. CASE Add(s)
      BY <3>4, AddKeeps
    <3>5. CASE AddFails(s)
      BY <3>5, AddFailsKeeps
    <3>6. CASE Apply(s)
      BY <3>6, ApplyKeeps
    <3>7. CASE RunBaseline(s)
      BY <3>7, RunBaselineKeeps
    <3>8. CASE RunSuite(s)
      BY <3>8, RunSuiteKeeps
    <3>9. CASE Remove(s)
      BY <3>9, RemoveKeeps
    <3>10. CASE Prune(s)
      BY <3>10, PruneKeeps
    <3>11. CASE Compare(s)
      BY <3>11, CompareKeeps
    <3>12. CASE Report(s)
      BY <3>12, ReportKeeps
    <3>13. CASE Kill(s)
      <4>1. phase'[s] = "killed"
        BY <3>13 DEF Kill, Goto, SweepInv, SweepTypeOK
      <4> QED
        BY <4>1, EndedKeeps
    <3> QED
      BY <1>2, <2>2, <3>1, <3>2, <3>3, <3>4, <3>5, <3>6, <3>7, <3>8, <3>9, <3>10, <3>11, <3>12,
         <3>13 DEF Step
  <2> QED
    BY <2>1, <2>2
<1>3. ASSUME UNCHANGED sweepVars, NEW s \in Sweeps PROVE SweepLocal(s)'
  <2>1. SweepTypeOK /\ SweepLocal(s)
    BY DEF SweepInv
  <2>2. phase[s] \in {"apply", "suite"} => <<s, line[s]>> \in onDisk
    BY <2>1 DEF SweepLocal, TreeInv
  <2>3. Undisturbed(s)
    BY <1>3, <2>2 DEF sweepVars, repositoryVars, Undisturbed
  <2> QED
    BY <2>1, <2>3, UndisturbedKeeps
<1>4. ASSUME NEW s \in Sweeps PROVE SweepLocal(s)'
  BY <1>2, <1>3, <1>4, MoveHeadKeeps, CleanTempKeeps DEF SweepNext
<1> QED
  BY <1>1, <1>4 DEF SweepInv

-----------------------------------------------------------------------------
(* What a sweep's OK is worth *)

LEMMA SweepInvHolds == SweepSpec => []SweepInv
BY SweepInitInv, SweepStepInv, PTL DEF SweepSpec

\* The sweeps and the repository stay in their types: a verdict is only ever
\* entered for a line of the block (sweep in scripts/mutate.py).
THEOREM SweepTyped == SweepSpec => []SweepTypeOK
<1>1. SweepInv => SweepTypeOK
  BY DEF SweepInv
<1> QED
  BY <1>1, SweepInvHolds, PTL

\* However many sweeps run side by side, wherever HEAD is moved and whatever
\* git does with the trees: a sweep says OK only when each line of the block
\* was killed, in a tree of a commit that can be mutated there; when each of
\* those is the one commit whose suite it saw green, unless HEAD came back to
\* where the sweep had found it while the sweep ran; and when none of its
\* worktrees is left, whichever removals git refused: that of the baseline
\* cannot hide in the first listing, which was taken before it was added.
THEOREM OkIsEarnedHolds == SweepSpec => []OkIsEarned
<1>1. ASSUME SweepInv, NEW s \in Sweeps, phase[s] = "OK", NEW i \in 1..Lines
      PROVE  /\ verdicts[s][i] = "KILLED"
             /\ <<placed[<<s, i>>], i>> \in Caught \ Unfit
             /\ returned[s] \/ (placed[<<s, i>>] = placed[<<s, 0>>]
                                /\ placed[<<s, i>>] \notin Red)
  <2> USE <1>1
  <2>1. /\ line[s] = Lines /\ green[s] /\ placed[<<s, 0>>] \in Commits \ Red
        /\ 0 \in 0..Lines
    <3>1. Lines \in Nat /\ Lines > 0
      BY SweepAssumption
    <3>2. line[s] = Lines
      BY DEF SweepInv, SweepLocal, GreenInv
    <3> QED
      BY <3>1, <3>2 DEF SweepInv, SweepLocal, GreenInv
  <2>2. Judged(s, i)
    <3>1. i < Lines \/ i = Lines
      BY SweepAssumption
    <3> QED
      BY <2>1, <3>1 DEF Judged
  <2>3. verdicts[s][i] \in {"", "KILLED", "SURVIVED", "ERROR"}
    <3>1. verdicts[s] \in [1..Lines -> {"", "KILLED", "SURVIVED", "ERROR"}]
      BY DEF SweepInv, SweepTypeOK
    <3> QED
      BY <3>1
  <2>4. verdicts[s][i] = "KILLED"
    BY <2>2, <2>3 DEF SweepInv, SweepLocal, JudgedInv, OkInv
  <2>5. placed[<<s, i>>] \in Commits /\ <<placed[<<s, i>>], i>> \in Caught \ Unfit
    BY <2>2, <2>4 DEF SweepInv, SweepLocal, JudgedInv
  <2>6. \A j \in 0..Lines : returned[s] \/ placed[<<s, j>>] \in {NoCommit, before[s].head}
    BY DEF SweepInv, SweepLocal, OkInv, ComparedInv, Vouched
  <2>7. returned[s] \/ (placed[<<s, i>>] = before[s].head /\ placed[<<s, 0>>] = before[s].head)
    BY <2>1, <2>5, <2>6, LineNumbers, SweepAssumption
  <2> QED
    BY <2>1, <2>4, <2>5, <2>7
<1>2. ASSUME SweepInv, NEW s \in Sweeps, phase[s] = "OK"
      PROVE  \A i \in 0..Lines : registered[<<s, i>>] = NoCommit
  BY <1>2 DEF SweepInv, SweepLocal, OkInv, ComparedInv, Vouched
<1>3. SweepInv => OkIsEarned
  BY <1>1, <1>2 DEF OkIsEarned
<1> QED
  BY <1>3, SweepInvHolds, PTL

-----------------------------------------------------------------------------
(* MarkerBlocks: texts and the places of their markers *)

LEMMA MarkersDiffer ==
    \A b, c \in Blocks : /\ Begin(b) # End(c)
                         /\ Begin(b) = Begin(c) => b = c
                         /\ End(b) = End(c) => b = c
                         /\ Begin(b) \in Markers /\ End(b) \in Markers
BY DEF Begin, End, Markers

\* A line is found at its first place, and nowhere else.
LEMMA FirstAtFound ==
    ASSUME NEW t \in Seq(TextLines), NEW l, Occurs(l, t)
    PROVE  /\ FirstAt(l, t) \in 1..Len(t) /\ t[FirstAt(l, t)] = l
           /\ \A m \in 1..(FirstAt(l, t) - 1) : t[m] # l
<1> DEFINE places == {k \in 1..Len(t) : t[k] = l}
<1>1. DOMAIN t = 1..Len(t) /\ Len(t) \in Nat
  OBVIOUS
<1>2. places \in SUBSET Nat /\ places # {}
  BY <1>1 DEF Occurs
<1>3. PICK k \in places : \A m \in places : k <= m
  <2> DEFINE less == OpToRel(<, Nat)
  <2>1. \E k \in places : \A m \in places : ~(<<m, k>> \in less)
    <3>1. places \subseteq Nat /\ IsWellFoundedOn(less, Nat)
      BY <1>2, NatLessThanWellFounded
    <3> HIDE DEF less, places
    <3> QED
      BY <1>2, <3>1, WFMin
  <2>2. ASSUME NEW k \in Nat, NEW m \in Nat, ~(<<m, k>> \in less) PROVE k <= m
    BY <2>2 DEF OpToRel
  <2> HIDE DEF less, places
  <2> QED
    BY <1>2, <2>1, <2>2
<1>4. k \in DOMAIN t /\ t[k] = l /\ \A m \in 1..(k - 1) : t[m] # l
  <2>1. ASSUME NEW m \in 1..(k - 1), t[m] = l PROVE FALSE
    <3>1. m \in places /\ m < k
      BY <1>1, <2>1
    <3> QED
      BY <1>1, <1>3, <3>1
  <2> QED
    BY <1>1, <2>1
<1>5. \E n \in DOMAIN t : t[n] = l /\ \A m \in 1..(n - 1) : t[m] # l
  BY <1>4
<1>6. /\ FirstAt(l, t) \in DOMAIN t /\ t[FirstAt(l, t)] = l
      /\ \A m \in 1..(FirstAt(l, t) - 1) : t[m] # l
  BY <1>5 DEF FirstAt
<1> QED
  BY <1>1, <1>6

LEMMA FirstAtUnique ==
    ASSUME NEW t \in Seq(TextLines), NEW l, NEW k \in 1..Len(t), t[k] = l,
           \A m \in 1..(k - 1) : t[m] # l
    PROVE  FirstAt(l, t) = k
<1> DEFINE f == FirstAt(l, t)
<1>1. DOMAIN t = 1..Len(t) /\ Len(t) \in Nat
  OBVIOUS
<1>2. f \in 1..Len(t) /\ t[f] = l /\ \A m \in 1..(f - 1) : t[m] # l
  BY <1>1, FirstAtFound DEF Occurs
<1> HIDE DEF f
<1>3. ~(f < k) /\ ~(k < f)
  <2>1. f < k => f \in 1..(k - 1)
    BY <1>2
  <2>2. k < f => k \in 1..(f - 1)
    BY <1>2
  <2> QED
    BY <1>2, <2>1, <2>2
<1>4. f = k
  BY <1>2, <1>3
<1> QED
  BY <1>4 DEF f

\* The two markers of a pair, in a text of any form.
LEMMA PairOf ==
    ASSUME NEW t \in Seq(TextLines), NEW b \in Blocks, HasPair(t, b)
    PROVE  LET i == FirstAt(Begin(b), t)
               j == FirstAt(End(b), t)
           IN  /\ i \in Nat /\ j \in Nat /\ Len(t) \in Nat /\ 1 <= i /\ i < j /\ j <= Len(t)
               /\ t[i] = Begin(b) /\ t[j] = End(b)
               /\ \A m \in 1..(i - 1) : t[m] # Begin(b)
               /\ \A m \in 1..(j - 1) : t[m] # End(b)
<1>1. Occurs(Begin(b), t) /\ Occurs(End(b), t) /\ FirstAt(Begin(b), t) < FirstAt(End(b), t)
  BY DEF HasPair
<1>2. /\ FirstAt(Begin(b), t) \in 1..Len(t) /\ t[FirstAt(Begin(b), t)] = Begin(b)
      /\ \A m \in 1..(FirstAt(Begin(b), t) - 1) : t[m] # Begin(b)
  BY <1>1, FirstAtFound
<1>3. /\ FirstAt(End(b), t) \in 1..Len(t) /\ t[FirstAt(End(b), t)] = End(b)
      /\ \A m \in 1..(FirstAt(End(b), t) - 1) : t[m] # End(b)
  BY <1>1, FirstAtFound
<1>4. Len(t) \in Nat
  OBVIOUS
<1> QED
  BY <1>1, <1>2, <1>3, <1>4

\* A marker that is there once is where it is found.
LEMMA FirstAtIs ==
    ASSUME NEW t \in Seq(TextLines), WellFormed(t), NEW k \in DOMAIN t, t[k] \in Markers
    PROVE  FirstAt(t[k], t) = k
<1>1. DOMAIN t = 1..Len(t) /\ Len(t) \in Nat
  OBVIOUS
<1>2. \A m \in DOMAIN t : t[m] = t[k] => m = k
  BY DEF WellFormed
<1>3. \A m \in 1..(k - 1) : m \in DOMAIN t /\ m # k
  BY <1>1
<1>4. t[k] = t[k] /\ \A m \in 1..(k - 1) : t[m] # t[k]
  BY <1>2, <1>3
<1> QED
  BY <1>2, <1>4 DEF FirstAt

\* Where a pair is, and what is between.
LEMMA PairPlaces ==
    ASSUME NEW t \in Seq(TextLines), WellFormed(t), NEW b \in Blocks, HasPair(t, b)
    PROVE  LET i == FirstAt(Begin(b), t)
               j == FirstAt(End(b), t)
           IN  /\ i \in 1..Len(t) /\ j \in 1..Len(t) /\ i < j
               /\ t[i] = Begin(b) /\ t[j] = End(b)
               /\ \A k \in 1..Len(t) : t[k] \in Markers => k <= i \/ k >= j
<1> DEFINE i == FirstAt(Begin(b), t)
           j == FirstAt(End(b), t)
<1>1. DOMAIN t = 1..Len(t) /\ Len(t) \in Nat
  OBVIOUS
<1>2. PICK k \in DOMAIN t : t[k] = Begin(b)
  BY DEF HasPair, Occurs
<1>3. PICK m \in DOMAIN t : k < m /\ t[m] = End(b)
                            /\ \A n \in DOMAIN t : k < n /\ n < m => t[n] \notin Markers
  BY <1>2 DEF WellFormed
<1>4. i = k /\ j = m
  BY <1>2, <1>3, FirstAtIs, MarkersDiffer
<1>5. \A n \in DOMAIN t : t[n] \in Markers => n <= k \/ n >= m
  BY <1>1, <1>3
<1> QED
  BY <1>1, <1>2, <1>3, <1>4, <1>5

\* A pair is found exactly where its two markers are.
LEMMA PairFound ==
    ASSUME NEW t \in Seq(TextLines), WellFormed(t), NEW b \in Blocks,
           NEW k \in 1..Len(t), NEW m \in 1..Len(t), t[k] = Begin(b), t[m] = End(b)
    PROVE  /\ HasPair(t, b) /\ FirstAt(Begin(b), t) = k /\ FirstAt(End(b), t) = m
           /\ FindBlock(t, b) = SubSeq(t, k + 1, m - 1)
<1>1. DOMAIN t = 1..Len(t) /\ Len(t) \in Nat
  OBVIOUS
<1>2. FirstAt(Begin(b), t) = k /\ FirstAt(End(b), t) = m
  BY <1>1, FirstAtIs, MarkersDiffer
<1>3. PICK n \in DOMAIN t : k < n /\ t[n] = End(b)
  BY <1>1 DEF WellFormed
<1>4. n = m
  BY <1>1, <1>3, MarkersDiffer DEF WellFormed
<1>5. HasPair(t, b)
  BY <1>1, <1>2, <1>3, <1>4 DEF HasPair, Occurs
<1> QED
  BY <1>2, <1>5 DEF FindBlock

\* A text without the pair has neither marker.
LEMMA NoPair ==
    ASSUME NEW t \in Seq(TextLines), NEW b \in Blocks, ~HasPair(t, b), WellFormed(t)
    PROVE  \A k \in 1..Len(t) : t[k] # Begin(b) /\ t[k] # End(b)
<1>1. DOMAIN t = 1..Len(t) /\ Len(t) \in Nat
  OBVIOUS
<1>2. ASSUME NEW k \in DOMAIN t, t[k] = Begin(b) PROVE FALSE
  <2>1. PICK m \in DOMAIN t : t[m] = End(b)
    BY <1>2 DEF WellFormed
  <2> QED
    BY <1>1, <1>2, <2>1, PairFound
<1>3. ASSUME NEW k \in DOMAIN t, t[k] = End(b) PROVE FALSE
  <2>1. PICK m \in DOMAIN t : t[m] = Begin(b)
    BY <1>3 DEF WellFormed, Occurs
  <2> QED
    BY <1>2, <2>1
<1> QED
  BY <1>1, <1>2, <1>3

-----------------------------------------------------------------------------
(* MarkerBlocks: the replaced text, line by line *)

\* The lines up to the begin marker, the rendering, and those from the end marker.
LEMMA ReplacedLines ==
    ASSUME NEW t \in Seq(TextLines), NEW b \in Blocks, HasPair(t, b),
           NEW l \in TextLines
    PROVE  LET i == FirstAt(Begin(b), t)
               j == FirstAt(End(b), t)
               r == ReplaceBlock(t, b, l)
           IN  /\ r \in Seq(TextLines) /\ Len(r) = i + 2 + (Len(t) - j)
               /\ \A k \in 1..i : r[k] = t[k]
               /\ r[i + 1] = l
               /\ \A k \in j..Len(t) : r[k - j + i + 2] = t[k]
<1> DEFINE i == FirstAt(Begin(b), t)
           j == FirstAt(End(b), t)
           p == SubSeq(t, 1, i)
           q == SubSeq(t, j, Len(t))
<1>1. i \in 1..Len(t) /\ j \in 1..Len(t) /\ i < j /\ Len(t) \in Nat
  BY PairOf
<1> HIDE DEF i, j
<1>2. p \in Seq(TextLines) /\ Len(p) = i /\ \A k \in 1..i : p[k] = t[k]
  BY <1>1
<1>3. /\ q \in Seq(TextLines) /\ Len(q) = Len(t) - j + 1
      /\ \A k \in 1..(Len(t) - j + 1) : q[k] = t[j + k - 1]
  BY <1>1
<1> HIDE DEF p, q
<1>4. <<l>> \in Seq(TextLines) /\ Len(<<l>>) = 1 /\ <<l>>[1] = l
  OBVIOUS
<1> DEFINE r == p \o <<l>> \o q
<1>5. r \in Seq(TextLines) /\ Len(r) = i + 2 + (Len(t) - j)
  <2>1. p \o <<l>> \in Seq(TextLines) /\ Len(p \o <<l>>) = Len(p) + 1
    BY <1>2, <1>4
  <2>2. r \in Seq(TextLines) /\ Len(r) = Len(p) + 1 + Len(q)
    BY <1>3, <2>1
  <2>3. i \in Nat /\ j \in Nat
    BY <1>1
  <2> QED
    BY <1>1, <1>2, <1>3, <2>2, <2>3
<1>6. \A k \in 1..i : r[k] = t[k]
  BY <1>1, <1>2, <1>3, <1>4
<1>7. r[i + 1] = l
  BY <1>1, <1>2, <1>3, <1>4
<1>8. ASSUME NEW k \in j..Len(t) PROVE r[k - j + i + 2] = t[k]
  <2>1. k - j + 1 \in 1..(Len(t) - j + 1)
    BY <1>1
  <2>2. q[k - j + 1] = t[k]
    BY <1>1, <1>3, <2>1
  <2>3. r[k - j + i + 2] = q[k - j + 1]
    BY <1>1, <1>2, <1>3, <1>4, <2>1
  <2> QED
    BY <2>2, <2>3
<1> QED
  BY <1>5, <1>6, <1>7, <1>8 DEF ReplaceBlock, p, q, i, j

\* The line of the text that a line after the block was.
LEMMA LineBefore ==
    ASSUME NEW i \in Nat, NEW j \in Nat, NEW n \in Nat, NEW k \in Nat,
           i + 2 <= k, k <= i + 2 + (n - j)
    PROVE  k - i - 2 + j \in j..n /\ (k - i - 2 + j) - j + i + 2 = k
OBVIOUS

\* The pairs of the text stay pairs.
LEMMA ReplacedWellFormed ==
    ASSUME NEW t \in Seq(TextLines), WellFormed(t), NEW b \in Blocks, HasPair(t, b),
           NEW l \in TextLines \ Markers
    PROVE  WellFormed(ReplaceBlock(t, b, l))
<1> DEFINE i == FirstAt(Begin(b), t)
           j == FirstAt(End(b), t)
           r == ReplaceBlock(t, b, l)
           Old(k) == IF k <= i THEN k ELSE k - i - 2 + j
           New(k) == IF k <= i THEN k ELSE k - j + i + 2
<1>1. /\ i \in Nat /\ j \in Nat /\ Len(t) \in Nat /\ 1 <= i /\ i < j /\ j <= Len(t)
      /\ t[i] = Begin(b) /\ t[j] = End(b)
      /\ \A k \in 1..Len(t) : t[k] \in Markers => k <= i \/ k >= j
  BY PairPlaces
<1>2. /\ r \in Seq(TextLines) /\ Len(r) = i + 2 + (Len(t) - j)
      /\ \A k \in 1..i : r[k] = t[k]
      /\ r[i + 1] = l
      /\ \A k \in j..Len(t) : r[k - j + i + 2] = t[k]
  BY ReplacedLines
<1>3. DOMAIN r = 1..Len(r) /\ DOMAIN t = 1..Len(t)
  BY <1>2
<1> HIDE DEF i, j, r
<1>4. ASSUME NEW k \in 1..Len(r), r[k] \in Markers
      PROVE  Old(k) \in 1..Len(t) /\ r[k] = t[Old(k)] /\ k # i + 1
  <2>1. k # i + 1
    BY <1>2, <1>4
  <2>2. CASE k <= i
    BY <1>1, <1>2, <2>2
  <2>3. CASE k >= i + 2
    <3>1. k - i - 2 + j \in j..Len(t) /\ (k - i - 2 + j) - j + i + 2 = k
      <4>1. k \in Nat /\ i + 2 <= k /\ k <= i + 2 + (Len(t) - j)
        BY <1>2, <2>3
      <4> QED
        BY <1>1, <4>1, LineBefore
    <3>2. r[k] = t[k - i - 2 + j]
      BY <1>2, <3>1
    <3> QED
      BY <1>1, <2>1, <2>3, <3>1, <3>2
  <2> QED
    BY <1>1, <2>1, <2>2, <2>3
<1>5. ASSUME NEW k \in 1..Len(t), t[k] \in Markers
      PROVE  New(k) \in 1..Len(r) /\ r[New(k)] = t[k] /\ Old(New(k)) = k
  <2>1. CASE k <= i
    BY <1>1, <1>2, <2>1
  <2>2. CASE k >= j
    BY <1>1, <1>2, <2>2
  <2> QED
    BY <1>1, <1>5, <2>1, <2>2
<1>6. \A k, m \in DOMAIN r : r[k] = r[m] /\ r[k] \in Markers => k = m
  <2> SUFFICES ASSUME NEW k \in 1..Len(r), NEW m \in 1..Len(r), r[k] = r[m], r[k] \in Markers
               PROVE  k = m
    BY <1>3
  <2>1. /\ Old(k) \in 1..Len(t) /\ Old(m) \in 1..Len(t) /\ t[Old(k)] = t[Old(m)]
        /\ t[Old(k)] \in Markers /\ k # i + 1 /\ m # i + 1
    BY <1>4
  <2>2. Old(k) = Old(m)
    BY <1>3, <2>1 DEF WellFormed
  <2> QED
    BY <1>1, <2>1, <2>2
<1>7. ASSUME NEW c \in Blocks, NEW k \in 1..Len(r), r[k] = Begin(c)
      PROVE  \E m \in DOMAIN r : k < m /\ r[m] = End(c)
                 /\ \A n \in DOMAIN r : k < n /\ n < m => r[n] \notin Markers
  <2>1. Begin(c) \in Markers /\ End(c) \in Markers
    BY MarkersDiffer
  <2>2. Old(k) \in 1..Len(t) /\ t[Old(k)] = Begin(c) /\ k # i + 1
    BY <1>4, <1>7, <2>1
  <2>3. PICK m \in 1..Len(t) : /\ Old(k) < m /\ t[m] = End(c)
                               /\ \A n \in 1..Len(t) : Old(k) < n /\ n < m => t[n] \notin Markers
    BY <1>3, <2>2 DEF WellFormed
  <2>4. New(m) \in 1..Len(r) /\ r[New(m)] = End(c)
    BY <1>5, <2>1, <2>3
  <2>5. m <= i \/ m >= j
    BY <1>1, <2>1, <2>3
  <2>6. k < New(m)
    BY <1>1, <2>2, <2>3, <2>5
  <2>7. ASSUME NEW n \in 1..Len(r), k < n, n < New(m), r[n] \in Markers PROVE FALSE
    <3>1. Old(n) \in 1..Len(t) /\ t[Old(n)] \in Markers /\ n # i + 1
      BY <1>4, <2>7
    <3>2. Old(k) < Old(n)
      BY <1>1, <2>2, <2>7, <3>1
    <3>3. Old(n) < m
      BY <1>1, <2>5, <2>7, <3>1
    <3> QED
      BY <2>3, <3>1, <3>2, <3>3
  <2> QED
    BY <1>3, <2>4, <2>6, <2>7
<1>8. ASSUME NEW c \in Blocks, Occurs(End(c), r) PROVE Occurs(Begin(c), r)
  <2>1. Begin(c) \in Markers /\ End(c) \in Markers
    BY MarkersDiffer
  <2>2. PICK k \in 1..Len(r) : r[k] = End(c)
    BY <1>3, <1>8 DEF Occurs
  <2>3. Occurs(End(c), t)
    BY <1>3, <1>4, <2>1, <2>2 DEF Occurs
  <2>4. PICK m \in 1..Len(t) : t[m] = Begin(c)
    BY <1>3, <2>3 DEF WellFormed, Occurs
  <2> QED
    BY <1>3, <1>5, <2>1, <2>4 DEF Occurs
<1>9. WellFormed(r)
  BY <1>3, <1>6, <1>7, <1>8 DEF WellFormed
<1> QED
  BY <1>9 DEF r

\* Parts of two texts with the same lines are the same.
LEMMA SamePart ==
    ASSUME NEW s \in Seq(TextLines), NEW t \in Seq(TextLines), NEW a \in Nat, NEW n \in Nat,
           NEW d \in Nat, 1 <= a, a + n - 1 <= Len(s), 1 <= d, d + n - 1 <= Len(t),
           \A k \in 0..(n - 1) : s[a + k] = t[d + k]
    PROVE  SubSeq(s, a, a + n - 1) = SubSeq(t, d, d + n - 1)
<1> DEFINE u == SubSeq(s, a, a + n - 1)
           v == SubSeq(t, d, d + n - 1)
<1>1. /\ u \in Seq(TextLines) /\ Len(u) = n
      /\ \A k \in 1..n : u[k] = s[a + (k - 1)]
  OBVIOUS
<1>2. /\ v \in Seq(TextLines) /\ Len(v) = n
      /\ \A k \in 1..n : v[k] = t[d + (k - 1)]
  OBVIOUS
<1>3. \A k \in 1..n : k - 1 \in 0..(n - 1)
  OBVIOUS
<1> HIDE DEF u, v
<1>4. \A k \in 1..n : u[k] = v[k]
  BY <1>1, <1>2, <1>3
<1>5. u = v
  BY <1>1, <1>2, <1>4, SeqEqual
<1> QED
  BY <1>5 DEF u, v

\* What is found afterwards is the rendering, between what was beside it.
LEMMA ReplacedIsFound ==
    ASSUME NEW t \in Seq(TextLines), NEW b \in Blocks, HasPair(t, b),
           NEW l \in TextLines \ Markers
    PROVE  LET r == ReplaceBlock(t, b, l)
           IN  FindBlock(r, b) = <<l>> /\ Beside(r, b) = Beside(t, b)
<1> DEFINE i == FirstAt(Begin(b), t)
           j == FirstAt(End(b), t)
           r == ReplaceBlock(t, b, l)
<1>1. /\ i \in Nat /\ j \in Nat /\ Len(t) \in Nat /\ 1 <= i /\ i < j /\ j <= Len(t)
      /\ t[i] = Begin(b) /\ t[j] = End(b)
      /\ \A m \in 1..(i - 1) : t[m] # Begin(b)
      /\ \A m \in 1..(j - 1) : t[m] # End(b)
  BY PairOf
<1>2. /\ r \in Seq(TextLines) /\ Len(r) = i + 2 + (Len(t) - j)
      /\ \A k \in 1..i : r[k] = t[k]
      /\ r[i + 1] = l
      /\ \A k \in j..Len(t) : r[k - j + i + 2] = t[k]
  BY ReplacedLines
<1>3. l # End(b)
  BY MarkersDiffer
<1> HIDE DEF i, j, r
<1>4. r[i] = Begin(b) /\ r[i + 2] = End(b) /\ i \in 1..Len(r) /\ i + 2 \in 1..Len(r)
  <2>1. i \in 1..i /\ j \in j..Len(t) /\ j - j + i + 2 = i + 2
    BY <1>1
  <2>2. r[i] = t[i] /\ r[i + 2] = t[j]
    BY <1>2, <2>1
  <2> QED
    BY <1>1, <1>2, <2>2
<1>5. /\ FirstAt(Begin(b), r) = i /\ FirstAt(End(b), r) = i + 2
      /\ FindBlock(r, b) = SubSeq(r, i + 1, (i + 2) - 1)
  <2>1. ASSUME NEW m \in 1..(i - 1) PROVE r[m] # Begin(b)
    <3>1. m \in 1..i
      BY <1>1
    <3> QED
      BY <1>1, <1>2, <3>1
  <2>2. ASSUME NEW m \in 1..((i + 2) - 1) PROVE r[m] # End(b)
    <3>1. m \in 1..i \/ m = i + 1
      BY <1>1
    <3>2. m \in 1..i => m \in 1..(j - 1)
      BY <1>1
    <3> QED
      BY <1>1, <1>2, <1>3, <3>1, <3>2
  <2>3. r \in Seq(TextLines)
    BY <1>2
  <2>4. FirstAt(Begin(b), r) = i
    BY <1>4, <2>1, <2>3, FirstAtUnique
  <2>5. FirstAt(End(b), r) = i + 2
    BY <1>4, <2>2, <2>3, FirstAtUnique
  <2>6. HasPair(r, b)
    <3>1. DOMAIN r = 1..Len(r)
      BY <2>3
    <3>2. i < i + 2
      BY <1>1
    <3> QED
      BY <1>4, <2>4, <2>5, <3>1, <3>2 DEF HasPair, Occurs
  <2> QED
    BY <2>4, <2>5, <2>6 DEF FindBlock
<1>6. FindBlock(r, b) = <<l>>
  <2>1. SubSeq(r, i + 1, (i + 2) - 1) = SubSeq(<<l>>, 1, 1)
    <3>1. <<l>> \in Seq(TextLines) /\ Len(<<l>>) = 1 /\ <<l>>[1] = l
      OBVIOUS
    <3>2. \A k \in 0..(1 - 1) : r[(i + 1) + k] = <<l>>[1 + k]
      BY <1>1, <1>2, <3>1
    <3>3. SubSeq(r, i + 1, (i + 1) + 1 - 1) = SubSeq(<<l>>, 1, 1 + 1 - 1)
      BY <1>1, <1>2, <1>4, <3>1, <3>2, SamePart
    <3> QED
      BY <1>1, <3>3
  <2>2. SubSeq(<<l>>, 1, 1) = <<l>>
    <3> DEFINE u == SubSeq(<<l>>, 1, 1)
               v == <<l>>
    <3>1. v \in Seq(TextLines) /\ Len(v) = 1 /\ v[1] = l
      OBVIOUS
    <3>2. u \in Seq(TextLines) /\ Len(u) = 1 /\ u[1] = v[1]
      <4> HIDE DEF v
      <4> QED
        BY <3>1
    <3> HIDE DEF u, v
    <3>3. \A k \in 1..Len(u) : u[k] = v[k]
      BY <3>2
    <3>4. u = v
      BY <3>1, <3>2, <3>3, SeqEqual
    <3> QED
      BY <3>4 DEF u, v
  <2> QED
    BY <1>5, <2>1, <2>2
<1>7. SubSeq(r, 1, i) = SubSeq(t, 1, i)
  <2>1. ASSUME NEW k \in 0..(i - 1) PROVE r[1 + k] = t[1 + k]
    <3>1. 1 + k \in 1..i
      BY <1>1
    <3> QED
      BY <1>2, <3>1
  <2>2. SubSeq(r, 1, 1 + i - 1) = SubSeq(t, 1, 1 + i - 1)
    BY <1>1, <1>2, <2>1, SamePart
  <2> QED
    BY <1>1, <2>2
<1>8. SubSeq(r, i + 2, Len(r)) = SubSeq(t, j, Len(t))
  <2> DEFINE n == Len(t) - j + 1
  <2>1. n \in Nat /\ (i + 2) + n - 1 = Len(r) /\ j + n - 1 = Len(t)
    <3>1. /\ i \in Nat /\ j \in Nat /\ Len(t) \in Nat /\ j <= Len(t)
          /\ Len(r) = i + 2 + (Len(t) - j)
      BY <1>1, <1>2
    <3> QED
      BY <3>1
  <2>2. ASSUME NEW k \in 0..(n - 1) PROVE r[(i + 2) + k] = t[j + k]
    <3>1. j + k \in j..Len(t) /\ (j + k) - j + i + 2 = (i + 2) + k
      BY <1>1
    <3> QED
      BY <1>2, <3>1
  <2> HIDE DEF n
  <2>3. SubSeq(r, i + 2, (i + 2) + n - 1) = SubSeq(t, j, j + n - 1)
    BY <1>1, <1>2, <2>1, <2>2, SamePart
  <2> QED
    BY <2>1, <2>3
<1> QED
  BY <1>5, <1>6, <1>7, <1>8 DEF Beside, i, j, r

\* The other blocks are found as they were, wherever they stand.
LEMMA ReplacedKeepsOthers ==
    ASSUME NEW t \in Seq(TextLines), WellFormed(t), NEW b \in Blocks, HasPair(t, b),
           NEW l \in TextLines \ Markers, NEW c \in Blocks, c # b
    PROVE  FindBlock(ReplaceBlock(t, b, l), c) = FindBlock(t, c)
<1> DEFINE i == FirstAt(Begin(b), t)
           j == FirstAt(End(b), t)
           r == ReplaceBlock(t, b, l)
<1>1. /\ i \in Nat /\ j \in Nat /\ Len(t) \in Nat /\ 1 <= i /\ i < j /\ j <= Len(t)
      /\ t[i] = Begin(b) /\ t[j] = End(b)
      /\ \A k \in 1..Len(t) : t[k] \in Markers => k <= i \/ k >= j
  BY PairPlaces
<1>2. /\ r \in Seq(TextLines) /\ Len(r) = i + 2 + (Len(t) - j)
      /\ \A k \in 1..i : r[k] = t[k]
      /\ r[i + 1] = l
      /\ \A k \in j..Len(t) : r[k - j + i + 2] = t[k]
  BY ReplacedLines
<1>3. WellFormed(r)
  BY ReplacedWellFormed
<1>4. DOMAIN r = 1..Len(r) /\ DOMAIN t = 1..Len(t)
  BY <1>2
<1>5. /\ Begin(c) \in Markers /\ End(c) \in Markers /\ Begin(b) \in Markers
      /\ Begin(c) # Begin(b) /\ Begin(c) # End(b) /\ End(c) # Begin(b) /\ End(c) # End(b)
  BY MarkersDiffer
<1> HIDE DEF i, j, r
<1>6. CASE HasPair(t, c)
  <2> DEFINE k == FirstAt(Begin(c), t)
             m == FirstAt(End(c), t)
  <2>1. /\ k \in 1..Len(t) /\ m \in 1..Len(t) /\ k < m /\ t[k] = Begin(c) /\ t[m] = End(c)
        /\ \A n \in 1..Len(t) : t[n] \in Markers => n <= k \/ n >= m
    BY <1>6, PairPlaces
  <2>2. FindBlock(t, c) = SubSeq(t, k + 1, m - 1)
    BY <1>6 DEF FindBlock
  <2> HIDE DEF k, m
  <2> DEFINE n == m - 1 - k
  <2>3. n \in Nat /\ (k + 1) + n - 1 = m - 1
    BY <2>1
  <2>4. k # i /\ k # j /\ m # i /\ m # j
    BY <1>1, <1>5, <2>1
  <2>5. CASE m < i
    <3>1. k \in 1..i /\ m \in 1..i /\ k \in 1..Len(r) /\ m \in 1..Len(r)
      BY <1>1, <1>2, <2>1, <2>5
    <3>2. FindBlock(r, c) = SubSeq(r, k + 1, m - 1)
      <4>1. r[k] = Begin(c) /\ r[m] = End(c)
        BY <1>2, <2>1, <3>1
      <4> QED
        BY <1>2, <1>3, <3>1, <4>1, PairFound
    <3>3. \A h \in 0..(n - 1) : r[(k + 1) + h] = t[(k + 1) + h]
      BY <1>1, <1>2, <2>1, <2>5
    <3> HIDE DEF n
    <3>4. SubSeq(r, k + 1, (k + 1) + n - 1) = SubSeq(t, k + 1, (k + 1) + n - 1)
      BY <1>1, <1>2, <2>1, <2>3, <2>5, <3>1, <3>3, SamePart
    <3> QED
      BY <2>2, <2>3, <3>2, <3>4 DEF r
  <2>6. CASE k > j
    <3> DEFINE d == k - j + i + 2
    <3>1. /\ k \in j..Len(t) /\ m \in j..Len(t)
          /\ d \in 1..Len(r) /\ m - j + i + 2 \in 1..Len(r)
          /\ d \in Nat /\ m - j + i + 2 = (d + 1) + n /\ (d + 1) + n - 1 <= Len(r)
      BY <1>1, <1>2, <2>1, <2>6
    <3>2. r[d] = Begin(c) /\ r[m - j + i + 2] = End(c)
      BY <1>2, <2>1, <3>1
    <3>3. FindBlock(r, c) = SubSeq(r, d + 1, (m - j + i + 2) - 1)
      BY <1>2, <1>3, <3>1, <3>2, PairFound
    <3>4. ASSUME NEW h \in 0..(n - 1) PROVE r[(d + 1) + h] = t[(k + 1) + h]
      <4>1. (k + 1) + h \in j..Len(t) /\ ((k + 1) + h) - j + i + 2 = (d + 1) + h
        BY <1>1, <2>1, <2>6
      <4> QED
        BY <1>2, <4>1
    <3> HIDE DEF n, d
    <3>5. SubSeq(r, d + 1, (d + 1) + n - 1) = SubSeq(t, k + 1, (k + 1) + n - 1)
      <4> DEFINE u == SubSeq(r, d + 1, (d + 1) + n - 1)
                 v == SubSeq(t, k + 1, (k + 1) + n - 1)
      <4>1. k \in Nat /\ d \in Nat /\ n \in Nat /\ (k + 1) + n - 1 <= Len(t)
            /\ (d + 1) + n - 1 <= Len(r) /\ r \in Seq(TextLines)
        BY <1>2, <2>1, <2>3, <3>1
      <4>2. u \in Seq(TextLines) /\ Len(u) = n /\ \A h \in 1..n : u[h] = r[(d + 1) + (h - 1)]
        BY <4>1
      <4>3. v \in Seq(TextLines) /\ Len(v) = n /\ \A h \in 1..n : v[h] = t[(k + 1) + (h - 1)]
        BY <4>1
      <4>4. \A h \in 1..n : h - 1 \in 0..(n - 1)
        BY <4>1
      <4> HIDE DEF u, v
      <4>5. \A h \in 1..n : u[h] = v[h]
        BY <3>4, <4>2, <4>3, <4>4
      <4>6. u = v
        BY <4>2, <4>3, <4>5, SeqEqual
      <4> QED
        BY <4>6 DEF u, v
    <3>6. (m - j + i + 2) - 1 = (d + 1) + n - 1
      BY <2>3, <3>1
    <3> QED
      BY <2>2, <2>3, <3>3, <3>5, <3>6 DEF r
  <2>7. m < i \/ k > j
    BY <1>1, <1>5, <2>1, <2>4
  <2> QED
    BY <2>5, <2>6, <2>7
<1>7. CASE ~HasPair(t, c)
  <2>1. \A k \in 1..Len(t) : t[k] # Begin(c)
    BY <1>7, NoPair
  <2>2. ASSUME NEW k \in 1..Len(r), r[k] = Begin(c) PROVE FALSE
    <3>1. CASE k <= i
      <4>1. k \in 1..i /\ k \in 1..Len(t)
        BY <1>1, <3>1
      <4> QED
        BY <1>2, <2>1, <2>2, <4>1
    <3>2. CASE k = i + 1
      BY <1>2, <1>5, <2>2, <3>2
    <3>3. CASE k >= i + 2
      <4>1. k - i - 2 + j \in j..Len(t) /\ (k - i - 2 + j) - j + i + 2 = k
        <5>1. k \in Nat /\ i + 2 <= k /\ k <= i + 2 + (Len(t) - j)
          BY <1>2, <3>3
        <5> QED
          BY <1>1, <5>1, LineBefore
      <4>2. r[k] = t[k - i - 2 + j]
        BY <1>2, <4>1
      <4>3. k - i - 2 + j \in 1..Len(t)
        BY <1>1, <4>1
      <4> QED
        BY <2>1, <2>2, <4>2, <4>3
    <3> QED
      BY <1>1, <3>1, <3>2, <3>3
  <2>3. ~HasPair(r, c)
    BY <1>4, <2>2 DEF HasPair, Occurs
  <2> QED
    BY <1>7, <2>3 DEF FindBlock, r
<1> QED
  BY <1>6, <1>7

-----------------------------------------------------------------------------
(* MarkerBlocks: the file and its writers *)

AtWork == {"check", "find", "read", "truncate", "flush"}

\* A command at work has its block and its rendering.
Holding == \A w \in Writers : at[w] \in AtWork => job[w] \in Blocks /\ rendering[w] \in Renderings

\* What is about to be written back is a text with the command's pair.
Based == \A w \in Writers : at[w] \in {"truncate", "flush"} => HasPair(base[w], job[w])

\* A write that nothing has spoiled is the only one, of the empty file, and what
\* it has read is what was last written.
Emptied ==
    ~spoiled => \A w \in Writers : at[w] = "flush" =>
        /\ text = <<>>
        /\ \A v \in Writers : at[v] = "flush" => v = w
        /\ WellFormed(base[w]) /\ \A b \in Blocks : FindBlock(base[w], b) = written[b]

BlocksInv == BlocksTypeOK /\ Holding /\ Based /\ BlocksKept /\ Emptied

\* The file between the truncation and the write.
LEMMA EmptyText ==
    /\ <<>> \in Seq(TextLines) /\ WellFormed(<<>>)
    /\ \A b \in Blocks : ~HasPair(<<>>, b)
<1>1. <<>> \in Seq(TextLines) /\ DOMAIN <<>> = {}
  OBVIOUS
<1> QED
  BY <1>1 DEF WellFormed, HasPair, Occurs

\* A write over a longer text leaves its end, one over the emptied file nothing.
LEMMA OverIs ==
    ASSUME NEW new \in Seq(TextLines), NEW old \in Seq(TextLines)
    PROVE  WrittenOver(new, old) \in Seq(TextLines) /\ (old = <<>> => WrittenOver(new, old) = new)
<1>1. SubSeq(old, Len(new) + 1, Len(old)) \in Seq(TextLines)
  <2>1. Len(new) + 1 \in Nat /\ Len(old) \in Nat /\ 1 <= Len(new) + 1
    OBVIOUS
  <2>2. \A k \in (Len(new) + 1)..Len(old) : k \in 1..Len(old)
    BY <2>1
  <2> QED
    BY <2>1, <2>2
<1>2. ASSUME old = <<>> PROVE SubSeq(old, Len(new) + 1, Len(old)) = <<>>
  <2>1. Len(old) = 0 /\ Len(new) + 1 > 0 /\ Len(new) \in Nat
    BY <1>2
  <2>2. Len(SubSeq(old, Len(new) + 1, Len(old))) = 0
    BY <2>1
  <2> QED
    BY <1>1, <2>2
<1>3. new \o <<>> = new
  OBVIOUS
<1> QED
  BY <1>1, <1>2, <1>3 DEF WrittenOver

\* A block is lines, and is found only in a text with its pair.
LEMMA FoundTyped ==
    ASSUME NEW t \in Seq(TextLines), WellFormed(t), NEW b \in Blocks
    PROVE  /\ FindBlock(t, b) \in Seq(TextLines) \cup {NoBlock}
           /\ FindBlock(t, b) # NoBlock => HasPair(t, b)
<1>1. CASE HasPair(t, b)
  <2> DEFINE i == FirstAt(Begin(b), t)
             j == FirstAt(End(b), t)
  <2>1. i \in 1..Len(t) /\ j \in 1..Len(t)
    BY <1>1, PairPlaces
  <2>2. FindBlock(t, b) = SubSeq(t, i + 1, j - 1)
    BY <1>1 DEF FindBlock
  <2> HIDE DEF i, j
  <2>3. SubSeq(t, i + 1, j - 1) \in Seq(TextLines)
    BY <2>1
  <2> QED
    BY <1>1, <2>2, <2>3
<1>2. CASE ~HasPair(t, b)
  BY <1>2 DEF FindBlock
<1> QED
  BY <1>1, <1>2

\* No rendering is a marker, and the author's texts are well formed.
LEMMA RenderedLines ==
    /\ Renderings \subseteq TextLines \ Markers
    /\ \A d \in Drafts : d \in Seq(TextLines) /\ WellFormed(d)
BY BlocksAssumption DEF TextLines

LEMMA BlocksInitInv == BlocksInit => BlocksInv
<1> SUFFICES ASSUME BlocksInit PROVE BlocksInv
  OBVIOUS
<1> USE DEF BlocksInit
<1>1. text \in Seq(TextLines) /\ WellFormed(text)
  BY RenderedLines
<1>2. \A b \in Blocks : written[b] = FindBlock(text, b)
  OBVIOUS
<1>3. \A w \in Writers : at[w] = "OK"
  OBVIOUS
<1>4. written \in [Blocks -> Seq(TextLines) \cup {NoBlock}]
  BY <1>1, FoundTyped
<1>5. BlocksTypeOK
  BY <1>1, <1>4, EmptyText DEF BlocksTypeOK, Ended
<1> QED
  BY <1>2, <1>3, <1>5 DEF BlocksInv, Holding, AtWork, Based, BlocksKept, Emptied

\* A step that leaves the file and every write at work alone keeps what is said
\* of them.
LEMMA FileLeftAlone ==
    ASSUME BlocksInv, NEW w \in Writers, UNCHANGED <<text, written, spoiled>>,
           at' = [at EXCEPT ![w] = at'[w]], at[w] # "flush", at'[w] # "flush",
           \A v \in Writers : v # w => base'[v] = base[v]
    PROVE  BlocksKept' /\ Emptied'
<1>1. \A v \in Writers : at'[v] = "flush" <=> at[v] = "flush"
  BY DEF BlocksInv, BlocksTypeOK
<1>2. \A v \in Writers : at'[v] = "flush" => base'[v] = base[v]
  OBVIOUS
<1>3. MidWrite' <=> MidWrite
  BY <1>1 DEF MidWrite
<1>4. BlocksKept'
  BY <1>3 DEF BlocksInv, BlocksKept
<1>5. Emptied'
  BY <1>1, <1>2 DEF BlocksInv, Emptied
<1> QED
  BY <1>4, <1>5

\* The end of a process keeps what is said of the others.
LEMMA LeftKeeps ==
    ASSUME BlocksInv, NEW w \in Writers, NEW p \in Ended, Leave(w, p)
    PROVE  /\ at' \in [Writers -> Ended \cup AtWork]
           /\ job' \in [Writers -> Blocks \cup {NoBlock}]
           /\ rendering' \in [Writers -> Renderings \cup {NoLine}]
           /\ base' \in [Writers -> Seq(TextLines)]
           /\ Holding' /\ Based'
           /\ at' = [at EXCEPT ![w] = at'[w]] /\ at'[w] = p /\ p \notin AtWork
           /\ \A v \in Writers : v # w => base'[v] = base[v]
<1>1. BlocksTypeOK /\ Holding /\ Based
  BY DEF BlocksInv
<1>2. p \notin AtWork
  BY DEF Ended, AtWork
<1>3. /\ at' \in [Writers -> Ended \cup AtWork]
      /\ job' \in [Writers -> Blocks \cup {NoBlock}]
      /\ rendering' \in [Writers -> Renderings \cup {NoLine}]
      /\ base' \in [Writers -> Seq(TextLines)]
  BY <1>1, EmptyText DEF BlocksTypeOK, Leave, AtWork
<1>4. at' = [at EXCEPT ![w] = at'[w]] /\ at'[w] = p
  BY <1>1 DEF BlocksTypeOK, Leave
<1>5. \A v \in Writers : v # w =>
        at'[v] = at[v] /\ job'[v] = job[v] /\ rendering'[v] = rendering[v] /\ base'[v] = base[v]
  BY <1>1 DEF BlocksTypeOK, Leave
<1>6. Holding'
  BY <1>1, <1>2, <1>4, <1>5 DEF Holding
<1>7. Based'
  BY <1>1, <1>2, <1>4, <1>5 DEF Based, AtWork
<1> QED
  BY <1>2, <1>3, <1>4, <1>5, <1>6, <1>7

LEMMA BlocksStep == BlocksInv /\ [BlocksNext]_docVars => BlocksInv'
<1> SUFFICES ASSUME BlocksInv, [BlocksNext]_docVars PROVE BlocksInv'
  OBVIOUS
<1>1. BlocksTypeOK /\ Holding /\ Based /\ BlocksKept /\ Emptied
  BY DEF BlocksInv
<1>2. ASSUME NEW w \in Writers, at[w] # "flush", NEW p \in Ended, Leave(w, p),
             UNCHANGED <<text, written, spoiled>>
      PROVE  BlocksInv'
  <2>1. /\ at' \in [Writers -> Ended \cup AtWork]
        /\ job' \in [Writers -> Blocks \cup {NoBlock}]
        /\ rendering' \in [Writers -> Renderings \cup {NoLine}]
        /\ base' \in [Writers -> Seq(TextLines)]
        /\ Holding' /\ Based'
        /\ at' = [at EXCEPT ![w] = at'[w]] /\ at'[w] = p /\ p \notin AtWork
        /\ \A v \in Writers : v # w => base'[v] = base[v]
    BY <1>2, LeftKeeps
  <2>2. at'[w] # "flush"
    BY <2>1 DEF AtWork
  <2>3. BlocksKept' /\ Emptied'
    BY <1>2, <2>1, <2>2, FileLeftAlone
  <2>4. BlocksTypeOK'
    BY <1>1, <1>2, <2>1 DEF BlocksTypeOK, AtWork
  <2> QED
    BY <2>1, <2>3, <2>4 DEF BlocksInv
<1>3. ASSUME NEW w \in Writers, Render(w) PROVE BlocksInv'
  <2>1. CASE Leave(w, "refused")
    <3>1. at[w] # "flush" /\ "refused" \in Ended
      BY <1>3 DEF Render, Ended
    <3> QED
      BY <1>2, <1>3, <2>1, <3>1 DEF Render
  <2>2. ASSUME NEW b \in Blocks, NEW l \in Renderings, NEW p \in {"check", "find"},
               at' = [at EXCEPT ![w] = p], job' = [job EXCEPT ![w] = b],
               rendering' = [rendering EXCEPT ![w] = l], UNCHANGED base
        PROVE  BlocksInv'
    <3>1. UNCHANGED <<text, written, spoiled>> /\ at[w] \in Ended
      BY <1>3 DEF Render
    <3>2. at'[w] = p /\ job'[w] = b /\ rendering'[w] = l
      BY <1>1, <2>2 DEF BlocksTypeOK
    <3>3. \A v \in Writers : v # w =>
            at'[v] = at[v] /\ job'[v] = job[v] /\ rendering'[v] = rendering[v]
      BY <1>1, <2>2 DEF BlocksTypeOK
    <3>4. BlocksTypeOK'
      BY <1>1, <2>2, <3>1 DEF BlocksTypeOK
    <3>5. Holding'
      BY <1>1, <3>2, <3>3 DEF Holding
    <3>6. Based'
      BY <1>1, <2>2, <3>2, <3>3 DEF Based
    <3>7. at[w] # "flush" /\ at'[w] # "flush" /\ at' = [at EXCEPT ![w] = at'[w]]
      BY <2>2, <3>1, <3>2 DEF Ended
    <3>8. BlocksKept' /\ Emptied'
      BY <2>2, <3>1, <3>7, FileLeftAlone
    <3> QED
      BY <3>4, <3>5, <3>6, <3>8 DEF BlocksInv
  <2> QED
    BY <1>3, <2>1, <2>2 DEF Render
<1>4. ASSUME NEW w \in Writers, Look(w) PROVE BlocksInv'
  <2>1. at[w] \in {"check", "find"} /\ UNCHANGED <<text, written, spoiled>> /\ at[w] # "flush"
    BY <1>4 DEF Look
  <2>2. CASE \E p \in {"refused", "OK", "FAIL"} : Leave(w, p)
    <3>1. {"refused", "OK", "FAIL"} \subseteq Ended
      BY DEF Ended
    <3> QED
      BY <1>2, <2>1, <2>2, <3>1
  <2>3. CASE Reach(w, "read")
    <3>1. /\ at' = [at EXCEPT ![w] = "read"] /\ at'[w] = "read"
          /\ \A v \in Writers : v # w => at'[v] = at[v]
      BY <1>1, <2>3 DEF Reach, BlocksTypeOK
    <3>2. UNCHANGED <<job, rendering, base>>
      BY <2>3 DEF Reach
    <3>3. BlocksTypeOK'
      BY <1>1, <2>1, <3>1, <3>2 DEF BlocksTypeOK
    <3>4. Holding'
      BY <1>1, <2>1, <3>1, <3>2 DEF Holding, AtWork
    <3>5. Based'
      BY <1>1, <3>1, <3>2 DEF Based
    <3>6. BlocksKept' /\ Emptied'
      BY <2>1, <3>1, <3>2, FileLeftAlone
    <3> QED
      BY <3>3, <3>4, <3>5, <3>6 DEF BlocksInv
  <2> QED
    BY <1>4, <2>2, <2>3 DEF Look
<1>5. ASSUME NEW w \in Writers, ReadText(w) PROVE BlocksInv'
  <2>1. at[w] = "read" /\ UNCHANGED <<text, written, spoiled>>
    BY <1>5 DEF ReadText
  <2>2. CASE HasPair(text, job[w])
    <3>1. /\ base' = [base EXCEPT ![w] = text] /\ at' = [at EXCEPT ![w] = "truncate"]
          /\ UNCHANGED <<job, rendering>>
      BY <1>5, <2>2 DEF ReadText
    <3>2. at'[w] = "truncate" /\ base'[w] = text
      BY <1>1, <3>1 DEF BlocksTypeOK
    <3>3. \A v \in Writers : v # w => at'[v] = at[v] /\ base'[v] = base[v]
      BY <1>1, <3>1 DEF BlocksTypeOK
    <3>4. BlocksTypeOK'
      BY <1>1, <2>1, <3>1 DEF BlocksTypeOK
    <3>5. Holding'
      BY <1>1, <2>1, <3>1, <3>2, <3>3 DEF Holding, AtWork
    <3>7. Based'
      BY <1>1, <2>2, <3>1, <3>2, <3>3 DEF Based
    <3>8. at[w] # "flush" /\ at'[w] # "flush" /\ at' = [at EXCEPT ![w] = at'[w]]
      BY <2>1, <3>1, <3>2
    <3>9. BlocksKept' /\ Emptied'
      BY <2>1, <3>3, <3>8, FileLeftAlone
    <3> QED
      BY <3>4, <3>5, <3>7, <3>9 DEF BlocksInv
  <2>3. CASE ~HasPair(text, job[w])
    <3>1. Leave(w, "failed") /\ "failed" \in Ended
      BY <1>5, <2>3 DEF ReadText, Ended
    <3> QED
      BY <1>2, <2>1, <3>1
  <2> QED
    BY <2>2, <2>3
<1>6. ASSUME NEW w \in Writers, Truncate(w) PROVE BlocksInv'
  <2>1. /\ at[w] = "truncate" /\ text' = <<>> /\ spoiled' = (spoiled \/ text # base[w])
        /\ UNCHANGED <<written, job, rendering, base>> /\ at' = [at EXCEPT ![w] = "flush"]
    BY <1>6 DEF Truncate, Reach
  <2>2. at'[w] = "flush" /\ \A v \in Writers : v # w => at'[v] = at[v]
    BY <1>1, <2>1 DEF BlocksTypeOK
  <2>3. BlocksTypeOK'
    BY <1>1, <2>1, EmptyText DEF BlocksTypeOK
  <2>4. Holding'
    BY <1>1, <2>1, <2>2 DEF Holding, AtWork
  <2>5. Based'
    BY <1>1, <2>1, <2>2 DEF Based
  <2>6. BlocksKept'
    BY <2>2 DEF BlocksKept, MidWrite
  <2>7. ASSUME ~spoiled' PROVE \A v \in Writers : at[v] # "flush"
    <3>1. ~spoiled /\ text = base[w] /\ HasPair(text, job[w]) /\ job[w] \in Blocks
      BY <1>1, <2>1, <2>7 DEF Based, Holding, AtWork
    <3>2. text # <<>>
      BY <3>1, EmptyText
    <3> QED
      BY <1>1, <3>1, <3>2 DEF Emptied
  <2>8. Emptied'
    <3> SUFFICES ASSUME ~spoiled', NEW u \in Writers, at'[u] = "flush"
                 PROVE  /\ text' = <<>>
                        /\ \A v \in Writers : at'[v] = "flush" => v = u
                        /\ WellFormed(base'[u])
                        /\ \A b \in Blocks : FindBlock(base'[u], b) = written'[b]
      BY DEF Emptied
    <3>1. u = w /\ \A v \in Writers : at'[v] = "flush" => v = w
      BY <2>2, <2>7
    <3>2. ~spoiled /\ ~MidWrite /\ base'[w] = text
      BY <2>1, <2>7 DEF MidWrite
    <3>3. WellFormed(text)
      BY <1>1, <3>2 DEF BlocksTypeOK
    <3> QED
      BY <1>1, <2>1, <3>1, <3>2, <3>3 DEF BlocksKept
  <2> QED
    BY <2>3, <2>4, <2>5, <2>6, <2>8 DEF BlocksInv
<1>7. ASSUME NEW w \in Writers, Flush(w) PROVE BlocksInv'
  <2> DEFINE l == rendering[w]
             b == job[w]
             t == base[w]
             r == ReplaceBlock(t, b, l)
  <2>1. /\ at[w] = "flush" /\ text' = WrittenOver(r, text)
        /\ written' = [written EXCEPT ![b] = <<l>>]
        /\ spoiled' = (spoiled \/ text # <<>>) /\ Leave(w, "wrote") /\ "wrote" \in Ended
    BY <1>7 DEF Flush, Ended
  <2>2. /\ b \in Blocks /\ l \in Renderings /\ HasPair(t, b)
        /\ t \in Seq(TextLines) /\ l \in TextLines \ Markers /\ text \in Seq(TextLines)
    BY <1>1, <2>1, RenderedLines DEF Holding, Based, AtWork, BlocksTypeOK
  <2>3. /\ at' \in [Writers -> Ended \cup AtWork]
        /\ job' \in [Writers -> Blocks \cup {NoBlock}]
        /\ rendering' \in [Writers -> Renderings \cup {NoLine}]
        /\ base' \in [Writers -> Seq(TextLines)]
        /\ Holding' /\ Based'
        /\ at' = [at EXCEPT ![w] = at'[w]] /\ at'[w] = "wrote"
    BY <2>1, LeftKeeps
  <2>4. ASSUME ~spoiled'
        PROVE  /\ ~spoiled /\ text = <<>> /\ WellFormed(t)
               /\ \A v \in Writers : at[v] = "flush" => v = w
               /\ \A c \in Blocks : FindBlock(t, c) = written[c]
    BY <1>1, <2>1, <2>4 DEF Emptied
  <2> HIDE DEF l, b, t
  <2>5. r \in Seq(TextLines)
    BY <2>2, ReplacedLines
  <2>6. ASSUME ~spoiled' PROVE text' = r /\ WellFormed(r)
    BY <2>1, <2>2, <2>4, <2>5, <2>6, OverIs, ReplacedWellFormed
  <2>7. BlocksTypeOK'
    <3>1. text' \in Seq(TextLines)
      BY <2>1, <2>2, <2>5, OverIs
    <3>2. <<l>> \in Seq(TextLines)
      BY <2>2
    <3>3. written' \in [Blocks -> Seq(TextLines) \cup {NoBlock}] /\ spoiled' \in BOOLEAN
      BY <1>1, <2>1, <3>2 DEF BlocksTypeOK
    <3> QED
      BY <2>3, <2>6, <3>1, <3>3 DEF BlocksTypeOK, AtWork
  <2>8. \A v \in Writers : v # w => at'[v] = at[v]
    BY <1>1, <2>3 DEF BlocksTypeOK
  <2>9. ASSUME ~spoiled' PROVE \A v \in Writers : at'[v] # "flush"
    BY <2>3, <2>4, <2>8, <2>9
  <2>10. ASSUME ~spoiled', NEW c \in Blocks PROVE FindBlock(text', c) = written'[c]
    <3>1. CASE c = b
      <4>1. FindBlock(text', c) = <<l>>
        BY <2>2, <2>6, <2>10, <3>1, ReplacedIsFound
      <4>2. written'[c] = <<l>>
        BY <1>1, <2>1, <3>1, <2>10 DEF BlocksTypeOK
      <4> QED
        BY <4>1, <4>2
    <3>2. CASE c # b
      <4>1. FindBlock(text', c) = FindBlock(t, c)
        BY <2>2, <2>4, <2>6, <2>10, <3>2, ReplacedKeepsOthers
      <4>2. written'[c] = written[c]
        BY <1>1, <2>1, <3>2, <2>10 DEF BlocksTypeOK
      <4> QED
        BY <2>4, <2>10, <4>1, <4>2
    <3> QED
      BY <3>1, <3>2
  <2>11. BlocksKept' /\ Emptied'
    BY <2>9, <2>10 DEF BlocksKept, Emptied
  <2> QED
    BY <2>3, <2>7, <2>11 DEF BlocksInv
<1>8. ASSUME NEW w \in Writers, KillWriter(w) PROVE BlocksInv'
  <2>1. /\ Leave(w, "killed") /\ "killed" \in Ended /\ UNCHANGED <<text, written>>
        /\ spoiled' = (spoiled \/ at[w] = "flush")
    BY <1>8 DEF KillWriter, Ended
  <2>2. CASE at[w] # "flush"
    <3>1. UNCHANGED spoiled
      BY <1>1, <2>1, <2>2 DEF BlocksTypeOK
    <3> QED
      BY <1>2, <2>1, <2>2, <3>1
  <2>3. CASE at[w] = "flush"
    <3>1. spoiled'
      BY <2>1, <2>3
    <3>2. /\ at' \in [Writers -> Ended \cup AtWork]
          /\ job' \in [Writers -> Blocks \cup {NoBlock}]
          /\ rendering' \in [Writers -> Renderings \cup {NoLine}]
          /\ base' \in [Writers -> Seq(TextLines)]
          /\ Holding' /\ Based'
      BY <2>1, LeftKeeps
    <3>3. BlocksTypeOK'
      BY <1>1, <2>1, <3>2 DEF BlocksTypeOK, AtWork
    <3> QED
      BY <3>1, <3>2, <3>3 DEF BlocksInv, BlocksKept, Emptied
  <2> QED
    BY <2>2, <2>3
<1>9. ASSUME Author PROVE BlocksInv'
  <2>1. /\ text' \in Drafts /\ written' = [b \in Blocks |-> FindBlock(text', b)]
        /\ spoiled' = MidWrite /\ UNCHANGED <<at, job, rendering, base>>
    BY <1>9 DEF Author, MidWrite
  <2>2. text' \in Seq(TextLines) /\ WellFormed(text')
    BY <2>1, RenderedLines
  <2>3. \A b \in Blocks : FindBlock(text', b) \in Seq(TextLines) \cup {NoBlock}
    BY <2>2, FoundTyped
  <2>4. MidWrite \in BOOLEAN
    BY DEF MidWrite
  <2>5. BlocksTypeOK'
    BY <1>1, <2>1, <2>2, <2>3, <2>4 DEF BlocksTypeOK
  <2>6. Holding' /\ Based'
    BY <1>1, <2>1 DEF Holding, Based
  <2>7. BlocksKept' /\ Emptied'
    BY <2>1 DEF BlocksKept, Emptied, MidWrite
  <2> QED
    BY <2>5, <2>6, <2>7 DEF BlocksInv
<1>10. CASE UNCHANGED docVars
  BY <1>1, <1>10 DEF docVars, BlocksInv, BlocksTypeOK, Holding, Based, BlocksKept, Emptied, MidWrite
<1> QED
  BY <1>3, <1>4, <1>5, <1>6, <1>7, <1>8, <1>9, <1>10 DEF BlocksNext, Command

LEMMA BlocksAlways == BlocksSpec => []BlocksInv
<1> QED
  BY BlocksInitInv, BlocksStep, PTL DEF BlocksSpec

\* The variables of the file and its writers have their types, and the file is
\* always empty or a text whose pairs of markers are pairs: no order of reads,
\* writes and kills leaves half a block (eval/blocks.py).
THEOREM BlocksTyped == BlocksSpec => []BlocksTypeOK
<1>1. BlocksInv => BlocksTypeOK
  BY DEF BlocksInv
<1> QED
  BY <1>1, BlocksAlways, PTL

\* No command loses what another command, or the author, wrote last into another
\* block, whatever the blocks, the texts and the number of writers, while no
\* write is overtaken or killed (write_block and replace_block in eval/blocks.py).
THEOREM BlocksKeptHolds == BlocksSpec => []BlocksKept
<1>1. BlocksInv => BlocksKept
  BY DEF BlocksInv
<1> QED
  BY <1>1, BlocksAlways, PTL

\* A write leaves what it read before and after its markers as it was, for every
\* text that the file may hold (replace_block in eval/blocks.py).
THEOREM NothingElseHolds == BlocksSpec => NothingElse
<1>1. ASSUME BlocksInv, [BlocksNext]_docVars, NEW w \in Writers, at[w] = "flush", at'[w] = "wrote",
             text = <<>>
      PROVE  Beside(text', job[w]) = Beside(base[w], job[w])
  <2>1. at \in [Writers -> Ended \cup AtWork]
    BY <1>1 DEF BlocksInv, BlocksTypeOK, AtWork
  <2>2. PICK v \in Writers : Command(v)
    BY <1>1 DEF BlocksNext, Author, docVars
  <2>3. v = w
    BY <1>1, <2>1, <2>2 DEF Command, Render, Look, ReadText, Truncate, Flush, KillWriter, Reach, Leave
  <2>4. Flush(w)
    BY <1>1, <2>1, <2>2, <2>3
    DEF Command, Render, Look, ReadText, Truncate, KillWriter, Leave, Ended
  <2>5. /\ job[w] \in Blocks /\ rendering[w] \in TextLines \ Markers /\ base[w] \in Seq(TextLines)
        /\ HasPair(base[w], job[w])
    BY <1>1, RenderedLines DEF BlocksInv, BlocksTypeOK, Holding, Based, AtWork
  <2>6. text' = ReplaceBlock(base[w], job[w], rendering[w])
    <3>1. ReplaceBlock(base[w], job[w], rendering[w]) \in Seq(TextLines)
      BY <2>5, ReplacedLines
    <3> QED
      BY <1>1, <2>4, <3>1, OverIs, EmptyText DEF Flush
  <2> QED
    BY <2>5, <2>6, ReplacedIsFound
<1>2. BlocksInv /\ [BlocksNext]_docVars =>
        [\A w \in Writers : at[w] = "flush" /\ at'[w] = "wrote" /\ text = <<>> =>
            Beside(text', job[w]) = Beside(base[w], job[w])]_docVars
  BY <1>1
<1> QED
  BY <1>2, BlocksAlways, PTL DEF BlocksSpec, NothingElse

-----------------------------------------------------------------------------
\* All of them side by side: no command disturbs what is none of its own, so
\* that every variable of the repository keeps its type (the commands of
\* generator/cli.py, eval/cli.py and scripts/mutate.py).
THEOREM RepositoryTyped == RepositorySpec => []RepositoryTypeOK
<1> DEFINE Everything == FixturesInv /\ SweepInv /\ BlocksInv
<1>1. RepositoryInit => Everything
  BY InitFixtures, SweepInitInv, BlocksInitInv DEF RepositoryInit
<1>2. Everything /\ [RepositoryNext]_<<vars, sweepVars, docVars>> => Everything'
  <2>1. RepositoryNext \/ UNCHANGED <<vars, sweepVars, docVars>> =>
          [Next]_vars /\ [SweepNext]_sweepVars /\ [BlocksNext]_docVars
    BY DEF RepositoryNext
  <2> QED
    BY <2>1, NextFixtures, SweepStepInv, BlocksStep
<1>3. Everything => RepositoryTypeOK
  BY DEF FixturesInv, SweepInv, BlocksInv, RepositoryTypeOK
<1> QED
  BY <1>1, <1>2, <1>3, PTL DEF RepositorySpec
=============================================================================

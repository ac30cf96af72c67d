---------------------------- MODULE LandingProofs ----------------------------
(***************************************************************************)
(* Proofs about Landing, for every set of files and every THROUGH.         *)
(*                                                                         *)
(* What makes each job, and the commit of the DuckDB transaction, a        *)
(* landing of RawEvents is that the listing has every file whose rows are  *)
(* already in the table, up to its THROUGH: so replacing a partition by    *)
(* the listed files loses nothing.                                         *)
(***************************************************************************)
EXTENDS Landing, WellFoundedInduction, TLAPS

\* The export is a prefix of the files.
ExportInv ==
    exported # {} => \E f \in Files : exported = {g \in Files : g <= f}

\* The table holds rows of exported files, each once.
RawInv == \A r \in Rows : raw[r] \in {0, 1} /\ (raw[r] = 1 => FileOf[r] \in exported)

\* The listing is the prefix of the files up to a date; of that prefix, it has
\* all whose rows are in the table.
Listing(f, through) ==
    /\ selected = {g \in Files : g <= f /\ DateOf[g] <= through}
    /\ {g \in Files : g <= f} \subseteq exported
    /\ \A r \in Rows : raw[r] = 1 /\ RowDate[r] <= through => FileOf[r] \in selected

ListingInv == selected # {} => \E f \in Files, through \in Throughs : Listing(f, through)

\* Partitions are replaced as a whole.
WholeDates ==
    \A f \in todo, g \in selected : DateOf[f] = DateOf[g] => g \in todo

\* What the job, or the transaction, has done so far.
ProgressInv ==
    /\ target = "bigquery" /\ pc = "events" =>
          \A r \in Rows : FileOf[r] \in selected \ todo => raw[r] = 1
    /\ txn # Nothing => \A r \in Rows :
          txn[r] = IF FileOf[r] \in selected \ todo THEN 1 ELSE raw[r]

StepInv ==
    /\ pc = "check" => target = "duckdb" /\ todo = {}
    /\ pc = "dims" => selected = {}

IInv ==
    /\ TypeOK
    /\ ExportInv
    /\ RawInv
    /\ ListingInv
    /\ WholeDates
    /\ ProgressInv
    /\ StepInv
    /\ LandedWhole
    /\ NeverConflicting

-----------------------------------------------------------------------------
LEMMA FilesAreDated ==
    /\ Files \subseteq Nat
    /\ \A f \in Files : DateOf[f] \in Int
    /\ \A r \in Rows : FileOf[r] \in Files /\ RowDate[r] = DateOf[FileOf[r]]
    /\ \A f, g \in Files : f <= g => DateOf[f] <= DateOf[g]
<1>1. Files \subseteq Nat /\ \A f \in Files : DateOf[f] \in Int
  BY FilesAssumption
<1>2. \A r \in Rows : FileOf[r] \in Files /\ RowDate[r] = DateOf[FileOf[r]]
  BY FilesAssumption DEF RowDate
<1>3. ASSUME NEW f \in Files, NEW g \in Files, f <= g PROVE DateOf[f] <= DateOf[g]
  <2>1. CASE f = g BY <2>1, <1>1
  <2>2. CASE f < g BY <2>2, FilesAssumption
  <2> QED BY <1>1, <1>3, <2>1, <2>2
<1> QED BY <1>1, <1>2, <1>3

\* A nonempty set of files has a first one.
LEMMA FirstFile ==
    ASSUME NEW files \in SUBSET Files, files # {}
    PROVE  \E f \in files : \A g \in files : f <= g
<1> DEFINE less == OpToRel(<, Nat)
<1>1. \E x \in files : \A y \in files : ~(<<y, x>> \in less)
  <2>1. files \subseteq Nat /\ IsWellFoundedOn(less, Nat)
    BY FilesAreDated, NatLessThanWellFounded
  <2> HIDE DEF less
  <2> QED BY <2>1, WFMin
<1>2. ASSUME NEW x \in Nat, NEW y \in Nat, ~(<<y, x>> \in less)
      PROVE  x <= y
  BY <1>2 DEF OpToRel
<1> QED BY <1>1, <1>2, FilesAreDated

\* The next date is the earliest left.
LEMMA NextIsEarliest ==
    ASSUME TypeOK, todo # {}
    PROVE  /\ todo \subseteq Files
           /\ NextDate \in {DateOf[f] : f \in Files}
           /\ \E f \in todo : DateOf[f] = NextDate
           /\ \A f \in todo : NextDate <= DateOf[f]
<1>1. todo \subseteq Files
  BY DEF TypeOK
<1>2. \E f \in todo : \A g \in todo : f <= g
  BY <1>1, FirstFile
<1>3. PICK f \in todo : NextDate = DateOf[f] /\ \A g \in todo : f <= g
  BY <1>2 DEF NextDate
<1> QED BY <1>1, <1>3, FilesAreDated

\* Replacing the partition of a date by files of it puts each of their rows in
\* once, takes the others out, and leaves the other dates alone.
LEMMA OverwrittenIs ==
    ASSUME NEW table \in Tables, NEW date \in Int, NEW files \in SUBSET Files,
           \A f \in files : DateOf[f] = date
    PROVE  /\ Overwritten(table, date, files) \in Tables
           /\ \A r \in Rows : Overwritten(table, date, files)[r]
                = IF RowDate[r] # date THEN table[r]
                  ELSE IF FileOf[r] \in files THEN 1 ELSE 0
<1>1. /\ Deleted(table, date) \in Tables
      /\ \A r \in Rows : Deleted(table, date)[r] = IF RowDate[r] = date THEN 0 ELSE table[r]
  BY DEF Deleted, Tables
<1>2. /\ Overwritten(table, date, files) \in Tables
      /\ \A r \in Rows : Overwritten(table, date, files)[r]
            = IF FileOf[r] \in files THEN Deleted(table, date)[r] + 1 ELSE Deleted(table, date)[r]
  <2> DEFINE deleted == Deleted(table, date)
  <2>1. deleted \in [Rows -> Nat]
    BY <1>1 DEF Tables
  <2> HIDE DEF deleted
  <2>2. /\ Inserted(deleted, files) \in [Rows -> Nat]
        /\ \A r \in Rows : Inserted(deleted, files)[r]
              = IF FileOf[r] \in files THEN deleted[r] + 1 ELSE deleted[r]
    BY <2>1 DEF Inserted
  <2> USE DEF deleted
  <2> QED BY <2>2 DEF Overwritten, Tables
<1>3. \A r \in Rows : FileOf[r] \in files => RowDate[r] = date
  BY FilesAreDated
<1> QED BY <1>1, <1>2, <1>3

-----------------------------------------------------------------------------
(* Preservation. *)

LEMMA InitInv == Init => IInv
<1> SUFFICES ASSUME Init PROVE IInv
  OBVIOUS
<1>1. raw \in Tables /\ dims \in BOOLEAN
  BY DEF Init, Tables
<1>2. TypeOK /\ RawInv
  BY <1>1 DEF Init, TypeOK, RawInv
<1>3. ExportInv /\ ListingInv /\ WholeDates /\ ProgressInv /\ StepInv /\ LandedWhole
  BY DEF Init, ExportInv, ListingInv, WholeDates, ProgressInv, StepInv, LandedWhole
<1>4. NeverConflicting
  BY DEF Init, NeverConflicting, Conflicting
<1> QED BY <1>2, <1>3, <1>4 DEF IInv

\* The next file leaves the export with the files up to it.
LEMMA ExportIsPrefix ==
    ASSUME TypeOK, ExportInv, NEW f \in Files, Export(f)
    PROVE  exported' = {g \in Files : g <= f}
<1>1. exported \subseteq Files /\ exported' = exported \cup {f} /\ f \notin exported
      /\ \A g \in Files : g < f => g \in exported
  BY DEF TypeOK, Export
<1>2. \A g \in Files : g \in Nat
  BY FilesAreDated
<1>3. ASSUME NEW g \in exported' PROVE g \in Files /\ g <= f
  <2>1. CASE g = f
    BY <1>2, <2>1
  <2>2. CASE g \in exported
    <3>1. PICK h \in Files : exported = {k \in Files : k <= h}
      BY <2>2 DEF ExportInv
    <3>2. ~(f <= h) /\ g <= h /\ g \in Files
      BY <1>1, <2>2, <3>1
    <3> QED BY <1>2, <3>2
  <2> QED BY <1>1, <1>3, <2>1, <2>2
<1>4. ASSUME NEW g \in Files, g <= f PROVE g \in exported'
  <2>1. g < f \/ g = f
    BY <1>2, <1>4
  <2> QED BY <1>1, <2>1
<1> QED BY <1>3, <1>4

\* Only the listing of files reads the export: a landing does not see it grow.
LEMMA ExportStep ==
    ASSUME IInv, NEW f \in Files, Export(f)
    PROVE  IInv'
<1> USE DEF IInv, Export
<1>1. exported \subseteq Files /\ exported \subseteq exported' /\ exported' \subseteq Files
  BY DEF TypeOK
<1>2. ExportInv'
  <2>1. exported' = {g \in Files : g <= f}
    BY ExportIsPrefix
  <2> QED BY <2>1 DEF ExportInv
<1>3. TypeOK' /\ RawInv'
  BY <1>1 DEF TypeOK, RawInv
<1>4. ListingInv'
  BY <1>1 DEF ListingInv, Listing
<1>5. WholeDates' /\ ProgressInv' /\ StepInv' /\ LandedWhole' /\ NeverConflicting'
  BY DEF WholeDates, ProgressInv, StepInv, LandedWhole, NeverConflicting
<1> QED BY <1>2, <1>3, <1>4, <1>5

LEMMA BeginStep ==
    ASSUME IInv, NEW through \in Throughs, Begin(through)
    PROVE  IInv'
<1> USE DEF IInv, Begin
<1>1. exported \subseteq Files /\ selected' \subseteq exported /\ todo' = selected'
  BY DEF TypeOK
<1>2. TypeOK'
  BY <1>1, FilesAssumption DEF TypeOK, Tables
<1>3. ListingInv'
  <2> SUFFICES ASSUME selected' # {}
               PROVE  \E f \in Files : Listing(f, through)'
    BY DEF ListingInv
  <2>1. PICK f \in Files : exported = {g \in Files : g <= f}
    BY <1>1 DEF ExportInv
  <2>2. Listing(f, through)'
    BY <2>1, FilesAreDated DEF Listing, RawInv
  <2> QED BY <2>2
<1>4. WholeDates' /\ ProgressInv'
  BY <1>1 DEF WholeDates, ProgressInv
<1>5. ExportInv' /\ RawInv' /\ StepInv' /\ LandedWhole' /\ NeverConflicting'
  BY DEF ExportInv, RawInv, StepInv, LandedWhole, NeverConflicting
<1> QED BY <1>2, <1>3, <1>4, <1>5

\* The files of the next date leave the list, all together.
LEMMA NextDateLeaves ==
    ASSUME TypeOK, WholeDates, ListingInv, RawInv, todo # {},
           todo' = todo \ OfDate(todo, NextDate), UNCHANGED selected
    PROVE  /\ WholeDates'
           /\ OfDate(todo, NextDate) \in SUBSET Files
           /\ \A f \in OfDate(todo, NextDate) : DateOf[f] = NextDate
           /\ NextDate \in Int
           /\ \A r \in Rows : RowDate[r] = NextDate =>
                 /\ FileOf[r] \in OfDate(todo, NextDate) <=> FileOf[r] \in selected
                 /\ FileOf[r] \notin selected => raw[r] = 0
           /\ \A r \in Rows : RowDate[r] # NextDate =>
                 (FileOf[r] \in selected \ todo' <=> FileOf[r] \in selected \ todo)
<1>1. PICK f \in todo : DateOf[f] = NextDate
  BY NextIsEarliest
<1>2. todo \subseteq selected /\ todo \subseteq Files /\ selected \subseteq Files
  BY DEF TypeOK
<1>3. NextDate \in Int
  BY <1>1, <1>2, FilesAreDated
<1>4. WholeDates'
  BY <1>2 DEF WholeDates, OfDate
<1>5. ASSUME NEW r \in Rows, RowDate[r] = NextDate
      PROVE  /\ FileOf[r] \in OfDate(todo, NextDate) <=> FileOf[r] \in selected
             /\ FileOf[r] \notin selected => raw[r] = 0
  <2>1. DateOf[FileOf[r]] = DateOf[f] /\ FileOf[r] \in Files
    BY <1>1, <1>5, FilesAreDated
  <2>2. FileOf[r] \in OfDate(todo, NextDate) <=> FileOf[r] \in selected
    BY <1>1, <1>2, <2>1 DEF WholeDates, OfDate
  <2>3. ASSUME FileOf[r] \notin selected PROVE raw[r] = 0
    <3>1. PICK g \in Files, through \in Throughs : Listing(g, through)
      BY <1>1, <1>2 DEF ListingInv
    <3>2. RowDate[r] <= through
      BY <1>1, <1>2, <1>5, <3>1 DEF Listing
    <3> QED BY <2>3, <3>1, <3>2 DEF Listing, RawInv
  <2> QED BY <2>2, <2>3
<1>6. ASSUME NEW r \in Rows, RowDate[r] # NextDate
      PROVE  FileOf[r] \in selected \ todo' <=> FileOf[r] \in selected \ todo
  BY <1>2, <1>6, FilesAreDated DEF OfDate
<1> QED BY <1>2, <1>3, <1>4, <1>5, <1>6 DEF OfDate

LEMMA OverwritePartitionStep ==
    ASSUME IInv, OverwritePartition
    PROVE  IInv'
<1> DEFINE files == OfDate(todo, NextDate)
<1> USE DEF IInv, OverwritePartition
<1>1. txn \in Tables /\ txn # Nothing
  BY DEF TypeOK
<1>2. /\ WholeDates' /\ files \in SUBSET Files /\ \A f \in files : DateOf[f] = NextDate
      /\ NextDate \in Int
      /\ \A r \in Rows : RowDate[r] = NextDate =>
            /\ FileOf[r] \in files <=> FileOf[r] \in selected
            /\ FileOf[r] \notin selected => raw[r] = 0
      /\ \A r \in Rows : RowDate[r] # NextDate =>
            (FileOf[r] \in selected \ todo' <=> FileOf[r] \in selected \ todo)
  BY NextDateLeaves
<1>3. /\ txn' \in Tables
      /\ \A r \in Rows : txn'[r] = IF RowDate[r] # NextDate THEN txn[r]
                                   ELSE IF FileOf[r] \in files THEN 1 ELSE 0
  BY <1>1, <1>2, OverwrittenIs
<1>4. TypeOK'
  BY <1>3, FilesAssumption DEF TypeOK, Tables
<1>5. ProgressInv'
  <2> SUFFICES ASSUME NEW r \in Rows
               PROVE  txn'[r] = IF FileOf[r] \in selected \ todo' THEN 1 ELSE raw[r]
    BY DEF ProgressInv
  <2>1. CASE RowDate[r] # NextDate
    BY <1>1, <1>2, <1>3, <2>1 DEF ProgressInv
  <2>2. CASE RowDate[r] = NextDate
    BY <1>2, <1>3, <2>2
  <2> QED BY <2>1, <2>2
<1>6. ExportInv' /\ RawInv' /\ ListingInv' /\ StepInv' /\ LandedWhole' /\ NeverConflicting'
  BY DEF ExportInv, RawInv, ListingInv, Listing, StepInv, LandedWhole, NeverConflicting
<1> QED BY <1>2, <1>4, <1>5, <1>6

LEMMA LoadPartitionStep ==
    ASSUME IInv, LoadPartition
    PROVE  IInv'
<1> DEFINE files == OfDate(todo, NextDate)
<1> USE DEF IInv, LoadPartition
<1>1. raw \in Tables /\ txn = Nothing /\ todo \subseteq selected /\ selected \subseteq exported
  BY DEF TypeOK
<1>2. /\ WholeDates' /\ files \in SUBSET Files /\ \A f \in files : DateOf[f] = NextDate
      /\ NextDate \in Int
      /\ \A r \in Rows : RowDate[r] = NextDate =>
            /\ FileOf[r] \in files <=> FileOf[r] \in selected
            /\ FileOf[r] \notin selected => raw[r] = 0
      /\ \A r \in Rows : RowDate[r] # NextDate =>
            (FileOf[r] \in selected \ todo' <=> FileOf[r] \in selected \ todo)
  BY NextDateLeaves
<1>3. /\ raw' \in Tables
      /\ \A r \in Rows : raw'[r] = IF RowDate[r] # NextDate THEN raw[r]
                                   ELSE IF FileOf[r] \in files THEN 1 ELSE 0
  BY <1>1, <1>2, OverwrittenIs
<1>4. TypeOK'
  BY <1>3 DEF TypeOK
<1>5. RawInv'
  BY <1>1, <1>2, <1>3 DEF RawInv
<1>6. ListingInv'
  BY <1>2, <1>3 DEF ListingInv, Listing
<1>7. ProgressInv'
  BY <1>1, <1>2, <1>3 DEF ProgressInv
<1>8. ExportInv' /\ StepInv' /\ LandedWhole' /\ NeverConflicting'
  BY DEF ExportInv, StepInv, LandedWhole, NeverConflicting
<1> QED BY <1>2, <1>4, <1>5, <1>6, <1>7, <1>8

LEMMA LoadDimsStep ==
    ASSUME IInv, LoadDims
    PROVE  IInv'
  BY DEF IInv, LoadDims, TypeOK, ExportInv, RawInv, ListingInv, Listing, WholeDates, ProgressInv,
         StepInv, LandedWhole, NeverConflicting

LEMMA CommitStep ==
    ASSUME IInv, Commit
    PROVE  IInv'
<1> USE DEF IInv, Commit
<1>1. txn \in Tables /\ txn # Nothing /\ target = "duckdb" /\ todo = {}
      /\ selected \subseteq exported
  BY DEF TypeOK, StepInv
<1>2. \A r \in Rows : raw'[r] = IF FileOf[r] \in selected THEN 1 ELSE raw[r]
  BY <1>1 DEF ProgressInv
<1>3. TypeOK'
  BY <1>1 DEF TypeOK
<1>4. RawInv'
  BY <1>1, <1>2 DEF RawInv
<1>5. ListingInv'
  BY <1>2 DEF ListingInv, Listing
<1>6. LandedWhole' /\ NeverConflicting'
  BY <1>2 DEF LandedWhole, NeverConflicting
<1>7. ExportInv' /\ WholeDates' /\ ProgressInv' /\ StepInv'
  BY DEF ExportInv, WholeDates, ProgressInv, StepInv
<1> QED BY <1>3, <1>4, <1>5, <1>6, <1>7

LEMMA LoadEmptyStep ==
    ASSUME IInv, LoadEmpty
    PROVE  IInv'
<1> USE DEF IInv, LoadEmpty
<1>1. TypeOK' /\ RawInv'
  BY DEF TypeOK, RawInv, Tables
<1>2. ListingInv' /\ ProgressInv' /\ NeverConflicting'
  BY DEF ListingInv, ProgressInv, NeverConflicting, TypeOK
<1>3. ExportInv' /\ WholeDates' /\ StepInv' /\ LandedWhole'
  BY DEF ExportInv, WholeDates, StepInv, LandedWhole
<1> QED BY <1>1, <1>2, <1>3

LEMMA LoadDimsJobStep ==
    ASSUME IInv, LoadDimsJob
    PROVE  IInv'
<1> USE DEF IInv, LoadDimsJob
<1>1. LandedWhole'
  BY DEF LandedWhole, ProgressInv, StepInv
<1>2. TypeOK' /\ ExportInv' /\ RawInv' /\ ListingInv' /\ WholeDates' /\ ProgressInv' /\ StepInv'
      /\ NeverConflicting'
  BY DEF TypeOK, ExportInv, RawInv, ListingInv, Listing, WholeDates, ProgressInv, StepInv,
         NeverConflicting
<1> QED BY <1>1, <1>2

\* A landing that fails leaves what it has committed.
LEMMA FailureStep ==
    ASSUME IInv, Rollback \/ Crash
    PROVE  IInv'
  BY DEF IInv, Rollback, Crash, TypeOK, ExportInv, RawInv, ListingInv, Listing, WholeDates,
         ProgressInv, StepInv, LandedWhole, NeverConflicting

LEMMA NextInv == IInv /\ [Next]_vars => IInv'
<1> SUFFICES ASSUME IInv, [Next]_vars PROVE IInv'
  OBVIOUS
<1>1. CASE UNCHANGED vars
  BY <1>1 DEF vars, IInv, TypeOK, ExportInv, RawInv, ListingInv, Listing, WholeDates, ProgressInv,
         StepInv, LandedWhole, NeverConflicting
<1> QED BY <1>1, ExportStep, BeginStep, OverwritePartitionStep, LoadPartitionStep, LoadDimsStep,
           CommitStep, LoadEmptyStep, LoadDimsJobStep, FailureStep DEF Next

-----------------------------------------------------------------------------
\* The inductive invariant holds of every behaviour.
THEOREM Inductive == Spec => []IInv
  BY InitInv, NextInv, PTL DEF Spec

\* The table, the listing and the transaction have their types.
THEOREM TypeCorrect == Spec => []TypeOK
  BY Inductive, PTL DEF IInv

\* A landing that succeeds has put in each row it selected, once, whatever
\* crashed before it.
THEOREM Whole == Spec => []LandedWhole
  BY Inductive, PTL DEF IInv

\* No payload conflict is ever committed to DuckDB.
THEOREM Unconflicting == Spec => []NeverConflicting
  BY Inductive, PTL DEF IInv

-----------------------------------------------------------------------------
(* Refinement of RawEvents. *)

\* No THROUGH is before the first upload: only then is nothing selected while
\* the table has rows, and the BigQuery landing empties it.
Covered ==
    \A f \in Files, through \in Throughs :
        (\A g \in Files : f <= g) => DateOf[f] <= through

EmptyInv == selected = {} => \A r \in Rows : raw[r] = 0

LEMMA EmptyStep ==
    ASSUME IInv, EmptyInv, Covered, [Next]_vars
    PROVE  EmptyInv'
<1> USE DEF IInv
<1>1. ASSUME NEW through \in Throughs, Begin(through) PROVE EmptyInv'
  <2> SUFFICES ASSUME NEW r \in Rows, raw[r] # 0 PROVE selected' # {}
    BY <1>1 DEF EmptyInv, Begin
  <2>1. FileOf[r] \in exported /\ FileOf[r] \in Files
    BY FilesAreDated DEF RawInv
  <2>2. PICK f \in Files : exported = {g \in Files : g <= f}
    BY <2>1 DEF ExportInv
  <2>3. PICK first \in Files : \A g \in Files : first <= g
    BY <2>1, FirstFile
  <2>4. first \in exported /\ DateOf[first] <= through
    BY <2>2, <2>3 DEF Covered
  <2> QED BY <1>1, <2>4 DEF Begin
<1>2. CASE Commit
  <2>1. txn \in Tables /\ txn # Nothing
    BY <1>2 DEF TypeOK, StepInv, Commit
  <2> QED BY <1>2, <2>1 DEF Commit, EmptyInv, ProgressInv
<1>3. CASE LoadPartition
  BY <1>3 DEF LoadPartition, EmptyInv, TypeOK
<1>4. CASE LoadEmpty
  BY <1>4 DEF LoadEmpty, EmptyInv
<1>5. CASE \/ \E f \in Files : Export(f)
           \/ OverwritePartition \/ LoadDims \/ Rollback \/ LoadDimsJob \/ Crash
           \/ UNCHANGED vars
  BY <1>5 DEF Export, OverwritePartition, LoadDims, Rollback, LoadDimsJob, Crash, vars, EmptyInv
<1> QED BY <1>1, <1>2, <1>3, <1>4, <1>5 DEF Next

\* A table that has the listed rows up to a date, and is unchanged after it.
LEMMA Lands ==
    ASSUME IInv, NEW last \in {DateOf[f] : f \in Files} \cup Throughs,
           NEW f \in Files, NEW through \in Throughs, Listing(f, through), last <= through,
           raw' \in Tables, UNCHANGED exported,
           \A r \in Rows : raw'[r] = IF RowDate[r] > last THEN raw[r]
                                     ELSE IF FileOf[r] \in selected THEN 1 ELSE 0
    PROVE  Table!Next
<1> DEFINE seen == {r \in Rows : FileOf[r] <= f}
<1>1. seen \in Exports
  BY DEF Exports
<1>2. raw \in Tables /\ last \in Int /\ through \in Int
  BY FilesAreDated, FilesAssumption DEF IInv, TypeOK
<1>3. \A r \in Rows : RowDate[r] \in Int
  BY FilesAreDated
<1>4. \A r \in Rows : ~(RowDate[r] > last) => (FileOf[r] \in selected <=> r \in seen)
  BY <1>2, <1>3, FilesAreDated DEF Listing
<1>5. raw' = [r \in Rows |-> IF RowDate[r] > last THEN raw[r] ELSE IF r \in seen THEN 1 ELSE 0]
  BY <1>4 DEF Tables
<1>6. \A r \in Rows : raw[r] <= raw'[r]
  <2> SUFFICES ASSUME NEW r \in Rows PROVE raw[r] <= raw'[r]
    OBVIOUS
  <2>1. CASE RowDate[r] > last
    BY <1>2, <2>1 DEF Tables
  <2>2. CASE ~(RowDate[r] > last)
    <3>1. RowDate[r] <= through
      BY <1>2, <1>3, <2>2
    <3> QED BY <2>2, <3>1 DEF IInv, RawInv, Listing
  <2> QED BY <2>1, <2>2
<1>7. seen \subseteq {r \in Rows : FileOf[r] \in exported}
  BY FilesAreDated DEF Listing
<1>8. {r \in Rows : FileOf[r] \in exported}' = {r \in Rows : FileOf[r] \in exported}
  OBVIOUS
<1>9. Table!LandThrough(seen, last)
  BY <1>5, <1>6, <1>7, <1>8 DEF Table!LandThrough
<1> QED BY <1>1, <1>9 DEF Table!Next

LEMMA NextLands ==
    ASSUME IInv, EmptyInv, Covered, [Next]_vars
    PROVE  \/ Table!Next
           \/ exported' = exported /\ raw' = raw
<1> USE DEF IInv
<1>1. ASSUME NEW f \in Files, Export(f) PROVE Table!Next
  <2> DEFINE rows == {r \in Rows : FileOf[r] <= f}
  <2>1. exported' = {g \in Files : g <= f}
    BY <1>1, ExportIsPrefix
  <2>2. rows \in Exports
    BY DEF Exports
  <2>3. {r \in Rows : FileOf[r] \in exported}' = rows
    BY <2>1, FilesAreDated
  <2>4. {r \in Rows : FileOf[r] \in exported} \subseteq rows /\ raw' = raw
    BY <1>1, <2>1, FilesAreDated DEF Export
  <2>5. Table!Export(rows)
    BY <2>3, <2>4 DEF Table!Export
  <2> QED BY <2>2, <2>5 DEF Table!Next
<1>2. CASE LoadPartition
  <2> DEFINE files == OfDate(todo, NextDate)
  <2>1. todo # {} /\ todo \subseteq selected /\ selected \subseteq Files /\ raw \in Tables
        /\ todo' = todo \ files /\ UNCHANGED selected /\ pc = "events" /\ target = "bigquery"
    BY <1>2 DEF LoadPartition, TypeOK
  <2>2. /\ files \in SUBSET Files /\ \A f \in files : DateOf[f] = NextDate
        /\ NextDate \in Int
        /\ \A r \in Rows : RowDate[r] = NextDate =>
              (FileOf[r] \in files <=> FileOf[r] \in selected)
    BY <2>1, NextDateLeaves
  <2>3. /\ raw' \in Tables
        /\ \A r \in Rows : raw'[r] = IF RowDate[r] # NextDate THEN raw[r]
                                     ELSE IF FileOf[r] \in files THEN 1 ELSE 0
    BY <1>2, <2>1, <2>2, OverwrittenIs DEF LoadPartition
  <2>4. PICK f \in Files, through \in Throughs : Listing(f, through)
    BY <2>1 DEF ListingInv
  <2>5. /\ NextDate \in {DateOf[g] : g \in Files}
        /\ \A g \in todo : NextDate <= DateOf[g]
        /\ NextDate <= through
    BY <2>1, <2>4, NextIsEarliest DEF Listing
  <2>6. ASSUME NEW r \in Rows
        PROVE  raw'[r] = IF RowDate[r] > NextDate THEN raw[r]
                         ELSE IF FileOf[r] \in selected THEN 1 ELSE 0
    <3>1. RowDate[r] \in Int /\ RowDate[r] = DateOf[FileOf[r]]
      BY FilesAreDated
    <3>2. CASE RowDate[r] > NextDate
      BY <2>2, <2>3, <3>1, <3>2
    <3>3. CASE RowDate[r] = NextDate
      BY <2>2, <2>3, <3>1, <3>3
    <3>4. CASE RowDate[r] < NextDate
      <4>1. raw'[r] = raw[r] /\ FileOf[r] \notin todo
        BY <2>2, <2>3, <2>5, <3>1, <3>4
      <4>2. CASE FileOf[r] \in selected
        BY <2>1, <2>2, <3>1, <3>4, <4>1, <4>2 DEF ProgressInv
      <4>3. CASE FileOf[r] \notin selected
        <5>1. through \in Int
          BY FilesAssumption
        <5>2. RowDate[r] <= through
          BY <2>2, <2>5, <3>1, <3>4, <5>1
        <5>3. raw[r] = 0
          BY <2>4, <4>3, <5>2 DEF Listing, RawInv
        <5> QED BY <2>2, <3>1, <3>4, <4>1, <4>3, <5>3
      <4> QED BY <4>2, <4>3
    <3> QED BY <2>2, <3>1, <3>2, <3>3, <3>4
  <2>7. UNCHANGED exported
    BY <1>2 DEF LoadPartition
  <2> QED BY <2>3, <2>4, <2>5, <2>6, <2>7, Lands
<1>3. CASE Commit
  <2>1. txn \in Tables /\ txn # Nothing /\ todo = {} /\ raw' = txn /\ UNCHANGED exported
        /\ raw \in Tables
    BY <1>3 DEF Commit, TypeOK, StepInv
  <2>2. \A r \in Rows : raw'[r] = IF FileOf[r] \in selected THEN 1 ELSE raw[r]
    BY <2>1 DEF ProgressInv
  <2>3. CASE selected = {}
    <3>1. raw' = raw
      BY <2>1, <2>2, <2>3 DEF Tables
    <3> QED BY <2>1, <3>1
  <2>4. CASE selected # {}
    <3>1. PICK f \in Files, through \in Throughs : Listing(f, through)
      BY <2>4 DEF ListingInv
    <3>2. through \in Int
      BY FilesAssumption
    <3>3. \A r \in Rows : raw'[r] = IF RowDate[r] > through THEN raw[r]
                                    ELSE IF FileOf[r] \in selected THEN 1 ELSE 0
      <4> SUFFICES ASSUME NEW r \in Rows
                   PROVE  raw'[r] = IF RowDate[r] > through THEN raw[r]
                                    ELSE IF FileOf[r] \in selected THEN 1 ELSE 0
        OBVIOUS
      <4>1. RowDate[r] \in Int /\ RowDate[r] = DateOf[FileOf[r]]
        BY FilesAreDated
      <4>2. CASE FileOf[r] \in selected
        BY <2>2, <3>1, <3>2, <4>1, <4>2 DEF Listing
      <4>3. CASE FileOf[r] \notin selected
        BY <2>2, <3>1, <3>2, <4>1, <4>3 DEF Listing, RawInv
      <4> QED BY <4>2, <4>3
    <3> QED BY <2>1, <3>1, <3>2, <3>3, Lands
  <2> QED BY <2>3, <2>4
<1>4. CASE LoadEmpty
  <2>1. raw \in Tables /\ \A r \in Rows : raw[r] = 0
    BY <1>4 DEF LoadEmpty, EmptyInv, TypeOK
  <2>2. raw' = raw
    BY <1>4, <2>1 DEF LoadEmpty, Tables
  <2> QED BY <1>4, <2>2 DEF LoadEmpty
<1>5. CASE \/ \E through \in Throughs : Begin(through)
           \/ OverwritePartition \/ LoadDims \/ Rollback \/ LoadDimsJob \/ Crash
           \/ UNCHANGED vars
  BY <1>5 DEF Begin, OverwritePartition, LoadDims, Rollback, LoadDimsJob, Crash, vars
<1> QED BY <1>1, <1>2, <1>3, <1>4, <1>5 DEF Next

\* With no THROUGH before the first upload, each committed step of a landing,
\* crashes in between or not, is a landing of whole dates that loses nothing.
THEOREM Implements ==
    ASSUME Covered
    PROVE  Spec => IsRawEvents
<1>1. Init => Table!Init /\ EmptyInv
  BY DEF Init, Table!Init, EmptyInv
<1>2. IInv /\ EmptyInv /\ [Next]_vars =>
         [Table!Next]_<<{r \in Rows : FileOf[r] \in exported}, raw>> /\ EmptyInv'
  BY NextLands, EmptyStep
<1> QED BY <1>1, <1>2, Inductive, PTL DEF Spec, IsRawEvents, Table!Spec
=============================================================================

------------------------ MODULE IncrementalBuildProofs ------------------------
(***************************************************************************)
(* Proofs about IncrementalBuild, for every export, every schedule of      *)
(* landings, builds and failures, and every lookback.                      *)
(*                                                                         *)
(* The invariant says what each table is in terms of the rows it was last  *)
(* built from (its basis), so that the models can be treated one by one:   *)
(* a build compares the rows there are now with the basis of the last one. *)
(***************************************************************************)
EXTENDS IncrementalBuild, WellFoundedInduction, TLAPS

\* All the copies ranked before a copy of the set are in it.
Ordered(rows) ==
    \A c \in rows : \A d \in Copies : Rank[d] < Rank[c] => d \in rows

\* The same of the copies the dedupe keeps.
OrderedFirsts(rows) ==
    \A c \in rows : \A d \in Dedupe(Copies) : Rank[d] < Rank[c] => d \in rows

WithinReach(model) == reach[model] + Late <= Lookback

\* raw.events is the export up to some copy; so was it when stg_events was built.
RawInv ==
    /\ Ordered(exported)
    /\ Ordered(raw)
    /\ Ordered(basis["stg_events"])
    /\ basis["stg_events"] \subseteq raw

\* Nothing is known of a model that was never built.
UnbuiltInv ==
    /\ \A m \in Models : m \notin built => basis[m] = {}
    /\ "stg_events" \notin built => stgEvents = {}
    /\ "stg_prompts" \notin built => stgPrompts = {}
    /\ "attribution" \notin built => attribution = {}

\* The bases of the models a build has passed are up to date, and so is what
\* the models record of the reach of those upstream.
StageInv ==
    /\ stage \in {"staged", "prompted", "built"} => basis["stg_events"] = raw
    /\ stage \in {"prompted", "built"} =>
          /\ basis["stg_prompts"] = stgEvents
          /\ reach["stg_events"] <= reach["stg_prompts"]
    /\ stage = "built" =>
          /\ basis["attribution"] = stgEvents
          /\ reach["stg_prompts"] <= reach["attribution"]

EventsInv ==
    /\ stgEvents \subseteq Dedupe(basis["stg_events"])
    /\ WithinReach("stg_events") => stgEvents = Dedupe(basis["stg_events"])

PromptsInv ==
    /\ basis["stg_prompts"] \subseteq stgEvents
    /\ \A r \in stgPrompts : \E c \in stgEvents : IdOf[c] = SentEvent[r.prompt]
    /\ \A r, s \in stgPrompts : r.prompt = s.prompt => r = s
    /\ WithinReach("stg_prompts") => stgPrompts = PromptsOf(basis["stg_prompts"])

AttributionInv ==
    /\ basis["attribution"] \subseteq stgEvents
    /\ \A r \in attribution : \E s \in stgPrompts : s.prompt = r.prompt
    /\ \A r, s \in attribution : r.prompt = s.prompt => r = s
    /\ \A r \in attribution : r.status = "final" =>
          Horizon(basis["attribution"]) - PromptDate(r.prompt) >= Lookback
    /\ WithinReach("attribution") =>
          /\ OrderedFirsts(basis["attribution"])
          /\ Evidences(attribution) =
                Evidences(AttributionOf(PromptsOf(basis["attribution"]),
                                        basis["attribution"]))
    /\ reach["attribution"] <= 1 =>
          \A r \in attribution :
             r.status = Status(r.prompt, Horizon(basis["attribution"]))

IInv ==
    /\ TypeOK
    /\ RawInv
    /\ UnbuiltInv
    /\ StageInv
    /\ EventsInv
    /\ PromptsInv
    /\ AttributionInv

-----------------------------------------------------------------------------
(* The days of a set of copies. *)

\* Upload days are natural numbers, ordered as the ranks are.
LEMMA Days ==
    /\ \A c \in Copies : UploadDay[c] \in Nat /\ Rank[c] \in Nat /\ IdOf[c] \in Ids
    /\ \A c \in Copies : EventDateOf(c) \in Int
    /\ \A p \in Prompts : PromptDate(p) \in Int /\ SentEvent[p] \in Ids
  BY DataAssumption DEF EventDateOf, PromptDate

\* A nonempty set of natural numbers has a least element.
LEMMA LeastDay ==
    ASSUME NEW days \in SUBSET Nat, days # {}
    PROVE  \E day \in days : \A other \in days : day <= other
<1> DEFINE less == OpToRel(<, Nat)
<1>1. \E x \in days : \A y \in days : ~(<<y, x>> \in less)
  <2>1. days \subseteq Nat /\ IsWellFoundedOn(less, Nat)
    BY NatLessThanWellFounded
  <2> HIDE DEF less
  <2> QED BY <2>1, WFMin
<1>2. ASSUME NEW x \in Nat, NEW y \in Nat, ~(<<y, x>> \in less)
      PROVE  x <= y
  BY <1>2 DEF OpToRel
<1> QED BY <1>1, <1>2

\* A nonempty set of copies has a last upload day, and Horizon is it.
LEMMA HorizonIsLast ==
    ASSUME NEW rows \in SUBSET Copies, rows # {}
    PROVE  /\ Horizon(rows) \in Nat
           /\ \E c \in rows : UploadDay[c] = Horizon(rows)
           /\ \A c \in rows : UploadDay[c] <= Horizon(rows)
<1> DEFINE behind == {LastDay - UploadDay[c] : c \in rows}
<1>1. \A c \in Copies : UploadDay[c] \in 0..LastDay /\ LastDay \in Nat
  BY DataAssumption
<1>2. behind \in SUBSET Nat /\ behind # {}
  BY <1>1
<1>3. PICK least \in behind : \A other \in behind : least <= other
  BY <1>2, LeastDay
<1>4. PICK c \in rows : least = LastDay - UploadDay[c]
  BY <1>3
<1>5. ASSUME NEW d \in rows PROVE UploadDay[d] <= UploadDay[c]
  <2>1. least <= LastDay - UploadDay[d]
    BY <1>3
  <2>2. UploadDay[c] \in Int /\ UploadDay[d] \in Int /\ LastDay \in Int
    BY <1>1
  <2> QED BY <1>4, <2>1, <2>2
<1>6. \E day \in {UploadDay[e] : e \in rows} : \A d \in rows : UploadDay[d] <= day
  BY <1>5
<1>7. Horizon(rows) \in {UploadDay[e] : e \in rows}
      /\ \A d \in rows : UploadDay[d] <= Horizon(rows)
  BY <1>6 DEF Horizon
<1> QED BY <1>7, Days

\* Horizon is a natural number, and grows with the set.
LEMMA HorizonGrows ==
    ASSUME NEW rows \in SUBSET Copies, NEW more \in SUBSET Copies, rows \subseteq more
    PROVE  /\ Horizon(rows) \in Nat /\ Horizon(more) \in Nat
           /\ Horizon(rows) <= Horizon(more)
<1>1. CASE rows = {}
  <2>1. Horizon(rows) = 0 BY <1>1 DEF Horizon
  <2>2. Horizon(more) \in Nat BY HorizonIsLast DEF Horizon
  <2> QED BY <2>1, <2>2
<1>2. CASE rows # {}
  BY <1>2, HorizonIsLast
<1> QED BY <1>1, <1>2

\* What a build catches up on covers its new rows and the advance of the horizon.
LEMMA CatchUpCovers ==
    ASSUME NEW rows \in SUBSET Copies, NEW old \in SUBSET Copies, NEW horizon \in Nat
    PROVE  /\ CatchUp(rows, old, horizon) \in Int
           /\ horizon - Horizon(old) <= CatchUp(rows, old, horizon)
           /\ \A c \in rows \ old : horizon - UploadDay[c] <= CatchUp(rows, old, horizon)
<1> DEFINE days == {Horizon(old)} \cup {UploadDay[c] : c \in rows \ old}
<1>1. days \in SUBSET Nat /\ days # {}
  BY HorizonGrows, Days
<1>2. \E day \in days : \A other \in days : day <= other
  BY <1>1, LeastDay
<1> DEFINE first == CHOOSE day \in days : \A other \in days : day <= other
<1>3. first \in days /\ \A other \in days : first <= other
  BY <1>2
<1>4. CatchUp(rows, old, horizon) = horizon - first
  BY DEF CatchUp
<1>5. first \in Nat /\ Horizon(old) \in Nat
  BY <1>1, <1>3, HorizonGrows
<1>6. first <= Horizon(old) /\ \A c \in rows \ old : first <= UploadDay[c]
  BY <1>3
<1> HIDE DEF first, days
<1> QED BY <1>4, <1>5, <1>6, Days

-----------------------------------------------------------------------------
(* The dedupe and the pruned scan. *)

\* A later landing never displaces the copy the dedupe has kept.
LEMMA DedupeGrows ==
    ASSUME NEW rows \in SUBSET Copies, NEW more \in SUBSET Copies,
           rows \subseteq more, Ordered(rows)
    PROVE  Dedupe(rows) \subseteq Dedupe(more)
<1> SUFFICES ASSUME NEW c \in Dedupe(rows), NEW d \in more, IdOf[d] = IdOf[c]
             PROVE  Rank[c] <= Rank[d]
  BY DEF Dedupe
<1>1. c \in rows /\ c \in Copies /\ d \in Copies
  BY DEF Dedupe
<1>2. CASE d \in rows
  BY <1>2 DEF Dedupe
<1>3. CASE d \notin rows
  BY <1>1, <1>3, Days DEF Ordered
<1> QED BY <1>2, <1>3

\* The pruned scan gives the batch a scan of all of raw.events gives: a row of
\* the reprocessing window is never out of the scan, and the later copy of an
\* event whose first copy is out of it is never in the window.
LEMMA PrunedBatch ==
    ASSUME raw \in SUBSET Copies, NEW scan \in Scans
    PROVE  {c \in Dedupe(scan) : InLookback(EventDateOf(c), Horizon(raw))}
         = {c \in Dedupe(raw) : InLookback(EventDateOf(c), Horizon(raw))}
<1> DEFINE bound == Horizon(raw) - (Lookback + Margin)
<1>1. CASE scan = raw
  BY <1>1
<1>2. ASSUME NEW r \in {0} \cup {Rank[c] + 1 : c \in raw}, scan = ScanFrom(bound, r)
      PROVE  {c \in Dedupe(scan) : InLookback(EventDateOf(c), Horizon(raw))}
           = {c \in Dedupe(raw) : InLookback(EventDateOf(c), Horizon(raw))}
  <2>1. scan \subseteq raw
    BY <1>2 DEF ScanFrom
  <2>2. Horizon(raw) \in Nat /\ Lookback \in Nat /\ Margin \in Nat /\ Ahead \in Nat
        /\ Ahead < Margin /\ bound \in Int
    BY HorizonGrows, ParameterAssumption
  <2>3. ASSUME NEW c \in raw, InLookback(EventDateOf(c), Horizon(raw))
        PROVE  UploadDay[c] > bound
    <3>1. EventDateOf(c) <= UploadDay[c] + Ahead
      BY ClockAssumption DEF EventDateOf
    <3>2. Horizon(raw) - EventDateOf(c) <= Lookback
      BY <2>3 DEF InLookback
    <3>3. EventDateOf(c) \in Int /\ UploadDay[c] \in Nat
      BY Days
    <3> QED BY <2>2, <3>1, <3>2, <3>3
  <2>4. ASSUME NEW c \in raw, InLookback(EventDateOf(c), Horizon(raw))
        PROVE  c \in scan
    BY <2>3, <2>4, <1>2 DEF ScanFrom
  <2>5. ASSUME NEW c \in Dedupe(scan), InLookback(EventDateOf(c), Horizon(raw))
        PROVE  c \in Dedupe(raw)
    <3>1. ASSUME NEW d \in raw, IdOf[d] = IdOf[c]
          PROVE  d \in scan
      BY <2>4, <2>5, <3>1 DEF EventDateOf
    <3> QED BY <2>1, <2>5, <3>1 DEF Dedupe
  <2>6. ASSUME NEW c \in Dedupe(raw), InLookback(EventDateOf(c), Horizon(raw))
        PROVE  c \in Dedupe(scan)
    BY <2>1, <2>4, <2>6 DEF Dedupe
  <2> QED BY <2>5, <2>6
<1>3. \/ scan = raw
      \/ \E r \in {0} \cup {Rank[c] + 1 : c \in raw} : scan = ScanFrom(bound, r)
  BY DEF Scans
<1> QED BY <1>1, <1>2, <1>3

-----------------------------------------------------------------------------
(* The steps that are not builds. *)

\* Replacing whole upload-date partitions of an export that only grows loses
\* nothing, and lands the export up to some copy.
LEMMA Landing ==
    ASSUME TypeOK, RawInv, NEW through \in Throughs, LandPartitions(through)
    PROVE  raw \subseteq raw' /\ raw' \subseteq exported /\ Ordered(raw')
<1> DEFINE files == {c \in exported : UploadDay[c] <= through}
           dates == {UploadDay[c] : c \in files}
<1>1. raw' = {c \in raw : UploadDay[c] \notin dates} \cup files
  BY DEF LandPartitions
<1>2. through \in Int /\ exported \subseteq Copies /\ raw \subseteq exported
  BY DataAssumption DEF TypeOK
<1>3. ASSUME NEW c \in raw, UploadDay[c] \in dates
      PROVE  c \in files
  <2>1. PICK d \in files : UploadDay[c] = UploadDay[d]
    BY <1>3
  <2> QED BY <2>1, <1>2
<1>4. raw' = raw \cup files
  BY <1>1, <1>3
<1>5. ASSUME NEW c \in files, NEW d \in Copies, Rank[d] < Rank[c]
      PROVE  d \in files
  <2>1. d \in exported
    BY <1>2, <1>5 DEF RawInv, Ordered
  <2>2. c \in Copies /\ UploadDay[c] <= through
    BY <1>2
  <2>3. UploadDay[d] <= UploadDay[c]
    BY <1>5, <2>2, OrderAssumption, Days
  <2> QED BY <2>1, <2>2, <2>3, <1>2, Days
<1>6. Ordered(raw)
  BY DEF RawInv
<1>7. Ordered(raw')
  BY <1>4, <1>5, <1>6 DEF Ordered
<1> QED BY <1>2, <1>4, <1>7

\* A step that leaves the tables and their histories alone.
LEMMA TablesUnchanged ==
    ASSUME UnbuiltInv, EventsInv, PromptsInv, AttributionInv,
           UNCHANGED <<stgEvents, stgPrompts, attribution, built, basis, reach>>
    PROVE  UnbuiltInv' /\ EventsInv' /\ PromptsInv' /\ AttributionInv'
  BY DEF UnbuiltInv, EventsInv, PromptsInv, AttributionInv, WithinReach

LEMMA ExportStep ==
    ASSUME IInv, NEW c \in Copies, Export(c)
    PROVE  IInv'
<1> USE DEF Export, IInv
<1>1. TypeOK'
  BY DEF TypeOK
<1>2. Ordered(exported')
  BY Days DEF RawInv, Ordered, TypeOK
<1>3. RawInv'
  BY <1>2 DEF RawInv
<1>4. StageInv'
  BY DEF StageInv
<1> QED BY <1>1, <1>3, <1>4, TablesUnchanged

LEMMA LandStep ==
    ASSUME IInv, NEW through \in Throughs, Land(through)
    PROVE  IInv'
<1> USE DEF Land, IInv
<1>1. raw \subseteq raw' /\ raw' \subseteq exported /\ Ordered(raw')
  BY Landing
<1>2. TypeOK'
  BY <1>1 DEF TypeOK, Stages
<1>3. RawInv'
  BY <1>1 DEF RawInv
<1>4. StageInv'
  BY DEF StageInv
<1> QED BY <1>2, <1>3, <1>4, TablesUnchanged

LEMMA LandCrashStep ==
    ASSUME IInv, NEW last \in Throughs, LandCrash(last)
    PROVE  IInv'
<1> USE DEF LandCrash, IInv
<1>1. raw \subseteq raw' /\ raw' \subseteq exported /\ Ordered(raw')
  BY Landing
<1>2. TypeOK'
  BY <1>1 DEF TypeOK, Stages
<1>3. RawInv'
  BY <1>1 DEF RawInv
<1>4. StageInv'
  BY DEF StageInv
<1> QED BY <1>2, <1>3, <1>4, TablesUnchanged

LEMMA FailStep ==
    ASSUME IInv, Fail
    PROVE  IInv'
<1> USE DEF Fail, IInv
<1>1. TypeOK'
  BY DEF TypeOK, Stages
<1>2. RawInv'
  BY DEF RawInv
<1>3. StageInv'
  BY DEF StageInv
<1> QED BY <1>1, <1>2, <1>3, TablesUnchanged

\* Nothing has happened yet.
LEMMA InitInv == Init => IInv
<1> SUFFICES ASSUME Init PROVE IInv
  OBVIOUS
<1>1. TypeOK
  BY DEF Init, TypeOK, Models, Stages
<1>2. basis["stg_events"] = {} /\ basis["stg_prompts"] = {} /\ basis["attribution"] = {}
      /\ \A m \in Models : basis[m] = {}
  BY DEF Init, Models
<1>3. RawInv
  BY <1>2 DEF Init, RawInv, Ordered
<1>4. UnbuiltInv /\ StageInv
  BY <1>2 DEF Init, UnbuiltInv, StageInv
<1>5. EventsInv
  BY <1>2 DEF Init, EventsInv, Dedupe
<1>6. PromptsOf({}) = {} /\ AttributionOf({}, {}) = {} /\ Evidences({}) = {}
  BY DEF PromptsOf, AttributionOf, Evidences
<1>7. PromptsInv
  BY <1>2, <1>6 DEF Init, PromptsInv
<1>8. AttributionInv
  BY <1>2, <1>6 DEF Init, AttributionInv, OrderedFirsts
<1> QED BY <1>1, <1>3, <1>4, <1>5, <1>7, <1>8 DEF IInv

-----------------------------------------------------------------------------
(* The builds. *)

LEMMA MaxIsMax ==
    ASSUME NEW a \in Int, NEW b \in Int
    PROVE  MaxOf(a, b) \in Int /\ a <= MaxOf(a, b) /\ b <= MaxOf(a, b)
  BY DEF MaxOf

\* What Record leaves: the reach is at least the one before, the one upstream
\* and, when the build is incremental, what the build had to catch up on.
LEMMA Recorded ==
    ASSUME TypeOK, NEW model \in Models, NEW source \in SUBSET Copies,
           NEW rows \in SUBSET Copies, NEW upstream \in Nat,
           Record(model, source, rows, upstream)
    PROVE  /\ built' = built \cup {model}
           /\ basis' \in [Models -> SUBSET Copies]
           /\ basis'[model] = source
           /\ \A m \in Models \ {model} : basis'[m] = basis[m] /\ reach'[m] = reach[m]
           /\ reach' \in [Models -> Nat]
           /\ upstream <= reach'[model]
           /\ Incremental(model) =>
                 /\ reach[model] <= reach'[model]
                 /\ Horizon(source) - Horizon(basis[model]) <= reach'[model]
                 /\ \A c \in rows \ basis[model] :
                       Horizon(source) - UploadDay[c] <= reach'[model]
           /\ ~Incremental(model) => reach'[model] = upstream
<1> DEFINE old == basis[model]
           behind == CatchUp(rows, old, Horizon(source))
           before == MaxOf(reach[model], upstream)
           now == IF Incremental(model) THEN MaxOf(before, behind) ELSE upstream
<1>1. basis \in [Models -> SUBSET Copies] /\ reach \in [Models -> Nat]
  BY DEF TypeOK
<1>2. old \in SUBSET Copies /\ reach[model] \in Nat /\ reach[model] \in Int /\ upstream \in Int
  BY <1>1
<1>3. built' = built \cup {model}
      /\ basis' = [basis EXCEPT ![model] = source]
      /\ reach' = [reach EXCEPT ![model] = now]
  BY DEF Record
<1>4. Horizon(source) \in Nat /\ Horizon(old) \in Nat
  BY <1>2, HorizonGrows
<1>5. /\ behind \in Int
      /\ Horizon(source) - Horizon(old) <= behind
      /\ \A c \in rows \ old : Horizon(source) - UploadDay[c] <= behind
  BY <1>2, <1>4, CatchUpCovers
<1>6. before \in Int /\ reach[model] <= before /\ upstream <= before
  BY <1>2, MaxIsMax, Zenon
<1>7. MaxOf(before, behind) \in Int /\ before <= MaxOf(before, behind)
      /\ behind <= MaxOf(before, behind)
  BY <1>5, <1>6, MaxIsMax, Zenon
<1>8. now \in Nat /\ upstream <= now
  <2>1. CASE Incremental(model)
    <3>1. now = MaxOf(before, behind) BY <2>1
    <3> HIDE DEF before, behind, now
    <3> QED BY <3>1, <1>6, <1>7
  <2>2. CASE ~Incremental(model)
    BY <2>2
  <2> QED BY <2>1, <2>2
<1>9. ASSUME Incremental(model)
      PROVE  /\ reach[model] <= now
             /\ Horizon(source) - Horizon(old) <= now
             /\ \A c \in rows \ old : Horizon(source) - UploadDay[c] <= now
  <2>1. now = MaxOf(before, behind) BY <1>9
  <2>2. now \in Int BY <1>8
  <2> HIDE DEF before, behind, now
  <2>3. reach[model] <= now
    BY <2>1, <2>2, <1>2, <1>6, <1>7
  <2>4. Horizon(source) - Horizon(old) <= now
    BY <2>1, <2>2, <1>4, <1>5, <1>7
  <2>5. ASSUME NEW c \in rows \ old
        PROVE  Horizon(source) - UploadDay[c] <= now
    BY <2>1, <2>2, <1>4, <1>5, <1>7, Days
  <2> QED BY <2>3, <2>4, <2>5
<1>10. ~Incremental(model) => now = upstream
  OBVIOUS
<1> HIDE DEF now
<1>11. basis'[model] = source /\ reach'[model] = now
  BY <1>1, <1>3
<1>12. \A m \in Models \ {model} : basis'[m] = basis[m] /\ reach'[m] = reach[m]
  BY <1>1, <1>3
<1>13. basis' \in [Models -> SUBSET Copies] /\ reach' \in [Models -> Nat]
  BY <1>1, <1>3, <1>8
<1> QED BY <1>3, <1>8, <1>9, <1>10, <1>11, <1>12, <1>13

\* A copy the window of a build does not miss: it is new since a build whose
\* reach, the late arrivals added, stays within the lookback.
LEMMA NewIsInLookback ==
    ASSUME NEW c \in Copies, NEW day \in Int, NEW horizon \in Nat, NEW far \in Nat,
           UploadDay[c] <= day + Late, horizon - UploadDay[c] <= far,
           far + Late <= Lookback
    PROVE  InLookback(day, horizon)
<1>1. UploadDay[c] \in Nat /\ Late \in Nat /\ Lookback \in Nat
  BY Days, ParameterAssumption
<1> QED BY <1>1 DEF InLookback

LEMMA StgEventsStep ==
    ASSUME IInv, BuildStgEvents
    PROVE  IInv'
<1> DEFINE horizon == Horizon(raw)
           batch == {c \in Dedupe(raw) : InLookback(EventDateOf(c), horizon)}
           old == basis["stg_events"]
<1> USE DEF IInv
<1>1. raw \in SUBSET Copies /\ Dedupe(raw) \in SUBSET Copies /\ "stg_events" \in Models
      /\ Dedupe(raw) \subseteq raw /\ old \subseteq raw /\ Ordered(old) /\ Ordered(raw)
  BY DEF TypeOK, Dedupe, Models, RawInv
<1>2. Record("stg_events", raw, Dedupe(raw), 0)
  BY DEF BuildStgEvents
<1>3. /\ built' = built \cup {"stg_events"}
      /\ basis' \in [Models -> SUBSET Copies]
      /\ basis'["stg_events"] = raw
      /\ \A m \in Models \ {"stg_events"} : basis'[m] = basis[m] /\ reach'[m] = reach[m]
      /\ reach' \in [Models -> Nat]
      /\ Incremental("stg_events") =>
            /\ reach["stg_events"] <= reach'["stg_events"]
            /\ \A c \in Dedupe(raw) \ old : horizon - UploadDay[c] <= reach'["stg_events"]
  BY <1>1, <1>2, Recorded
<1>4. PICK scan \in Scans :
         stgEvents' = IF Incremental("stg_events")
                      THEN LET fresh == {c \in Dedupe(scan) :
                                            InLookback(EventDateOf(c), horizon)}
                           IN Overwritten(stgEvents, StaleEvents(fresh), fresh)
                      ELSE Dedupe(scan)
  BY DEF BuildStgEvents
<1>5. Incremental("stg_events") =>
         stgEvents' = {c \in stgEvents :
                          EventDateOf(c) \notin {EventDateOf(d) : d \in batch}} \cup batch
  BY <1>1, <1>4, PrunedBatch DEF Overwritten, StaleEvents
<1>6. ~Incremental("stg_events") => stgEvents' = Dedupe(raw)
  BY <1>4 DEF Scans
<1>7. Dedupe(old) \subseteq Dedupe(raw) /\ stgEvents \subseteq Dedupe(raw)
  BY <1>1, DedupeGrows DEF EventsInv, TypeOK
<1>8. stgEvents' \subseteq Dedupe(raw) /\ stgEvents \subseteq stgEvents'
  <2>1. ASSUME NEW c \in stgEvents, NEW d \in batch, EventDateOf(c) = EventDateOf(d)
        PROVE  c \in batch
    BY <2>1, <1>7
  <2> QED BY <2>1, <1>5, <1>6, <1>7
<1>9. ASSUME reach'["stg_events"] + Late <= Lookback
       PROVE  Dedupe(raw) \subseteq stgEvents'
  <2>1. CASE ~Incremental("stg_events")
    BY <2>1, <1>6
  <2>2. CASE Incremental("stg_events")
    <3> SUFFICES ASSUME NEW c \in Dedupe(raw) PROVE c \in stgEvents'
      OBVIOUS
    <3>1. CASE c \in old
      <4>1. c \in Dedupe(old)
        BY <1>1, <3>1 DEF Dedupe
      <4>2. reach["stg_events"] \in Nat /\ reach'["stg_events"] \in Nat
            /\ Late \in Nat /\ Lookback \in Nat
        BY <1>1, <1>3, ParameterAssumption DEF TypeOK
      <4>3. WithinReach("stg_events")
        BY <1>3, <1>9, <2>2, <4>2 DEF WithinReach
      <4> QED BY <4>1, <4>3, <1>8 DEF EventsInv
    <3>2. CASE c \notin old
      <4>1. horizon - UploadDay[c] <= reach'["stg_events"]
        BY <1>3, <2>2, <3>2
      <4>2. UploadDay[c] <= EventDateOf(c) + Late
        BY <1>1, ClockAssumption DEF EventDateOf
      <4>3. horizon \in Nat /\ reach'["stg_events"] \in Nat /\ EventDateOf(c) \in Int
            /\ c \in Copies
        BY <1>1, <1>3, HorizonGrows, Days
      <4>4. InLookback(EventDateOf(c), horizon)
        BY <1>9, <4>1, <4>2, <4>3, NewIsInLookback
      <4> QED BY <4>4, <2>2, <1>5
    <3> QED BY <3>1, <3>2
  <2> QED BY <2>1, <2>2
<1>10. TypeOK'
  BY <1>1, <1>3, <1>8 DEF TypeOK, BuildStgEvents, Stages
<1>11. RawInv'
  BY <1>1, <1>3 DEF RawInv, BuildStgEvents
<1>12. UnbuiltInv'
  BY <1>3 DEF UnbuiltInv, BuildStgEvents, Models
<1>13. StageInv'
  BY <1>3 DEF StageInv, BuildStgEvents
<1>14. EventsInv'
  BY <1>3, <1>8, <1>9 DEF EventsInv, WithinReach
<1>15. PromptsInv'
  BY <1>3, <1>8 DEF PromptsInv, WithinReach, BuildStgEvents, Models
<1>16. AttributionInv'
  BY <1>3, <1>8 DEF AttributionInv, WithinReach, BuildStgEvents, Models
<1> QED BY <1>10, <1>11, <1>12, <1>13, <1>14, <1>15, <1>16

\* A prompt out of the window of a build within reach has no event among the
\* rows that are new since the last one.
LEMMA OldPromptHasNoNewEvidence ==
    ASSUME NEW rows \in SUBSET Copies, NEW old \in SUBSET Copies, old \subseteq rows,
           NEW far \in Nat, far + Late <= Lookback,
           \A c \in rows \ old : Horizon(rows) - UploadDay[c] <= far,
           NEW p \in Prompts, ~InLookback(PromptDate(p), Horizon(rows))
    PROVE  /\ \A c \in rows : PromptOf[IdOf[c]] = p => c \in old
           /\ Evidence(p, rows) = Evidence(p, old)
           /\ PromptRow(p, rows) = PromptRow(p, old)
<1>1. ASSUME NEW c \in rows, PromptOf[IdOf[c]] = p, c \notin old
      PROVE  FALSE
  <2>1. UploadDay[c] <= PromptDate(p) + Late
    BY <1>1, ClockAssumption, DataAssumption DEF PromptDate
  <2>2. Horizon(rows) \in Nat /\ PromptDate(p) \in Int
    BY HorizonGrows, Days
  <2>3. Horizon(rows) - UploadDay[c] <= far
    BY <1>1
  <2> QED BY <2>1, <2>2, <2>3, NewIsInLookback
<1>2. Evidence(p, rows) = Evidence(p, old)
  BY <1>1 DEF Evidence
<1>3. PromptRow(p, rows) = PromptRow(p, old)
  BY <1>2 DEF PromptRow
<1> QED BY <1>1, <1>2, <1>3

\* The rows of PromptsOf, and what they are of.
LEMMA PromptRowsOf ==
    ASSUME NEW rows \in SUBSET Copies
    PROVE  /\ PromptsOf(rows) \subseteq PromptRows
           /\ \A r \in PromptsOf(rows) :
                 /\ r.prompt \in Prompts
                 /\ r = PromptRow(r.prompt, rows)
                 /\ \E c \in rows : IdOf[c] = SentEvent[r.prompt]
           /\ \A p \in Prompts : (\E c \in rows : IdOf[c] = SentEvent[p]) =>
                 PromptRow(p, rows) \in PromptsOf(rows)
           /\ \A p \in Prompts : PromptRow(p, rows).prompt = p
<1>1. ASSUME NEW p \in Prompts
      PROVE  PromptRow(p, rows) \in PromptRows /\ PromptRow(p, rows).prompt = p
  BY DEF PromptRow, PromptRows, First, Evidence
<1>2. ASSUME NEW r \in PromptsOf(rows)
      PROVE  /\ r.prompt \in Prompts
             /\ r = PromptRow(r.prompt, rows)
             /\ \E c \in rows : IdOf[c] = SentEvent[r.prompt]
             /\ r \in PromptRows
  <2>1. PICK p \in Prompts : r = PromptRow(p, rows)
                             /\ \E c \in rows : IdOf[c] = SentEvent[p]
    BY DEF PromptsOf
  <2> QED BY <2>1, <1>1
<1>3. \A p \in Prompts : (\E c \in rows : IdOf[c] = SentEvent[p]) =>
          PromptRow(p, rows) \in PromptsOf(rows)
  BY DEF PromptsOf
<1> QED BY <1>1, <1>2, <1>3

LEMMA StgPromptsStep ==
    ASSUME IInv, BuildStgPrompts
    PROVE  IInv'
<1> DEFINE horizon == Horizon(stgEvents)
           old == basis["stg_prompts"]
           far == reach'["stg_prompts"]
           staged == PromptsOf(stgEvents)
           batch == {row \in staged : InLookback(RowDate(row), horizon)}
           Sent(p, rows) == \E c \in rows : IdOf[c] = SentEvent[p]
<1> USE DEF IInv
<1>1. stgEvents \in SUBSET Copies /\ old \in SUBSET Copies /\ old \subseteq stgEvents
      /\ "stg_prompts" \in Models /\ "stg_events" \in Models
      /\ reach \in [Models -> Nat] /\ reach["stg_events"] \in Nat
  BY DEF TypeOK, Models, PromptsInv
<1>2. Record("stg_prompts", stgEvents, stgEvents, reach["stg_events"])
  BY DEF BuildStgPrompts
<1>3. /\ built' = built \cup {"stg_prompts"}
      /\ basis' \in [Models -> SUBSET Copies]
      /\ basis'["stg_prompts"] = stgEvents
      /\ \A m \in Models \ {"stg_prompts"} : basis'[m] = basis[m] /\ reach'[m] = reach[m]
      /\ reach' \in [Models -> Nat]
      /\ reach["stg_events"] <= far
      /\ Incremental("stg_prompts") =>
            /\ reach["stg_prompts"] <= far
            /\ \A c \in stgEvents \ old : horizon - UploadDay[c] <= far
  BY <1>1, <1>2, Recorded
<1>4. Incremental("stg_prompts") =>
         stgPrompts' = {row \in stgPrompts :
                           RowDate(row) \notin {RowDate(b) : b \in batch}} \cup batch
  BY DEF BuildStgPrompts, Overwritten, StaleRows
<1>5. ~Incremental("stg_prompts") => stgPrompts' = staged
  BY DEF BuildStgPrompts
<1>6. \A r \in staged : /\ r.prompt \in Prompts
                        /\ r = PromptRow(r.prompt, stgEvents)
                        /\ Sent(r.prompt, stgEvents)
                        /\ r \in PromptRows
  BY <1>1, PromptRowsOf
<1>7. \A p \in Prompts : /\ Sent(p, stgEvents) => PromptRow(p, stgEvents) \in staged
                         /\ PromptRow(p, stgEvents).prompt = p
  BY <1>1, PromptRowsOf
<1>8. \A r \in stgPrompts : r.prompt \in Prompts /\ Sent(r.prompt, stgEvents)
  BY DEF PromptsInv, TypeOK, PromptRows
<1> HIDE DEF staged
<1>9. stgPrompts' \subseteq PromptRows
  BY <1>4, <1>5, <1>6 DEF TypeOK
<1>10. \A r \in stgPrompts' : Sent(r.prompt, stgEvents)
  BY <1>4, <1>5, <1>6, <1>8
<1>11. \A r, s \in stgPrompts' : r.prompt = s.prompt => r = s
  <2>1. \A r, s \in staged : r.prompt = s.prompt => r = s
    BY <1>6
  <2>2. \A r, s \in stgPrompts : r.prompt = s.prompt => r = s
    BY DEF PromptsInv
  <2>3. CASE ~Incremental("stg_prompts")
    BY <2>1, <2>3, <1>5
  <2>4. CASE Incremental("stg_prompts")
    BY <2>1, <2>2, <2>4, <1>4 DEF RowDate
  <2> QED BY <2>3, <2>4
<1>12. \A r \in stgPrompts : \E s \in stgPrompts' : s.prompt = r.prompt
  <2> SUFFICES ASSUME NEW r \in stgPrompts PROVE \E s \in stgPrompts' : s.prompt = r.prompt
    OBVIOUS
  <2> DEFINE now == PromptRow(r.prompt, stgEvents)
  <2>1. now \in staged /\ now.prompt = r.prompt
    BY <1>7, <1>8
  <2>2. CASE ~Incremental("stg_prompts")
    BY <2>1, <2>2, <1>5
  <2>3. CASE Incremental("stg_prompts") /\ RowDate(r) \in {RowDate(b) : b \in batch}
    <3>1. PICK b \in batch : RowDate(r) = RowDate(b)
      BY <2>3
    <3>2. InLookback(RowDate(now), horizon)
      BY <3>1, <2>1 DEF RowDate
    <3>3. now \in batch
      BY <3>2, <2>1
    <3> HIDE DEF now
    <3> QED BY <3>3, <2>1, <2>3, <1>4
  <2>4. CASE Incremental("stg_prompts") /\ RowDate(r) \notin {RowDate(b) : b \in batch}
    BY <2>4, <1>4
  <2> QED BY <2>2, <2>3, <2>4
<1>13. ASSUME far + Late <= Lookback
       PROVE  stgPrompts' = staged
  <2>1. CASE ~Incremental("stg_prompts")
    BY <2>1, <1>5
  <2>2. CASE Incremental("stg_prompts")
    <3>1. /\ far \in Nat /\ reach["stg_prompts"] \in Nat /\ Late \in Nat /\ Lookback \in Nat
      BY <1>1, <1>3, ParameterAssumption
    <3>2. WithinReach("stg_prompts")
      BY <3>1, <2>2, <1>3, <1>13 DEF WithinReach
    <3>3. stgPrompts = PromptsOf(old)
      BY <3>2 DEF PromptsInv
    <3>4. ASSUME NEW p \in Prompts, ~InLookback(PromptDate(p), horizon)
          PROVE  /\ PromptRow(p, stgEvents) = PromptRow(p, old)
                 /\ Sent(p, stgEvents) => Sent(p, old)
      <4>1. \A c \in stgEvents \ old : horizon - UploadDay[c] <= far
        BY <2>2, <1>3
      <4>2. /\ \A c \in stgEvents : PromptOf[IdOf[c]] = p => c \in old
            /\ PromptRow(p, stgEvents) = PromptRow(p, old)
        BY <1>1, <1>13, <3>1, <3>4, <4>1, OldPromptHasNoNewEvidence
      <4> QED BY <4>2, PromptAssumption
    <3>5. ASSUME NEW r \in staged
          PROVE  r \in stgPrompts'
      <4>1. r.prompt \in Prompts /\ r = PromptRow(r.prompt, stgEvents)
            /\ Sent(r.prompt, stgEvents)
        BY <1>6
      <4>2. CASE InLookback(RowDate(r), horizon)
        BY <4>2, <2>2, <1>4
      <4>3. CASE ~InLookback(RowDate(r), horizon)
        <5>1. r = PromptRow(r.prompt, old) /\ Sent(r.prompt, old)
          BY <3>4, <4>1, <4>3 DEF RowDate
        <5>2. r \in stgPrompts
          BY <1>1, <3>3, <4>1, <5>1, PromptRowsOf
        <5>3. RowDate(r) \notin {RowDate(b) : b \in batch}
          BY <4>3
        <5> QED BY <5>2, <5>3, <2>2, <1>4
      <4> QED BY <4>2, <4>3
    <3>6. ASSUME NEW r \in stgPrompts'
          PROVE  r \in staged
      <4>1. CASE r \in batch
        BY <4>1
      <4>2. CASE r \notin batch
        <5>1. r \in stgPrompts /\ RowDate(r) \notin {RowDate(b) : b \in batch}
          BY <4>2, <2>2, <1>4
        <5>2. r.prompt \in Prompts /\ Sent(r.prompt, stgEvents)
          BY <5>1, <1>8
        <5>3. PromptRow(r.prompt, stgEvents) \in staged
              /\ PromptRow(r.prompt, stgEvents).prompt = r.prompt
          BY <5>2, <1>7
        <5>4. RowDate(PromptRow(r.prompt, stgEvents)) = RowDate(r)
          BY <5>3 DEF RowDate
        <5>5. ~InLookback(RowDate(r), horizon)
          BY <5>1, <5>3, <5>4
        <5>6. PromptRow(r.prompt, stgEvents) = PromptRow(r.prompt, old)
          BY <5>2, <5>5, <3>4 DEF RowDate
        <5>7. r = PromptRow(r.prompt, old)
          BY <5>1, <3>3, <1>1, PromptRowsOf
        <5> QED BY <5>3, <5>6, <5>7
      <4> QED BY <4>1, <4>2
    <3> QED BY <3>5, <3>6
  <2> QED BY <2>1, <2>2
<1>14. TypeOK'
  BY <1>3, <1>9 DEF TypeOK, BuildStgPrompts, Stages, Models
<1>15. RawInv'
  BY <1>1, <1>3 DEF RawInv, BuildStgPrompts, Models
<1>16. UnbuiltInv'
  BY <1>3 DEF UnbuiltInv, BuildStgPrompts, Models
<1>17. StageInv'
  BY <1>1, <1>3 DEF StageInv, BuildStgPrompts, Models
<1>18. EventsInv'
  BY <1>1, <1>3 DEF EventsInv, WithinReach, BuildStgPrompts, Models
<1>19. PromptsInv'
  BY <1>3, <1>10, <1>11, <1>13 DEF PromptsInv, WithinReach, BuildStgPrompts, staged
<1>20. AttributionInv'
  <2>1. basis'["attribution"] = basis["attribution"]
        /\ reach'["attribution"] = reach["attribution"]
    BY <1>3 DEF Models
  <2>2. \A r \in attribution : \E s \in stgPrompts' : s.prompt = r.prompt
    BY <1>12 DEF AttributionInv
  <2> QED BY <2>1, <2>2 DEF AttributionInv, WithinReach, BuildStgPrompts
<1> QED BY <1>14, <1>15, <1>16, <1>17, <1>18, <1>19, <1>20

\* What the label of a prompt rests on, given the rows of stg_events.
Ground(p, rows) ==
    [prompt    |-> p,
     delivered |-> PromptRow(p, rows).delivered,
     evidence  |-> Evidence(p, rows)]

LEMMA LabelledRows ==
    ASSUME NEW prompts \in SUBSET PromptRows, NEW rows \in SUBSET Copies,
           NEW r \in AttributionOf(prompts, rows)
    PROVE  /\ r \in AttributionRows
           /\ r.status = Status(r.prompt, Horizon(rows))
           /\ \E row \in prompts : /\ r = AttributionRow(row, rows, Horizon(rows))
                                   /\ row.prompt = r.prompt
<1>1. PICK row \in prompts : r = AttributionRow(row, rows, Horizon(rows))
  BY DEF AttributionOf
<1>2. row.prompt \in Prompts /\ row.delivered \in SUBSET Ids
  BY DEF PromptRows
<1>3. Evidence(row.prompt, rows) \in SUBSET Ids
  BY DEF Evidence
<1>4. Status(row.prompt, Horizon(rows)) \in {"provisional", "final"}
  BY DEF Status
<1> QED BY <1>1, <1>2, <1>3, <1>4 DEF AttributionRow, AttributionRows

LEMMA GroundsOf ==
    ASSUME NEW rows \in SUBSET Copies
    PROVE  Evidences(AttributionOf(PromptsOf(rows), rows))
         = {Ground(p, rows) : p \in {q \in Prompts : \E c \in rows : IdOf[c] = SentEvent[q]}}
<1> DEFINE sent == {q \in Prompts : \E c \in rows : IdOf[c] = SentEvent[q]}
           Row(p) == AttributionRow(PromptRow(p, rows), rows, Horizon(rows))
<1>1. AttributionOf(PromptsOf(rows), rows) = {Row(p) : p \in sent}
  BY DEF AttributionOf, PromptsOf
<1>2. \A p \in Prompts : [prompt |-> Row(p).prompt, delivered |-> Row(p).delivered,
                          evidence |-> Row(p).evidence] = Ground(p, rows)
  BY DEF AttributionRow, PromptRow, Ground
<1> HIDE DEF Row
<1> QED BY <1>1, <1>2 DEF Evidences

LEMMA AttributionStep ==
    ASSUME IInv, BuildAttribution
    PROVE  IInv'
<1> DEFINE horizon == Horizon(stgEvents)
           old == basis["attribution"]
           far == reach'["attribution"]
           labelled == AttributionOf(stgPrompts, stgEvents)
           batch == {row \in labelled : InLookback(RowDate(row), horizon)}
           Sent(p, rows) == \E c \in rows : IdOf[c] = SentEvent[p]
           Known(r) == [prompt |-> r.prompt, delivered |-> r.delivered,
                        evidence |-> r.evidence]
<1> USE DEF IInv
<1>1. stgEvents \in SUBSET Copies /\ old \in SUBSET Copies /\ old \subseteq stgEvents
      /\ stgPrompts \in SUBSET PromptRows /\ attribution \subseteq AttributionRows
      /\ {"stg_events", "stg_prompts", "attribution"} = Models
      /\ reach \in [Models -> Nat] /\ reach["stg_prompts"] \in Nat
      /\ reach["attribution"] \in Nat /\ reach["stg_events"] \in Nat
  BY DEF TypeOK, Models, AttributionInv
<1>2. Record("attribution", stgEvents, stgEvents, reach["stg_prompts"])
  BY DEF BuildAttribution
<1>3. /\ built' = built \cup {"attribution"}
      /\ basis' \in [Models -> SUBSET Copies]
      /\ basis'["attribution"] = stgEvents
      /\ \A m \in Models \ {"attribution"} : basis'[m] = basis[m] /\ reach'[m] = reach[m]
      /\ reach' \in [Models -> Nat]
      /\ reach["stg_prompts"] <= far
      /\ Incremental("attribution") =>
            /\ reach["attribution"] <= far
            /\ horizon - Horizon(old) <= far
            /\ \A c \in stgEvents \ old : horizon - UploadDay[c] <= far
  BY <1>1, <1>2, Recorded
<1>4. Incremental("attribution") =>
         attribution' = {row \in attribution :
                            RowDate(row) \notin {RowDate(b) : b \in batch}} \cup batch
  BY DEF BuildAttribution, Overwritten, StaleRows
<1>5. ~Incremental("attribution") => attribution' = labelled
  BY DEF BuildAttribution
<1>6. \A r \in labelled :
         /\ r \in AttributionRows
         /\ r.prompt \in Prompts
         /\ r.status = Status(r.prompt, horizon)
         /\ \E row \in stgPrompts :
               row.prompt = r.prompt /\ r = AttributionRow(row, stgEvents, horizon)
  <2>1. ASSUME NEW r \in labelled
        PROVE  /\ r \in AttributionRows
               /\ r.status = Status(r.prompt, horizon)
               /\ \E row \in stgPrompts :
                     /\ r = AttributionRow(row, stgEvents, horizon)
                     /\ row.prompt = r.prompt
    BY <1>1, LabelledRows
  <2>2. \A r \in AttributionRows : r.prompt \in Prompts
    BY DEF AttributionRows
  <2> HIDE DEF labelled
  <2> QED BY <2>1, <2>2
<1>7. \A row \in stgPrompts : AttributionRow(row, stgEvents, horizon) \in labelled
  BY DEF AttributionOf
<1>8. \A row \in stgPrompts : AttributionRow(row, stgEvents, horizon).prompt = row.prompt
  BY DEF AttributionRow
<1>9. \A r \in attribution : r.prompt \in Prompts /\ \E s \in stgPrompts : s.prompt = r.prompt
  BY <1>1 DEF AttributionInv, AttributionRows
<1>10. horizon \in Nat /\ Horizon(old) \in Nat /\ Horizon(old) <= horizon
       /\ Lookback \in Nat /\ Late \in Nat /\ far \in Nat /\ Late < Lookback
  BY <1>1, <1>3, HorizonGrows, ParameterAssumption
<1> HIDE DEF labelled
\* A row the overwrite keeps is out of the window: its prompt has no labelled
\* row in the batch.
<1>11. ASSUME NEW r \in attribution', r \notin batch, Incremental("attribution")
       PROVE  r \in attribution /\ ~InLookback(RowDate(r), horizon)
  <2>1. r \in attribution /\ RowDate(r) \notin {RowDate(b) : b \in batch}
    BY <1>4, <1>11
  <2>2. PICK row \in stgPrompts : row.prompt = r.prompt
    BY <2>1, <1>9
  <2> DEFINE now == AttributionRow(row, stgEvents, horizon)
  <2>3. now \in labelled /\ now.prompt = r.prompt
    BY <2>2, <1>7, <1>8
  <2> HIDE DEF now
  <2> QED BY <2>1, <2>3 DEF RowDate
<1>12. attribution' \subseteq AttributionRows
       /\ \A r \in attribution' : \E s \in stgPrompts : s.prompt = r.prompt
  BY <1>1, <1>4, <1>5, <1>6, <1>9
<1>13. \A r, s \in attribution' : r.prompt = s.prompt => r = s
  <2>1. \A r, s \in labelled : r.prompt = s.prompt => r = s
    <3>1. \A r, s \in stgPrompts : r.prompt = s.prompt => r = s
      BY DEF PromptsInv
    <3> QED BY <3>1, <1>6
  <2>2. \A r, s \in attribution : r.prompt = s.prompt => r = s
    BY DEF AttributionInv
  <2>3. CASE ~Incremental("attribution")
    BY <2>1, <2>3, <1>5
  <2>4. CASE Incremental("attribution")
    BY <2>1, <2>2, <2>4, <1>4 DEF RowDate
  <2> QED BY <2>3, <2>4
<1>14. \A r \in attribution' : r.status = "final" => horizon - PromptDate(r.prompt) >= Lookback
  <2> SUFFICES ASSUME NEW r \in attribution', r.status = "final"
               PROVE  horizon - PromptDate(r.prompt) >= Lookback
    OBVIOUS
  <2>1. CASE r \in labelled
    BY <2>1, <1>6 DEF Status
  <2>2. CASE r \notin labelled
    <3>1. r \in attribution
      BY <2>2, <1>4, <1>5
    <3>2. Horizon(old) - PromptDate(r.prompt) >= Lookback
      BY <3>1 DEF AttributionInv
    <3>3. PromptDate(r.prompt) \in Int
      BY <3>1, <1>9, Days
    <3> QED BY <3>2, <3>3, <1>10
  <2> QED BY <2>1, <2>2
<1>15. ASSUME far <= 1
       PROVE  \A r \in attribution' : r.status = Status(r.prompt, horizon)
  <2> SUFFICES ASSUME NEW r \in attribution'
               PROVE  r.status = Status(r.prompt, horizon)
    OBVIOUS
  <2>1. CASE r \in labelled
    BY <2>1, <1>6
  <2>2. CASE r \notin labelled
    <3>1. Incremental("attribution") /\ r \notin batch
      BY <2>2, <1>5
    <3>2. r \in attribution /\ ~InLookback(PromptDate(r.prompt), horizon)
      BY <3>1, <1>11 DEF RowDate
    <3>3. PromptDate(r.prompt) \in Int
      BY <3>2, <1>9, Days
    <3>4. horizon - PromptDate(r.prompt) > Lookback
      BY <3>2, <3>3, <1>10 DEF InLookback
    <3>5. Horizon(old) - PromptDate(r.prompt) >= Lookback
      BY <3>1, <3>3, <3>4, <1>3, <1>10, <1>15
    <3>6. r.status = Status(r.prompt, Horizon(old))
      BY <3>1, <3>2, <1>1, <1>3, <1>10, <1>15 DEF AttributionInv
    <3> QED BY <3>3, <3>4, <3>5, <3>6, <1>10 DEF Status
  <2> QED BY <2>1, <2>2
<1>16. ASSUME far + Late <= Lookback
       PROVE  /\ OrderedFirsts(stgEvents)
              /\ Evidences(attribution') =
                    Evidences(AttributionOf(PromptsOf(stgEvents), stgEvents))
  <2>1. WithinReach("stg_prompts") /\ WithinReach("stg_events")
    BY <1>1, <1>3, <1>10, <1>16 DEF WithinReach, StageInv, BuildAttribution
  <2>2. stgEvents = Dedupe(raw) /\ stgPrompts = PromptsOf(stgEvents)
    BY <2>1 DEF StageInv, EventsInv, PromptsInv, BuildAttribution
  <2>3. OrderedFirsts(stgEvents)
    <3>1. Ordered(raw) /\ raw \subseteq Copies
      BY DEF RawInv, TypeOK
    <3> QED BY <2>2, <3>1 DEF Ordered, OrderedFirsts, Dedupe
  <2>4. Evidences(labelled) = {Ground(p, stgEvents) : p \in {q \in Prompts : Sent(q, stgEvents)}}
    BY <1>1, <2>2, GroundsOf DEF labelled
  <2>5. CASE ~Incremental("attribution")
    BY <1>5, <2>2, <2>3, <2>5 DEF labelled
  <2>6. CASE Incremental("attribution")
    <3>1. WithinReach("attribution")
      BY <1>1, <1>3, <1>10, <1>16, <2>6 DEF WithinReach
    <3>2. Evidences(attribution) = {Ground(p, old) : p \in {q \in Prompts : Sent(q, old)}}
      BY <1>1, <3>1, GroundsOf DEF AttributionInv
    <3>3. ASSUME NEW p \in Prompts, ~InLookback(PromptDate(p), horizon)
          PROVE  /\ Ground(p, stgEvents) = Ground(p, old)
                 /\ Sent(p, stgEvents) => Sent(p, old)
      <4>1. \A c \in stgEvents \ old : horizon - UploadDay[c] <= far
        BY <2>6, <1>3
      <4>2. /\ \A c \in stgEvents : PromptOf[IdOf[c]] = p => c \in old
            /\ Evidence(p, stgEvents) = Evidence(p, old)
            /\ PromptRow(p, stgEvents) = PromptRow(p, old)
        BY <1>1, <1>10, <1>16, <3>3, <4>1, OldPromptHasNoNewEvidence
      <4> QED BY <4>2, PromptAssumption DEF Ground
    <3>4. ASSUME NEW r \in attribution'
          PROVE  Known(r) \in Evidences(labelled)
      <4>1. CASE r \in batch
        BY <4>1 DEF Evidences
      <4>2. CASE r \notin batch
        <5>1. r \in attribution /\ ~InLookback(RowDate(r), horizon)
          BY <4>2, <2>6, <1>11
        <5>2. Known(r) \in Evidences(attribution)
          BY <5>1 DEF Evidences
        <5>3. PICK p \in Prompts : Sent(p, old) /\ Known(r) = Ground(p, old)
          BY <5>2, <3>2
        <5>4. p = r.prompt
          BY <5>3 DEF Ground
        <5>5. Known(r) = Ground(p, stgEvents) /\ Sent(p, stgEvents)
          BY <5>1, <5>3, <5>4, <3>3, <1>1 DEF RowDate
        <5> QED BY <5>5, <2>4
      <4> QED BY <4>1, <4>2
    <3>5. ASSUME NEW p \in Prompts, Sent(p, stgEvents)
          PROVE  \E r \in attribution' : Known(r) = Ground(p, stgEvents)
      <4>1. CASE InLookback(PromptDate(p), horizon)
        <5>1. Ground(p, stgEvents) \in Evidences(labelled)
          BY <2>4, <3>5
        <5>2. PICK r \in labelled : Known(r) = Ground(p, stgEvents)
          BY <5>1 DEF Evidences
        <5>3. r.prompt = p
          BY <5>2 DEF Ground
        <5>4. r \in batch
          BY <5>3, <4>1 DEF RowDate
        <5> QED BY <5>2, <5>4, <2>6, <1>4
      <4>2. CASE ~InLookback(PromptDate(p), horizon)
        <5>1. Ground(p, stgEvents) = Ground(p, old) /\ Sent(p, old)
          BY <3>3, <3>5, <4>2
        <5>2. Ground(p, stgEvents) \in Evidences(attribution)
          BY <5>1, <3>2
        <5>3. PICK r \in attribution : Known(r) = Ground(p, stgEvents)
          BY <5>2 DEF Evidences
        <5>4. r.prompt = p
          BY <5>3 DEF Ground
        <5>5. RowDate(r) \notin {RowDate(b) : b \in batch}
          BY <5>4, <4>2 DEF RowDate
        <5> QED BY <5>3, <5>5, <2>6, <1>4
      <4> QED BY <4>1, <4>2
    <3>6. Evidences(attribution') \subseteq Evidences(labelled)
      BY <3>4 DEF Evidences
    <3>7. Evidences(labelled) \subseteq Evidences(attribution')
      BY <2>4, <3>5 DEF Evidences
    <3> QED BY <2>2, <2>3, <3>6, <3>7 DEF labelled
  <2> QED BY <2>5, <2>6
<1>17. TypeOK'
  BY <1>3, <1>12 DEF TypeOK, BuildAttribution, Stages, Models
<1>18. RawInv'
  BY <1>1, <1>3 DEF RawInv, BuildAttribution, Models
<1>19. UnbuiltInv'
  BY <1>1, <1>3 DEF UnbuiltInv, BuildAttribution
<1>20. StageInv'
  BY <1>1, <1>3 DEF StageInv, BuildAttribution
<1>21. EventsInv' /\ PromptsInv'
  BY <1>1, <1>3 DEF EventsInv, PromptsInv, WithinReach, BuildAttribution, Models
<1>22. AttributionInv'
  <2>1. stgEvents' = stgEvents /\ stgPrompts' = stgPrompts
    BY DEF BuildAttribution
  <2> QED BY <1>3, <1>12, <1>13, <1>14, <1>15, <1>16, <2>1 DEF AttributionInv, WithinReach
<1> QED BY <1>17, <1>18, <1>19, <1>20, <1>21, <1>22

-----------------------------------------------------------------------------
(* The theorems. *)

LEMMA NextInv == IInv /\ [Next]_vars => IInv'
<1> SUFFICES ASSUME IInv, [Next]_vars PROVE IInv'
  OBVIOUS
<1>1. CASE \E c \in Copies : Export(c)
  BY <1>1, ExportStep
<1>2. CASE \E through \in Throughs : Land(through)
  BY <1>2, LandStep
<1>3. CASE \E last \in Throughs : LandCrash(last)
  BY <1>3, LandCrashStep
<1>4. CASE BuildStgEvents
  BY <1>4, StgEventsStep
<1>5. CASE BuildStgPrompts
  BY <1>5, StgPromptsStep
<1>6. CASE BuildAttribution
  BY <1>6, AttributionStep
<1>7. CASE Fail
  BY <1>7, FailStep
<1>8. CASE UNCHANGED vars
  <2> USE <1>8 DEF vars, IInv
  <2>1. TypeOK' BY DEF TypeOK
  <2>2. RawInv' BY DEF RawInv
  <2>3. StageInv' BY DEF StageInv
  <2> QED BY <2>1, <2>2, <2>3, TablesUnchanged
<1> QED BY <1>1, <1>2, <1>3, <1>4, <1>5, <1>6, <1>7, <1>8 DEF Next

\* The inductive invariant holds of every behaviour.
THEOREM Inductive == Spec => []IInv
  BY InitInv, NextInv, PTL DEF Spec

\* The tables have their types, and the reach is a natural number.
THEOREM TypeCorrect == Spec => []TypeOK
  BY Inductive, PTL DEF IInv

\* However the builds are spaced and whichever fails, stg_events holds one copy
\* of an event, the earliest landed; the pruned BigQuery scan included.
THEOREM OneCopy == Spec => []OneCopyPerEvent
<1>1. IInv => OneCopyPerEvent
  <2> SUFFICES ASSUME IInv PROVE stgEvents \subseteq Dedupe(raw)
    BY DEF OneCopyPerEvent
  <2>1. basis["stg_events"] \subseteq raw /\ raw \subseteq Copies
        /\ Ordered(basis["stg_events"])
    BY DEF IInv, RawInv, TypeOK
  <2>2. Dedupe(basis["stg_events"]) \subseteq Dedupe(raw)
    BY <2>1, DedupeGrows
  <2> QED BY <2>2 DEF IInv, EventsInv
<1> QED BY <1>1, Inductive, PTL

\* The unique tests of the two prompt tables can never fail.
THEOREM OneRow == Spec => []OneRowPerPrompt
<1>1. IInv => OneRowPerPrompt
  BY DEF IInv, PromptsInv, AttributionInv, OneRowPerPrompt
<1> QED BY <1>1, Inductive, PTL

\* A finished build within reach leaves every table equal to its upstream.
LEMMA BuiltWithinReach ==
    ASSUME IInv, stage = "built", InReach
    PROVE  /\ stgEvents = Dedupe(raw)
           /\ stgPrompts = PromptsOf(stgEvents)
           /\ Evidences(attribution) = Evidences(AttributionOf(stgPrompts, stgEvents))
<1>1. WithinReach("stg_events") /\ WithinReach("stg_prompts") /\ WithinReach("attribution")
  <2>1. /\ reach["stg_events"] \in Nat /\ reach["stg_prompts"] \in Nat
        /\ reach["attribution"] \in Nat /\ Late \in Nat /\ Lookback \in Nat
    BY ParameterAssumption DEF IInv, TypeOK, Models
  <2> QED BY <2>1 DEF IInv, StageInv, WithinReach, InReach
<1> QED BY <1>1 DEF IInv, StageInv, EventsInv, PromptsInv, AttributionInv

\* Incremental builds within reach converge on what a build from scratch gives.
THEOREM Converges == Spec => []EvidenceConverges
<1>1. IInv => EvidenceConverges
  BY BuiltWithinReach DEF EvidenceConverges
<1> QED BY <1>1, Inductive, PTL

\* A row of the table is determined by its ground and its status.
LEMMA RowIsGroundAndStatus ==
    ASSUME NEW r \in AttributionRows, NEW s \in AttributionRows,
           r.prompt = s.prompt, r.delivered = s.delivered,
           r.evidence = s.evidence, r.status = s.status
    PROVE  r = s
  BY DEF AttributionRows

\* Tables with the same evidences have a row for a row.
LEMMA SameEvidences ==
    ASSUME NEW rows, NEW others, Evidences(rows) = Evidences(others), NEW r \in rows
    PROVE  \E s \in others : /\ r.prompt = s.prompt
                             /\ r.delivered = s.delivered
                             /\ r.evidence = s.evidence
<1> DEFINE Known(x) == [prompt |-> x.prompt, delivered |-> x.delivered,
                        evidence |-> x.evidence]
<1>1. Known(r) \in Evidences(others)
  BY DEF Evidences
<1>2. PICK s \in others : Known(r) = Known(s)
  BY <1>1 DEF Evidences
<1>3. /\ Known(r).prompt = r.prompt /\ Known(s).prompt = s.prompt
      /\ Known(r).delivered = r.delivered /\ Known(s).delivered = s.delivered
      /\ Known(r).evidence = r.evidence /\ Known(s).evidence = s.evidence
  OBVIOUS
<1> HIDE DEF Known
<1> QED BY <1>2, <1>3

\* Daily builds leave the very tables of a build from scratch.
THEOREM DailyConverges == Spec => []DailyBuildIsFullBuild
<1>1. IInv => DailyBuildIsFullBuild
  <2> SUFFICES ASSUME IInv, stage = "built", reach["attribution"] <= 1
               PROVE  /\ stgEvents = Dedupe(raw)
                      /\ stgPrompts = PromptsOf(stgEvents)
                      /\ attribution = AttributionOf(stgPrompts, stgEvents)
    BY DEF DailyBuildIsFullBuild
  <2> DEFINE labelled == AttributionOf(stgPrompts, stgEvents)
  <2>1. InReach
    BY ParameterAssumption DEF IInv, TypeOK, Models, InReach
  <2>2. /\ stgEvents = Dedupe(raw)
        /\ stgPrompts = PromptsOf(stgEvents)
        /\ Evidences(attribution) = Evidences(labelled)
    BY <2>1, BuiltWithinReach
  <2>3. /\ attribution \subseteq AttributionRows
        /\ \A r \in attribution : r.status = Status(r.prompt, Horizon(stgEvents))
    BY DEF IInv, TypeOK, AttributionInv, StageInv
  <2>4. \A r \in labelled : /\ r \in AttributionRows
                            /\ r.status = Status(r.prompt, Horizon(stgEvents))
    BY LabelledRows DEF IInv, TypeOK
  <2> HIDE DEF labelled
  <2>5. ASSUME NEW r \in attribution PROVE r \in labelled
    <3>1. PICK s \in labelled : /\ r.prompt = s.prompt /\ r.delivered = s.delivered
                                /\ r.evidence = s.evidence
      BY <2>2, SameEvidences
    <3> QED BY <3>1, <2>3, <2>4, RowIsGroundAndStatus
  <2>6. ASSUME NEW s \in labelled PROVE s \in attribution
    <3>1. PICK r \in attribution : /\ r.prompt = s.prompt /\ r.delivered = s.delivered
                                   /\ r.evidence = s.evidence
      BY <2>2, SameEvidences
    <3> QED BY <3>1, <2>3, <2>4, RowIsGroundAndStatus
  <2> QED BY <2>2, <2>5, <2>6 DEF labelled
<1> QED BY <1>1, Inductive, PTL

\* Steps other than the build of attribution leave it alone.
LEMMA OthersKeepAttribution ==
    ASSUME [Next]_vars, ~BuildAttribution
    PROVE  attribution' = attribution
  BY DEF Next, vars, Export, Land, LandCrash, BuildStgEvents, BuildStgPrompts, Fail

\* Once a prompt is final all the copies that could bear on it are in: those not
\* there are uploaded after the horizon, and a late arrival is not that late.
LEMMA FinalEvidenceIsComplete ==
    ASSUME IInv, InReach, NEW r \in attribution, r.status = "final"
    PROVE  Ground(r.prompt, basis["attribution"]) = Ground(r.prompt, stgEvents)
           /\ r.delivered = Ground(r.prompt, stgEvents).delivered
           /\ r.evidence = Ground(r.prompt, stgEvents).evidence
<1> DEFINE old == basis["attribution"]
           p == r.prompt
<1>1. old \in SUBSET Copies /\ stgEvents \in SUBSET Copies /\ old \subseteq stgEvents
      /\ p \in Prompts
  BY DEF IInv, TypeOK, AttributionInv, Models, AttributionRows
<1>2. /\ OrderedFirsts(old)
      /\ Evidences(attribution) =
            {Ground(q, old) : q \in {s \in Prompts : \E c \in old : IdOf[c] = SentEvent[s]}}
      /\ Horizon(old) - PromptDate(p) >= Lookback
  BY <1>1, GroundsOf DEF IInv, AttributionInv, WithinReach, InReach
<1>3. PICK q \in Prompts : /\ \E c \in old : IdOf[c] = SentEvent[q]
                           /\ [prompt |-> p, delivered |-> r.delivered,
                               evidence |-> r.evidence] = Ground(q, old)
  BY <1>2 DEF Evidences
<1>4. q = p /\ r.delivered = Ground(p, old).delivered /\ r.evidence = Ground(p, old).evidence
  BY <1>3 DEF Ground
<1>5. PICK last \in old : UploadDay[last] = Horizon(old)
  BY <1>1, <1>3, HorizonIsLast
<1>6. ASSUME NEW c \in stgEvents, PromptOf[IdOf[c]] = p
      PROVE  c \in old
  <2>1. UploadDay[c] <= PromptDate(p) + Late
    BY <1>1, <1>6, ClockAssumption, DataAssumption DEF PromptDate
  <2>2. c \in Copies /\ last \in Copies /\ PromptDate(p) \in Int
        /\ UploadDay[c] \in Nat /\ UploadDay[last] \in Nat
        /\ Late \in Nat /\ Lookback \in Nat /\ Late < Lookback
    BY <1>1, Days, ParameterAssumption
  <2>3. UploadDay[c] < UploadDay[last]
    BY <1>2, <1>5, <2>1, <2>2
  <2>4. Rank[c] < Rank[last]
    BY <2>2, <2>3, OrderAssumption
  <2>5. c \in Dedupe(Copies)
    <3>1. raw \in SUBSET Copies /\ Ordered(raw)
      BY DEF IInv, RawInv, TypeOK
    <3>2. stgEvents \subseteq Dedupe(basis["stg_events"])
          /\ basis["stg_events"] \in SUBSET Copies /\ Ordered(basis["stg_events"])
      BY <3>1 DEF IInv, EventsInv, RawInv
    <3> QED BY <3>2, DedupeGrows
  <2> QED BY <1>2, <2>4, <2>5 DEF OrderedFirsts
<1>7. Evidence(p, old) = Evidence(p, stgEvents)
  BY <1>1, <1>6 DEF Evidence
<1>8. PromptRow(p, old) = PromptRow(p, stgEvents)
  BY <1>7 DEF PromptRow
<1> QED BY <1>4, <1>7, <1>8 DEF Ground

LEMMA FinalStaysStep ==
    ASSUME IInv, InReach, InReach', BuildAttribution,
           NEW r \in attribution, r.status = "final"
    PROVE  r \in attribution'
<1> DEFINE horizon == Horizon(stgEvents)
           p == r.prompt
           now == AttributionRow(PromptRow(p, stgEvents), stgEvents, horizon)
           batch == {row \in AttributionOf(stgPrompts, stgEvents) :
                        InLookback(RowDate(row), horizon)}
<1>1. r \in AttributionRows /\ p \in Prompts /\ stgEvents \in SUBSET Copies
      /\ basis["attribution"] \in SUBSET Copies /\ basis["attribution"] \subseteq stgEvents
  BY DEF IInv, TypeOK, AttributionInv, AttributionRows, Models
<1>2. Status(p, horizon) = "final"
  <2>1. Horizon(basis["attribution"]) - PromptDate(p) >= Lookback
    BY DEF IInv, AttributionInv
  <2>2. /\ Horizon(basis["attribution"]) \in Nat /\ horizon \in Nat
        /\ Horizon(basis["attribution"]) <= horizon
        /\ PromptDate(p) \in Int /\ Lookback \in Nat
    BY <1>1, HorizonGrows, Days, ParameterAssumption
  <2> QED BY <2>1, <2>2 DEF Status
<1>3. now = r
  <2>1. PromptRow(p, stgEvents).prompt = p
    BY <1>1, PromptRowsOf
  <2>2. /\ now.prompt = p /\ now.status = "final"
        /\ now.delivered = Ground(p, stgEvents).delivered
        /\ now.evidence = Ground(p, stgEvents).evidence
        /\ now = [prompt |-> p, delivered |-> now.delivered,
                  evidence |-> now.evidence, status |-> "final"]
    BY <1>2, <2>1 DEF AttributionRow, Ground
  <2>3. /\ r.delivered = Ground(p, stgEvents).delivered
        /\ r.evidence = Ground(p, stgEvents).evidence
    BY FinalEvidenceIsComplete
  <2>4. r = [prompt |-> p, delivered |-> r.delivered,
             evidence |-> r.evidence, status |-> r.status]
    BY <1>1 DEF AttributionRows
  <2> HIDE DEF now
  <2> QED BY <2>2, <2>3, <2>4
<1>4. stgPrompts = PromptsOf(stgEvents)
  <2>1. Record("attribution", stgEvents, stgEvents, reach["stg_prompts"])
        /\ stage = "prompted" /\ basis["stg_prompts"] = stgEvents
    BY DEF BuildAttribution, IInv, StageInv
  <2>2. "attribution" \in Models /\ reach["stg_prompts"] \in Nat
    BY DEF IInv, TypeOK, Models
  <2>3. reach["stg_prompts"] <= reach'["attribution"] /\ reach'["attribution"] \in Nat
    BY <1>1, <2>1, <2>2, Recorded DEF IInv
  <2>4. WithinReach("stg_prompts")
    BY <2>2, <2>3, ParameterAssumption DEF WithinReach, InReach
  <2> QED BY <2>1, <2>4 DEF IInv, PromptsInv
<1>5. now \in AttributionOf(stgPrompts, stgEvents)
  <2>1. PICK row \in stgPrompts : row.prompt = p
    BY DEF IInv, AttributionInv
  <2>2. row = PromptRow(p, stgEvents)
    BY <1>1, <1>4, <2>1, PromptRowsOf
  <2> QED BY <2>1, <2>2 DEF AttributionOf
<1> HIDE DEF now
<1>6. CASE ~Incremental("attribution")
  BY <1>3, <1>5, <1>6 DEF BuildAttribution
<1>7. CASE Incremental("attribution")
  <2>1. attribution' = {row \in attribution :
                           RowDate(row) \notin {RowDate(b) : b \in batch}} \cup batch
    BY <1>7 DEF BuildAttribution, Overwritten, StaleRows
  <2>2. \A b \in batch : InLookback(RowDate(b), horizon)
    OBVIOUS
  <2>3. InLookback(RowDate(r), horizon) => r \in batch
    BY <1>3, <1>5
  <2> HIDE DEF batch
  <2> QED BY <2>1, <2>2, <2>3
<1> QED BY <1>6, <1>7

\* ARCHITECTURE invariant 3: a final label never changes, within reach.
THEOREM FinalStays == Spec => FinalNeverChanges
<1> DEFINE Stays == InReach /\ InReach' =>
                       \A r \in attribution : r.status = "final" => r \in attribution'
<1>1. IInv /\ [Next]_vars => Stays
  <2> SUFFICES ASSUME IInv, [Next]_vars, InReach, InReach',
                      NEW r \in attribution, r.status = "final"
               PROVE  r \in attribution'
    OBVIOUS
  <2>1. CASE BuildAttribution
    BY <2>1, FinalStaysStep
  <2>2. CASE ~BuildAttribution
    BY <2>2, OthersKeepAttribution
  <2> QED BY <2>1, <2>2
<1>2. IInv /\ [Next]_vars => [Stays]_vars
  BY <1>1
<1>3. Spec => [][Stays]_vars
  BY <1>2, Inductive, PTL DEF Spec
<1> QED BY <1>3 DEF FinalNeverChanges

\* A labelled prompt stays labelled and its status only advances, in or out of
\* reach and across failed builds and rebuilds from scratch.
THEOREM StatusAdvances == Spec => StatusOnlyAdvances
<1> DEFINE Advances == \A r \in attribution : \E s \in attribution' :
                          s.prompt = r.prompt /\ (r.status = "final" => s.status = "final")
<1>1. IInv /\ [Next]_vars => Advances
  <2> SUFFICES ASSUME IInv, [Next]_vars, NEW r \in attribution
               PROVE  \E s \in attribution' :
                         s.prompt = r.prompt /\ (r.status = "final" => s.status = "final")
    OBVIOUS
  <2>1. CASE ~BuildAttribution
    BY <2>1, OthersKeepAttribution
  <2>2. CASE BuildAttribution
    <3> DEFINE horizon == Horizon(stgEvents)
               labelled == AttributionOf(stgPrompts, stgEvents)
               batch == {row \in labelled : InLookback(RowDate(row), horizon)}
    <3>1. PICK row \in stgPrompts : row.prompt = r.prompt
      BY DEF IInv, AttributionInv
    <3> DEFINE now == AttributionRow(row, stgEvents, horizon)
    <3>2. now \in labelled /\ now.prompt = r.prompt
      BY <3>1 DEF AttributionOf, AttributionRow
    <3>3. r.status = "final" => now.status = "final"
      <4>1. r.status = "final" => Horizon(basis["attribution"]) - PromptDate(r.prompt) >= Lookback
        BY DEF IInv, AttributionInv
      <4>2. stgEvents \in SUBSET Copies /\ basis["attribution"] \in SUBSET Copies
            /\ basis["attribution"] \subseteq stgEvents /\ r.prompt \in Prompts
        BY DEF IInv, TypeOK, AttributionInv, Models, AttributionRows
      <4>3. /\ Horizon(basis["attribution"]) \in Nat /\ horizon \in Nat
            /\ Horizon(basis["attribution"]) <= horizon
            /\ PromptDate(r.prompt) \in Int /\ Lookback \in Nat
        BY <4>2, HorizonGrows, Days, ParameterAssumption
      <4>4. now.status = Status(r.prompt, horizon)
        BY <3>1 DEF AttributionRow
      <4> HIDE DEF now
      <4> QED BY <4>1, <4>3, <4>4 DEF Status
    <3>4. CASE ~Incremental("attribution")
      BY <2>2, <3>2, <3>3, <3>4 DEF BuildAttribution
    <3>5. CASE Incremental("attribution")
      <4>1. attribution' = {s \in attribution :
                               RowDate(s) \notin {RowDate(b) : b \in batch}} \cup batch
        BY <2>2, <3>5 DEF BuildAttribution, Overwritten, StaleRows
      <4>2. RowDate(now) = RowDate(r)
        BY <3>2 DEF RowDate
      <4> HIDE DEF now, labelled
      <4>3. CASE InLookback(RowDate(r), horizon)
        BY <4>1, <4>2, <4>3, <3>2, <3>3
      <4>4. CASE ~InLookback(RowDate(r), horizon)
        BY <4>1, <4>4
      <4> QED BY <4>3, <4>4
    <3> QED BY <3>4, <3>5
  <2> QED BY <2>1, <2>2
<1>2. IInv /\ [Next]_vars => [Advances]_vars
  BY <1>1
<1>3. Spec => [][Advances]_vars
  BY <1>2, Inductive, PTL DEF Spec
<1> QED BY <1>3 DEF StatusOnlyAdvances

-----------------------------------------------------------------------------
(* The landings of the module are those of RawEvents. *)

\* The export has nothing yet, or the copies up to some copy.
ExportInv == exported \in Exports \cup {{}}

\* The next copy leaves the export with the copies up to it.
LEMMA ExportGrows ==
    ASSUME IInv, NEW c \in Copies, Export(c)
    PROVE  exported' \in Exports
<1>1. Ordered(exported) /\ exported \subseteq Copies
  BY DEF IInv, RawInv, TypeOK
<1>2. \A d \in Copies : Rank[d] \in Nat /\ (Rank[d] = Rank[c] => d = c)
  BY Days, OrderAssumption
<1>3. exported' = {d \in Copies : Rank[d] <= Rank[c]}
  <2>1. ASSUME NEW d \in exported PROVE Rank[d] <= Rank[c]
    BY <1>1, <1>2 DEF Export, Ordered
  <2>2. ASSUME NEW d \in Copies, Rank[d] <= Rank[c] PROVE d \in exported'
    BY <1>2, <2>2 DEF Export
  <2> QED BY <1>1, <1>2, <2>1, <2>2 DEF Export
<1> QED BY <1>3 DEF Exports

\* A landing leaves the copies up to its date that the export has, and those
\* it had already.
LEMMA Landed ==
    ASSUME IInv, ExportInv, NEW through \in Throughs, LandPartitions(through),
           exported' = exported, exported # {}
    PROVE  \E seen \in Exports, last \in Throughs : Table!LandThrough(seen, last)
<1>1. raw \subseteq exported /\ exported \subseteq Copies /\ exported \in Exports
  BY DEF IInv, TypeOK, ExportInv
<1>2. \A c \in Copies : UploadDay[c] \in Nat
  BY Days
<1>3. through \in Int
  BY DataAssumption
<1>4. ASSUME NEW c \in Copies
      PROVE  c \in raw' <=> IF UploadDay[c] > through THEN c \in raw ELSE c \in exported
  BY <1>1, <1>2, <1>3 DEF LandPartitions
<1>5. Table!LandThrough(exported, through)
  <2>1. [c \in Copies |-> IF c \in raw' THEN 1 ELSE 0]
          = [c \in Copies |-> IF UploadDay[c] > through
                              THEN [d \in Copies |-> IF d \in raw THEN 1 ELSE 0][c]
                              ELSE IF c \in exported THEN 1 ELSE 0]
    BY <1>4
  <2>2. \A c \in Copies : [d \in Copies |-> IF d \in raw THEN 1 ELSE 0][c]
                           <= [d \in Copies |-> IF d \in raw' THEN 1 ELSE 0][c]
    BY <1>1, <1>4
  <2> QED BY <2>1, <2>2 DEF Table!LandThrough
<1> QED BY <1>1, <1>5

\* Whatever lands, fails or is rebuilt, the builds see a raw.events that only
\* landings of whole dates have changed, and nothing was lost from.
THEOREM ImplementsRawEvents == Spec => IsRawEvents
<1>1. Init => Table!Init /\ ExportInv
  BY DEF Init, Table!Init, ExportInv
<1>2. IInv /\ ExportInv /\ [Next]_vars =>
         [Table!Next]_<<exported, [c \in Copies |-> IF c \in raw THEN 1 ELSE 0]>>
         /\ ExportInv'
  <2> SUFFICES ASSUME IInv, ExportInv, [Next]_vars
               PROVE  /\ \/ Table!Next
                         \/ exported' = exported /\ raw' = raw
                      /\ ExportInv'
    OBVIOUS
  <2>1. ASSUME NEW c \in Copies, Export(c) PROVE Table!Export(exported') /\ exported' \in Exports
    <3>1. exported \subseteq exported' /\ raw' = raw
      BY <2>1 DEF Export
    <3> QED BY <2>1, <3>1, ExportGrows DEF Table!Export
  <2>2. ASSUME NEW through \in Throughs, LandPartitions(through), exported' = exported
        PROVE  (Table!Next \/ (exported' = exported /\ raw' = raw)) /\ ExportInv'
    <3>1. CASE exported = {}
      <4>1. raw = {} /\ raw' = {}
        BY <2>2, <3>1 DEF IInv, TypeOK, LandPartitions
      <4> QED BY <2>2, <4>1 DEF ExportInv
    <3>2. CASE exported # {}
      BY <2>2, <3>2, Landed DEF ExportInv, Table!Next
    <3> QED BY <3>1, <3>2
  <2>3. CASE \E c \in Copies : Export(c)
    BY <2>1, <2>3 DEF Table!Next, ExportInv
  <2>4. CASE \E through \in Throughs : Land(through) \/ LandCrash(through)
    BY <2>2, <2>4 DEF Land, LandCrash
  <2>5. CASE BuildStgEvents \/ BuildStgPrompts \/ BuildAttribution \/ Fail \/ UNCHANGED vars
    BY <2>5 DEF BuildStgEvents, BuildStgPrompts, BuildAttribution, Fail, vars, ExportInv
  <2> QED BY <2>3, <2>4, <2>5 DEF Next
<1> QED BY <1>1, <1>2, Inductive, PTL DEF Spec, IsRawEvents, Table!Spec
=============================================================================

---------------------------- MODULE WriteBackProofs ----------------------------
(***************************************************************************)
(* Proofs about WriteBack, for any users, runs, versions and candidates.   *)
(*                                                                         *)
(* The heart of the argument is that a run which gets to commit has read   *)
(* the table it replaces: on Spanner because the transaction would have    *)
(* been aborted, on DuckDB because no other run has the file open.         *)
(***************************************************************************)
EXTENDS WriteBack, TLAPS

\* No two runs have the DuckDB file open.
SingleWriter ==
    target = "duckdb" =>
        \A r, s \in Runs : pc[r] # "idle" /\ pc[s] # "idle" => r = s

\* What a transaction has read, and what it has made of it.
TransactionOK(r) ==
    /\ target = "duckdb" /\ pc[r] \in {"compare", "deleted", "applied"} =>
          existing[r] = stored
    /\ pc[r] \in {"deleted", "applied"} => ~Refuses(r)
    /\ pc[r] = "deleted" => pending[r] = Without(existing[r], Winners(r))
    /\ pc[r] = "applied" => pending[r] = With(existing[r], Winners(r), candidates[r])

TransactionInv == \A r \in Runs : TransactionOK(r)

IInv ==
    /\ TypeOK
    /\ NeverWedged
    /\ done \subseteq WellFormedBatches
    /\ GreatestIsServed
    /\ SingleWriter
    /\ TransactionInv

-----------------------------------------------------------------------------
\* The rows whose versions can be compared.
Comparable == {row \in Rows : row.version # Malformed}

\* Greater is a strict order on them.
LEMMA Order ==
    /\ \A a \in Comparable : a.version \in Nat /\ a.asOf \in Int /\ a # Absent
    /\ \A a \in Comparable : ~Greater(a, a)
    /\ \A a, b, c \in Comparable : Greater(b, a) /\ ~Greater(c, a) => ~Greater(c, b)
<1>1. \A a \in Comparable : a.version \in Nat /\ a.asOf \in Int /\ a # Absent
  BY RowsAssumption DEF Comparable, Rows, Versions
<1>2. ASSUME NEW a \in Comparable PROVE ~Greater(a, a)
  BY <1>1 DEF Greater
<1>3. ASSUME NEW a \in Comparable, NEW b \in Comparable, NEW c \in Comparable,
             Greater(b, a), ~Greater(c, a)
      PROVE  ~Greater(c, b)
  <2>1. /\ a.version \in Nat /\ b.version \in Nat /\ c.version \in Nat
        /\ a.asOf \in Int /\ b.asOf \in Int /\ c.asOf \in Int
    BY <1>1
  <2> QED BY <2>1, <1>3 DEF Greater
<1> QED BY <1>1, <1>2, <1>3

\* Updating some of the users of a table gives a table.
LEMMA Updates ==
    ASSUME NEW table \in Tables, NEW rows \in Tables, NEW users
    PROVE  /\ Without(table, users) \in Tables
           /\ With(table, users, rows) \in Tables
           /\ With(Without(table, users), users, rows) = With(table, users, rows)
<1>1. Without(table, users) \in Tables
  BY DEF Without, Tables
<1>2. With(table, users, rows) \in Tables
  BY DEF With, Tables
<1>3. With(Without(table, users), users, rows) = With(table, users, rows)
  BY DEF With, Without
<1> QED BY <1>1, <1>2, <1>3

\* What a run holds, once it has read it.
LEMMA Held ==
    ASSUME TypeOK, NEW r \in Runs
    PROVE  /\ pc[r] # "idle" => candidates[r] \in Tables /\ candidates[r] \in Warehouses
           /\ pc[r] \in {"compare", "deleted", "applied"} => existing[r] \in Tables
           /\ pc[r] \in {"deleted", "applied"} => pending[r] \in Tables
  BY RowsAssumption DEF TypeOK

LEMMA InitInv == Init => IInv
<1> SUFFICES ASSUME Init PROVE IInv
  OBVIOUS
<1>1. TypeOK
  BY DEF Init, TypeOK, Tables, Steps
<1>2. NeverWedged
  BY DEF Init, NeverWedged
<1>3. GreatestIsServed
  BY DEF Init, GreatestIsServed
<1>4. SingleWriter /\ TransactionInv
  BY DEF Init, SingleWriter, TransactionInv, TransactionOK
<1> QED BY <1>1, <1>2, <1>3, <1>4 DEF Init, IInv

-----------------------------------------------------------------------------
(* Steps that leave send_schedule alone. *)

LEMMA ScheduleUnchanged ==
    ASSUME NeverWedged, GreatestIsServed, done \subseteq WellFormedBatches,
           UNCHANGED <<stored, done>>
    PROVE  NeverWedged' /\ GreatestIsServed' /\ done' \subseteq WellFormedBatches
  BY DEF NeverWedged, GreatestIsServed

\* A run that stops, whatever the reason, leaves the invariants of the others.
LEMMA StopStep ==
    ASSUME IInv, NEW r \in Runs, Stop(r), UNCHANGED <<target, warehouse, stored, done>>
    PROVE  IInv'
<1> USE DEF IInv, Stop
<1>1. TypeOK'
  BY DEF TypeOK, Steps
<1>2. SingleWriter'
  BY DEF SingleWriter, TypeOK
<1>3. TransactionInv'
  <2> SUFFICES ASSUME NEW s \in Runs, s # r, pc[s] # "idle"
               PROVE  /\ pc'[s] = pc[s] /\ candidates'[s] = candidates[s]
                      /\ existing'[s] = existing[s] /\ pending'[s] = pending[s]
    BY DEF TransactionInv, TransactionOK, Refuses, Winners, TypeOK
  <2> QED BY DEF TypeOK
<1> QED BY <1>1, <1>2, <1>3, ScheduleUnchanged

LEMMA RebuildStep ==
    ASSUME IInv, NEW offered \in Warehouses, Rebuild(offered)
    PROVE  IInv'
<1> USE DEF IInv, Rebuild
<1>1. TypeOK'
  BY DEF TypeOK
<1>2. SingleWriter'
  BY DEF SingleWriter
<1>3. TransactionInv'
  BY DEF TransactionInv, TransactionOK, Refuses, Winners
<1> QED BY <1>1, <1>2, <1>3, ScheduleUnchanged

LEMMA ReadCandidatesStep ==
    ASSUME IInv, NEW r \in Runs, ReadCandidates(r)
    PROVE  IInv'
<1> USE DEF IInv, ReadCandidates
<1>1. TypeOK'
  BY RowsAssumption DEF TypeOK, Steps
<1>2. SingleWriter'
  BY DEF SingleWriter, FileFree, TypeOK
<1>3. TransactionInv'
  BY DEF TransactionInv, TransactionOK, Refuses, Winners, TypeOK
<1> QED BY <1>1, <1>2, <1>3, ScheduleUnchanged

LEMMA ReadExistingStep ==
    ASSUME IInv, NEW r \in Runs, ReadExisting(r)
    PROVE  IInv'
<1> USE DEF IInv, ReadExisting
<1>1. TypeOK'
  BY RowsAssumption DEF TypeOK, Steps
<1>2. SingleWriter'
  BY DEF SingleWriter, TypeOK
<1>3. TransactionInv'
  BY DEF TransactionInv, TransactionOK, Refuses, Winners, TypeOK
<1> QED BY <1>1, <1>2, <1>3, ScheduleUnchanged

LEMMA DeleteStep ==
    ASSUME IInv, NEW r \in Runs, Delete(r)
    PROVE  IInv'
<1> USE DEF IInv, Delete
<1>1. Without(existing[r], Winners(r)) \in Tables
  BY Held, Updates
<1>2. TypeOK'
  BY <1>1, RowsAssumption DEF TypeOK, Steps
<1>3. SingleWriter'
  BY DEF SingleWriter, TypeOK
<1>4. TransactionInv'
  BY DEF TransactionInv, TransactionOK, Refuses, Winners, TypeOK
<1> QED BY <1>2, <1>3, <1>4, ScheduleUnchanged

LEMMA InsertStep ==
    ASSUME IInv, NEW r \in Runs, Insert(r)
    PROVE  IInv'
<1> USE DEF IInv, Insert
<1>1. /\ pending[r] = Without(existing[r], Winners(r))
      /\ existing[r] \in Tables /\ candidates[r] \in Tables
  BY Held DEF TransactionInv, TransactionOK
<1>2. With(pending[r], Winners(r), candidates[r])
         = With(existing[r], Winners(r), candidates[r])
      /\ With(existing[r], Winners(r), candidates[r]) \in Tables
  BY <1>1, Updates
<1>3. TypeOK'
  BY <1>2, RowsAssumption DEF TypeOK, Steps
<1>4. SingleWriter'
  BY DEF SingleWriter, TypeOK
<1>5. TransactionInv'
  BY <1>2 DEF TransactionInv, TransactionOK, Refuses, Winners, TypeOK
<1> QED BY <1>3, <1>4, <1>5, ScheduleUnchanged

LEMMA UpsertStep ==
    ASSUME IInv, NEW r \in Runs, Upsert(r)
    PROVE  IInv'
<1> USE DEF IInv, Upsert
<1>1. With(existing[r], Winners(r), candidates[r]) \in Tables
  BY Held, Updates
<1>2. TypeOK'
  BY <1>1, RowsAssumption DEF TypeOK, Steps
<1>3. SingleWriter'
  BY DEF SingleWriter, TypeOK
<1>4. TransactionInv'
  BY DEF TransactionInv, TransactionOK, Refuses, Winners, TypeOK
<1> QED BY <1>2, <1>3, <1>4, ScheduleUnchanged

LEMMA AbortStep ==
    ASSUME IInv, NEW r \in Runs, Abort(r)
    PROVE  IInv'
<1> USE DEF IInv, Abort
<1>1. TypeOK'
  BY DEF TypeOK, Steps
<1>2. SingleWriter'
  BY DEF SingleWriter, TypeOK
<1>3. TransactionInv'
  BY DEF TransactionInv, TransactionOK, Refuses, Winners, TypeOK
<1> QED BY <1>1, <1>2, <1>3, ScheduleUnchanged

-----------------------------------------------------------------------------
(* The commit. *)

\* A run commits the table it has read, the winners replaced.
LEMMA Committed ==
    ASSUME IInv, NEW r \in Runs, Commit(r)
    PROVE  /\ candidates[r] \in WellFormedBatches
           /\ stored \in Tables
           /\ \A u \in Users :
                 stored'[u] = IF candidates[r][u] # Absent
                                 /\ ShouldReplace(candidates[r][u], stored[u])
                              THEN candidates[r][u] ELSE stored[u]
           /\ stored' = With(stored, Winners(r), candidates[r])
<1> USE DEF IInv, Commit
<1>1. existing[r] = stored /\ stored \in Tables
  BY DEF TransactionInv, TransactionOK, Serializable, TypeOK
<1>2. stored' = With(stored, Winners(r), candidates[r])
  BY <1>1 DEF TransactionInv, TransactionOK
<1>3. candidates[r] \in WellFormedBatches
  BY Held DEF TransactionInv, TransactionOK, Refuses, WellFormedBatches
<1> QED BY <1>1, <1>2, <1>3 DEF With, Winners

LEMMA CommitStep ==
    ASSUME IInv, NEW r \in Runs, Commit(r)
    PROVE  IInv'
<1> DEFINE mine(u) == candidates[r][u]
           offered(u) == {table[u] : table \in done} \ {Absent}
<1> USE DEF IInv
<1>1. /\ candidates[r] \in WellFormedBatches
      /\ stored \in Tables
      /\ \A u \in Users :
            stored'[u] = IF mine(u) # Absent /\ ShouldReplace(mine(u), stored[u])
                         THEN mine(u) ELSE stored[u]
  BY Committed
<1>2. stored' = With(stored, Winners(r), candidates[r])
  BY Committed
<1>3. \A table \in WellFormedBatches : table \in Tables /\ table \in Warehouses
                /\ \A u \in Users : table[u] # Absent => table[u] \in Comparable
  BY RowsAssumption DEF WellFormedBatches, Comparable, Tables
<1>4. stored' \in Tables
  BY <1>1, <1>2, <1>3, Updates
<1>5. done' = done \cup {candidates[r]} /\ done' \subseteq WellFormedBatches
  BY <1>1 DEF Commit
<1>6. TypeOK'
  BY <1>1, <1>3, <1>4, <1>5 DEF TypeOK, Commit, Stop, Steps
<1>7. NeverWedged'
  BY <1>1, <1>3 DEF NeverWedged, Comparable
<1>8. GreatestIsServed'
  <2> SUFFICES ASSUME NEW u \in Users
               PROVE  LET rows == {table[u] : table \in done'} \ {Absent}
                      IN IF rows = {} THEN stored'[u] = Absent
                         ELSE /\ stored'[u] \in rows
                              /\ \A row \in rows : ~Greater(row, stored'[u])
    BY DEF GreatestIsServed
  <2> DEFINE rows == {table[u] : table \in done'} \ {Absent}
  <2>1. rows = IF mine(u) = Absent THEN offered(u) ELSE offered(u) \cup {mine(u)}
    BY <1>5
  <2>2. IF offered(u) = {} THEN stored[u] = Absent
        ELSE /\ stored[u] \in offered(u)
             /\ \A row \in offered(u) : ~Greater(row, stored[u])
    BY DEF GreatestIsServed
  <2>3. \A row \in offered(u) : row \in Comparable
    BY <1>3
  <2>4. mine(u) # Absent => mine(u) \in Comparable
    BY <1>1, <1>3
  <2>5. Absent \notin offered(u)
    OBVIOUS
  <2> HIDE DEF rows, offered, mine
  <2>6. CASE mine(u) = Absent
    <3>1. stored'[u] = stored[u]
      BY <1>1, <2>6
    <3> QED BY <3>1, <2>1, <2>2, <2>6 DEF rows
  <2>7. CASE mine(u) # Absent /\ stored[u] = Absent
    <3>1. offered(u) = {}
      BY <2>2, <2>5, <2>7
    <3>2. stored'[u] = mine(u)
      BY <1>1, <2>7 DEF ShouldReplace
    <3> QED BY <3>1, <3>2, <2>1, <2>4, <2>7, Order DEF rows
  <2>8. CASE mine(u) # Absent /\ stored[u] # Absent /\ Greater(mine(u), stored[u])
    <3>1. stored[u] \in offered(u) /\ \A row \in offered(u) : ~Greater(row, stored[u])
      BY <2>2, <2>8
    <3>2. stored'[u] = mine(u)
      BY <1>1, <2>8 DEF ShouldReplace
    <3>3. \A row \in offered(u) : ~Greater(row, mine(u))
      BY <3>1, <2>3, <2>4, <2>8, Order
    <3> QED BY <3>2, <3>3, <2>1, <2>4, <2>8, Order DEF rows
  <2>9. CASE mine(u) # Absent /\ stored[u] # Absent /\ ~Greater(mine(u), stored[u])
    <3>1. stored[u] \in offered(u) /\ \A row \in offered(u) : ~Greater(row, stored[u])
      BY <2>2, <2>9
    <3>2. stored'[u] = stored[u]
      BY <1>1, <2>9 DEF ShouldReplace
    <3> QED BY <3>1, <3>2, <2>1, <2>9 DEF rows
  <2> QED BY <2>6, <2>7, <2>8, <2>9
<1>9. SingleWriter'
  BY DEF SingleWriter, TypeOK, Commit, Stop
<1>10. TransactionInv'
  <2> SUFFICES ASSUME NEW s \in Runs
               PROVE  TransactionOK(s)'
    BY DEF TransactionInv
  <2>1. CASE s = r
    BY <2>1 DEF TransactionInv, TransactionOK, TypeOK, Commit, Stop
  <2>2. CASE s # r
    <3>1. /\ pc'[s] = pc[s] /\ candidates'[s] = candidates[s]
          /\ existing'[s] = existing[s] /\ pending'[s] = pending[s] /\ target' = target
      BY <2>2 DEF TypeOK, Commit, Stop
    <3>2. target = "duckdb" => pc[s] = "idle"
      BY <2>2 DEF SingleWriter, Commit
    <3> QED BY <3>1, <3>2 DEF TransactionInv, TransactionOK, Refuses, Winners
  <2> QED BY <2>1, <2>2
<1> QED BY <1>5, <1>6, <1>7, <1>8, <1>9, <1>10

-----------------------------------------------------------------------------
(* The theorems. *)

LEMMA NextInv == IInv /\ [Next]_vars => IInv'
<1> SUFFICES ASSUME IInv, [Next]_vars PROVE IInv'
  OBVIOUS
<1>1. ASSUME NEW offered \in Warehouses, Rebuild(offered) PROVE IInv'
  BY <1>1, RebuildStep
<1>2. ASSUME NEW r \in Runs, ReadCandidates(r) PROVE IInv'
  BY <1>2, ReadCandidatesStep
<1>3. ASSUME NEW r \in Runs, RunStep(r) PROVE IInv'
  <2>1. CASE ReadExisting(r) BY <2>1, ReadExistingStep
  <2>2. CASE Refuse(r) BY <2>2, StopStep DEF Refuse
  <2>3. CASE Delete(r) BY <2>3, DeleteStep
  <2>4. CASE Insert(r) BY <2>4, InsertStep
  <2>5. CASE Upsert(r) BY <2>5, UpsertStep
  <2>6. CASE Commit(r) BY <2>6, CommitStep
  <2>7. CASE Abort(r) BY <2>7, AbortStep
  <2> QED BY <1>3, <2>1, <2>2, <2>3, <2>4, <2>5, <2>6, <2>7 DEF RunStep
<1>4. ASSUME NEW r \in Runs, Crash(r) PROVE IInv'
  BY <1>4, StopStep DEF Crash
<1>5. CASE UNCHANGED vars
  <2> USE <1>5 DEF vars, IInv
  <2>1. TypeOK' BY DEF TypeOK
  <2>2. SingleWriter' BY DEF SingleWriter
  <2>3. TransactionInv' BY DEF TransactionInv, TransactionOK, Refuses, Winners
  <2> QED BY <2>1, <2>2, <2>3, ScheduleUnchanged
<1> QED BY <1>1, <1>2, <1>3, <1>4, <1>5 DEF Next

\* The inductive invariant holds of every behaviour.
THEOREM Inductive == Spec => []IInv
  BY InitInv, NextInv, PTL DEF Spec

\* The table and what the runs hold have their types.
THEOREM TypeCorrect == Spec => []TypeOK
  BY Inductive, PTL DEF IInv

\* No malformed version is ever stored, on the insert path included.
THEOREM Unwedged == Spec => []NeverWedged
  BY Inductive, PTL DEF IInv

\* However runs interleave, abort and crash, the greatest row of those any
\* committed run had for a user is the one served.
THEOREM ServesGreatest == Spec => []GreatestIsServed
  BY Inductive, PTL DEF IInv

\* Only a commit changes the table.
LEMMA OthersKeepStored ==
    ASSUME [Next]_vars, \A r \in Runs : ~Commit(r)
    PROVE  stored' = stored
  BY DEF Next, RunStep, vars, Rebuild, ReadCandidates, ReadExisting, Refuse, Delete,
         Insert, Upsert, Abort, Crash

\* Rows are never deleted and only replaced by strictly greater ones.
THEOREM OnlyAdvance == Spec => RowsOnlyAdvance
<1> DEFINE Advances == \A u \in Users : stored[u] # Absent =>
                          /\ stored'[u] # Absent
                          /\ stored'[u] # stored[u] => Greater(stored'[u], stored[u])
<1>1. IInv /\ [Next]_vars => Advances
  <2> SUFFICES ASSUME IInv, NEW r \in Runs, Commit(r) PROVE Advances
    BY OthersKeepStored
  <2>1. \A u \in Users :
            stored'[u] = IF candidates[r][u] # Absent
                            /\ ShouldReplace(candidates[r][u], stored[u])
                         THEN candidates[r][u] ELSE stored[u]
    BY Committed
  <2> QED BY <2>1 DEF ShouldReplace
<1>2. IInv /\ [Next]_vars => [Advances]_vars
  BY <1>1
<1>3. Spec => [][Advances]_vars
  BY <1>2, Inductive, PTL DEF Spec
<1> QED BY <1>3 DEF RowsOnlyAdvance

\* The write-back implements the table the notification service expects: every
\* step of it puts one whole batch, or leaves the table alone.
THEOREM Implements == Spec => IsSchedule
<1>1. Init => Schedule!Init
  BY DEF Init, Schedule!Init
<1>2. IInv /\ [Next]_vars => [Schedule!Next]_stored
  <2> SUFFICES ASSUME IInv, NEW r \in Runs, Commit(r) PROVE Schedule!Next
    BY OthersKeepStored
  <2>1. /\ candidates[r] \in WellFormedBatches
        /\ stored \in Tables
        /\ \A u \in Users :
              stored'[u] = IF candidates[r][u] # Absent
                              /\ ShouldReplace(candidates[r][u], stored[u])
                           THEN candidates[r][u] ELSE stored[u]
        /\ stored' = With(stored, Winners(r), candidates[r])
    BY Committed
  <2>2. \A u \in Users : Schedule!Kept(candidates[r], u) <=>
            ~(candidates[r][u] # Absent /\ ShouldReplace(candidates[r][u], stored[u]))
    BY DEF Schedule!Kept, Schedule!Above, ShouldReplace, Greater
  <2>3. Schedule!Put(candidates[r])
    BY <2>1, <2>2 DEF Schedule!Put, With
  <2> QED BY <2>1, <2>3 DEF Schedule!Next
<1>3. Spec => Schedule!Spec
  BY <1>1, <1>2, Inductive, PTL DEF Spec, Schedule!Spec
<1> QED BY <1>3 DEF IsSchedule
=============================================================================

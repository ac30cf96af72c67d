------------------------- MODULE InfraCommandsProofs -------------------------
(***************************************************************************)
(* For any operators, tree, commands and environment: what the commands of *)
(* infra/cli.py may lose, leave billed, turn on and leave behind.          *)
(***************************************************************************)
EXTENDS InfraCommands, TLAPS

\* What each command still holds of its checks, at each of its phases.
Checked(p) ==
    job[p] # None =>
        /\ job[p].cmd \in {"apply", "destroy", "migrate-state"} => Confirmed(job[p].confirm)
        /\ job[p].cmd = "apply" =>
               /\ EnvTfVars(job[p].env) = {}
               /\ job[p].vars.items \subseteq Optional
               /\ appeared[p] \/ tfvars = None
Planned(p) ==
    /\ phase[p] = "idle" <=> job[p] = None
    /\ phase[p] \in {"planned", "gated"} <=> plan[p] # None
    /\ plan[p] # None => job[p].cmd = "apply"
    /\ phase[p] = "gated" => PlanSafe(plan[p].changes, job[p].allow)

InfraInv ==
    /\ TypeOK
    /\ \A p \in Operators : Checked(p) /\ Planned(p)
    /\ NothingBillsUnknown
    /\ TypedIsPlanned

-----------------------------------------------------------------------------
LEMMA ItemsAreToggles ==
    ASSUME NEW c \in Commands, ~Refused(c), c.cmd = "apply"
    PROVE  c.vars.items \subseteq Optional
BY InfraAssumption DEF Refused, VarsRefused, Command

\* What is typed is all that an apply can turn on.
LEMMA TogglesTyped ==
    ASSUME NEW p \in Operators, InfraInv, job[p] # None, job[p].cmd = "apply"
    PROVE  /\ Toggles(job[p]) \subseteq Optional
           /\ appeared[p] \/ Toggles(job[p]) = job[p].vars.items
<1>1. EnvTfVars(TfEnv(job[p].env)) = {}
  BY DEF InfraInv, Checked, EnvTfVars, TfEnv
<1>2. Toggles(job[p]) = job[p].vars.items \cup (IF tfvars = None THEN {} ELSE tfvars)
  BY <1>1 DEF Toggles
<1>3. /\ job[p].vars.items \subseteq Optional
      /\ appeared[p] \/ tfvars = None
      /\ tfvars # None => tfvars \subseteq Optional
  <2>1. job[p].vars.items \subseteq Optional
    BY DEF InfraInv, Checked
  <2>2. appeared[p] \/ tfvars = None
    BY Zenon DEF InfraInv, Checked
  <2>3. tfvars # None => tfvars \subseteq Optional
    BY DEF InfraInv, TypeOK
  <2> QED
    BY <2>1, <2>2, <2>3
<1> QED
  BY <1>2, <1>3

LEMMA ChangesType ==
    ASSUME NEW toggles, TypeOK
    PROVE  Changes(toggles) \in [Resources -> SUBSET Verbs]
<1>1. ASSUME NEW r \in Resources PROVE Changes(toggles)[r] \in SUBSET Verbs
  BY DEF Changes, Verbs
<1>2. Changes(toggles) = [r \in Resources |-> Changes(toggles)[r]]
  BY DEF Changes
<1> QED
  BY <1>1, <1>2

LEMMA PlansKeep ==
    ASSUME NEW p \in Operators, TypeOK, OthersStale(p)
    PROVE  /\ plan' \in [Operators -> SavedPlan \cup {None}]
           /\ plan'[p] = None
           /\ \A q \in Operators : q # p =>
                /\ plan'[q] = None <=> plan[q] = None
                /\ plan[q] # None => /\ plan'[q].changes = plan[q].changes
                                     /\ plan'[q].toggles = plan[q].toggles
<1>1. ASSUME NEW q \in Operators, plan[q] \in SavedPlan
      PROVE  LET s == [plan[q] EXCEPT !.stale = TRUE]
             IN  s \in SavedPlan /\ s.changes = plan[q].changes /\ s.toggles = plan[q].toggles
  BY <1>1 DEF SavedPlan
<1>2. \A q \in Operators : plan[q] \in SavedPlan \cup {None}
  BY DEF TypeOK
<1>3. None \notin SavedPlan
  BY InfraAssumption
<1> QED
  BY <1>1, <1>2, <1>3 DEF OthersStale

-----------------------------------------------------------------------------
LEMMA InitInfra == Init => InfraInv
<1>1. ASSUME Init PROVE TypeOK
  <2>1. appeared \in [Operators -> BOOLEAN]
    BY <1>1, Zenon DEF Init
  <2> QED
    BY <1>1, <2>1 DEF Init, TypeOK, Declared
<1>2. ASSUME Init PROVE (\A p \in Operators : Checked(p) /\ Planned(p)) /\ TypedIsPlanned
  BY <1>2 DEF Init, Checked, Planned, TypedIsPlanned
<1> QED
  BY <1>1, <1>2 DEF Init, InfraInv, NothingBillsUnknown

\* What an apply of gated changes does: both sets lose and gain the same.
LEMMA ApplyKeeps ==
    ASSUME NEW changes, NEW allow, NEW made \in SUBSET Resources,
           NEW halfway \in SUBSET Resources,
           state \subseteq Resources, cloud \subseteq state,
           PlanSafe(changes, allow), Apply(changes, made, halfway)
    PROVE  /\ state' \subseteq Resources /\ cloud' \subseteq state'
           /\ \A r \in cloud \ cloud' : Confirmed(allow) /\ "delete" \in changes[r]
<1> DEFINE deleted == {r \in made : "delete" \in changes[r]
                                    /\ ("create" \notin changes[r] \/ r \in halfway)}
           created == {r \in made : "create" \in changes[r]} \ halfway
           forgotten == {r \in made : "forget" \in changes[r]}
<1>1. cloud' = (cloud \ deleted) \cup created
  BY DEF Apply
<1>2. state' = ((state \ deleted) \cup created) \ forgotten
  BY DEF Apply
<1>3. forgotten = {}
  BY DEF PlanSafe
<1>4. created \subseteq Resources
  OBVIOUS
<1>5. \A r \in deleted : Confirmed(allow) /\ "delete" \in changes[r]
  BY DEF PlanSafe
<1> HIDE DEF deleted, created, forgotten
<1> QED
  BY <1>1, <1>2, <1>3, <1>4, <1>5

LEMMA OneStart ==
    ASSUME NEW p \in Operators, NEW c \in Commands, InfraInv, Start(p, c)
    PROVE  InfraInv'
<1>1. c \in Command /\ c # None /\ ~Refused(c)
  BY InfraAssumption DEF Start
<1>2. TypeOK'
  BY <1>1 DEF Start, External, InfraInv, TypeOK
<1>3. Checked(p)'
  <2>1. c.cmd \in {"apply", "destroy", "migrate-state"} => Confirmed(c.confirm)
    BY <1>1 DEF Refused
  <2>2. c.cmd = "apply" => EnvTfVars(c.env) = {} /\ tfvars = None
    BY <1>1 DEF Refused
  <2>3. c.cmd = "apply" => c.vars.items \subseteq Optional
    BY <1>1, ItemsAreToggles
  <2>4. job'[p] = c /\ tfvars' = tfvars
    BY DEF Start, External, InfraInv, TypeOK
  <2> QED
    BY <2>1, <2>2, <2>3, <2>4 DEF Checked, Confirmed, EnvTfVars
<1>4. Planned(p)'
  BY <1>1 DEF Start, InfraInv, TypeOK, Planned
<1>5. ASSUME NEW q \in Operators, q # p PROVE Checked(q)' /\ Planned(q)'
  BY <1>5 DEF Start, External, InfraInv, TypeOK, Checked, Planned, Confirmed, EnvTfVars, PlanSafe
<1>6. NothingBillsUnknown'
  BY DEF Start, InfraInv, NothingBillsUnknown
<1>7. TypedIsPlanned'
  BY DEF Start, InfraInv, TypeOK, Planned, TypedIsPlanned
<1> QED
  BY <1>2, <1>3, <1>4, <1>5, <1>6, <1>7 DEF InfraInv

\* An ended command leaves nothing behind, and the others as they are.
LEMMA OneEnd ==
    ASSUME NEW p \in Operators, InfraInv, Ended(p),
           plan' \in [Operators -> SavedPlan \cup {None}], plan'[p] = None,
           \A q \in Operators : q # p =>
                /\ plan'[q] = None <=> plan[q] = None
                /\ plan[q] # None => /\ plan'[q].changes = plan[q].changes
                                     /\ plan'[q].toggles = plan[q].toggles,
           UNCHANGED <<External, appeared>>,
           state' \subseteq Resources, cloud' \subseteq state', backend' \in {"local", "gcs"}
    PROVE  InfraInv'
<1>1. TypeOK'
  BY DEF Ended, External, InfraInv, TypeOK
<1>2. job'[p] = None /\ phase'[p] = "idle"
  BY DEF Ended, InfraInv, TypeOK
<1>3. Checked(p)' /\ Planned(p)'
  BY <1>2 DEF Checked, Planned
<1>4. ASSUME NEW q \in Operators, q # p PROVE Checked(q)' /\ Planned(q)'
  <2>1. job'[q] = job[q] /\ phase'[q] = phase[q] /\ appeared'[q] = appeared[q]
        /\ tfvars' = tfvars
    BY <1>4 DEF Ended, External, InfraInv, TypeOK
  <2>2. Checked(q)'
    BY <2>1 DEF InfraInv, Checked, Confirmed, EnvTfVars
  <2>3. Planned(q)'
    BY <1>4, <2>1 DEF InfraInv, Planned, PlanSafe, Confirmed
  <2> QED
    BY <2>2, <2>3
<1>5. NothingBillsUnknown'
  BY DEF NothingBillsUnknown
<1>6. ASSUME NEW q \in Operators, plan'[q] # None
      PROVE  appeared'[q] \/ plan'[q].toggles = job'[q].vars.items
  <2>1. q # p /\ job'[q] = job[q] /\ appeared'[q] = appeared[q]
    BY <1>6 DEF Ended, InfraInv, TypeOK
  <2> QED
    BY <1>6, <2>1 DEF InfraInv, TypedIsPlanned
<1> QED
  BY <1>1, <1>3, <1>4, <1>5, <1>6 DEF InfraInv, TypedIsPlanned

LEMMA OnePlanOut ==
    ASSUME NEW p \in Operators, InfraInv, PlanOut(p)
    PROVE  InfraInv'
<1> DEFINE made == [changes |-> Changes(Toggles(job[p])),
                    toggles |-> Toggles(job[p]), stale |-> FALSE]
<1>1. job[p] # None /\ job[p].cmd = "apply"
  BY DEF PlanOut, InfraInv, Planned
<1>2. made \in SavedPlan /\ made # None
  <2>1. Toggles(job[p]) \subseteq Optional
    BY <1>1, TogglesTyped
  <2>2. Changes(Toggles(job[p])) \in [Resources -> SUBSET Verbs]
    BY ChangesType DEF InfraInv
  <2>3. made \in SavedPlan
    BY <2>1, <2>2 DEF SavedPlan
  <2> QED
    BY <2>3, InfraAssumption
<1>3. made.toggles = Toggles(job[p])
  OBVIOUS
<1> HIDE DEF made
<1>4. plan' = [plan EXCEPT ![p] = made] /\ phase' = [phase EXCEPT ![p] = "planned"]
      /\ UNCHANGED <<External, cloud, state, backend, job, appeared>>
  BY DEF PlanOut, made
<1>5. TypeOK'
  BY <1>2, <1>4 DEF External, InfraInv, TypeOK
<1>6. \A q \in Operators : Checked(q)'
  BY <1>4 DEF External, InfraInv, Checked, Confirmed, EnvTfVars
<1>7. Planned(p)'
  BY <1>1, <1>2, <1>4 DEF InfraInv, TypeOK, Planned
<1>8. ASSUME NEW q \in Operators, q # p PROVE Planned(q)'
  BY <1>4, <1>8 DEF InfraInv, TypeOK, Planned, PlanSafe, Confirmed
<1>9. TypedIsPlanned'
  <2>1. appeared[p] \/ made.toggles = job[p].vars.items
    BY <1>1, <1>3, TogglesTyped
  <2> QED
    BY <1>4, <2>1 DEF InfraInv, TypeOK, TypedIsPlanned
<1>10. NothingBillsUnknown'
  BY <1>4 DEF InfraInv, NothingBillsUnknown
<1> QED
  BY <1>5, <1>6, <1>7, <1>8, <1>9, <1>10 DEF InfraInv

LEMMA OneGate ==
    ASSUME NEW p \in Operators, InfraInv, Gate(p)
    PROVE  InfraInv'
<1>1. phase' = [phase EXCEPT ![p] = "gated"]
      /\ UNCHANGED <<External, cloud, state, backend, job, plan, appeared>>
  BY DEF Gate
<1>2. TypeOK'
  BY <1>1 DEF External, InfraInv, TypeOK
<1>3. \A q \in Operators : Checked(q)'
  BY <1>1 DEF External, InfraInv, Checked, Confirmed, EnvTfVars
<1>4. ASSUME NEW q \in Operators PROVE Planned(q)'
  BY <1>1 DEF Gate, InfraInv, TypeOK, Planned, PlanSafe, Confirmed
<1>5. NothingBillsUnknown' /\ TypedIsPlanned'
  BY <1>1 DEF InfraInv, NothingBillsUnknown, TypedIsPlanned
<1> QED
  BY <1>2, <1>3, <1>4, <1>5 DEF InfraInv

LEMMA OneAuthor ==
    ASSUME InfraInv, Author
    PROVE  InfraInv'
<1>1. CASE \E r \in Resources, text \in Declared \cup {Gone} : text \in Texts[r] /\ Edit(r, text)
  <2>1. TypeOK'
    BY <1>1 DEF Edit, InfraInv, TypeOK
  <2>2. UNCHANGED <<tfvars, cloud, state, backend, job, phase, plan, appeared>>
    BY <1>1 DEF Edit
  <2> QED
    BY <2>1, <2>2 DEF InfraInv, Checked, Planned, PlanSafe, Confirmed, EnvTfVars,
                      NothingBillsUnknown, TypedIsPlanned
<1>2. CASE \E toggles \in (SUBSET Optional) \cup {None} : WriteTfvars(toggles)
  <2>1. PICK toggles \in (SUBSET Optional) \cup {None} : WriteTfvars(toggles)
    BY <1>2
  <2>2. /\ tfvars' = toggles
        /\ appeared' = [p \in Operators |-> appeared[p] \/ (job[p] # None /\ toggles # None)]
        /\ UNCHANGED <<tree, cloud, state, backend, job, phase, plan>>
    BY <2>1 DEF WriteTfvars
  <2>3. appeared' \in [Operators -> BOOLEAN]
    BY <2>2, Zenon
  <2>4. TypeOK'
    BY <2>2, <2>3 DEF InfraInv, TypeOK
  <2>5. \A q \in Operators : appeared[q] => appeared'[q]
    BY <2>2
  <2>6. \A q \in Operators : job[q] # None => appeared'[q] \/ tfvars' = None
    BY <2>2
  <2>7. ASSUME NEW q \in Operators PROVE Checked(q)'
    BY <2>2, <2>6 DEF InfraInv, Checked, Confirmed, EnvTfVars
  <2>8. \A q \in Operators : Planned(q)'
    BY <2>2 DEF InfraInv, Planned, PlanSafe, Confirmed
  <2>9. NothingBillsUnknown' /\ TypedIsPlanned'
    BY <2>2, <2>5 DEF InfraInv, NothingBillsUnknown, TypedIsPlanned
  <2> QED
    BY <2>4, <2>7, <2>8, <2>9 DEF InfraInv
<1> QED
  BY <1>1, <1>2 DEF Author

\* An apply is of the plan that the gate saw.
LEMMA ApplyOfGated ==
    ASSUME NEW p \in Operators, InfraInv, ApplyPlan(p)
    PROVE  /\ state' \subseteq Resources /\ cloud' \subseteq state'
           /\ \A r \in cloud \ cloud' : AskedFor(p, r)
<1>1. PlanSafe(plan[p].changes, job[p].allow) /\ plan[p] # None
      /\ job[p] # None /\ job[p].cmd = "apply" /\ Confirmed(job[p].confirm)
  BY DEF ApplyPlan, InfraInv, Planned, Checked
<1>2. PICK made, halfway \in SUBSET Resources : Apply(plan[p].changes, made, halfway)
  BY DEF ApplyPlan
<1>3. state \subseteq Resources /\ cloud \subseteq state
  BY DEF InfraInv, TypeOK, NothingBillsUnknown
<1> QED
  BY <1>1, <1>2, <1>3, ApplyKeeps DEF AskedFor

LEMMA OneWork ==
    ASSUME NEW p \in Operators, InfraInv, Work(p)
    PROVE  InfraInv'
<1>0. state \subseteq Resources /\ cloud \subseteq state /\ backend \in {"local", "gcs"}
      /\ plan \in [Operators -> SavedPlan \cup {None}]
  BY DEF InfraInv, TypeOK, NothingBillsUnknown
<1>1. CASE \E c \in Commands : Start(p, c)
  BY <1>1, OneStart
<1>2. CASE EndUnchanged(p)
  BY <1>0, <1>2, OneEnd DEF EndUnchanged, EndedWithoutPlan
<1>3. CASE PlanOut(p)
  BY <1>3, OnePlanOut
<1>4. CASE Gate(p)
  BY <1>4, OneGate
<1>5. CASE ApplyPlan(p)
  <2>1. OthersStale(p) /\ Ended(p) /\ UNCHANGED <<External, backend, appeared>>
    BY <1>5 DEF ApplyPlan
  <2> QED
    BY <1>0, <1>5, <2>1, ApplyOfGated, PlansKeep, OneEnd DEF InfraInv
<1>6. CASE Destroy(p)
  <2>1. OthersStale(p) /\ Ended(p) /\ UNCHANGED <<External, backend, appeared>>
    BY <1>6 DEF Destroy
  <2>2. state' \subseteq Resources /\ cloud' \subseteq state'
    BY <1>0, <1>6 DEF Destroy
  <2> QED
    BY <1>0, <2>1, <2>2, PlansKeep, OneEnd DEF InfraInv
<1>7. CASE MigrateState(p)
  BY <1>0, <1>7, OneEnd DEF MigrateState, EndedWithoutPlan
<1> QED
  BY <1>1, <1>2, <1>3, <1>4, <1>5, <1>6, <1>7 DEF Work

LEMMA NextInfra ==
    ASSUME InfraInv, [Next]_vars PROVE InfraInv'
<1>1. CASE Author
  BY <1>1, OneAuthor
<1>2. CASE \E p \in Operators : Work(p)
  BY <1>2, OneWork
<1>3. CASE UNCHANGED vars
  BY <1>3 DEF vars, InfraInv, TypeOK, Checked, Planned, PlanSafe, Confirmed, EnvTfVars,
              NothingBillsUnknown, TypedIsPlanned
<1> QED
  BY <1>1, <1>2, <1>3 DEF Next

LEMMA StepLoses ==
    ASSUME InfraInv, [Next]_vars, NEW r \in cloud \ cloud'
    PROVE  \E p \in Operators : job'[p] # job[p] /\ AskedFor(p, r)
<1>1. CASE Author
  BY <1>1 DEF Author, Edit, WriteTfvars
<1>2. ASSUME NEW p \in Operators, Work(p)
      PROVE  job'[p] # job[p] /\ AskedFor(p, r)
  <2>1. CASE ApplyPlan(p)
    <3>1. AskedFor(p, r)
      BY <2>1, ApplyOfGated
    <3> QED
      BY <2>1, <3>1 DEF ApplyPlan, Ended, AskedFor, InfraInv, TypeOK
  <2>2. CASE Destroy(p)
    <3>1. job[p] # None /\ job[p].cmd = "destroy" /\ Confirmed(job[p].confirm)
      BY <2>2 DEF Destroy, InfraInv, Planned, Checked
    <3> QED
      BY <2>2, <3>1 DEF Destroy, Ended, AskedFor, InfraInv, TypeOK
  <2>3. CASE \/ \E c \in Commands : Start(p, c)
             \/ EndUnchanged(p) \/ PlanOut(p) \/ Gate(p) \/ MigrateState(p)
    BY <2>3 DEF Start, EndUnchanged, PlanOut, Gate, MigrateState
  <2> QED
    BY <1>2, <2>1, <2>2, <2>3 DEF Work
<1>3. CASE UNCHANGED vars
  BY <1>3 DEF vars
<1> QED
  BY <1>1, <1>2, <1>3 DEF Next

-----------------------------------------------------------------------------
THEOREM InfraInvariant == Spec => []InfraInv
BY InitInfra, NextInfra, PTL DEF Spec

\* Every variable of the commands keeps its type.
THEOREM InfraTyped == Spec => []TypeOK
<1>1. InfraInv => TypeOK
  BY DEF InfraInv
<1> QED
  BY <1>1, InfraInvariant, PTL

\* Nothing is ever billed that Terraform's state has forgotten.
THEOREM InfraNothingBillsUnknown == Spec => []NothingBillsUnknown
<1>1. InfraInv => NothingBillsUnknown
  BY DEF InfraInv
<1> QED
  BY <1>1, InfraInvariant, PTL

\* A saved plan turns on what its own command line typed.
THEOREM InfraTypedIsPlanned == Spec => []TypedIsPlanned
<1>1. InfraInv => TypedIsPlanned
  BY DEF InfraInv
<1> QED
  BY <1>1, InfraInvariant, PTL

\* No plan file outlives its command.
THEOREM InfraPlanFileRemoved == Spec => []PlanFileRemoved
<1>1. InfraInv => PlanFileRemoved
  BY DEF InfraInv, Planned, PlanFileRemoved
<1> QED
  BY <1>1, InfraInvariant, PTL

\* No resource is lost to a command that did not ask for it.
THEOREM InfraLostOnlyIfAsked == Spec => LostOnlyIfAsked
<1>1. InfraInv /\ [Next]_vars =>
        [\A r \in cloud \ cloud' :
            \E p \in Operators : job'[p] # job[p] /\ AskedFor(p, r)]_vars
  BY StepLoses
<1> QED
  BY <1>1, InfraInvariant, PTL DEF Spec, LostOnlyIfAsked
=============================================================================

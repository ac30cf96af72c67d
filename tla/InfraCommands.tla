---------------------------- MODULE InfraCommands ----------------------------
(***************************************************************************)
(* infra/cli.py: what stands between a typed `make tf-...` and Terraform.  *)
(*                                                                         *)
(* Several operators run commands at a time, each a sequence of terraform  *)
(* children, while the author of the tree edits it and files that          *)
(* Terraform loads unasked come and go.  Terraform and the cloud are       *)
(* external: each file of the tree declares one resource, the optional     *)
(* ones behind a variable of their name; a child may fail at any point, a  *)
(* failed apply may have applied a part; a saved plan is refused once the  *)
(* state has changed since it was made.                                    *)
(***************************************************************************)
EXTENDS FiniteSets

CONSTANTS
    Operators,
    Resources,     \* of the tree: one pinned file each
    Optional,      \* the resources behind a toggle
    Texts,         \* what may become of a file: [Resources -> SUBSET (Declared \cup {Gone})]
    BadItems,      \* VARS items that are not name=value
    ProjectItem,   \* the VARS item project_id=...
    Commands,      \* what may be typed
    Names,         \* environment variables
    VendorNames, EmulatorNames, PrefixlessNames, RedirectionNames,
    CloudEnvAllow, \* CLOUD_ENV_ALLOW
    EnvAllow,      \* ENV_ALLOW
    TfVarNames,    \* TF_VAR_*: [name -> the toggle it would set]
    None

Gone == "gone"
Declared == {"as_is", "replaced", "forgotten"}
Verbs == {"no-op", "create", "delete", "forget"}

Flag == [value : {"yes", ""}, origin : {"command line", "environment", "undefined"}]
Command ==
    [cmd : {"validate", "plan", "apply", "destroy", "migrate-state"},
     project : BOOLEAN,    \* is it a project id?
     confirm : Flag, allow : Flag,
     vars : [items : SUBSET (Optional \cup BadItems \cup {ProjectItem}),
             origin : {"command line", "environment", "undefined"}],
     env : SUBSET Names]

SavedPlan == [changes : [Resources -> SUBSET Verbs], toggles : SUBSET Optional,
              stale : BOOLEAN]

ASSUME InfraAssumption ==
    /\ Optional \subseteq Resources
    /\ Texts \in [Resources -> SUBSET (Declared \cup {Gone})]
    /\ Commands \subseteq Command
    /\ None \notin Command \cup SavedPlan
    /\ Optional \cap (BadItems \cup {ProjectItem}) = {}
    /\ TfVarNames \in [DOMAIN TfVarNames -> Optional]

VARIABLES
    tree,      \* the working tree: [Resources -> Declared \cup {Gone}]
    tfvars,    \* toggles set by an auto-loaded file, or None
    cloud,     \* what exists, and is billed
    state,     \* what Terraform's state knows
    backend,   \* where that state is kept
    job,       \* the command an operator runs, or None
    phase,     \* how far it has come
    plan,      \* its plan file: None, or a SavedPlan
    appeared   \* history: tfvars were written since the command's check

vars == <<tree, tfvars, cloud, state, backend, job, phase, plan, appeared>>

-----------------------------------------------------------------------------
(* The refusals *)

Confirmed(flag) == flag.origin = "command line" /\ flag.value = "yes"

InCloudNamespace(name) ==
    name \in VendorNames \cup EmulatorNames \cup PrefixlessNames \cup RedirectionNames
UnlistedCloudEnv(env) == {n \in env : InCloudNamespace(n) /\ n \notin CloudEnvAllow}

TfEnv(env) == env \cap EnvAllow
EnvTfVars(env) == env \cap DOMAIN TfVarNames

VarsRefusedByOrigin(c) ==
    c.vars.items # {} /\ c.vars.origin # "command line"
VarsRefused(c) ==
    /\ c.vars.items # {}
    /\ \/ c.vars.origin # "command line"
       \/ c.vars.items \cap (BadItems \cup {ProjectItem}) # {}

RefusedWhateverAutoLoads(c) ==
    \/ c.cmd \in {"apply", "destroy", "migrate-state"} /\ ~Confirmed(c.confirm)
    \/ EnvTfVars(c.env) # {}
    \/ /\ c.cmd # "validate"
       /\ \/ ~c.project
          \/ UnlistedCloudEnv(c.env) # {}
          \/ c.cmd # "migrate-state" /\ VarsRefused(c)
Refused(c) ==
    \/ c.cmd \in {"apply", "destroy", "migrate-state"} /\ ~Confirmed(c.confirm)
    \/ EnvTfVars(c.env) # {}
    \/ /\ c.cmd # "validate"
       /\ \/ ~c.project
          \/ tfvars # None
          \/ UnlistedCloudEnv(c.env) # {}
          \/ c.cmd # "migrate-state" /\ VarsRefused(c)

\* The gate between show and apply.
PlanSafeAnyVerb(changes, allow) ==
    Confirmed(allow) \/ \A r \in Resources : "delete" \notin changes[r]
PlanSafe(changes, allow) ==
    /\ \A r \in Resources : changes[r] \subseteq {"no-op", "create", "delete"}
    /\ Confirmed(allow) \/ \A r \in Resources : "delete" \notin changes[r]

-----------------------------------------------------------------------------
(* Terraform *)

\* What a child reads: its argv, its environment, and what auto-loads.
Toggles(c) ==
    c.vars.items \cup {TfVarNames[n] : n \in EnvTfVars(TfEnv(c.env))}
        \cup (IF tfvars = None THEN {} ELSE tfvars)

Wanted(toggles) == {r \in Resources : tree[r] # Gone /\ (r \in Optional => r \in toggles)}

Changes(toggles) ==
    [r \in Resources |->
        IF r \in Wanted(toggles)
        THEN CASE tree[r] = "forgotten" -> IF r \in state THEN {"forget"} ELSE {"no-op"}
               [] r \notin state -> {"create"}
               [] tree[r] = "replaced" -> {"delete", "create"}
               [] OTHER -> {"no-op"}
        ELSE IF r \in state THEN {"delete"} ELSE {"no-op"}]

\* All of the changes are made (stopped = {}), or those of `made`; a
\* replacement may stop halfway.
Apply(changes, made, halfway) ==
    LET deleted == {r \in made : "delete" \in changes[r]
                                 /\ ("create" \notin changes[r] \/ r \in halfway)}
        created == {r \in made : "create" \in changes[r]} \ halfway
        forgotten == {r \in made : "forget" \in changes[r]}
    IN  /\ cloud' = (cloud \ deleted) \cup created
        /\ state' = ((state \ deleted) \cup created) \ forgotten

-----------------------------------------------------------------------------
(* The commands *)

Init ==
    /\ tree = [r \in Resources |-> "as_is"]
    /\ tfvars = None /\ cloud = {} /\ state = {} /\ backend = "local"
    /\ job = [p \in Operators |-> None]
    /\ phase = [p \in Operators |-> "idle"]
    /\ plan = [p \in Operators |-> None]
    /\ appeared = [p \in Operators |-> FALSE]

External == <<tree, tfvars>>

Start(p, c) ==
    /\ job[p] = None /\ ~Refused(c)
    /\ job' = [job EXCEPT ![p] = c]
    /\ phase' = [phase EXCEPT ![p] = "checked"]
    /\ appeared' = [appeared EXCEPT ![p] = FALSE]
    /\ UNCHANGED <<External, cloud, state, backend, plan>>

Ended(p) ==
    /\ job' = [job EXCEPT ![p] = None]
    /\ phase' = [phase EXCEPT ![p] = "idle"]

EndedWithoutPlan(p) ==
    Ended(p) /\ plan' = [plan EXCEPT ![p] = None]

\* A child that changes nothing: validate, plan, and any that fails or is
\* not on PATH, which ends the command; so does a gate that refuses.
EndUnchanged(p) ==
    /\ job[p] # None
    /\ EndedWithoutPlan(p)
    /\ UNCHANGED <<External, cloud, state, backend, appeared>>

\* terraform plan -out=...
PlanOut(p) ==
    /\ phase[p] = "checked" /\ job[p].cmd = "apply"
    /\ plan' = [plan EXCEPT ![p] = [changes |-> Changes(Toggles(job[p])),
                                    toggles |-> Toggles(job[p]), stale |-> FALSE]]
    /\ phase' = [phase EXCEPT ![p] = "planned"]
    /\ UNCHANGED <<External, cloud, state, backend, job, appeared>>

\* terraform show -json read back, and the gate passed.  What cannot be read
\* is refused: EndUnchanged.
Gate(p) ==
    /\ phase[p] = "planned"
    /\ PlanSafe(plan[p].changes, job[p].allow)
    /\ phase' = [phase EXCEPT ![p] = "gated"]
    /\ UNCHANGED <<External, cloud, state, backend, job, plan, appeared>>

\* The plans saved before the state changed can no longer be applied.
OthersStale(p) ==
    plan' = [q \in Operators |->
                IF q = p THEN None
                ELSE IF plan[q] = None \/ state' = state THEN plan[q]
                ELSE [plan[q] EXCEPT !.stale = TRUE]]

ApplyReplanned(p) ==
    /\ phase[p] = "gated"
    /\ \E made, halfway \in SUBSET Resources :
           Apply(Changes(Toggles(job[p])), made, halfway)
    /\ OthersStale(p) /\ Ended(p)
    /\ UNCHANGED <<External, backend, appeared>>
\* terraform apply <planfile>; a failure may have made some of the changes.
ApplyPlan(p) ==
    /\ phase[p] = "gated" /\ ~plan[p].stale
    /\ \E made, halfway \in SUBSET Resources : Apply(plan[p].changes, made, halfway)
    /\ OthersStale(p) /\ Ended(p)
    /\ UNCHANGED <<External, backend, appeared>>

\* terraform destroy -auto-approve
Destroy(p) ==
    /\ phase[p] = "checked" /\ job[p].cmd = "destroy"
    /\ \E lost \in SUBSET state : cloud' = cloud \ lost /\ state' = state \ lost
    /\ OthersStale(p) /\ Ended(p)
    /\ UNCHANGED <<External, backend, appeared>>

\* terraform init -migrate-state -force-copy
MigrateState(p) ==
    /\ phase[p] = "checked" /\ job[p].cmd = "migrate-state"
    /\ backend' = "gcs"
    /\ EndedWithoutPlan(p)
    /\ UNCHANGED <<External, cloud, state, appeared>>

-----------------------------------------------------------------------------
(* The working tree *)

Edit(r, text) ==
    /\ tree' = [tree EXCEPT ![r] = text]
    /\ UNCHANGED <<tfvars, cloud, state, backend, job, phase, plan, appeared>>

WriteTfvars(toggles) ==
    /\ tfvars' = toggles
    /\ appeared' = [p \in Operators |-> appeared[p] \/ (job[p] # None /\ toggles # None)]
    /\ UNCHANGED <<tree, cloud, state, backend, job, phase, plan>>

Work(p) ==
    \/ \E c \in Commands : Start(p, c)
    \/ EndUnchanged(p) \/ PlanOut(p) \/ Gate(p) \/ ApplyPlan(p)
    \/ Destroy(p) \/ MigrateState(p)

Author ==
    \/ \E r \in Resources, text \in Declared \cup {Gone} : text \in Texts[r] /\ Edit(r, text)
    \/ \E toggles \in (SUBSET Optional) \cup {None} : WriteTfvars(toggles)

Next == Author \/ \E p \in Operators : Work(p)

Spec == Init /\ [][Next]_vars

-----------------------------------------------------------------------------
(* Properties *)

TypeOK ==
    /\ tree \in [Resources -> Declared \cup {Gone}]
    /\ tfvars \in (SUBSET Optional) \cup {None}
    /\ state \subseteq Resources /\ cloud \subseteq Resources
    /\ backend \in {"local", "gcs"}
    /\ job \in [Operators -> Command \cup {None}]
    /\ phase \in [Operators -> {"idle", "checked", "planned", "gated"}]
    /\ plan \in [Operators -> SavedPlan \cup {None}]
    /\ appeared \in [Operators -> BOOLEAN]

\* A resource is only lost to a command that said so on its command line: a
\* confirmed destroy, or a confirmed apply with ALLOW_DESTROY=yes whose own
\* gated plan deletes this resource; whatever the others apply and whatever is
\* edited between its plan and its apply (require_safe_plan and the saved plan
\* of _apply).
AskedFor(p, r) ==
    /\ job[p] # None /\ Confirmed(job[p].confirm)
    /\ \/ job[p].cmd = "destroy"
       \/ /\ job[p].cmd = "apply" /\ Confirmed(job[p].allow)
          /\ plan[p] # None /\ "delete" \in plan[p].changes[r]
LostOnlyIfAsked ==
    [][\A r \in cloud \ cloud' : \E p \in Operators : job'[p] # job[p] /\ AskedFor(p, r)]_vars

\* Nothing is billed that Terraform's state has forgotten, so that a destroy
\* always reaches everything, also after applies that failed halfway
\* (the verbs require_safe_plan refuses whatever is allowed).
NothingBillsUnknown == cloud \subseteq state

\* A saved plan turns on what its own command line typed and nothing else,
\* whatever is exported, and unless an auto-loaded file was written after the
\* check for one (parse_vars, tf_env and refuse_auto_tfvars).
TypedIsPlanned ==
    \A p \in Operators : plan[p] # None =>
        appeared[p] \/ plan[p].toggles = job[p].vars.items

\* The plan file, which holds the values of variables, outlives no command.
PlanFileRemoved == \A p \in Operators : job[p] = None => plan[p] = None
=============================================================================

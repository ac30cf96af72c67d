----------------------------- MODULE MutationSweep -----------------------------
(***************************************************************************)
(* make mutate: does the suite notice each line of a spec's mutations      *)
(* block?  A sweep runs the suite once unmutated, then once for each line, *)
(* each time in a new worktree of whatever HEAD names by then.             *)
(*                                                                         *)
(* The repository is shared.  While a sweep runs its suites, others commit *)
(* and check out (HEAD moves), run a sweep of their own, and add worktrees *)
(* by hand.  What a sweep notices of that is the listing of the worktrees, *)
(* which it compares with the first one: a line for the main tree with the *)
(* commit of HEAD and one for each worktree that git has registered.       *)
(* Mutations are numbers and commits are what the suite makes of them.     *)
(* The names are this module's own: its theorems stand beside others'.     *)
(***************************************************************************)
EXTENDS Naturals, FiniteSets

CONSTANTS
    Sweeps,   \* the runs of make mutate
    Commits,
    Lines,    \* the length of the mutations block
    Red,      \* the commits whose own suite is red
    Unfit,    \* <<commit, line>>: the line names nothing that can be mutated
    Caught,   \* <<commit, line>>: the suite of the mutated commit is red
    NoCommit, NoListing

\* Tree 0 of a sweep is that of the baseline, tree i that of line i; each is
\* under the sweep's own mkdtemp.
Trees == Sweeps \X (0..Lines)

ASSUME SweepAssumption ==
    /\ Lines \in Nat \ {0}
    /\ NoCommit \notin Commits
    /\ NoListing \notin [head : Commits, registered : [Trees -> Commits \cup {NoCommit}],
                         prunable : SUBSET Trees]

VARIABLES
    headCommit,  \* the commit of the main tree
    registered,  \* .git/worktrees: [Trees -> the commit, or NoCommit]
    onDisk,      \* the trees whose directory is there
    phase,       \* where each sweep is
    line,        \* i, the line it is at; 0 at the baseline
    before,      \* the listing it started from
    green,       \* whether its baseline was
    verdicts,     \* [Sweeps -> [1..Lines -> "", or the verdict printed]]
    registryChanged,
    placed,      \* history: the commit that each tree was made of
    returned     \* history: HEAD has come back since to where the sweep found it

repositoryVars == <<headCommit, registered, onDisk>>
sweepVars == <<repositoryVars, phase, line, before, green, verdicts, registryChanged,
               placed, returned>>

-----------------------------------------------------------------------------
(* git worktree *)

\* What `git worktree list` prints; a worktree without its directory is
\* marked as prunable.
Listing == [head |-> headCommit, registered |-> registered,
            prunable |-> {t \in Trees \ onDisk : registered[t] # NoCommit}]

\* `git worktree prune`: what is registered and has lost its directory.
Pruned == [t \in Trees |-> IF t \in onDisk THEN registered[t] ELSE NoCommit]

Dead == {s \in Sweeps : phase[s] = "killed"}
Over == {"idle", "refused", "OK", "FAIL", "killed"}

-----------------------------------------------------------------------------
SweepInit ==
    /\ headCommit \in Commits
    /\ registered = [t \in Trees |-> NoCommit] /\ onDisk = {}
    /\ phase = [s \in Sweeps |-> "idle"]
    /\ line = [s \in Sweeps |-> 0]
    /\ before = [s \in Sweeps |-> NoListing]
    /\ green = [s \in Sweeps |-> FALSE]
    /\ verdicts = [s \in Sweeps |-> [i \in 1..Lines |-> ""]]
    /\ registryChanged = [s \in Sweeps |-> FALSE]
    /\ placed = [t \in Trees |-> NoCommit]
    /\ returned = [s \in Sweeps |-> FALSE]

Goto(s, p) == phase' = [phase EXCEPT ![s] = p]
Judge(s, v) == verdicts' = [verdicts EXCEPT ![s][line[s]] = v]

\* resolve_spec and parse_mutations accept the spec and its block, or refuse.
Start(s) ==
    /\ phase[s] = "idle"
    /\ Goto(s, "prune first") \/ Goto(s, "refused")
    /\ UNCHANGED <<repositoryVars, line, before, green, verdicts, registryChanged,
                   placed, returned>>

PruneFirst(s) ==
    /\ phase[s] = "prune first"
    /\ registered' = Pruned
    /\ Goto(s, "list")
    /\ UNCHANGED <<headCommit, onDisk, line, before, green, verdicts, registryChanged,
                   placed, returned>>

List(s) ==
    /\ phase[s] = "list"
    /\ before' = [before EXCEPT ![s] = Listing]
    /\ Goto(s, "add")
    /\ UNCHANGED <<repositoryVars, line, green, verdicts, registryChanged,
                   placed, returned>>

\* `git worktree add --detach <tree> HEAD`, for the baseline and for a line.
Add(s) ==
    /\ phase[s] = "add"
    /\ LET tree == <<s, line[s]>>
       IN  /\ registered' = [registered EXCEPT ![tree] = headCommit]
           /\ onDisk' = onDisk \cup {tree}
           /\ placed' = [placed EXCEPT ![tree] = headCommit]
    /\ Goto(s, IF line[s] = 0 THEN "suite" ELSE "apply")
    /\ UNCHANGED <<headCommit, line, before, green, verdicts, registryChanged, returned>>

\* Without its tree the baseline counts as red and a line as an error.
AddFails(s) ==
    /\ phase[s] = "add"
    /\ IF line[s] = 0 THEN UNCHANGED verdicts ELSE Judge(s, "ERROR")
    /\ Goto(s, "remove")
    /\ UNCHANGED <<repositoryVars, line, before, green, registryChanged, placed, returned>>

Apply(s) ==
    /\ phase[s] = "apply"
    /\ IF <<registered[<<s, line[s]>>], line[s]>> \in Unfit
       THEN Judge(s, "ERROR") /\ Goto(s, "remove")
       ELSE Goto(s, "suite") /\ UNCHANGED verdicts
    /\ UNCHANGED <<repositoryVars, line, before, green, registryChanged, placed, returned>>

\* The suite of the commit in the tree.
RunBaseline(s) ==
    /\ phase[s] = "suite" /\ line[s] = 0
    /\ green' = [green EXCEPT ![s] = registered[<<s, 0>>] \notin Red]
    /\ Goto(s, "remove")
    /\ UNCHANGED <<repositoryVars, line, before, verdicts, registryChanged,
                   placed, returned>>
RunSuite(s) ==
    /\ phase[s] = "suite" /\ line[s] > 0
    /\ Judge(s, IF <<registered[<<s, line[s]>>], line[s]>> \in Caught
                THEN "KILLED" ELSE "SURVIVED")
    /\ Goto(s, "remove")
    /\ UNCHANGED <<repositoryVars, line, before, green, registryChanged, placed, returned>>

\* The finally: `git worktree remove --force`, whose result nobody reads.  It may
\* refuse, or leave the directory behind, or what is registered.
Remove(s) ==
    /\ phase[s] = "remove"
    /\ LET tree == <<s, line[s]>>
       IN  /\ registered' \in {registered, [registered EXCEPT ![tree] = NoCommit]}
           /\ onDisk' \in {onDisk, onDisk \ {tree}}
    /\ Goto(s, "prune")
    /\ UNCHANGED <<headCommit, line, before, green, verdicts, registryChanged,
                   placed, returned>>

\* A red baseline is a refusal.
Prune(s) ==
    /\ phase[s] = "prune"
    /\ registered' = Pruned
    /\ IF line[s] > 0 THEN Goto(s, "compare") /\ UNCHANGED line
       ELSE IF green[s] THEN Goto(s, "add") /\ line' = [line EXCEPT ![s] = 1]
       ELSE Goto(s, "refused") /\ UNCHANGED line
    /\ UNCHANGED <<headCommit, onDisk, before, green, verdicts, registryChanged,
                   placed, returned>>

Compare(s) ==
    /\ phase[s] = "compare"
    /\ registryChanged' = [registryChanged EXCEPT ![s] = @ \/ Listing # before[s]]
    /\ IF line[s] < Lines THEN Goto(s, "add") /\ line' = [line EXCEPT ![s] = @ + 1]
       ELSE Goto(s, "report") /\ UNCHANGED line
    /\ UNCHANGED <<repositoryVars, before, green, verdicts, placed, returned>>

ReportVerdicts(s) ==
    /\ phase[s] = "report"
    /\ Goto(s, IF \A i \in 1..Lines : verdicts[s][i] \notin {"SURVIVED", "ERROR"}
               THEN "OK" ELSE "FAIL")
    /\ UNCHANGED <<repositoryVars, line, before, green, verdicts, registryChanged,
                   placed, returned>>
Report(s) ==
    /\ phase[s] = "report"
    /\ Goto(s, IF /\ \A i \in 1..Lines : verdicts[s][i] \notin {"SURVIVED", "ERROR"}
                  /\ ~registryChanged[s]
               THEN "OK" ELSE "FAIL")
    /\ UNCHANGED <<repositoryVars, line, before, green, verdicts, registryChanged,
                   placed, returned>>

-----------------------------------------------------------------------------
(* The others *)

\* A commit, a checkout, an amend or a reset in the main tree.
MoveHead(c) ==
    /\ c # headCommit
    /\ headCommit' = c
    /\ returned' = [s \in Sweeps |->
           returned[s] \/ (phase[s] \notin Over /\ before[s] # NoListing /\ before[s].head = c)]
    /\ UNCHANGED <<registered, onDisk, phase, line, before, green, verdicts,
                   registryChanged, placed>>

\* SIGKILL: no finally is run.
Kill(s) ==
    /\ phase[s] \notin Over
    /\ Goto(s, "killed")
    /\ UNCHANGED <<repositoryVars, line, before, green, verdicts, registryChanged,
                   placed, returned>>

\* The temporary directories of the dead are cleaned up.
CleanTemp ==
    /\ \E t \in onDisk : t[1] \in Dead
    /\ onDisk' = {t \in onDisk : t[1] \notin Dead}
    /\ UNCHANGED <<headCommit, registered, phase, line, before, green, verdicts,
                   registryChanged, placed, returned>>

Step(s) ==
    \/ Start(s) \/ PruneFirst(s) \/ List(s)
    \/ Add(s) \/ AddFails(s) \/ Apply(s) \/ RunBaseline(s) \/ RunSuite(s)
    \/ Remove(s) \/ Prune(s) \/ Compare(s) \/ Report(s)
    \/ Kill(s)
SweepNext == (\E s \in Sweeps : Step(s)) \/ (\E c \in Commits : MoveHead(c)) \/ CleanTemp
SweepSpec == SweepInit /\ [][SweepNext]_sweepVars

-----------------------------------------------------------------------------
(* Properties *)

Listings == [head : Commits, registered : [Trees -> Commits \cup {NoCommit}],
             prunable : SUBSET Trees]
Phases == Over \cup {"prune first", "list", "add", "apply", "suite", "remove", "prune",
                     "compare", "report"}

\* The type of every variable of the sweeps and the repository (scripts/mutate.py).
SweepTypeOK ==
    /\ headCommit \in Commits
    /\ registered \in [Trees -> Commits \cup {NoCommit}] /\ onDisk \subseteq Trees
    /\ phase \in [Sweeps -> Phases] /\ line \in [Sweeps -> 0..Lines]
    /\ before \in [Sweeps -> Listings \cup {NoListing}]
    /\ green \in [Sweeps -> BOOLEAN]
    /\ verdicts \in [Sweeps -> [1..Lines -> {"", "KILLED", "SURVIVED", "ERROR"}]]
    /\ registryChanged \in [Sweeps -> BOOLEAN]
    /\ placed \in [Trees -> Commits \cup {NoCommit}]
    /\ returned \in [Sweeps -> BOOLEAN]

\* A sweep that says OK has shown that the suite notices every line of the
\* block: each was judged, on the one commit whose unmutated suite it saw green,
\* and was killed there.  The listing is what makes it so when HEAD moves: the
\* sweep misses that only if HEAD comes back in between.  And it has left no
\* worktree of its own registered, that of the baseline included, which is
\* compared with nothing when it is removed: the first listing was taken before
\* it (sweep and _baseline_is_green in scripts/mutate.py).
OkIsEarned ==
    \A s \in Sweeps : phase[s] = "OK" =>
        /\ \A i \in 1..Lines :
              /\ verdicts[s][i] = "KILLED" /\ <<placed[<<s, i>>], i>> \in Caught \ Unfit
              /\ returned[s] \/ (placed[<<s, i>>] = placed[<<s, 0>>] /\ placed[<<s, i>>] \notin Red)
        /\ \A i \in 0..Lines : registered[<<s, i>>] = NoCommit
=============================================================================

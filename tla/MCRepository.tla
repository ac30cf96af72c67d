----------------------------- MODULE MCRepository -----------------------------
(***************************************************************************)
(* One of the three modules at a time: as they have no state in common,    *)
(* any other behaviour of the repository shows each of them nothing new.   *)
(*                                                                         *)
(*   fixture  one golden, by one version of the code; one command killed   *)
(*   code     the same by two versions, without commits and edits of the   *)
(*            fixture                                                      *)
(*   commits  the same with commits and nothing killed                     *)
(*   sweep    one sweep of two lines while HEAD moves between a commit     *)
(*            whose mutations are caught, one whose suite is red anyhow    *)
(*            and one that has lost what the second line mutates           *)
(*   sweeps   beside it a second one, as far as its baseline; HEAD moves   *)
(*            between them only                                            *)
(*   blocks   two shells over a file with two blocks, the author's lines   *)
(*            between them and in the first one; what the author saves is  *)
(*            that again, over whatever is there                           *)
(***************************************************************************)
EXTENDS Repository, TLC

CONSTANTS c1, c2, part, attribution, s1, s2, good, red, blind, b1, b2, p, x, y, w1, w2

MCCaught == {good, red} \X (1..Lines)
MCUnfit == {<<blind, 2>>}

MCDrafts == {<<Begin(b1), p, x, End(b1), p, Begin(b2), x, End(b2)>>}

Alike == Permutations(Codes)

VARIABLE turn   \* which of them this behaviour is

MCInit ==
    /\ RepositoryInit
    /\ turn \in {"fixture", "code", "commits", "sweep", "sweeps", "blocks"}
    /\ turn # "sweep" => headCommit = good
    /\ turn \notin {"code", "commits"} => code = c1

Bounded ==
    /\ turn = "fixture" => code' = code
    /\ turn = "code" => head' = head
    /\ turn = "commits" => parts' = parts
    /\ fixture'[Seeded] = Edited => turn = "fixture"
\* A golden of a blend shows a blend, or what it ought to.
Shown ==
    tables = Blend => \A g \in Goldens :
        out'[g] \in {out[g], Absent, Cut, Blend, [of |-> InForce, by |-> code]}

Alone == phase'[s2] = "idle"
Overlapping ==
    /\ line'[s2] = 0
    /\ headCommit' # headCommit => \A s \in Sweeps : phase[s] \in Over

MCNext ==
    \/ /\ turn \in {"fixture", "code", "commits"}
       /\ Next /\ Bounded /\ Shown
       /\ UNCHANGED <<sweepVars, docVars, turn>>
    \/ turn = "sweep" /\ SweepNext /\ Alone /\ UNCHANGED <<vars, docVars, turn>>
    \/ turn = "sweeps" /\ SweepNext /\ Overlapping /\ UNCHANGED <<vars, docVars, turn>>
    \/ turn = "blocks" /\ BlocksNext /\ UNCHANGED <<vars, sweepVars, turn>>

MCSpec == MCInit /\ [][MCNext]_<<vars, sweepVars, docVars, turn>>
=============================================================================

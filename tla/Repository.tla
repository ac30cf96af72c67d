------------------------------ MODULE Repository ------------------------------
(***************************************************************************)
(* The commands that keep something in the repository itself, side by      *)
(* side: the fixture of a profile (Fixtures), the worktrees of the         *)
(* mutation sweep (MutationSweep) and the blocks of the results            *)
(* (MarkerBlocks).  They have no state in common, so that a step of one is *)
(* a stutter of the others.                                                *)
(***************************************************************************)
EXTENDS Fixtures, MutationSweep, MarkerBlocks

RepositoryInit == Init /\ SweepInit /\ BlocksInit

RepositoryNext ==
    \/ Next /\ UNCHANGED <<sweepVars, docVars>>
    \/ SweepNext /\ UNCHANGED <<vars, docVars>>
    \/ BlocksNext /\ UNCHANGED <<vars, sweepVars>>

RepositorySpec == RepositoryInit /\ [][RepositoryNext]_<<vars, sweepVars, docVars>>

\* Every variable of the three has its type (generator/cli.py and eval/cli.py,
\* scripts/mutate.py, eval/blocks.py).
RepositoryTypeOK == TypeOK /\ SweepTypeOK /\ BlocksTypeOK
=============================================================================

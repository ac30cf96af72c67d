------------------------------ MODULE MCPipeline ------------------------------
(***************************************************************************)
(* Two runs of the DAG and one of `make pipeline`, over two files of two   *)
(* dates: the second is exported while runs are under way.                 *)
(***************************************************************************)
EXTENDS Pipeline

CONSTANTS d1, d2, m1

MCDateOf == [f \in 1..2 |-> f]
=============================================================================

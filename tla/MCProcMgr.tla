------------------------------ MODULE MCProcMgr ------------------------------
(* ProcMgr with few processes and a low limit, so that the limit is reached. *)
EXTENDS ProcMgr, TLC

(* The processes are interchangeable: no property names one of them. *)
Symmetry == Permutations(Procs)
=============================================================================

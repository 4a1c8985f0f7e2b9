------------------------------ MODULE MCPriolist ------------------------------
(* A few pipes on a few priority levels, for TLC. *)
EXTENDS Priolist, TLC

PipeSymmetry == Permutations(Pipes)
=============================================================================

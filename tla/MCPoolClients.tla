--------------------------- MODULE MCPoolClients ---------------------------
(* An instance of PoolClients with the sizes of the structures on x86-64. *)
EXTENDS PoolClients

CONSTANTS a1, a2

Symmetry == Permutations(ArrayIds)
=============================================================================

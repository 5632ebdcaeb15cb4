------------------------------ MODULE MCPool ------------------------------
(* Instances of Pool with the sizes of the structures on x86-64. *)
EXTENDS Pool
=============================================================================

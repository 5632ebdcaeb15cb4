----------------------------- MODULE MCShPool -----------------------------
(* Instances of ShPool for TLC.                                              *)
EXTENDS ShPool

CONSTANTS p1, p2
=============================================================================

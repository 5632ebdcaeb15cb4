----------------------------- MODULE MCShMutex -----------------------------
(* Small instances of ShMutex: three processes that die and are replaced. *)
EXTENDS ShMutex

CONSTANTS p1, p2, p3

ThreeProcs == {p1, p2, p3}
=============================================================================

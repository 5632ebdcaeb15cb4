------------------------------- MODULE Mutex -------------------------------
(***************************************************************************)
(* What the shared mutex of hcore_shmtx.h promises to the processes that   *)
(* share it, whatever the lock loop does inside: one owner at a time, only *)
(* the owner gives the mutex up while it lives, and the mutex of a process *)
(* that died is taken away from it before a new process can bear its pid.  *)
(***************************************************************************)
CONSTANTS Procs,     \* the process ids that may use the mutex
          NoOwner    \* the owner of a free mutex, not a process

VARIABLES owner,     \* the process that holds the mutex, or NoOwner
          alive      \* the processes that run

vars == <<owner, alive>>

Init == owner = NoOwner /\ alive = Procs

Acquire(p) == p \in alive /\ owner = NoOwner /\ owner' = p /\ UNCHANGED alive

Release(p) == p \in alive /\ owner = p /\ owner' = NoOwner /\ UNCHANGED alive

Die(p) == p \in alive /\ alive' = alive \ {p} /\ UNCHANGED owner

Revoke(p) == p \notin alive /\ owner = p /\ owner' = NoOwner /\ UNCHANGED alive

\* The pid of a dead process is borne again only when it owns nothing.
Replace(p) == p \notin alive /\ owner # p /\ alive' = alive \union {p} /\ UNCHANGED owner

Next == \E p \in Procs :
          Acquire(p) \/ Release(p) \/ Die(p) \/ Revoke(p) \/ Replace(p)

Spec == Init /\ [][Next]_vars
=============================================================================

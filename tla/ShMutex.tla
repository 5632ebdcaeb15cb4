------------------------------ MODULE ShMutex ------------------------------
(***************************************************************************)
(* The spinning mutex of src/src/hcore_shmtx.c.  Its lock word lies in     *)
(* shared memory and holds the pid of the owner, or 0.  A process reads    *)
(* the word first and tries the compare-and-set only when it read 0, so    *)
(* the read and the compare-and-set are two steps between which any other  *)
(* process may run, die, or be cleaned up after.                           *)
(*                                                                         *)
(* A supervisor (the parent of src/tests/11_test_shmtx.cpp) calls          *)
(* hcore_shmtx_force_unlock with the pid of a child that died, and reaps   *)
(* the child with waitpid only then; a pid can be given to a new process   *)
(* once it has been reaped.                                                *)
(***************************************************************************)
EXTENDS Integers

CONSTANTS Procs,         \* the pids of the processes that share the mutex
          MaxUint,       \* the largest hcore_uint_t
          DefaultSpin,   \* 1 << 11 in the code, scaled down with MaxUint
          GivenSpin      \* the spin field before hcore_shmtx_init

ASSUME ProcsAssumption == 0 \notin Procs
ASSUME SpinAssumption ==
  /\ MaxUint \in Nat \ {0}
  /\ DefaultSpin \in 1 .. MaxUint
  /\ GivenSpin \in 0 .. MaxUint

VARIABLES lock,    \* *mtx->lock: 0 or a pid
          pc,      \* where each process is
          n,       \* the local spin counter of hcore_shmtx_lock
          holds    \* the live processes whose last acquisition was not undone

vars == <<lock, pc, n, holds>>

Free == 0

\* The attempt that precedes the for loop: n has no value yet.
FirstTry == -1

\* hcore_shmtx_init keeps a spin of (hcore_uint_t)-1 and replaces any other.
Spin == IF GivenSpin = MaxUint THEN MaxUint ELSE DefaultSpin

\* Mutant: n is not set before the loop.
NextSpinUnset(k) == (2 * k)

\* n = 1 on entry to the for loop, then n <<= 1 in the width of hcore_uint_t.
NextSpin(k) == IF k = FirstTry THEN 1 ELSE (2 * k) % (MaxUint + 1)

Locking  == {"read", "cas", "yield"}
Trying   == {"tryread", "trycas"}
Dead     == {"zombie", "unlocked", "gone"}
Waiting(p) == pc[p] \in Locking
Alive    == {p \in Procs : pc[p] \notin Dead}

Goto(p, from, to) == pc[p] = from /\ pc' = [pc EXCEPT ![p] = to]

Init ==
  /\ lock = Free
  /\ pc = [p \in Procs |-> "idle"]
  /\ n = [p \in Procs |-> FirstTry]
  /\ holds = {}
-----------------------------------------------------------------------------
(* hcore_shmtx_lock *)

\* A caller that holds the mutex does not lock it again: it would spin on
\* its own pid for ever.
CallLock(p) ==
  /\ p \notin holds
  /\ Goto(p, "idle", "read")
  /\ UNCHANGED <<lock, n, holds>>

\* A failed attempt: the next length of the for loop, or the way out of it.
\* The pauses between two attempts touch no state.
Retry(p) ==
  LET k == NextSpin(n[p]) IN
  /\ n' = [n EXCEPT ![p] = IF k < Spin THEN k ELSE FirstTry]
  /\ pc' = [pc EXCEPT ![p] = IF k < Spin THEN "read" ELSE "yield"]
  /\ UNCHANGED <<lock, holds>>

ReadFree(p) ==
  /\ lock = Free
  /\ Goto(p, "read", "cas")
  /\ UNCHANGED <<lock, n, holds>>

ReadTaken(p) == pc[p] = "read" /\ lock # Free /\ Retry(p)

\* Mutant: a plain store in place of the compare-and-set.
CasWinsBlind(p) ==
  /\ Goto(p, "cas", "idle")
  /\ lock' = p
  /\ holds' = holds \union {p}
  /\ n' = [n EXCEPT ![p] = FirstTry]

CasWins(p) ==
  /\ lock = Free
  /\ Goto(p, "cas", "idle")
  /\ lock' = p
  /\ holds' = holds \union {p}
  /\ n' = [n EXCEPT ![p] = FirstTry]

CasLoses(p) == pc[p] = "cas" /\ lock # Free /\ Retry(p)

\* Mutant: the outer loop does not come back to the first attempt.
YieldForEver(p) == Goto(p, "yield", "yield") /\ UNCHANGED <<lock, n, holds>>

Yield(p) == Goto(p, "yield", "read") /\ UNCHANGED <<lock, n, holds>>

LockStep(p) ==
  \/ ReadFree(p)
  \/ ReadTaken(p)
  \/ CasWins(p)
  \/ CasLoses(p)
  \/ Yield(p)
-----------------------------------------------------------------------------
(* hcore_shmtx_trylock, which a process that holds the mutex may call too *)

CallTryLock(p) == Goto(p, "idle", "tryread") /\ UNCHANGED <<lock, n, holds>>

TryReadFree(p) ==
  /\ lock = Free
  /\ Goto(p, "tryread", "trycas")
  /\ UNCHANGED <<lock, n, holds>>

TryFails(p) ==
  /\ pc[p] \in Trying
  /\ lock # Free
  /\ pc' = [pc EXCEPT ![p] = "idle"]
  /\ UNCHANGED <<lock, n, holds>>

\* Mutant: trylock answers 1 without looking at the word again.
TryWinsBlind(p) ==
  /\ Goto(p, "trycas", "idle")
  /\ lock' = p
  /\ holds' = holds \union {p}
  /\ UNCHANGED n

TryWins(p) ==
  /\ lock = Free
  /\ Goto(p, "trycas", "idle")
  /\ lock' = p
  /\ holds' = holds \union {p}
  /\ UNCHANGED n

TryStep(p) == TryReadFree(p) \/ TryFails(p) \/ TryWins(p)
-----------------------------------------------------------------------------
(* hcore_shmtx_unlock and hcore_shmtx_force_unlock *)

\* Mutant: the word is cleared whoever owns it.
ClearAnyway(pid) == lock' = Free

\* The compare-and-set of both: the word is cleared only when it holds pid.
ClearIfOwner(pid) == lock' = IF lock = pid THEN Free ELSE lock

\* Any process may call it; for one that is not the owner nothing happens.
Unlock(p) ==
  /\ pc[p] = "idle"
  /\ ClearIfOwner(p)
  /\ holds' = IF lock = p THEN holds \ {p} ELSE holds
  /\ UNCHANGED <<pc, n>>

\* Mutant: the word is compared with the pid of the caller.
ForceUnlockOwn(p) ==
  /\ Goto(p, "zombie", "unlocked")
  /\ UNCHANGED <<lock, n, holds>>

ForceUnlock(p) ==
  /\ Goto(p, "zombie", "unlocked")
  /\ ClearIfOwner(p)
  /\ UNCHANGED <<n, holds>>
-----------------------------------------------------------------------------
(* Processes around the mutex *)

\* A process dies wherever it is, with the mutex or without it.
Crash(p) ==
  /\ p \in Alive
  /\ pc' = [pc EXCEPT ![p] = "zombie"]
  /\ n' = [n EXCEPT ![p] = FirstTry]
  /\ holds' = holds \ {p}
  /\ UNCHANGED lock

\* Mutant: the child is reaped before the unlock by force.
ReapFirst(p) ==
  /\ \E from \in {"zombie", "unlocked"} : Goto(p, from, "gone")
  /\ UNCHANGED <<lock, n, holds>>

\* waitpid: the pid becomes available.
Reap(p) == Goto(p, "unlocked", "gone") /\ UNCHANGED <<lock, n, holds>>

Fork(p) == Goto(p, "gone", "idle") /\ UNCHANGED <<lock, n, holds>>

Supervise(p) == ForceUnlock(p) \/ Reap(p)
-----------------------------------------------------------------------------
Step(p) ==
  \/ CallLock(p)
  \/ LockStep(p)
  \/ CallTryLock(p)
  \/ TryStep(p)
  \/ Unlock(p)
  \/ Supervise(p)
  \/ Crash(p)
  \/ Fork(p)

Next == \E p \in Procs : Step(p)

\* A process inside hcore_shmtx_lock keeps running unless it dies, and the
\* supervisor gets to every child that died.  Nothing obliges a process to
\* call lock, to unlock, to die or to be forked.
Fairness == \A p \in Procs : WF_vars(LockStep(p)) /\ WF_vars(Supervise(p))

Spec == Init /\ [][Next]_vars
FairSpec == Spec /\ Fairness
-----------------------------------------------------------------------------
(* Properties *)

\* The lock word is 0 or a pid, a process is at a step of the code, and the
\* spin counter fits hcore_uint_t.
TypeOK ==
  /\ lock \in Procs \union {Free}
  /\ pc \in [Procs -> {"idle"} \union Locking \union Trying \union Dead]
  /\ n \in [Procs -> FirstTry .. MaxUint]
  /\ holds \in SUBSET Procs

\* Two processes never believe at once that hcore_shmtx_lock or
\* hcore_shmtx_trylock gave them the mutex, although the read of the word is
\* stale by the time of the compare-and-set, anyone may call
\* hcore_shmtx_unlock, and dead owners are unlocked by force.
MutualExclusion == \A p, q \in holds : p = q

\* The word never names a process that would not give it back: the owner is
\* a live process inside its critical section, or a dead one that still has
\* to be unlocked by force.  In particular a process that is born with the pid
\* of a dead owner does not find itself the owner.
NoStrandedLock ==
  lock # Free => (lock \in holds \/ pc[lock] = "zombie")

\* A live process inside its critical section is named by the word: neither
\* hcore_shmtx_force_unlock nor the unlock of another takes its mutex away.
HolderKeepsLock == \A p \in holds : lock = p

\* The lock loop detects the release of the mutex: a process that waits while
\* the word is 0 gets it, sees it taken by another, or dies.
FreeLockIsTaken ==
  \A p \in Procs : (Waiting(p) /\ lock = Free) ~> (lock # Free \/ ~Waiting(p))

\* The mutex of a dead process does not stay taken.
DeadOwnerIsUnlocked ==
  \A p \in Procs : (pc[p] = "zombie" /\ lock = p) ~> (lock # p)

\* hcore_shmtx.c implements the abstract mutex.
Abstract == INSTANCE Mutex WITH owner <- lock, alive <- Alive, NoOwner <- Free
ImplementsMutex == Abstract!Spec
=============================================================================

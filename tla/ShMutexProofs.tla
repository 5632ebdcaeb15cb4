--------------------------- MODULE ShMutexProofs ---------------------------
(***************************************************************************)
(* Proofs about ShMutex for every set of processes and every spin limit.   *)
(***************************************************************************)
EXTENDS ShMutex, TLAPS

\* A process that holds the mutex is named by the lock word and is outside
\* the lock loop: it does its work or is inside hcore_shmtx_trylock.
HolderShape == \A p \in holds : lock = p /\ pc[p] \in {"idle", "tryread"}

IInv == TypeOK /\ HolderShape /\ NoStrandedLock

\* The loop counter stays inside hcore_uint_t, however often it is doubled.
LEMMA NextSpinType ==
  ASSUME NEW k \in FirstTry .. MaxUint
  PROVE  NextSpin(k) \in 0 .. MaxUint
BY SpinAssumption DEF NextSpin, FirstTry

\* The processes, the word and the loop counters stay well typed.
THEOREM TypeCorrect == Spec => []TypeOK
<1>1. Init => TypeOK
  BY SpinAssumption DEF Init, TypeOK, Free, FirstTry, Locking, Trying, Dead
<1>2. TypeOK /\ [Next]_vars => TypeOK'
  <2> SUFFICES ASSUME TypeOK, [Next]_vars PROVE TypeOK'
    OBVIOUS
  <2> USE DEF TypeOK, Goto, Locking, Trying, Dead, Alive
  <2>1. CASE UNCHANGED vars
    BY <2>1 DEF vars
  <2>2. ASSUME NEW p \in Procs, Step(p) PROVE TypeOK'
    <3>1. CASE CallLock(p) \/ CallTryLock(p)
      BY <3>1 DEF CallLock, CallTryLock
    <3>2. ASSUME Retry(p) PROVE TypeOK'
      BY <3>2, NextSpinType, SpinAssumption DEF Retry, FirstTry
    <3>3. CASE LockStep(p)
      BY <3>3, <3>2, SpinAssumption
      DEF LockStep, ReadFree, ReadTaken, CasWins, CasLoses, Yield, FirstTry
    <3>4. CASE TryStep(p)
      BY <3>4 DEF TryStep, TryReadFree, TryFails, TryWins
    <3>5. CASE Unlock(p)
      BY <3>5 DEF Unlock, ClearIfOwner
    <3>6. CASE Supervise(p)
      BY <3>6 DEF Supervise, ForceUnlock, ClearIfOwner, Reap
    <3>7. CASE Crash(p)
      BY <3>7, SpinAssumption DEF Crash, FirstTry
    <3>8. CASE Fork(p)
      BY <3>8 DEF Fork
    <3>9. QED
      BY <2>2, <3>1, <3>3, <3>4, <3>5, <3>6, <3>7, <3>8 DEF Step
  <2>3. QED
    BY <2>1, <2>2 DEF Next
<1>3. QED
  BY <1>1, <1>2, PTL DEF Spec

-----------------------------------------------------------------------------
\* Every step keeps the holder named by the word and outside the lock loop,
\* and keeps the word from naming a process that cannot give it back.
LEMMA Inductive == IInv /\ TypeOK' /\ [Next]_vars => IInv'
<1> SUFFICES ASSUME IInv, TypeOK', [Next]_vars PROVE HolderShape' /\ NoStrandedLock'
  BY DEF IInv
<1> USE ProcsAssumption DEF IInv, TypeOK, HolderShape, NoStrandedLock, Free, Goto
<1>1. CASE UNCHANGED vars
  BY <1>1 DEF vars
<1>2. ASSUME NEW p \in Procs, Step(p) PROVE HolderShape' /\ NoStrandedLock'
  \* No step of the lock loop but CasWins concerns a holder or the word.
  <2>1. CASE CallLock(p) \/ CallTryLock(p)
    BY <2>1 DEF CallLock, CallTryLock
  <2>2. CASE ReadTaken(p) \/ CasLoses(p) \/ ReadFree(p) \/ Yield(p)
    BY <2>2 DEF ReadTaken, CasLoses, ReadFree, Yield, Retry
  \* The word is 0, so nobody holds the mutex before the step.
  <2>3. CASE CasWins(p) \/ TryWins(p)
    <3>1. holds = {}
      BY <2>3 DEF CasWins, TryWins
    <3>2. lock' = p /\ holds' = {p} /\ pc'[p] = "idle"
      BY <2>3, <3>1 DEF CasWins, TryWins
    <3>3. QED
      BY <3>2
  <2>4. CASE TryReadFree(p) \/ TryFails(p)
    BY <2>4 DEF TryReadFree, TryFails, Trying
  <2>5. CASE Unlock(p)
    BY <2>5 DEF Unlock, ClearIfOwner
  \* A dead process holds nothing: clearing its word harms no holder.
  <2>6. CASE ForceUnlock(p)
    BY <2>6 DEF ForceUnlock, ClearIfOwner
  \* The word of a dead process is cleared by the time it is reaped.
  <2>7. CASE Reap(p) \/ Fork(p)
    BY <2>7 DEF Reap, Fork
  <2>8. CASE Crash(p)
    BY <2>8 DEF Crash
  <2>9. QED
    BY <1>2, <2>1, <2>2, <2>3, <2>4, <2>5, <2>6, <2>7, <2>8
    DEF Step, LockStep, TryStep, Supervise
<1>3. QED
  BY <1>1, <1>2 DEF Next

\* The inductive invariant holds in every reachable state.
LEMMA Invariance == Spec => []IInv
<1>1. Init => HolderShape /\ NoStrandedLock
  BY DEF Init, HolderShape, NoStrandedLock
<1>2. QED
  BY <1>1, Inductive, TypeCorrect, PTL DEF Spec, IInv

\* hcore_shmtx_lock and hcore_shmtx_trylock never give the mutex to two live
\* processes, for any number of processes that die and are replaced.
THEOREM Exclusion == Spec => []MutualExclusion
<1>1. IInv => MutualExclusion
  BY DEF IInv, HolderShape, MutualExclusion
<1>2. QED
  BY <1>1, Invariance, PTL

\* A holder is not robbed of the mutex, by hcore_shmtx_unlock of another
\* process or by hcore_shmtx_force_unlock for a dead one.
THEOREM HolderIsNamed == Spec => []HolderKeepsLock
<1>1. IInv => HolderKeepsLock
  BY DEF IInv, HolderShape, HolderKeepsLock
<1>2. QED
  BY <1>1, Invariance, PTL

\* The word names a process that will give the mutex back or be relieved of
\* it: forcing the unlock before waitpid protects against the reuse of a pid.
THEOREM NeverStranded == Spec => []NoStrandedLock
<1>1. IInv => NoStrandedLock
  BY DEF IInv
<1>2. QED
  BY <1>1, Invariance, PTL
-----------------------------------------------------------------------------
\* A step of the spinning mutex is a step of the abstract mutex or changes
\* neither the owner nor the set of running processes.
LEMMA StepRefines == IInv /\ IInv' /\ [Next]_vars => [Abstract!Next]_(Abstract!vars)
<1> SUFFICES ASSUME IInv, IInv', [Next]_vars
             PROVE  [Abstract!Next]_(Abstract!vars)
  OBVIOUS
<1> USE ProcsAssumption DEF IInv, TypeOK, Goto, Alive, Dead, Free, Abstract!vars
<1>1. CASE UNCHANGED vars
  BY <1>1 DEF vars
<1>2. ASSUME NEW p \in Procs, Step(p) PROVE [Abstract!Next]_(Abstract!vars)
  <2>1. ASSUME Retry(p), pc[p] \in Locking PROVE UNCHANGED Abstract!vars
    BY <2>1 DEF Retry, Locking
  <2>2. CASE LockStep(p) /\ ~CasWins(p)
    BY <2>1, <2>2
    DEF LockStep, ReadFree, ReadTaken, CasLoses, Yield, Locking
  <2>3. CASE CallLock(p) \/ CallTryLock(p) \/ TryReadFree(p) \/ TryFails(p)
    BY <2>3 DEF CallLock, CallTryLock, TryReadFree, TryFails, Trying
  <2>4. CASE CasWins(p) \/ TryWins(p)
    <3>1. Abstract!Acquire(p)
      BY <2>4 DEF CasWins, TryWins, Abstract!Acquire
    <3>2. QED
      BY <3>1 DEF Abstract!Next
  <2>5. CASE Unlock(p)
    <3>1. Abstract!Release(p) \/ UNCHANGED Abstract!vars
      BY <2>5 DEF Unlock, ClearIfOwner, Abstract!Release
    <3>2. QED
      BY <3>1 DEF Abstract!Next
  <2>6. CASE ForceUnlock(p)
    <3>1. Abstract!Revoke(p) \/ UNCHANGED Abstract!vars
      BY <2>6 DEF ForceUnlock, ClearIfOwner, Abstract!Revoke
    <3>2. QED
      BY <3>1 DEF Abstract!Next
  <2>7. CASE Reap(p)
    BY <2>7 DEF Reap
  <2>8. CASE Crash(p)
    <3>1. Alive' = Alive \ {p}
      BY <2>8 DEF Crash
    <3>2. Abstract!Die(p)
      BY <2>8, <3>1 DEF Crash, Abstract!Die
    <3>3. QED
      BY <3>2 DEF Abstract!Next
  \* The new process does not own the word, or the word would be stranded.
  <2>9. CASE Fork(p)
    <3>1. Alive' = Alive \union {p} /\ p \notin Alive
      BY <2>9 DEF Fork
    <3>2. lock # p
      BY <2>9 DEF Fork, HolderShape, NoStrandedLock
    <3>3. Abstract!Replace(p)
      BY <2>9, <3>1, <3>2 DEF Fork, Abstract!Replace
    <3>4. QED
      BY <3>3 DEF Abstract!Next
  <2>10. QED
    BY <1>2, <2>2, <2>3, <2>4, <2>5, <2>6, <2>7, <2>8, <2>9
    DEF Step, TryStep, Supervise
<1>3. QED
  BY <1>1, <1>2 DEF Next

\* hcore_shmtx.c implements the abstract mutex of module Mutex.
THEOREM Refinement == Spec => ImplementsMutex
<1>1. Init => Abstract!Init
  BY DEF Init, Abstract!Init, Alive, Dead, Free
<1>2. QED
  BY <1>1, StepRefines, Invariance, PTL DEF Spec, ImplementsMutex, Abstract!Spec
=============================================================================

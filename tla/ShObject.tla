------------------------------ MODULE ShObject ------------------------------
(***************************************************************************)
(* The life of a shared memory pool of src/src/hcore_shpool.c:             *)
(* hcore_create_shpool, hcore_get_shpool and hcore_destroy_shpool, called  *)
(* by processes that may be forked and may be killed at any time.  All     *)
(* pools are created under one name, or without a name.                    *)
(*                                                                         *)
(* The shared memory objects belong to the system, which frees one that    *)
(* has no name and that no process maps or has open.  A process killed     *)
(* keeps nothing but what it wrote to the memory.                          *)
(*                                                                         *)
(* As hcore_shpool.h demands ("it should be unique"), a pool is created    *)
(* when no living process holds the right to destroy one of that name or   *)
(* maps the object behind the name.  hcore_get_shpool is called at any     *)
(* time.  Failures of hcore_malloc and of shm_open change nothing and are  *)
(* left out.                                                               *)
(***************************************************************************)
EXTENDS Integers, FiniteSets

CONSTANTS
  Procs,         \* the processes
  NoProc,        \* the lock word is 0
  MaxObjects,    \* bound: shared memory objects at a time
  Addresses      \* where mmap may put a pool, numbers

ASSUME ObjectAssumption ==
  /\ NoProc \notin Procs /\ MaxObjects \in Nat \ {0} /\ Addresses \subseteq Nat \ {0}

VARIABLES
  named,      \* the object the name stands for
  object,     \* the shared memory objects
  proc,       \* the processes: where they are and their hcore_shpool_t
  gone,       \* for each object the processes killed since it was created
  orphaned    \* a process killed left the name behind

vars == <<named, object, proc, gone, orphaned>>
-----------------------------------------------------------------------------
Objects == 1 .. MaxObjects
NoObject == 0
NoAddress == 0

\* An object of size 0.  What ftruncate adds to it is 0, the lock included.
Blank == [sized |-> FALSE,      \* it has the size of the pool
          ready |-> FALSE,      \* hcore_slab_init has run
          addr |-> NoAddress,   \* sp->addr
          lock |-> NoProc]      \* sp->lock

\* A process outside of the calls that holds no pool.
Outside == [at |-> "outside", fd |-> NoObject, obj |-> NoObject, addr |-> NoAddress,
            hasName |-> FALSE, create |-> FALSE,
            origin |-> "create",   \* by which call, or by a fork, it came to its pool
            early |-> FALSE]       \* it was mapped while the creation was under way

Init ==
  /\ named = NoObject
  /\ object = [o \in Objects |-> Blank]
  /\ proc = [p \in Procs |-> Outside]
  /\ gone = [o \in Objects |-> {}]
  /\ orphaned = FALSE

At(p, step) == proc[p].at = step
Set(p, r) == proc' = [proc EXCEPT ![p] = r]

\* The objects the system keeps, for a name and processes.
Referred(name, procs) ==
  {name} \union {procs[p].fd : p \in Procs} \union {procs[p].obj : p \in Procs}
Unused == Objects \ Referred(named, proc)

\* The state of the objects after a step that left them as objs.
Keep(objs) ==
  LET kept == Referred(named', proc') IN
  /\ object' = [o \in Objects |-> IF o \in kept THEN objs[o] ELSE Blank]
  /\ gone' = [o \in Objects |-> IF o \in kept THEN gone[o] ELSE {}]

\* Some process creates a pool of that name, or may destroy it.
Claimed == \E p \in Procs : proc[p].hasName /\ proc[p].create

\* The object behind the name is mapped.
InUse == \E p \in Procs : named # NoObject /\ proc[p].obj = named
-----------------------------------------------------------------------------
(* hcore_create_shpool *)

\* Mutant: the object is opened without O_TRUNC.
OpenedAsIs(o) == object[o]

\* shm_open with O_CREAT and O_TRUNC: the object is emptied.
Opened(o) == Blank

CreateOpen(p) ==
  /\ At(p, "outside") /\ ~Claimed /\ ~InUse
  /\ \E o \in IF named # NoObject THEN {named} ELSE Unused :
       /\ named' = o
       /\ Set(p, [Outside EXCEPT !.at = "opened", !.fd = o, !.hasName = TRUE, !.create = TRUE])
       /\ object' = [object EXCEPT ![o] = Opened(o)]
       /\ gone' = [gone EXCEPT ![o] = {}]
  /\ orphaned' = FALSE

\* ftruncate, whose result is not looked at.
CreateResize(p) ==
  /\ At(p, "opened")
  /\ Set(p, [proc[p] EXCEPT !.at = "resized"])
  /\ \/ object' = [object EXCEPT ![proc[p].fd].sized = TRUE]
     \/ UNCHANGED object
  /\ UNCHANGED <<named, gone, orphaned>>

CreateMap(p) ==
  /\ At(p, "resized")
  /\ \/ \E a \in Addresses :
          Set(p, [proc[p] EXCEPT !.at = "mapped", !.obj = proc[p].fd, !.addr = a])
     \/ Set(p, [proc[p] EXCEPT !.at = "failing"])
  /\ UNCHANGED <<named, object, gone, orphaned>>

\* Without a name the memory is mapped as it is made.
CreateAnonymous(p) ==
  /\ At(p, "outside")
  /\ \E o \in Unused, a \in Addresses :
       /\ Set(p, [Outside EXCEPT !.at = "mapped", !.obj = o, !.addr = a, !.create = TRUE])
       /\ object' = [object EXCEPT ![o] = [Blank EXCEPT !.sized = TRUE]]
  /\ UNCHANGED <<named, gone, orphaned>>

\* The process is killed: the system closes and unmaps.
Kill(p) ==
  LET kept == Referred(named, proc') IN
  /\ Set(p, [Outside EXCEPT !.at = "killed"])
  /\ object' = [o \in Objects |-> IF o \in kept THEN object[o] ELSE Blank]
  /\ gone' = [o \in Objects |-> IF o \in kept THEN gone[o] \union {p} ELSE {}]
  /\ orphaned' = (orphaned \/ (proc[p].hasName /\ proc[p].create))
  /\ UNCHANGED named

\* The fields of the pool, hcore_shmtx_init, which leaves the lock alone, and
\* hcore_slab_init; the descriptor is closed.  Memory beyond the end of the
\* object is fatal.
CreateInit(p) ==
  /\ At(p, "mapped")
  /\ IF ~object[proc[p].obj].sized THEN Kill(p)
     ELSE /\ Set(p, [proc[p] EXCEPT !.at = "using", !.fd = NoObject])
          /\ object' = [object EXCEPT ![proc[p].obj].addr = proc[p].addr,
                                      ![proc[p].obj].ready = TRUE]
          /\ UNCHANGED <<named, gone, orphaned>>
-----------------------------------------------------------------------------
(* hcore_get_shpool *)

GetOpen(p) ==
  /\ At(p, "outside") /\ named # NoObject
  /\ Set(p, [Outside EXCEPT !.at = "getting", !.fd = named, !.hasName = TRUE])
  /\ UNCHANGED <<named, object, gone, orphaned>>

\* fstat; mmap of size 0 will fail.
GetStat(p) ==
  /\ At(p, "getting")
  /\ Set(p, [proc[p] EXCEPT !.at = IF object[proc[p].fd].sized THEN "stated" ELSE "failing"])
  /\ UNCHANGED <<named, object, gone, orphaned>>

\* The memory is mapped at any address and used as it is.
GetMap(p) ==
  /\ At(p, "stated")
  /\ \/ \E a \in Addresses :
          Set(p, [proc[p] EXCEPT !.at = "using", !.obj = proc[p].fd, !.fd = NoObject,
                                 !.addr = a, !.origin = "get",
                                 !.early = ~object[proc[p].fd].ready])
     \/ Set(p, [proc[p] EXCEPT !.at = "failing"])
  /\ UNCHANGED <<named, object, gone, orphaned>>
-----------------------------------------------------------------------------
(* The error paths of both, and hcore_destroy_shpool *)

\* The descriptor is closed.
Fail(p) ==
  /\ At(p, "failing")
  /\ Set(p, [proc[p] EXCEPT !.at = "unlinking", !.fd = NoObject])
  /\ UNCHANGED <<named, orphaned>>
  /\ Keep(object)

\* Mutant: the name of what could not be created is left.
UnlinkFailedNot(p) ==
  /\ At(p, "unlinking")
  /\ Set(p, Outside)
  /\ UNCHANGED <<named, orphaned>>
  /\ Keep(object)

\* shm_unlink, for hcore_get_shpool too.
UnlinkFailed(p) ==
  /\ At(p, "unlinking")
  /\ Set(p, Outside)
  /\ named' = NoObject
  /\ UNCHANGED orphaned
  /\ Keep(object)

DestroyUnmap(p) ==
  /\ At(p, "using") /\ object[proc[p].obj].lock # p
  /\ Set(p, [Outside EXCEPT !.at = "destroying", !.hasName = proc[p].hasName,
                            !.create = proc[p].create])
  /\ UNCHANGED <<named, orphaned>>
  /\ Keep(object)

DestroyUnlink(p) ==
  /\ At(p, "destroying")
  /\ Set(p, Outside)
  /\ named' = IF proc[p].hasName /\ proc[p].create THEN NoObject ELSE named
  /\ UNCHANGED orphaned
  /\ Keep(object)
-----------------------------------------------------------------------------
(* What processes do with a pool *)

Lock(p) ==
  /\ At(p, "using")
  /\ object[proc[p].obj].sized /\ object[proc[p].obj].lock = NoProc
  /\ object' = [object EXCEPT ![proc[p].obj].lock = p]
  /\ UNCHANGED <<named, proc, gone, orphaned>>

Unlock(p) ==
  /\ At(p, "using") /\ object[proc[p].obj].lock = p
  /\ object' = [object EXCEPT ![proc[p].obj].lock = NoProc]
  /\ UNCHANGED <<named, proc, gone, orphaned>>

\* The child has the structure and the mapping of the parent.
Fork(p, child) ==
  /\ At(p, "using") /\ At(child, "outside")
  /\ Set(child, [proc[p] EXCEPT !.origin = IF @ = "get" THEN @ ELSE "fork"])
  /\ UNCHANGED <<named, object, gone, orphaned>>

Crash(p) == proc[p].at \notin {"outside", "killed"} /\ Kill(p)

Next ==
  \E p \in Procs :
    \/ CreateOpen(p) \/ CreateResize(p) \/ CreateMap(p) \/ CreateAnonymous(p)
    \/ CreateInit(p)
    \/ GetOpen(p) \/ GetStat(p) \/ GetMap(p)
    \/ Fail(p) \/ UnlinkFailed(p)
    \/ DestroyUnmap(p) \/ DestroyUnlink(p)
    \/ Lock(p) \/ Unlock(p) \/ Crash(p)
    \/ \E child \in Procs : Fork(p, child)

Spec == Init /\ [][Next]_vars
-----------------------------------------------------------------------------
(* Properties *)

\* A pool that a call has returned, or that was inherited by a fork, can be
\* used until it is destroyed, whatever other processes create, get, destroy
\* or leave half done when they are killed: its memory has the size of the
\* pool and is initialised, the addresses in it are those of the process
\* (unless hcore_get_shpool mapped it again), and its lock is free, or held by
\* a process that uses the same pool or was killed since it was created: a
\* lock word left from a pool of the same name does not survive.
\* What hcore_get_shpool mapped while the pool was being created is left out.
PoolUsable ==
  \A p \in Procs : At(p, "using") /\ ~proc[p].early =>
    LET o == proc[p].obj
        holder == object[o].lock
    IN /\ object[o].sized /\ object[o].ready
       /\ proc[p].origin # "get" => object[o].addr = proc[p].addr
       /\ holder # NoProc => holder \in gone[o] \/ (At(holder, "using") /\ proc[holder].obj = o)

\* Calls that fail half way and pools that are destroyed leave nothing behind:
\* when no process is inside a call or holds a pool, the name and with it the
\* memory are gone, unless the process that should have removed them was
\* killed.  The descriptor of the object is open only during a call.
NothingLeft ==
  /\ (\A p \in Procs : proc[p].at \in {"outside", "killed"}) => named = NoObject \/ orphaned
  /\ \A p \in Procs : proc[p].at \in {"outside", "using", "destroying"} => proc[p].fd = NoObject
=============================================================================

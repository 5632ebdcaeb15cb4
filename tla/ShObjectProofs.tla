--------------------------- MODULE ShObjectProofs ---------------------------
(***************************************************************************)
(* What is proved of ShObject for every set of processes and every number  *)
(* of objects and addresses: a pool that a call returned stays usable, and *)
(* only a kill leaves the name behind.                                     *)
(*                                                                         *)
(* Both rest on who may be creating what.  A creation has its object to    *)
(* itself until hcore_slab_init has run (OneCreator, NotYetReady), so no   *)
(* pool in use is initialised again; and the name stands for something     *)
(* only as long as a process is bound to unlink it (NameIsClaimed).        *)
(***************************************************************************)
EXTENDS ShObject, TLAPS

Steps == {"outside", "opened", "resized", "mapped", "using", "getting", "stated",
          "failing", "unlinking", "destroying", "killed"}

Processes == [at : Steps, fd : 0 .. MaxObjects, obj : 0 .. MaxObjects,
              addr : Addresses \union {NoAddress},
              hasName : BOOLEAN, create : BOOLEAN,
              origin : {"create", "get", "fork"}, early : BOOLEAN]

Memories == [sized : BOOLEAN, ready : BOOLEAN,
             addr : Addresses \union {NoAddress}, lock : Procs \union {NoProc}]

TypeOK ==
  /\ named \in 0 .. MaxObjects
  /\ object \in [Objects -> Memories]
  /\ proc \in [Procs -> Processes]
  /\ gone \in [Objects -> SUBSET Procs]
  /\ orphaned \in BOOLEAN

\* p is inside hcore_create_shpool and has its object, with a descriptor for
\* it until it is mapped.
Creating(p) == proc[p].at \in {"opened", "resized", "mapped"}
Made(p) == IF At(p, "mapped") THEN proc[p].obj ELSE proc[p].fd

\* p may unlink the name, in hcore_destroy_shpool or when a creation fails.
Claims(p) == proc[p].hasName /\ proc[p].create

\* What a process has at each step of the calls.
Shape ==
  \A p \in Procs :
    /\ proc[p].at \in {"outside", "killed"} => ~Claims(p)
    /\ proc[p].at \in {"outside", "using", "destroying", "killed"} => proc[p].fd = NoObject
    /\ proc[p].at \in {"opened", "resized"} => proc[p].fd \in Objects /\ Claims(p)
    /\ proc[p].at \in {"getting", "stated"} => proc[p].fd \in Objects
    /\ At(p, "mapped") => proc[p].obj \in Objects /\ proc[p].create
    /\ At(p, "using") => proc[p].obj \in Objects

\* While a pool is created under the name nobody else may unlink it, and an
\* object is created by one process.
OneCreator ==
  \A p, q \in Procs : p # q /\ Creating(p) =>
    /\ Claims(p) => ~Claims(q)
    /\ Creating(q) => Made(p) # Made(q)

NotYetReady == \A p \in Procs : Creating(p) => ~object[Made(p)].ready

\* Memory that was initialised had its size before.
ReadyIsSized == \A o \in Objects : object[o].ready => object[o].sized

\* Pools in use, the ones mapped too early left out.
InService ==
  \A p \in Procs : At(p, "using") /\ ~proc[p].early =>
    /\ object[proc[p].obj].ready
    /\ proc[p].origin # "get" => object[proc[p].obj].addr = proc[p].addr

\* A lock word names a process that uses the object or was killed.
LockIsNamed ==
  \A o \in Objects, holder \in Procs : object[o].lock = holder =>
    holder \in gone[o] \/ (At(holder, "using") /\ proc[holder].obj = o)

NameIsClaimed == named # NoObject /\ ~orphaned => \E p \in Procs : Claims(p)

IInv == /\ TypeOK /\ Shape /\ OneCreator /\ NotYetReady /\ ReadyIsSized
        /\ InService /\ LockIsNamed /\ NameIsClaimed
-----------------------------------------------------------------------------
(* Types, and what the system keeps.                                        *)

\* A process outside and an emptied object are of their types.
LEMMA Emptied == Outside \in Processes /\ Blank \in Memories
  <1>1. NoObject \in 0 .. MaxObjects
    BY ObjectAssumption DEF NoObject
  <1>2. Outside \in Processes
    BY <1>1 DEF Outside, Processes, Steps
  <1>3. Blank \in Memories
    BY DEF Blank, Memories
  <1> QED
    BY <1>2, <1>3

\* A killed process has nothing, and no object changes but those freed.
LEMMA KillFacts ==
  ASSUME TypeOK, NEW p \in Procs, Kill(p)
  PROVE  /\ TypeOK'
         /\ proc'[p] = [Outside EXCEPT !.at = "killed"]
         /\ \A q \in Procs \ {p} : proc'[q] = proc[q]
         /\ \A o \in Objects : \/ object'[o] = object[o] /\ gone'[o] = gone[o] \union {p}
                               \/ object'[o] = Blank
         /\ \A q \in Procs : proc'[q].obj \in Objects =>
              /\ object'[proc'[q].obj] = object[proc'[q].obj]
              /\ gone'[proc'[q].obj] = gone[proc'[q].obj] \union {p}
         /\ \A q \in Procs : proc'[q].fd \in Objects =>
              object'[proc'[q].fd] = object[proc'[q].fd]
         /\ named' = named /\ orphaned' = (orphaned \/ Claims(p))
  <1> DEFINE kept == Referred(named, proc')
             r == [Outside EXCEPT !.at = "killed"]
  <1>1. /\ proc' = [proc EXCEPT ![p] = r]
        /\ object' = [o \in Objects |-> IF o \in kept THEN object[o] ELSE Blank]
        /\ gone' = [o \in Objects |-> IF o \in kept THEN gone[o] \union {p} ELSE {}]
        /\ orphaned' = (orphaned \/ Claims(p)) /\ named' = named
    BY DEF Kill, Set, Claims
  <1>2. r \in Processes /\ Blank \in Memories
    BY Emptied DEF Processes, Steps
  <1>3. \A q \in Procs : proc'[q].obj \in kept /\ proc'[q].fd \in kept
    BY DEF Referred
  <1> HIDE DEF kept, r
  <1>4. TypeOK'
    <2>1. (orphaned \/ Claims(p)) \in BOOLEAN
      OBVIOUS
    <2> QED
      BY <1>1, <1>2, <2>1 DEF TypeOK
  <1>5. proc'[p] = r /\ \A q \in Procs \ {p} : proc'[q] = proc[q]
    BY <1>1 DEF TypeOK
  <1>6. \A o \in Objects :
          IF o \in kept THEN object'[o] = object[o] /\ gone'[o] = gone[o] \union {p}
          ELSE object'[o] = Blank
    BY <1>1
  <1> QED
    BY <1>1, <1>3, <1>4, <1>5, <1>6 DEF r

\* The same of a step that closes, unmaps or unlinks.
LEMMA KeepFacts ==
  ASSUME TypeOK, NEW p \in Procs, NEW r \in Processes, Set(p, r), Keep(object),
         named' \in 0 .. MaxObjects, orphaned' = orphaned
  PROVE  /\ TypeOK'
         /\ proc'[p] = r
         /\ \A q \in Procs \ {p} : proc'[q] = proc[q]
         /\ \A o \in Objects : \/ object'[o] = object[o] /\ gone'[o] = gone[o]
                               \/ object'[o] = Blank
         /\ \A q \in Procs : proc'[q].obj \in Objects =>
              /\ object'[proc'[q].obj] = object[proc'[q].obj]
              /\ gone'[proc'[q].obj] = gone[proc'[q].obj]
         /\ \A q \in Procs : proc'[q].fd \in Objects =>
              object'[proc'[q].fd] = object[proc'[q].fd]
  <1> DEFINE kept == Referred(named', proc')
  <1>1. /\ proc' = [proc EXCEPT ![p] = r]
        /\ object' = [o \in Objects |-> IF o \in kept THEN object[o] ELSE Blank]
        /\ gone' = [o \in Objects |-> IF o \in kept THEN gone[o] ELSE {}]
    BY DEF Keep, Set
  <1>2. Blank \in Memories
    BY Emptied
  <1>3. \A q \in Procs : proc'[q].obj \in kept /\ proc'[q].fd \in kept
    BY DEF Referred
  <1> HIDE DEF kept
  <1>4. TypeOK'
    BY <1>1, <1>2 DEF TypeOK
  <1>5. proc'[p] = r /\ \A q \in Procs \ {p} : proc'[q] = proc[q]
    BY <1>1 DEF TypeOK
  <1>6. \A o \in Objects :
          IF o \in kept THEN object'[o] = object[o] /\ gone'[o] = gone[o]
          ELSE object'[o] = Blank
    BY <1>1
  <1> QED
    BY <1>3, <1>4, <1>5, <1>6

\* A step of p that leaves the objects alone.
LEMMA ProcFacts ==
  ASSUME TypeOK, NEW p \in Procs, NEW r \in Processes, Set(p, r)
  PROVE  /\ proc' \in [Procs -> Processes]
         /\ proc'[p] = r
         /\ \A q \in Procs \ {p} : proc'[q] = proc[q]
  BY DEF TypeOK, Set

\* What is being made is an object.
LEMMA MadeIsObject ==
  ASSUME Shape
  PROVE  \A p \in Procs : Creating(p) => Made(p) \in Objects
  BY DEF Shape, Creating, Made, At
-----------------------------------------------------------------------------
(* Every step keeps the invariant.                                          *)

\* shm_open empties an object that no process maps, under a name that no
\* process may unlink: the creation has both to itself.
LEMMA CreateOpenStep ==
  ASSUME IInv, NEW p \in Procs, CreateOpen(p)
  PROVE  IInv'
  <1> DEFINE R(o) == [Outside EXCEPT !.at = "opened", !.fd = o, !.hasName = TRUE, !.create = TRUE]
  <1>0. MaxObjects \in Nat /\ named \in 0 .. MaxObjects
    BY ObjectAssumption DEF IInv, TypeOK
  <1>1. PICK o \in Objects :
          /\ named' = o /\ (o = named \/ o \in Unused)
          /\ Set(p, R(o))
          /\ object' = [object EXCEPT ![o] = Blank]
          /\ gone' = [gone EXCEPT ![o] = {}]
    <2>1. PICK o \in IF named # NoObject THEN {named} ELSE Unused :
            /\ named' = o
            /\ Set(p, R(o))
            /\ object' = [object EXCEPT ![o] = Blank]
            /\ gone' = [gone EXCEPT ![o] = {}]
      BY DEF CreateOpen, Opened
    <2>2. (o = named \/ o \in Unused) /\ o \in Objects
      BY <1>0, <2>1 DEF Unused, Objects, NoObject
    <2> QED
      BY <2>1, <2>2
  <1> DEFINE r == R(o)
  <1>2. o \in 0 .. MaxObjects /\ o # NoObject
    BY <1>0 DEF Objects, NoObject
  <1>3. r \in Processes
    BY <1>2, Emptied DEF Processes, Steps
  <1>4. /\ r.at = "opened" /\ r.fd = o /\ r.hasName /\ r.create
    BY DEF Outside
  <1>5. Set(p, r)
    BY <1>1
  <1> HIDE DEF r, R
  <1>6. /\ proc' \in [Procs -> Processes] /\ proc'[p] = r
        /\ \A q \in Procs \ {p} : proc'[q] = proc[q]
    BY <1>5, <1>3, ProcFacts DEF IInv
  <1>7. /\ At(p, "outside") /\ (\A q \in Procs : ~Claims(q)) /\ orphaned' = FALSE
        /\ \A q \in Procs : proc[q].obj # o
    BY <1>1, <1>2 DEF CreateOpen, Claimed, Claims, InUse, Unused, Referred
  <1>8. /\ object'[o] = Blank /\ gone'[o] = {}
        /\ \A x \in Objects \ {o} : object'[x] = object[x] /\ gone'[x] = gone[x]
    BY <1>1 DEF IInv, TypeOK
  <1>9. TypeOK'
    BY <1>1, <1>2, <1>6, <1>7, Emptied DEF IInv, TypeOK
  <1>10. Shape'
    BY <1>4, <1>6 DEF IInv, Shape, Claims, At
  <1>11. OneCreator'
    <2>1. \A q \in Procs \ {p} : Creating(q) => At(q, "mapped")
      BY <1>7 DEF IInv, Shape, Creating, At
    <2> QED
      BY <1>4, <1>6, <1>7, <2>1 DEF IInv, OneCreator, Creating, Made, Claims, At
  <1>12. NotYetReady'
    BY <1>4, <1>6, <1>7, <1>8 DEF IInv, NotYetReady, Shape, Creating, Made, At, Blank, Claims
  <1>13. ReadyIsSized'
    BY <1>8 DEF IInv, ReadyIsSized, Blank
  <1>14. InService'
    BY <1>4, <1>6, <1>7, <1>8 DEF IInv, InService, Shape, At
  <1>15. LockIsNamed'
    BY <1>6, <1>7, <1>8, ObjectAssumption DEF IInv, LockIsNamed, At, Blank
  <1>16. NameIsClaimed'
    BY <1>4, <1>6 DEF NameIsClaimed, Claims
  <1> QED
    BY <1>9, <1>10, <1>11, <1>12, <1>13, <1>14, <1>15, <1>16 DEF IInv

\* ftruncate, whether it succeeds or fails.
LEMMA CreateResizeStep ==
  ASSUME IInv, NEW p \in Procs, CreateResize(p)
  PROVE  IInv'
  <1> DEFINE r == [proc[p] EXCEPT !.at = "resized"]
             f == proc[p].fd
  <1>1. At(p, "opened") /\ Set(p, r) /\ proc[p] \in Processes /\ f \in Objects /\ Claims(p)
    BY DEF CreateResize, IInv, TypeOK, Shape, At
  <1>2. /\ r \in Processes /\ r.at = "resized" /\ r.fd = f
        /\ r.hasName = proc[p].hasName /\ r.create = proc[p].create
    BY <1>1 DEF Processes, Steps
  <1>3. UNCHANGED <<named, gone, orphaned>>
    BY DEF CreateResize
  <1>4. /\ object' \in [Objects -> Memories]
        /\ \A o \in Objects : /\ object'[o].ready = object[o].ready
                              /\ object'[o].addr = object[o].addr
                              /\ object'[o].lock = object[o].lock
                              /\ object[o].sized => object'[o].sized
    <2> DEFINE m == [object[f] EXCEPT !.sized = TRUE]
    <2>1. CASE UNCHANGED object
      BY <2>1 DEF IInv, TypeOK
    <2>2. CASE object' = [object EXCEPT ![f] = m]
      <3>1. object[f] \in Memories
        BY <1>1 DEF IInv, TypeOK
      <3>2. m \in Memories /\ m.sized /\ m.ready = object[f].ready
            /\ m.addr = object[f].addr /\ m.lock = object[f].lock
        BY <3>1 DEF Memories
      <3> HIDE DEF m
      <3>3. object'[f] = m /\ \A o \in Objects \ {f} : object'[o] = object[o]
        BY <1>1, <2>2 DEF IInv, TypeOK
      <3>4. object' \in [Objects -> Memories]
        BY <3>2, <2>2 DEF IInv, TypeOK
      <3> QED
        BY <3>2, <3>3, <3>4
    <2> QED
      BY <2>1, <2>2 DEF CreateResize
  <1> HIDE DEF r
  <1>5. /\ proc' \in [Procs -> Processes] /\ proc'[p] = r
        /\ \A q \in Procs \ {p} : proc'[q] = proc[q]
    BY <1>1, <1>2, ProcFacts DEF IInv
  <1>6. TypeOK'
    BY <1>3, <1>4, <1>5 DEF IInv, TypeOK
  <1>7. Shape'
    BY <1>1, <1>2, <1>5 DEF IInv, Shape, Claims, At
  <1>8. OneCreator'
    BY <1>1, <1>2, <1>5 DEF IInv, OneCreator, Creating, Made, Claims, At
  <1>9. NotYetReady'
    BY <1>1, <1>2, <1>4, <1>5 DEF IInv, NotYetReady, Shape, Creating, Made, At
  <1>10. ReadyIsSized'
    BY <1>4 DEF IInv, ReadyIsSized
  <1>11. InService'
    BY <1>2, <1>4, <1>5 DEF IInv, InService, Shape, At
  <1>12. LockIsNamed'
    BY <1>1, <1>3, <1>4, <1>5 DEF IInv, LockIsNamed, At
  <1>13. NameIsClaimed'
    BY <1>2, <1>3, <1>5 DEF IInv, NameIsClaimed, Claims
  <1> QED
    BY <1>6, <1>7, <1>8, <1>9, <1>10, <1>11, <1>12, <1>13 DEF IInv

\* mmap of the object that was opened, or the way to the error path.
LEMMA CreateMapStep ==
  ASSUME IInv, NEW p \in Procs, CreateMap(p)
  PROVE  IInv'
  <1> DEFINE f == proc[p].fd
  <1>1. /\ At(p, "resized") /\ proc[p] \in Processes /\ f \in Objects /\ f \in 0 .. MaxObjects
        /\ Claims(p)
    BY DEF CreateMap, IInv, TypeOK, Shape, At, Processes
  <1>2. PICK r \in Processes :
          /\ Set(p, r) /\ r.fd = f
          /\ r.hasName = proc[p].hasName /\ r.create = proc[p].create
          /\ (r.at = "mapped" /\ r.obj = f) \/ r.at = "failing"
    <2>1. CASE Set(p, [proc[p] EXCEPT !.at = "failing"])
      BY <1>1, <2>1 DEF Processes, Steps
    <2>2. ASSUME NEW a \in Addresses,
                 Set(p, [proc[p] EXCEPT !.at = "mapped", !.obj = proc[p].fd, !.addr = a])
          PROVE  \E r \in Processes :
                   /\ Set(p, r) /\ r.fd = f
                   /\ r.hasName = proc[p].hasName /\ r.create = proc[p].create
                   /\ (r.at = "mapped" /\ r.obj = f) \/ r.at = "failing"
      <3> DEFINE r == [proc[p] EXCEPT !.at = "mapped", !.obj = proc[p].fd, !.addr = a]
      <3>1. /\ r \in Processes /\ r.fd = f /\ r.at = "mapped" /\ r.obj = f
            /\ r.hasName = proc[p].hasName /\ r.create = proc[p].create
        BY <1>1 DEF Processes, Steps
      <3> QED
        BY <2>2, <3>1
    <2> QED
      BY <2>1, <2>2 DEF CreateMap
  <1>3. UNCHANGED <<named, object, gone, orphaned>>
    BY DEF CreateMap
  <1>4. /\ proc' \in [Procs -> Processes] /\ proc'[p] = r
        /\ \A q \in Procs \ {p} : proc'[q] = proc[q]
    BY <1>2, ProcFacts DEF IInv
  <1>5. TypeOK'
    BY <1>3, <1>4 DEF IInv, TypeOK
  <1>6. Shape'
    BY <1>1, <1>2, <1>4 DEF IInv, Shape, Claims, At
  <1>7. OneCreator'
    BY <1>1, <1>2, <1>4 DEF IInv, OneCreator, Creating, Made, Claims, At
  <1>8. NotYetReady'
    BY <1>1, <1>2, <1>3, <1>4 DEF IInv, NotYetReady, Shape, Creating, Made, At
  <1>9. ReadyIsSized'
    BY <1>3 DEF IInv, ReadyIsSized
  <1>10. InService'
    BY <1>2, <1>3, <1>4 DEF IInv, InService, Shape, At
  <1>11. LockIsNamed'
    BY <1>1, <1>3, <1>4 DEF IInv, LockIsNamed, At
  <1>12. NameIsClaimed'
    BY <1>2, <1>3, <1>4 DEF IInv, NameIsClaimed, Claims
  <1> QED
    BY <1>5, <1>6, <1>7, <1>8, <1>9, <1>10, <1>11, <1>12 DEF IInv

\* A pool without a name is made of an object that nobody refers to.
LEMMA CreateAnonymousStep ==
  ASSUME IInv, NEW p \in Procs, CreateAnonymous(p)
  PROVE  IInv'
  <1>1. PICK o \in Unused, a \in Addresses :
          /\ Set(p, [Outside EXCEPT !.at = "mapped", !.obj = o, !.addr = a, !.create = TRUE])
          /\ object' = [object EXCEPT ![o] = [Blank EXCEPT !.sized = TRUE]]
    BY DEF CreateAnonymous
  <1> DEFINE r == [Outside EXCEPT !.at = "mapped", !.obj = o, !.addr = a, !.create = TRUE]
             m == [Blank EXCEPT !.sized = TRUE]
  <1>2. /\ o \in Objects /\ o \in 0 .. MaxObjects
        /\ \A q \in Procs : proc[q].obj # o /\ proc[q].fd # o
    BY ObjectAssumption DEF Unused, Referred, Objects
  <1>3. /\ r \in Processes /\ m \in Memories
        /\ r.at = "mapped" /\ r.obj = o /\ r.fd = NoObject /\ ~r.hasName /\ r.create
        /\ m.sized /\ ~m.ready /\ m.lock = NoProc
    BY <1>2, Emptied DEF Processes, Steps, Memories, Outside, Blank
  <1>4. At(p, "outside") /\ Set(p, r) /\ UNCHANGED <<named, gone, orphaned>> /\ ~Claims(p)
    BY <1>1 DEF CreateAnonymous, IInv, Shape, At
  <1>5. object'[o] = m /\ \A x \in Objects \ {o} : object'[x] = object[x]
    BY <1>1, <1>2 DEF IInv, TypeOK
  <1>6. object' \in [Objects -> Memories]
    BY <1>1, <1>3 DEF IInv, TypeOK
  <1> HIDE DEF r, m
  <1>7. /\ proc' \in [Procs -> Processes] /\ proc'[p] = r
        /\ \A q \in Procs \ {p} : proc'[q] = proc[q]
    BY <1>3, <1>4, ProcFacts DEF IInv
  <1>8. TypeOK'
    BY <1>4, <1>6, <1>7 DEF IInv, TypeOK
  <1>9. Shape'
    BY <1>2, <1>3, <1>7 DEF IInv, Shape, Claims, At
  <1>10. OneCreator'
    BY <1>2, <1>3, <1>4, <1>7 DEF IInv, OneCreator, Creating, Made, Claims, At
  <1>11. NotYetReady'
    <2>1. \A q \in Procs : Creating(q) => Made(q) \in Objects \ {o}
      <3>1. \A q \in Procs : Creating(q) => Made(q) \in Objects
        BY MadeIsObject DEF IInv
      <3> QED
        BY <3>1, <1>2 DEF Made
    <2>2. ~object'[o].ready /\ \A q \in Procs \ {p} : Creating(q) => ~object'[Made(q)].ready
      BY <1>3, <1>5, <2>1 DEF IInv, NotYetReady
    <2> QED
      BY <1>3, <1>7, <2>2 DEF NotYetReady, Creating, Made, At
  <1>12. ReadyIsSized'
    BY <1>3, <1>5 DEF IInv, ReadyIsSized
  <1>13. InService'
    <2>1. \A q \in Procs \ {p} : At(q, "using") => object'[proc[q].obj] = object[proc[q].obj]
      BY <1>2, <1>5 DEF IInv, Shape
    <2> QED
      BY <1>3, <1>7, <2>1 DEF IInv, InService, At
  <1>14. LockIsNamed'
    BY <1>3, <1>4, <1>5, <1>7, ObjectAssumption DEF IInv, LockIsNamed, At
  <1>15. NameIsClaimed'
    BY <1>3, <1>4, <1>7 DEF IInv, NameIsClaimed, Claims
  <1> QED
    BY <1>8, <1>9, <1>10, <1>11, <1>12, <1>13, <1>14, <1>15 DEF IInv

\* A process that is killed leaves its pool to the others as it is.
LEMMA KillStep ==
  ASSUME IInv, NEW p \in Procs, Kill(p)
  PROVE  IInv'
  <1>1. /\ TypeOK'
        /\ proc'[p] = [Outside EXCEPT !.at = "killed"]
        /\ \A q \in Procs \ {p} : proc'[q] = proc[q]
        /\ \A o \in Objects : \/ object'[o] = object[o] /\ gone'[o] = gone[o] \union {p}
                              \/ object'[o] = Blank
        /\ \A q \in Procs : proc'[q].obj \in Objects =>
             object'[proc'[q].obj] = object[proc'[q].obj]
        /\ \A q \in Procs : proc'[q].fd \in Objects =>
             object'[proc'[q].fd] = object[proc'[q].fd]
        /\ named' = named /\ orphaned' = (orphaned \/ Claims(p))
    BY KillFacts DEF IInv
  <1>2. /\ proc'[p].at = "killed" /\ proc'[p].fd = NoObject
        /\ ~proc'[p].hasName /\ ~proc'[p].create
    BY <1>1 DEF Outside
  <1>3. \A q \in Procs : proc'[q].at # "killed" => q # p /\ proc'[q] = proc[q]
    BY <1>1, <1>2
  <1>4. \A q \in Procs : proc'[q] = proc[q] \/ (~proc'[q].hasName /\ ~proc'[q].create)
    BY <1>1, <1>2
  <1>5. Shape'
    BY <1>1, <1>2 DEF IInv, Shape, Claims, At
  <1>6. OneCreator'
    BY <1>3, <1>4 DEF IInv, OneCreator, Creating, Made, Claims, At
  <1>7. NotYetReady'
    BY <1>1, <1>3, <1>5 DEF IInv, NotYetReady, Shape, Creating, Made, At
  <1>8. ReadyIsSized'
    BY <1>1 DEF IInv, ReadyIsSized, Blank
  <1>9. InService'
    BY <1>1, <1>3, <1>5 DEF IInv, InService, Shape, At
  <1>10. LockIsNamed'
    BY <1>1, <1>2, ObjectAssumption DEF IInv, LockIsNamed, At, Blank
  <1>11. NameIsClaimed'
    BY <1>1 DEF IInv, NameIsClaimed, Claims
  <1> QED
    BY <1>1, <1>5, <1>6, <1>7, <1>8, <1>9, <1>10, <1>11 DEF IInv

\* Once hcore_slab_init has run the pool is ready, and nobody was using it.
LEMMA CreateInitStep ==
  ASSUME IInv, NEW p \in Procs, CreateInit(p)
  PROVE  IInv'
  <1> DEFINE o == proc[p].obj
             r == [proc[p] EXCEPT !.at = "using", !.fd = NoObject]
             m == [object[o] EXCEPT !.addr = proc[p].addr, !.ready = TRUE]
  <1>1. CASE ~object[o].sized
    BY <1>1, KillStep DEF CreateInit
  <1>2. CASE object[o].sized
    <2>1. /\ At(p, "mapped") /\ Set(p, r) /\ UNCHANGED <<named, gone, orphaned>>
          /\ object' = [object EXCEPT ![o].addr = proc[p].addr, ![o].ready = TRUE]
      BY <1>2 DEF CreateInit
    <2>2. /\ proc[p] \in Processes /\ o \in Objects /\ object[o] \in Memories
          /\ NoObject \in 0 .. MaxObjects
      BY <2>1, ObjectAssumption DEF IInv, TypeOK, Shape, NoObject
    <2>3. /\ r \in Processes /\ r.at = "using" /\ r.fd = NoObject /\ r.obj = o
          /\ r.hasName = proc[p].hasName /\ r.create = proc[p].create
          /\ r.addr = proc[p].addr
      BY <2>2 DEF Processes, Steps
    <2>4. /\ m \in Memories /\ m.sized /\ m.ready /\ m.addr = proc[p].addr
          /\ m.lock = object[o].lock
      BY <1>2, <2>2 DEF Memories, Processes
    <2>5. object' = [object EXCEPT ![o] = m]
      BY <2>1, <2>2 DEF IInv, TypeOK, Memories
    <2> HIDE DEF m, r
    <2>6. /\ object' \in [Objects -> Memories] /\ object'[o] = m
          /\ \A x \in Objects \ {o} : object'[x] = object[x]
      BY <2>4, <2>5, <2>2 DEF IInv, TypeOK
    <2>7. /\ proc' \in [Procs -> Processes] /\ proc'[p] = r
          /\ \A q \in Procs \ {p} : proc'[q] = proc[q]
      BY <2>1, <2>3, ProcFacts DEF IInv
    <2>8. TypeOK'
      BY <2>1, <2>6, <2>7 DEF IInv, TypeOK
    <2>9. Shape'
      BY <2>1, <2>2, <2>3, <2>7 DEF IInv, Shape, Claims, At
    <2>10. OneCreator'
      BY <2>1, <2>3, <2>7 DEF IInv, OneCreator, Creating, Made, Claims, At
    <2>11. NotYetReady'
      <3>1. \A q \in Procs \ {p} : Creating(q) => Made(q) \in Objects \ {o}
        BY <2>1, MadeIsObject DEF IInv, OneCreator, Creating, Made, At
      <3>2. \A q \in Procs \ {p} : Creating(q) => ~object'[Made(q)].ready
        BY <2>6, <3>1 DEF IInv, NotYetReady
      <3> QED
        BY <2>3, <2>7, <3>2 DEF NotYetReady, Creating, Made, At
    <2>12. ReadyIsSized'
      BY <2>4, <2>6 DEF IInv, ReadyIsSized
    <2>13. InService'
      <3>1. ~object[o].ready
        BY <2>1 DEF IInv, NotYetReady, Creating, Made, At
      <3>2. \A q \in Procs \ {p} : At(q, "using") /\ ~proc[q].early =>
              object'[proc[q].obj] = object[proc[q].obj]
        BY <3>1, <2>6 DEF IInv, InService, Shape
      <3> QED
        BY <2>3, <2>4, <2>6, <2>7, <3>2 DEF IInv, InService, At
    <2>14. LockIsNamed'
      BY <2>1, <2>4, <2>6, <2>7 DEF IInv, LockIsNamed, At
    <2>15. NameIsClaimed'
      BY <2>1, <2>3, <2>7 DEF IInv, NameIsClaimed, Claims
    <2> QED
      BY <2>8, <2>9, <2>10, <2>11, <2>12, <2>13, <2>14, <2>15 DEF IInv
  <1> QED
    BY <1>1, <1>2

\* A call of p ends, or p gives up what it had; no other process is deprived
\* of anything.
LEMMA ReleaseStep ==
  ASSUME IInv, NEW p \in Procs, NEW r \in Processes, Set(p, r), Keep(object),
         orphaned' = orphaned,
         r.at \in {"outside", "unlinking", "destroying"}, r.fd = NoObject,
         r.at = "outside" => ~(r.hasName /\ r.create),
         r.hasName /\ r.create => Claims(p),
         \A o \in Objects : object[o].lock = p => p \in gone[o],
         \/ named' = NoObject
         \/ named' = named /\ (Claims(p) => r.hasName /\ r.create)
  PROVE  IInv'
  <1>1. named' \in 0 .. MaxObjects
    BY ObjectAssumption DEF IInv, TypeOK, NoObject
  <1>2. /\ TypeOK'
        /\ proc'[p] = r
        /\ \A q \in Procs \ {p} : proc'[q] = proc[q]
        /\ \A o \in Objects : \/ object'[o] = object[o] /\ gone'[o] = gone[o]
                              \/ object'[o] = Blank
        /\ \A q \in Procs : proc'[q].obj \in Objects =>
             object'[proc'[q].obj] = object[proc'[q].obj]
        /\ \A q \in Procs : proc'[q].fd \in Objects =>
             object'[proc'[q].fd] = object[proc'[q].fd]
    BY <1>1, KeepFacts DEF IInv
  <1>3. Shape'
    BY <1>2 DEF IInv, Shape, Claims, At
  <1>4. OneCreator'
    BY <1>2 DEF IInv, OneCreator, Creating, Made, Claims, At
  <1>5. NotYetReady'
    BY <1>2, <1>3 DEF IInv, NotYetReady, Shape, Creating, Made, At
  <1>6. ReadyIsSized'
    BY <1>2 DEF IInv, ReadyIsSized, Blank
  <1>7. InService'
    BY <1>2, <1>3 DEF IInv, InService, Shape, At
  <1>8. LockIsNamed'
    BY <1>2, ObjectAssumption DEF IInv, LockIsNamed, At, Blank
  <1>9. NameIsClaimed'
    BY <1>2 DEF IInv, NameIsClaimed, Claims
  <1> QED
    BY <1>2, <1>3, <1>4, <1>5, <1>6, <1>7, <1>8, <1>9 DEF IInv

\* hcore_get_shpool claims nothing, and knows whether what it mapped is ready.
LEMMA GetStep ==
  ASSUME IInv, NEW p \in Procs, GetOpen(p) \/ GetStat(p) \/ GetMap(p)
  PROVE  IInv'
  <1>1. NoObject \in 0 .. MaxObjects
    BY ObjectAssumption DEF NoObject
  <1>2. PICK r \in Processes :
          /\ Set(p, r)
          /\ ~Creating(p) /\ ~At(p, "using")
          /\ r.at \in {"getting", "stated", "failing", "using"}
          /\ r.at \in {"getting", "stated"} => r.fd \in Objects
          /\ (r.hasName /\ r.create) <=> Claims(p)
          /\ r.at = "using" => /\ r.fd = NoObject /\ r.obj \in Objects
                               /\ r.origin = "get"
                               /\ ~r.early => object[r.obj].ready
    <2> DEFINE Result(r) ==
          /\ Set(p, r)
          /\ ~Creating(p) /\ ~At(p, "using")
          /\ r.at \in {"getting", "stated", "failing", "using"}
          /\ r.at \in {"getting", "stated"} => r.fd \in Objects
          /\ (r.hasName /\ r.create) <=> Claims(p)
          /\ r.at = "using" => /\ r.fd = NoObject /\ r.obj \in Objects
                               /\ r.origin = "get"
                               /\ ~r.early => object[r.obj].ready
    <2>1. proc[p] \in Processes
      BY DEF IInv, TypeOK
    <2>2. CASE GetOpen(p)
      <3> DEFINE r == [Outside EXCEPT !.at = "getting", !.fd = named, !.hasName = TRUE]
      <3>1. named \in Objects /\ named \in 0 .. MaxObjects
        BY <2>2, ObjectAssumption DEF GetOpen, IInv, TypeOK, Objects, NoObject
      <3>2. /\ r \in Processes /\ r.at = "getting" /\ r.fd = named /\ ~r.create
        BY <3>1, Emptied DEF Processes, Steps, Outside
      <3>3. Set(p, r) /\ At(p, "outside") /\ ~Claims(p)
        BY <2>2 DEF GetOpen, IInv, Shape, At
      <3> HIDE DEF r
      <3>4. Result(r)
        BY <3>1, <3>2, <3>3 DEF Creating, At
      <3> QED
        BY <3>2, <3>4
    <2>3. CASE GetStat(p)
      <3> DEFINE s == IF object[proc[p].fd].sized THEN "stated" ELSE "failing"
                 r == [proc[p] EXCEPT !.at = s]
      <3>1. s \in {"stated", "failing"}
        OBVIOUS
      <3>2. Set(p, r) /\ At(p, "getting") /\ proc[p].fd \in Objects
        BY <2>3 DEF GetStat, IInv, Shape, At
      <3> HIDE DEF s
      <3>3. /\ r \in Processes /\ r.at = s /\ r.fd = proc[p].fd
            /\ r.hasName = proc[p].hasName /\ r.create = proc[p].create
        BY <2>1, <3>1 DEF Processes, Steps
      <3> HIDE DEF r
      <3>4. Result(r)
        BY <3>1, <3>2, <3>3 DEF Creating, At, Claims
      <3> QED
        BY <3>3, <3>4
    <2>4. CASE GetMap(p)
      <3>1. At(p, "stated") /\ proc[p].fd \in Objects
        BY <2>4 DEF GetMap, IInv, Shape, At
      <3>2. CASE Set(p, [proc[p] EXCEPT !.at = "failing"])
        <4> DEFINE r == [proc[p] EXCEPT !.at = "failing"]
        <4>1. /\ r \in Processes /\ r.at = "failing"
              /\ r.hasName = proc[p].hasName /\ r.create = proc[p].create
          BY <2>1 DEF Processes, Steps
        <4> HIDE DEF r
        <4>2. Result(r)
          BY <3>1, <3>2, <4>1 DEF Creating, At, Claims, r
        <4> QED
          BY <4>1, <4>2
      <3>3. ASSUME NEW a \in Addresses,
                   Set(p, [proc[p] EXCEPT !.at = "using", !.obj = proc[p].fd, !.fd = NoObject,
                                          !.addr = a, !.origin = "get",
                                          !.early = ~object[proc[p].fd].ready])
            PROVE  \E r \in Processes : Result(r)
        <4> DEFINE e == ~object[proc[p].fd].ready
                   r == [proc[p] EXCEPT !.at = "using", !.obj = proc[p].fd, !.fd = NoObject,
                                        !.addr = a, !.origin = "get", !.early = e]
        <4>1. e \in BOOLEAN /\ (~e => object[proc[p].fd].ready) /\ Set(p, r)
          BY <3>3
        <4> HIDE DEF e
        <4>2. /\ r \in Processes /\ r.at = "using" /\ r.fd = NoObject /\ r.obj = proc[p].fd
              /\ r.origin = "get" /\ r.early = e
              /\ r.hasName = proc[p].hasName /\ r.create = proc[p].create
          BY <1>1, <2>1, <4>1 DEF Processes, Steps
        <4> HIDE DEF r
        <4>3. Result(r)
          BY <3>1, <4>1, <4>2 DEF Creating, At, Claims
        <4> QED
          BY <4>2, <4>3
      <3> QED
        BY <2>4, <3>2, <3>3 DEF GetMap
    <2> QED
      BY <2>2, <2>3, <2>4
  <1>3. UNCHANGED <<named, object, gone, orphaned>>
    BY DEF GetOpen, GetStat, GetMap
  <1>4. /\ proc' \in [Procs -> Processes] /\ proc'[p] = r
        /\ \A q \in Procs \ {p} : proc'[q] = proc[q]
    BY <1>2, ProcFacts DEF IInv
  <1>5. TypeOK'
    BY <1>3, <1>4 DEF IInv, TypeOK
  <1>6. Shape'
    BY <1>2, <1>4 DEF IInv, Shape, Claims, At
  <1>7. OneCreator'
    BY <1>2, <1>4 DEF IInv, OneCreator, Creating, Made, Claims, At
  <1>8. NotYetReady'
    BY <1>2, <1>3, <1>4 DEF IInv, NotYetReady, Creating, Made, At
  <1>9. ReadyIsSized'
    BY <1>3 DEF IInv, ReadyIsSized
  <1>10. InService'
    BY <1>2, <1>3, <1>4 DEF IInv, InService, At
  <1>11. LockIsNamed'
    BY <1>2, <1>3, <1>4 DEF IInv, LockIsNamed, At
  <1>12. NameIsClaimed'
    BY <1>2, <1>3, <1>4 DEF IInv, NameIsClaimed, Claims
  <1> QED
    BY <1>5, <1>6, <1>7, <1>8, <1>9, <1>10, <1>11, <1>12 DEF IInv

\* The error paths and hcore_destroy_shpool, by a process that does not hold
\* the lock.
LEMMA LetGoStep ==
  ASSUME IInv, NEW p \in Procs,
         Fail(p) \/ UnlinkFailed(p) \/ DestroyUnmap(p) \/ DestroyUnlink(p)
  PROVE  IInv'
  <1> DEFINE r1 == [proc[p] EXCEPT !.at = "unlinking", !.fd = NoObject]
             r2 == [Outside EXCEPT !.at = "destroying", !.hasName = proc[p].hasName,
                                   !.create = proc[p].create]
  <1>1. proc[p] \in Processes /\ NoObject \in 0 .. MaxObjects
    BY ObjectAssumption DEF IInv, TypeOK, NoObject
  <1>2. /\ r1 \in Processes /\ r1.at = "unlinking" /\ r1.fd = NoObject
        /\ r1.hasName = proc[p].hasName /\ r1.create = proc[p].create
    BY <1>1 DEF Processes, Steps
  <1>3. /\ r2 \in Processes /\ r2.at = "destroying" /\ r2.fd = NoObject
        /\ r2.hasName = proc[p].hasName /\ r2.create = proc[p].create
    BY <1>1, Emptied DEF Processes, Steps, Outside
  <1>4. /\ Outside \in Processes /\ Outside.at = "outside" /\ Outside.fd = NoObject
        /\ ~Outside.create
    BY Emptied DEF Outside
  <1>5. \A o \in Objects : object[o].lock = p =>
          p \in gone[o] \/ (At(p, "using") /\ proc[p].obj = o)
    BY DEF IInv, LockIsNamed
  <1> HIDE DEF r1, r2
  <1>6. CASE Fail(p)
    <2>1. Set(p, r1) /\ Keep(object) /\ orphaned' = orphaned /\ named' = named /\ At(p, "failing")
      BY <1>6 DEF Fail, r1
    <2>2. \A o \in Objects : object[o].lock = p => p \in gone[o]
      BY <1>5, <2>1 DEF At
    <2> QED
      BY <1>2, <2>1, <2>2, ReleaseStep DEF Claims
  <1>7. CASE UnlinkFailed(p)
    <2>1. /\ Set(p, Outside) /\ Keep(object) /\ orphaned' = orphaned /\ named' = NoObject
          /\ At(p, "unlinking")
      BY <1>7 DEF UnlinkFailed
    <2>2. \A o \in Objects : object[o].lock = p => p \in gone[o]
      BY <1>5, <2>1 DEF At
    <2> QED
      BY <1>4, <2>1, <2>2, ReleaseStep
  <1>8. CASE DestroyUnmap(p)
    <2>1. /\ Set(p, r2) /\ Keep(object) /\ orphaned' = orphaned /\ named' = named
          /\ object[proc[p].obj].lock # p
      BY <1>8 DEF DestroyUnmap, r2
    <2>2. \A o \in Objects : object[o].lock = p => p \in gone[o]
      BY <1>5, <2>1
    <2> QED
      BY <1>3, <2>1, <2>2, ReleaseStep DEF Claims
  <1>9. CASE DestroyUnlink(p)
    <2>1. /\ Set(p, Outside) /\ Keep(object) /\ orphaned' = orphaned /\ At(p, "destroying")
          /\ named' = NoObject \/ (named' = named /\ ~Claims(p))
      BY <1>9 DEF DestroyUnlink, Claims
    <2>2. \A o \in Objects : object[o].lock = p => p \in gone[o]
      BY <1>5, <2>1 DEF At
    <2> QED
      BY <1>4, <2>1, <2>2, ReleaseStep
  <1> QED
    BY <1>6, <1>7, <1>8, <1>9

\* The lock word names a process that uses the pool.
LEMMA LockStep ==
  ASSUME IInv, NEW p \in Procs, Lock(p) \/ Unlock(p)
  PROVE  IInv'
  <1> DEFINE o == proc[p].obj
  <1>1. /\ At(p, "using") /\ o \in Objects /\ object[o] \in Memories
        /\ UNCHANGED <<named, proc, gone, orphaned>>
    BY DEF Lock, Unlock, IInv, Shape, TypeOK
  <1>2. PICK w \in {p, NoProc} : object' = [object EXCEPT ![o].lock = w]
    BY DEF Lock, Unlock
  <1> DEFINE m == [object[o] EXCEPT !.lock = w]
  <1>3. /\ m \in Memories /\ m.lock = w /\ m.sized = object[o].sized
        /\ m.ready = object[o].ready /\ m.addr = object[o].addr
    BY <1>1 DEF Memories
  <1>4. object' = [object EXCEPT ![o] = m]
    BY <1>2
  <1> HIDE DEF m
  <1>5. /\ object' \in [Objects -> Memories]
        /\ \A x \in Objects : /\ object'[x].sized = object[x].sized
                              /\ object'[x].ready = object[x].ready
                              /\ object'[x].addr = object[x].addr
                              /\ IF x = o THEN object'[x].lock \in {p, NoProc}
                                 ELSE object'[x].lock = object[x].lock
    BY <1>1, <1>3, <1>4 DEF IInv, TypeOK
  <1>6. TypeOK'
    BY <1>1, <1>5 DEF IInv, TypeOK
  <1>7. Shape' /\ OneCreator' /\ NameIsClaimed'
    BY <1>1 DEF IInv, Shape, OneCreator, NameIsClaimed, Creating, Made, Claims, At
  <1>8. NotYetReady'
    BY <1>1, <1>5, MadeIsObject DEF IInv, NotYetReady, Creating, Made, At
  <1>9. ReadyIsSized'
    BY <1>5 DEF IInv, ReadyIsSized
  <1>10. InService'
    BY <1>1, <1>5 DEF IInv, InService, Shape, At
  <1>11. LockIsNamed'
    BY <1>1, <1>5, ObjectAssumption DEF IInv, LockIsNamed, At
  <1> QED
    BY <1>6, <1>7, <1>8, <1>9, <1>10, <1>11 DEF IInv

\* A child has a pool as its parent has it.
LEMMA ForkStep ==
  ASSUME IInv, NEW p \in Procs, NEW child \in Procs, Fork(p, child)
  PROVE  IInv'
  <1> DEFINE s == IF proc[p].origin = "get" THEN proc[p].origin ELSE "fork"
             r == [proc[p] EXCEPT !.origin = s]
  <1>1. /\ At(p, "using") /\ At(child, "outside") /\ p # child /\ Set(child, r)
        /\ UNCHANGED <<named, object, gone, orphaned>>
        /\ proc[p] \in Processes /\ proc[p].obj \in Objects /\ proc[p].fd = NoObject
        /\ ~Claims(child)
    BY DEF Fork, IInv, TypeOK, Shape, At
  <1>2. s \in {"get", "fork"} /\ (s # "get" => proc[p].origin # "get")
    OBVIOUS
  <1> HIDE DEF s
  <1>3. /\ r \in Processes /\ r.at = proc[p].at /\ r.fd = proc[p].fd /\ r.obj = proc[p].obj
        /\ r.hasName = proc[p].hasName /\ r.create = proc[p].create /\ r.addr = proc[p].addr
        /\ r.early = proc[p].early /\ r.origin = s
    BY <1>1, <1>2 DEF Processes
  <1> HIDE DEF r
  <1>4. /\ proc' \in [Procs -> Processes] /\ proc'[child] = r
        /\ \A q \in Procs \ {child} : proc'[q] = proc[q]
    BY <1>1, <1>3, ProcFacts DEF IInv
  <1>5. TypeOK'
    BY <1>1, <1>4 DEF IInv, TypeOK
  <1>6. Shape'
    BY <1>1, <1>3, <1>4 DEF IInv, Shape, Claims, At
  <1>7. OneCreator'
    <2>1. \A q \in Procs : Creating(q)' => q # child /\ q # p
      BY <1>1, <1>3, <1>4 DEF Creating, At
    <2> QED
      BY <1>1, <1>3, <1>4, <2>1 DEF IInv, OneCreator, Creating, Made, Claims, At
  <1>8. NotYetReady'
    BY <1>1, <1>3, <1>4 DEF IInv, NotYetReady, Creating, Made, At
  <1>9. ReadyIsSized'
    BY <1>1 DEF IInv, ReadyIsSized
  <1>10. InService'
    BY <1>1, <1>2, <1>3, <1>4 DEF IInv, InService, At
  <1>11. LockIsNamed'
    BY <1>1, <1>4 DEF IInv, LockIsNamed, At
  <1>12. NameIsClaimed'
    BY <1>1, <1>4 DEF IInv, NameIsClaimed, Claims
  <1> QED
    BY <1>5, <1>6, <1>7, <1>8, <1>9, <1>10, <1>11, <1>12 DEF IInv
-----------------------------------------------------------------------------
\* The invariant holds from the start: nothing exists.
LEMMA Initially == Init => IInv
  <1> SUFFICES ASSUME Init PROVE IInv
    OBVIOUS
  <1>1. /\ \A p \in Procs : proc[p] = Outside
        /\ \A o \in Objects : object[o] = Blank
    BY DEF Init
  <1>2. TypeOK
    <2>1. NoObject \in 0 .. MaxObjects
      BY ObjectAssumption DEF NoObject
    <2> QED
      BY <2>1, Emptied DEF Init, TypeOK
  <1>3. Shape /\ OneCreator /\ NotYetReady /\ InService /\ NameIsClaimed
    BY <1>1 DEF Shape, OneCreator, NotYetReady, InService, NameIsClaimed, Creating, Claims, At,
                Outside, Init
  <1>4. ReadyIsSized /\ LockIsNamed
    BY <1>1, ObjectAssumption DEF ReadyIsSized, LockIsNamed, Blank
  <1> QED
    BY <1>2, <1>3, <1>4 DEF IInv

\* No step of any process breaks the invariant.
LEMMA Inductive == IInv /\ [Next]_vars => IInv'
  <1> SUFFICES ASSUME IInv, [Next]_vars PROVE IInv'
    OBVIOUS
  <1>1. CASE UNCHANGED vars
    BY <1>1 DEF vars, IInv, TypeOK, Shape, OneCreator, NotYetReady, ReadyIsSized, InService,
                LockIsNamed, NameIsClaimed, Creating, Made, Claims, At
  <1>2. ASSUME NEW p \in Procs,
               \/ CreateOpen(p) \/ CreateResize(p) \/ CreateMap(p) \/ CreateAnonymous(p)
               \/ CreateInit(p)
               \/ GetOpen(p) \/ GetStat(p) \/ GetMap(p)
               \/ Fail(p) \/ UnlinkFailed(p)
               \/ DestroyUnmap(p) \/ DestroyUnlink(p)
               \/ Lock(p) \/ Unlock(p) \/ Crash(p)
               \/ \E child \in Procs : Fork(p, child)
        PROVE  IInv'
    <2>1. CASE CreateOpen(p)
      BY <2>1, CreateOpenStep
    <2>2. CASE CreateResize(p)
      BY <2>2, CreateResizeStep
    <2>3. CASE CreateMap(p)
      BY <2>3, CreateMapStep
    <2>4. CASE CreateAnonymous(p)
      BY <2>4, CreateAnonymousStep
    <2>5. CASE CreateInit(p)
      BY <2>5, CreateInitStep
    <2>6. CASE GetOpen(p) \/ GetStat(p) \/ GetMap(p)
      BY <2>6, GetStep
    <2>7. CASE Fail(p) \/ UnlinkFailed(p) \/ DestroyUnmap(p) \/ DestroyUnlink(p)
      BY <2>7, LetGoStep
    <2>8. CASE Lock(p) \/ Unlock(p)
      BY <2>8, LockStep
    <2>9. CASE Crash(p)
      BY <2>9, KillStep DEF Crash
    <2>10. CASE \E child \in Procs : Fork(p, child)
      BY <2>10, ForkStep
    <2> QED
      BY <1>2, <2>1, <2>2, <2>3, <2>4, <2>5, <2>6, <2>7, <2>8, <2>9, <2>10
  <1> QED
    BY <1>1, <1>2 DEF Next

\* IInv holds in every state the processes reach.
LEMMA Invariance == Spec => []IInv
  BY Initially, Inductive, PTL DEF Spec

\* The variables keep their types.
THEOREM TypeCorrect == Spec => []TypeOK
  <1>1. IInv => TypeOK
    BY DEF IInv
  <1> QED
    BY <1>1, Invariance, PTL

\* A pool that hcore_create_shpool or hcore_get_shpool returned, or that a
\* fork inherited, stays usable until its process destroys it, whatever the
\* others do and however they are killed.
THEOREM StaysUsable == Spec => []PoolUsable
  <1>1. IInv => PoolUsable
    <2> SUFFICES ASSUME IInv, NEW p \in Procs, At(p, "using"), ~proc[p].early,
                        NEW o, o = proc[p].obj, NEW holder, holder = object[o].lock
                 PROVE  /\ object[o].sized /\ object[o].ready
                        /\ proc[p].origin # "get" => object[o].addr = proc[p].addr
                        /\ holder # NoProc =>
                             holder \in gone[o] \/ (At(holder, "using") /\ proc[holder].obj = o)
      BY DEF PoolUsable
    <2>1. o \in Objects
      BY DEF IInv, Shape
    <2>2. holder # NoProc => holder \in Procs
      BY <2>1 DEF IInv, TypeOK, Memories
    <2>3. object[o].ready /\ (proc[p].origin # "get" => object[o].addr = proc[p].addr)
      BY DEF IInv, InService
    <2>4. object[o].sized
      BY <2>1, <2>3 DEF IInv, ReadyIsSized
    <2>5. holder # NoProc => holder \in gone[o] \/ (At(holder, "using") /\ proc[holder].obj = o)
      BY <2>1, <2>2 DEF IInv, LockIsNamed
    <2> QED
      BY <2>3, <2>4, <2>5
  <1> QED
    BY <1>1, Invariance, PTL

\* Calls that fail half way and hcore_destroy_shpool leave no name and no
\* descriptor behind; only a process that is killed may.
THEOREM NothingIsLeft == Spec => []NothingLeft
  <1>1. IInv => NothingLeft
    BY DEF IInv, NothingLeft, Shape, NameIsClaimed, TypeOK
  <1> QED
    BY <1>1, Invariance, PTL
=============================================================================

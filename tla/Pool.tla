------------------------------- MODULE Pool -------------------------------
(***************************************************************************)
(* The memory pool of src/src/hcore_pool.c: a chain of blocks of one size  *)
(* from which small requests are cut, a list of separately allocated large *)
(* requests, and a list of cleanup handlers run by hcore_destroy_pool.     *)
(*                                                                         *)
(* An address inside the pool is a block and an offset.  The header of the *)
(* first block is a whole hcore_pool_t; of the header of a later block the *)
(* code uses the field "d" (last, end, next, failed) at DOffset.  A write  *)
(* to a chunk that shares a byte with the header of its block destroys     *)
(* the header: broken becomes TRUE and nothing is modelled after it.       *)
(***************************************************************************)
EXTENDS Integers, Sequences, FiniteSets, FiniteSetsExt

CONSTANTS
  BlockSize,     \* the size given to hcore_create_pool
  HeaderSize,    \* sizeof(hcore_pool_t)
  DOffset,       \* offsetof(hcore_pool_t, d)
  DSize,         \* sizeof(hcore_pool_data_t)
  LargeSize,     \* sizeof(hcore_pool_large_t)
  CleanupSize,   \* sizeof(hcore_pool_cleanup_t)
  PageSize,      \* hcore_getpagesize()
  FailLimit,     \* 4 in hcore_palloc_block
  LargeScan,     \* 3 in hcore_palloc_large
  Customed,      \* made by hcore_create_custom_pool
  Sizes,         \* the sizes clients ask for
  MaxBlocks, MaxLarge, MaxCleanups,   \* bounds: memory, objects, handlers
  MaxChunks      \* bound: requests are made while fewer chunks are in use

\* HCORE_ALIGNMENT: sizeof(unsigned long).
Alignment == 8

ASSUME SizeAssumption ==
  /\ {HeaderSize, DOffset, DSize, LargeSize, CleanupSize} \subseteq Nat \ {0}
  /\ BlockSize \in Nat /\ PageSize \in Nat \ {0}
  /\ BlockSize >= HeaderSize
  /\ DOffset + DSize <= HeaderSize
  /\ DSize % Alignment = 0 /\ HeaderSize % Alignment = 0
  /\ DSize + LargeSize <= HeaderSize
  /\ Sizes \subseteq Nat \ {0}
ASSUME BoundAssumption ==
  /\ MaxBlocks \in Nat \ {0} /\ MaxLarge \in Nat /\ MaxCleanups \in Nat
  /\ MaxChunks \in Nat
  /\ FailLimit \in Nat /\ LargeScan \in Nat
  /\ Customed \in BOOLEAN

VARIABLES
  mem,        \* the memory of the pool, a record (see Memory)
  cleanups,   \* pool->cleanup, first element first
  armed,      \* the cleanups whose handler was set
  phase,      \* "live", then hcore_destroy_pool: "cleaning", "handler", "done"
  todo,       \* the cleanups hcore_destroy_pool has still to visit
  due,        \* those with a handler when hcore_destroy_pool began
  ran         \* the handlers it called, in order

vars == <<mem, cleanups, armed, phase, todo, due, ran>>
-----------------------------------------------------------------------------
Blocks == 1 .. MaxBlocks
Objects == 1 .. MaxLarge
Kinds == {"client", "large", "cleanup", "array", "link"}

\* What the allocator below the pool hands out.
BlockObj(b) == <<"block", b>>
LargeObj(i) == <<"large", i>>
CustomObj(i) == <<"custom", i>>
Allocated == {BlockObj(b) : b \in Blocks} \union {LargeObj(i) : i \in Objects}
             \union {CustomObj(i) : i \in Objects}

Areas == [block : Blocks, off : Nat, size : Nat, kind : Kinds]

\* A large element that was emptied holds no object.
NoObject == 0

Memory == [
  n : Blocks,                       \* blocks in the chain
  current : Blocks,                 \* pool->current
  last : [Blocks -> Nat],           \* d.last of each block
  failed : [Blocks -> Nat],         \* d.failed of each block
  chunks : SUBSET Areas,            \* what was cut from the blocks and is in use
  large : Seq(Objects \union {NoObject}),   \* pool->large, first element first
  heap : SUBSET Allocated,          \* what was allocated and not yet freed
  wildFree : BOOLEAN,               \* something was freed that was not allocated
  broken : BOOLEAN]                 \* the header of a block was overwritten

\* The largest small request: min(size - sizeof(hcore_pool_t), pagesize - 1).
PoolMax == IF BlockSize - HeaderSize < PageSize - 1 THEN BlockSize - HeaderSize
           ELSE PageSize - 1

AlignUp(a) == ((a + Alignment - 1) \div Alignment) * Alignment

\* Where the header of a block lies, and where the chunks of a block start.
HeaderStart(b) == IF b = 1 THEN 0 ELSE DOffset
HeaderEnd(b) == IF b = 1 THEN HeaderSize ELSE DOffset + DSize
DataStart(b) == IF b = 1 THEN HeaderSize ELSE AlignUp(DSize)

OverHeader(c) ==
  /\ c.size > 0
  /\ c.off < HeaderEnd(c.block)
  /\ HeaderStart(c.block) < c.off + c.size

\* Mutant: pool->current is not set.
InitNoCurrent ==
  /\ mem = [n |-> 1, current |-> 0,
            last |-> [b \in Blocks |-> IF b = 1 THEN DataStart(1) ELSE 0],
            failed |-> [b \in Blocks |-> 0],
            chunks |-> {}, large |-> <<>>, heap |-> {BlockObj(1)},
            wildFree |-> FALSE, broken |-> FALSE]
  /\ cleanups = <<>> /\ armed = {}
  /\ phase = "live" /\ todo = <<>> /\ due = {} /\ ran = <<>>

Init ==
  /\ mem = [n |-> 1, current |-> 1,
            last |-> [b \in Blocks |-> IF b = 1 THEN DataStart(1) ELSE 0],
            failed |-> [b \in Blocks |-> 0],
            chunks |-> {}, large |-> <<>>, heap |-> {BlockObj(1)},
            wildFree |-> FALSE, broken |-> FALSE]
  /\ cleanups = <<>> /\ armed = {}
  /\ phase = "live" /\ todo = <<>> /\ due = {} /\ ran = <<>>
-----------------------------------------------------------------------------
(* Requests.  An outcome is the memory after the request, whether it was    *)
(* granted, and the chunk or the object that was returned.                  *)

NoChunk == [block |-> 1, off |-> 0, size |-> 0, kind |-> "client"]
Denied(m) == [mem |-> m, ok |-> FALSE, chunk |-> NoChunk, object |-> NoObject]

\* Where hcore_palloc_small would cut the next chunk of block b.
CutAt(m, b, align) == IF align THEN AlignUp(m.last[b]) ELSE m.last[b]

\* (size_t)(p->d.end - m) >= size: a negative difference is huge as a size_t.
Fits(m, b, size, align) ==
  \/ CutAt(m, b, align) > BlockSize
  \/ BlockSize - CutAt(m, b, align) >= size

Fitting(m, size, align) == {b \in m.current .. m.n : Fits(m, b, size, align)}

\* The chunk c is cut from its block; filled: the code itself writes to it.
Cut(m, c, filled) ==
  [mem |-> [m EXCEPT !.last = [@ EXCEPT ![c.block] = c.off + c.size],
                     !.chunks = @ \union {c},
                     !.broken = @ \/ (filled /\ OverHeader(c))],
   ok |-> TRUE, chunk |-> c, object |-> NoObject]

\* The walk of hcore_palloc_block over the blocks that have a successor.
Walked(m) == m.current .. (m.n - 1)
Full(m) == {b \in Walked(m) : m.failed[b] > FailLimit}
NextCurrent(m) == IF Full(m) = {} THEN m.current ELSE Max(Full(m)) + 1

\* A block is appended to the chain.
Grown(m) ==
  [m EXCEPT !.n = @ + 1,
            !.current = NextCurrent(m),
            !.failed = [b \in Blocks |-> IF b \in Walked(m) THEN m.failed[b] + 1
                                         ELSE m.failed[b]],
            !.heap = @ \union {BlockObj(m.n + 1)}]

\* hcore_palloc_small: a chunk of the first block with room from
\* pool->current on, or else of a new block, or NULL if hcore_memalign fails.
Small(m, size, align, kind, filled) ==
  LET fit == Fitting(m, size, align)
      Area(b, off) == [block |-> b, off |-> off, size |-> size, kind |-> kind]
  IN
  IF fit # {}
  THEN {Cut(m, Area(Min(fit), CutAt(m, Min(fit), align)), filled)}
  ELSE {Denied(m)} \union
       (IF m.n < MaxBlocks
        THEN {Cut(Grown(m), Area(m.n + 1, DataStart(m.n + 1)), filled)}
        ELSE {})

FreeObjects(m) == {i \in Objects : {LargeObj(i), CustomObj(i)} \intersect m.heap = {}}

\* The elements of pool->large that hcore_palloc_large looks at.
EmptySlots(m) == {k \in DOMAIN m.large : k <= LargeScan + 2 /\ m.large[k] = NoObject}

\* hcore_palloc_large puts object i in an emptied element, or in a new one
\* cut from the blocks; the object is freed again when that fails.
Taken(m, i, l) ==
  [mem |-> [m EXCEPT !.large = l, !.heap = @ \union {LargeObj(i)}],
   ok |-> TRUE, chunk |-> NoChunk, object |-> i]
Enlist(m, i) ==
  IF EmptySlots(m) # {}
  THEN {Taken(m, i, [m.large EXCEPT ![Min(EmptySlots(m))] = i])}
  ELSE {IF o.ok THEN Taken(o.mem, i, <<i>> \o m.large) ELSE Denied(m) :
          o \in Small(m, LargeSize, TRUE, "large", TRUE)}

Large(m) == {Denied(m)} \union UNION {Enlist(m, i) : i \in FreeObjects(m)}

Custom(m) ==
  {Denied(m)} \union
  {[mem |-> [m EXCEPT !.heap = @ \union {CustomObj(i)}],
    ok |-> TRUE, chunk |-> NoChunk, object |-> i] : i \in FreeObjects(m)}

\* hcore_pnalloc, and hcore_palloc, which is the same macro.
Alloc(m, size, kind, filled) ==
  IF Customed THEN Custom(m)
  ELSE IF size <= PoolMax THEN Small(m, size, FALSE, kind, filled)
  ELSE Large(m)

\* Mutant: l->alloc is not reset.
FreedStale(m, i) == [m EXCEPT !.heap = @ \ {LargeObj(i)}]

\* hcore_pfree of a large object or of one of a custom pool.
Freed(m, i) ==
  IF Customed
  THEN [m EXCEPT !.heap = @ \ {CustomObj(i)},
                 !.wildFree = @ \/ CustomObj(i) \notin m.heap]
  ELSE [m EXCEPT !.large = [k \in DOMAIN @ |-> IF @[k] = i THEN NoObject ELSE @[k]],
                 !.heap = @ \ {LargeObj(i)},
                 !.wildFree = @ \/ LargeObj(i) \notin m.heap]

\* The objects and the chunks that clients hold.
HeldObjects == {i \in Objects : {LargeObj(i), CustomObj(i)} \intersect mem.heap # {}}
HeldChunks == {c \in mem.chunks : c.kind = "client"}
-----------------------------------------------------------------------------
(* Actions *)

Usable == phase \in {"live", "handler"} /\ ~mem.broken
Fewer == Cardinality(mem.chunks) < MaxChunks
OnlyMemory == Usable /\ UNCHANGED <<cleanups, armed, phase, todo, due, ran>>

\* hcore_pnalloc; hcore_pcalloc also clears what it returns.
Palloc(size, clear) ==
  /\ OnlyMemory /\ Fewer
  /\ \E o \in Alloc(mem, size, "client", clear) : mem' = o.mem

Pfree(i) == OnlyMemory /\ i \in HeldObjects /\ mem' = Freed(mem, i)

\* A client fills a chunk it was given.
Write(c) ==
  /\ OnlyMemory
  /\ c \in HeldChunks
  /\ mem' = [mem EXCEPT !.broken = OverHeader(c)]

\* hcore_prealloc to size 0 gives back the last chunk of the first block.
ReallocToNothing(c) ==
  /\ OnlyMemory
  /\ c \in HeldChunks
  /\ mem' = [mem EXCEPT
       !.last = IF c.block = 1 /\ c.off + c.size = @[1]
                THEN [@ EXCEPT ![1] = c.off] ELSE @,
       !.chunks = @ \ {c}]

\* Mutant: the end of the block is ignored.
InPlaceNoEnd(c, size) == c.size <= PoolMax /\ c.off + c.size = mem.last[c.block]

InPlace(c, size) ==
  /\ c.size <= PoolMax
  /\ c.off + c.size = mem.last[c.block]
  /\ c.off + size <= BlockSize

\* The last chunk of a block changes its size where it is, any other one may
\* only shrink there.
ReallocInPlace(c, size) ==
  /\ OnlyMemory
  /\ c \in HeldChunks
  /\ InPlace(c, size) \/ size <= c.size
  /\ mem' = [mem EXCEPT
       !.last = IF InPlace(c, size) THEN [@ EXCEPT ![c.block] = c.off + size] ELSE @,
       !.chunks = (@ \ {c}) \union {[c EXCEPT !.size = size]}]

\* A new allocation receives the old contents; hcore_pfree finds no large
\* object at the old address and does nothing.
ReallocByCopy(c, size) ==
  /\ OnlyMemory
  /\ c \in HeldChunks
  /\ ~InPlace(c, size) /\ size > c.size
  /\ \E o \in Alloc(mem, size, "client", TRUE) :
       mem' = IF o.ok THEN [o.mem EXCEPT !.chunks = @ \ {c}] ELSE o.mem

\* The same for a large object that grows (one that shrinks stays as it is).
ReallocLarge(i, size) ==
  /\ OnlyMemory
  /\ i \in HeldObjects
  /\ size > PoolMax
  /\ \E o \in Alloc(mem, size, "client", TRUE) :
       mem' = IF o.ok THEN Freed(o.mem, i) ELSE o.mem

\* Mutant: a cleanup is put at the end of the list.
RegisteredLast(id) == Append(cleanups, id)

\* The new cleanup becomes the head of pool->cleanup.
Registered(id) == <<id>> \o cleanups

\* hcore_pool_cleanup_add asks for its structure and then for its data (size
\* 0: none); when the second fails the first is lost.  The caller sets the
\* handler of the structure it gets, or leaves it NULL.
CleanupAdd(size, arm) ==
  /\ Usable /\ Fewer
  /\ Len(cleanups) < MaxCleanups
  /\ \E o \in Alloc(mem, CleanupSize, "cleanup", TRUE) :
       \/ /\ ~o.ok
          /\ mem' = o.mem
          /\ UNCHANGED <<cleanups, armed>>
       \/ /\ o.ok
          /\ \E d \in IF size = 0 THEN {o} ELSE Alloc(o.mem, size, "client", FALSE) :
               LET id == Len(cleanups) + 1 IN
               /\ mem' = d.mem
               /\ cleanups' = IF d.ok THEN Registered(id) ELSE cleanups
               /\ armed' = IF d.ok /\ arm THEN armed \union {id} ELSE armed
  /\ UNCHANGED <<phase, todo, due, ran>>
-----------------------------------------------------------------------------
(* hcore_destroy_pool *)

DestroyBegin ==
  /\ phase = "live" /\ ~mem.broken
  /\ phase' = "cleaning"
  /\ todo' = cleanups
  /\ due' = armed
  /\ UNCHANGED <<mem, cleanups, armed, ran>>

\* Mutant: the walk advances only past the cleanups that have a handler.
RunHandlerStops ==
  /\ phase = "cleaning" /\ todo # <<>>
  /\ IF Head(todo) \in armed
     THEN phase' = "handler" /\ ran' = Append(ran, Head(todo)) /\ todo' = Tail(todo)
     ELSE UNCHANGED <<phase, ran, todo>>
  /\ UNCHANGED <<mem, cleanups, armed, due>>

\* Control passes to the client's handler, which may use the pool.
RunHandler ==
  /\ phase = "cleaning" /\ todo # <<>>
  /\ todo' = Tail(todo)
  /\ IF Head(todo) \in armed
     THEN phase' = "handler" /\ ran' = Append(ran, Head(todo))
     ELSE UNCHANGED <<phase, ran>>
  /\ UNCHANGED <<mem, cleanups, armed, due>>

HandlerReturns ==
  /\ phase = "handler" /\ ~mem.broken
  /\ phase' = "cleaning"
  /\ UNCHANGED <<mem, cleanups, armed, todo, due, ran>>

Listed == {k \in DOMAIN mem.large : mem.large[k] # NoObject}

\* The large objects, then the blocks; for a custom pool only what its own
\* destroy function frees.
Released ==
  IF Customed THEN {CustomObj(i) : i \in Objects} \intersect mem.heap
  ELSE {LargeObj(mem.large[k]) : k \in Listed} \union {BlockObj(b) : b \in 1 .. mem.n}

DestroyRelease ==
  /\ phase = "cleaning" /\ todo = <<>>
  /\ phase' = "done"
  /\ mem' = [mem EXCEPT
       !.heap = @ \ Released,
       !.wildFree = \/ @ \/ ~(Released \subseteq mem.heap)
                    \/ \E j, k \in Listed : j # k /\ mem.large[j] = mem.large[k]]
  /\ UNCHANGED <<cleanups, armed, todo, due, ran>>

DestroyStep == RunHandler \/ HandlerReturns \/ DestroyRelease
-----------------------------------------------------------------------------
\* Nothing is done with a pool that is gone, or after a header was lost.
Over == (phase = "done" \/ mem.broken) /\ UNCHANGED vars

Next ==
  \/ \E size \in Sizes, clear \in BOOLEAN : Palloc(size, clear)
  \/ \E i \in Objects : Pfree(i) \/ \E size \in Sizes : ReallocLarge(i, size)
  \/ \E c \in mem.chunks :
       \/ Write(c)
       \/ ReallocToNothing(c)
       \/ \E size \in Sizes : ReallocInPlace(c, size) \/ ReallocByCopy(c, size)
  \/ \E size \in Sizes \union {0}, arm \in BOOLEAN : CleanupAdd(size, arm)
  \/ DestroyBegin
  \/ DestroyStep
  \/ Over

Spec == Init /\ [][Next]_vars

\* hcore_destroy_pool runs to its end, and the handlers it calls return.
FairSpec == Spec /\ WF_vars(DestroyStep)
-----------------------------------------------------------------------------
(* Properties *)

\* The blocks, the large list, the heap and the cleanups are well formed.
TypeOK ==
  /\ mem \in Memory
  /\ cleanups \in Seq(1 .. MaxCleanups)
  /\ armed \in SUBSET (1 .. MaxCleanups)
  /\ phase \in {"live", "cleaning", "handler", "done"}
  /\ todo \in Seq(1 .. MaxCleanups)
  /\ due \in SUBSET (1 .. MaxCleanups)
  /\ ran \in Seq(1 .. MaxCleanups)

Disjoint(c, d) ==
  c.block = d.block => (c.off + c.size <= d.off \/ d.off + d.size <= c.off)

\* Two chunks that are in use never share a byte, whatever is allocated,
\* reallocated in place, shrunk or registered in between, and whether the
\* chunk belongs to a client, to the large list or to a cleanup.
ChunksDisjoint == \A c, d \in mem.chunks : c # d => Disjoint(c, d)

\* A chunk lies after the start of the data of its block and before d.last,
\* and d.last does not pass the end of the block.
ChunksInBlock ==
  /\ \A c \in mem.chunks : /\ c.block <= mem.n
                            /\ DataStart(c.block) <= c.off
                            /\ c.off + c.size <= mem.last[c.block]
  /\ \A b \in 1 .. mem.n : mem.last[b] <= BlockSize

\* hcore_destroy_pool frees everything once: the blocks, and the objects that
\* were not freed before, also those that cleanup handlers allocated or freed.
DestroyFreesAll == phase = "done" => mem.heap = {} /\ ~mem.wildFree

\* The handlers registered before hcore_destroy_pool began are called once
\* each, last registered first; one that a handler registers is not called.
HandlersInOrder ==
  phase = "done" => /\ \A k \in 1 .. Len(ran) - 1 : ran[k + 1] < ran[k]
                    /\ {ran[k] : k \in DOMAIN ran} = due

\* hcore_destroy_pool terminates, although handlers may register more.
DestroyEnds == phase = "cleaning" ~> (phase = "done" \/ mem.broken)

\* hcore_pool.h:82 and :121: a pool is a chain of blocks, and a request
\* returns a space of the pool that is the caller's: not the header of a block.
ChunkClearOfHeader == \A c \in mem.chunks : ~OverHeader(c)
=============================================================================

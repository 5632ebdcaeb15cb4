------------------------------ MODULE ShPool ------------------------------
(***************************************************************************)
(* The slab allocator in shared memory of src/src/hcore_shpool.c, used by  *)
(* processes that inherit one mapping.  Page descriptors, the list of free *)
(* page runs, the lists of pages with free chunks (slots) and the bitmaps  *)
(* of small pages are modelled field by field; a call is one step, because *)
(* it runs inside the mutex of the pool, which is the module Mutex.        *)
(*                                                                         *)
(* The arithmetic is that of a x86-64 build with pages of 4096 bytes.      *)
(* hcore_base.c computes 11 for hcore_getpagesize_shift() there, so page k *)
(* begins at start + k * 2048, and a request that needs k pages of the     *)
(* allocator never gets more than k * 2048 bytes.                          *)
(***************************************************************************)
EXTENDS Integers, FiniteSets, FiniteSetsExt

CONSTANTS
  Procs,     \* the processes that share the pool
  NoOwner,   \* the owner of a free mutex
  Pages,     \* pages of the pool: 7 in the smallest one
  Sizes,     \* the sizes clients ask for
  Zeroed,    \* the sizes they ask hcore_shpool_calloc for too
  MaxLive    \* bound: allocations that are in use at a time

PageSize == 4096      \* hcore_getpagesize()
PageShift == 11       \* hcore_getpagesize_shift()
MaxSize == 2048       \* hcore_get_slab_max_size()
ExactShift == 5       \* hcore_get_slab_exact_shift()
MinShift == 3         \* pool->min_shift
WordBits == 64        \* 8 * sizeof(uintptr_t)

ASSUME PoolAssumption ==
  /\ Pages \in 1 .. 11
  /\ Sizes \subseteq Nat \ {0}
  /\ Zeroed \subseteq Sizes
  /\ MaxLive \in Nat
  /\ NoOwner \notin Procs

VARIABLES
  desc,      \* the page descriptors, the slots and pool->free
  bitmap,    \* the bits set at the beginning of each small page
  pfree,     \* pool->pfree
  live,      \* the allocations that clients hold
  pc,        \* where each process is
  clear,     \* the allocation that hcore_shpool_calloc is to clear, if any
  owner,     \* the process that holds the mutex of the pool
  alive      \* the processes that run

slabVars == <<desc, bitmap, pfree>>
vars == <<desc, bitmap, pfree, live, pc, clear, owner, alive>>

Mtx == INSTANCE Mutex
-----------------------------------------------------------------------------
(* Descriptors.  The slots lie just before pool->pages, so that slot s is   *)
(* the descriptor s - NSlots, and the slot of class PageShift is page 0.    *)

NSlots == PageShift - MinShift
PageNodes == 0 .. Pages - 1
SlotNodes == (-NSlots) .. -1
FreeHead == -NSlots - 1          \* &pool->free
Null == -NSlots - 2
Nodes == PageNodes \union SlotNodes \union {FreeHead}
SlotNode(shift) == shift - MinShift - NSlots

\* The word "slab": a number n (pages or shift), the flags of the first page
\* and of the others of an allocated run, and the bits of the chunks in use;
\* "prev" carries the type of the page in its low bits.
Types == {"page", "big", "exact", "small"}
Descriptor == [n : 0 .. Pages \union 0 .. PageShift, flag : {"none", "start", "busy"},
               bits : SUBSET (0 .. WordBits - 1),
               prev : Nodes \union {Null}, type : Types, next : Nodes \union {Null}]
Blank == [n |-> 0, flag |-> "none", bits |-> {}, prev |-> Null, type |-> "page", next |-> Null]

Now == [desc |-> desc, bitmap |-> bitmap, pfree |-> pfree]

\* Node k leaves its list: its neighbours are linked, prev with its type.
Unlink(d, k) ==
  [d EXCEPT ![d[k].prev].next = d[k].next,
            ![d[k].next].prev = d[k].prev,
            ![d[k].next].type = d[k].type]

\* Mutant: the neighbours keep their links to the page.
RemoveFullListed(d, k, type) ==
  [d EXCEPT ![k].next = Null, ![k].prev = Null, ![k].type = type]

\* hcore_slab_remove_full_page
RemoveFull(d, k, type) ==
  [Unlink(d, k) EXCEPT ![k].next = Null, ![k].prev = Null, ![k].type = type]

\* The nodes that follow the head of a list, up to the head or a Null.
Walk(d, head) ==
  LET at[i \in 0 .. Pages] ==
        IF i = 0 THEN d[head].next
        ELSE LET k == at[i - 1] IN IF k \in {head, Null} THEN k ELSE d[k].next
  IN at

\* The runs on the free list in order; FreeHead ends the list.
FreeRun(d) == Walk(d, FreeHead)
FreeRuns(d) == LET run == FreeRun(d) IN {run[i] : i \in 0 .. Pages} \ {FreeHead, Null}

\* Mutant: the split leaves one page too many to the rest.
SplitLong(d, page, k) ==
  LET rest == page + k
      last == page + d[page].n - 1
      marked == [d EXCEPT ![last].prev = rest, ![last].type = "page"]
      placed == [marked EXCEPT ![rest] = [marked[page] EXCEPT !.n = @ - k + 1]]
  IN [placed EXCEPT ![d[page].prev].next = rest, ![d[page].next].prev = rest]

\* The first k pages of a longer run are cut off it.
Split(d, page, k) ==
  LET rest == page + k
      last == page + d[page].n - 1
      marked == [d EXCEPT ![last].prev = rest, ![last].type = "page"]
      placed == [marked EXCEPT ![rest] = [marked[page] EXCEPT !.n = @ - k]]
  IN [placed EXCEPT ![d[page].prev].next = rest, ![d[page].next].prev = rest]

Taken(d, page, k) ==
  [j \in Nodes |->
     IF j = page THEN [Blank EXCEPT !.n = k, !.flag = "start"]
     ELSE IF j \in page + 1 .. page + k - 1
          THEN [d[j] EXCEPT !.n = 0, !.flag = "busy", !.bits = {}, !.next = Null]
     ELSE d[j]]

\* hcore_slab_alloc_pages: the first run that is long enough, or Null.
AllocPages(s, k) ==
  LET run == FreeRun(s.desc)
      fit == {i \in 0 .. Pages : run[i] # FreeHead /\ k <= s.desc[run[i]].n}
      page == run[Min(fit)]
      d == IF k < s.desc[page].n THEN Split(s.desc, page, k) ELSE Unlink(s.desc, page)
  IN
  IF fit = {} THEN [s |-> s, page |-> Null]
  ELSE [s |-> [s EXCEPT !.desc = Taken(d, page, k), !.pfree = @ - k], page |-> page]

\* The free run at join leaves the list; the size of the run at first, which
\* takes or gives its pages, is set to HCORE_SLAB_PAGE_FREE.
Swallow(d, join, first) == [RemoveFull(d, join, "page") EXCEPT ![first].n = 0]

\* The freed run of k pages at page swallows the free run behind it.
JoinNext(d, page) ==
  LET join == page + d[page].n IN
  IF join < Pages /\ d[join].type = "page" /\ d[join].next # Null
  THEN [d |-> Swallow(d, join, page), page |-> page, more |-> d[join].n]
  ELSE [d |-> d, page |-> page, more |-> 0]

\* The free run before the page swallows it.
JoinPrev(d, page) ==
  LET near == page - 1
      join == IF d[near].n = 0 /\ d[near].flag = "none" THEN d[near].prev ELSE near
  IN
  IF page > 0 /\ d[near].type = "page" /\ d[join].next # Null
  THEN [d |-> Swallow(d, join, join), page |-> join, more |-> d[join].n]
  ELSE [d |-> d, page |-> page, more |-> 0]

\* The freed run of rest + 1 pages at first becomes the head of the free list.
PutFirst(d, first, rest) ==
  LET ended == IF rest > 0 THEN [d EXCEPT ![first + rest].prev = first,
                                          ![first + rest].type = "page"]
               ELSE d
      second == ended[FreeHead].next
  IN [ended EXCEPT ![first].prev = FreeHead, ![first].type = "page", ![first].next = second,
                   ![second].prev = first, ![second].type = "page", ![FreeHead].next = first]

\* hcore_slab_free_pages, without pool->pfree.
PagesFreed(s, page, k) ==
  LET emptied == [j \in Nodes |->
        IF j = page THEN [s.desc[j] EXCEPT !.n = k, !.flag = "none", !.bits = {}]
        ELSE IF j \in page + 1 .. page + k - 1 THEN Blank ELSE s.desc[j]]
      alone == IF s.desc[page].next # Null THEN Unlink(emptied, page) ELSE emptied
      behind == JoinNext(alone, page)
      before == JoinPrev(behind.d, page)
  IN [s EXCEPT !.desc = PutFirst(before.d, before.page, k - 1 + behind.more + before.more)]

FreePages(s, page, k) == [PagesFreed(s, page, k) EXCEPT !.pfree = @ + k]
-----------------------------------------------------------------------------
(* Requests.  An address is a page and an offset in it.                     *)

\* The class of a request: the least shift whose power of two holds it.
Shift(size) == Min({k \in MinShift .. PageShift : 2 ^ k >= size})

\* What hcore_slab_alloc_locked returns: an address, NULL, an address outside
\* the pool ("outside"), or nothing at all ("hung").
Outcome(s, kind, page, off) == [s |-> s, kind |-> kind, at |-> [page |-> page, off |-> off]]
Failure(s, kind) == Outcome(s, kind, 0, 0)

\* Bits of a small page, and those of them that stand for the bitmap itself.
SmallBits(shift) == 0 .. (PageSize \div 2 ^ shift) - 1
OwnBits(shift) == (PageSize \div 2 ^ shift) \div (8 * 2 ^ shift)

\* The first clear bit is set; the offset is computed from the word it is in.
AllocSmall(s, page, shift) ==
  LET b == Min(SmallBits(shift) \ s.bitmap[page])
      word == b \div WordBits
      bits == s.bitmap[page] \union {b}
  IN Outcome([s EXCEPT !.bitmap[page] = bits,
                       !.desc = IF SmallBits(shift) \subseteq bits
                                THEN RemoveFull(@, page, "small") ELSE @],
             "address", page, (word * WordBits + word) * 2 ^ shift)

\* The loop over the bits does not advance ("m << 1").
AllocExact(s, page) ==
  IF 0 \in s.desc[page].bits THEN Failure(s, "hung")
  ELSE Failure([s EXCEPT !.desc[page].bits = @ \union {0}], "outside")

\* mask: one bit for each chunk; a shift by 64 leaves 1, so that it is empty.
BigBits(shift) == IF PageSize \div 2 ^ shift = WordBits THEN {}
                  ELSE 0 .. (PageSize \div 2 ^ shift) - 1

\* "page->slab & MAP_MASK == mask" is the low bit of the class when the mask
\* covers the whole upper half, and 0 otherwise.
TakenForFull(shift) == Cardinality(BigBits(shift)) = 32 /\ shift % 2 = 1

\* Mutant: the loop does not advance past a chunk in use, as in AllocExact.
AllocBigStuck(s, page, shift) == Failure(s, "hung")

AllocBig(s, page, shift) ==
  LET bits == s.desc[page].bits \union {Min(BigBits(shift) \ s.desc[page].bits)}
      marked == [s.desc EXCEPT ![page].bits = bits]
  IN Outcome([s EXCEPT !.desc = IF TakenForFull(shift) THEN RemoveFull(marked, page, "big")
                                ELSE marked],
             "address", page, 0)

\* A page of its own for the class, put at the head of the slot.
NewPage(s, shift) ==
  LET got == AllocPages(s, 1)
      slot == SlotNode(shift)
      type == IF shift < ExactShift THEN "small" ELSE IF shift = ExactShift THEN "exact" ELSE "big"
      own == Max({OwnBits(shift), 1})
      placed == [got.s EXCEPT
        !.desc = [@ EXCEPT ![got.page] = [n |-> IF type = "exact" THEN 0 ELSE shift,
                                          flag |-> "none",
                                          bits |-> IF type = "small" THEN {} ELSE {0},
                                          prev |-> slot, type |-> type, next |-> slot],
                           ![slot].next = got.page],
        !.bitmap = IF type = "small" THEN [@ EXCEPT ![got.page] = 0 .. own] ELSE @]
  IN IF got.page = Null THEN Failure(s, "null")
     ELSE Outcome(placed, "address", got.page, IF type = "small" THEN own * 2 ^ shift ELSE 0)

\* The slot has a page with a chunk that is not in use.
HasChunk(s, shift, page) ==
  /\ s.desc[page].next # page
  /\ \/ shift < ExactShift /\ ~ SmallBits(shift) \subseteq s.bitmap[page]
     \/ shift = ExactShift
     \/ shift > ExactShift /\ ~ BigBits(shift) \subseteq s.desc[page].bits

AllocChunk(s, shift) ==
  LET page == s.desc[SlotNode(shift)].next IN
  IF ~HasChunk(s, shift, page) THEN NewPage(s, shift)
  ELSE IF shift < ExactShift THEN AllocSmall(s, page, shift)
  ELSE IF shift = ExactShift THEN AllocExact(s, page)
  ELSE AllocBig(s, page, shift)

\* Mutant: the remainder of the size is dropped.
AllocRunShort(s, size) ==
  LET got == AllocPages(s, size \div 2 ^ PageShift)
  IN IF got.page = Null THEN Failure(s, "null") ELSE Outcome(got.s, "address", got.page, 0)

AllocRun(s, size) ==
  LET k == size \div 2 ^ PageShift + (IF size % PageSize # 0 THEN 1 ELSE 0)
      got == AllocPages(s, k)
  IN IF got.page = Null THEN Failure(s, "null") ELSE Outcome(got.s, "address", got.page, 0)

\* hcore_slab_alloc_locked.  The class of 1025 to 2048 bytes reads page 0 as
\* its slot: while page 0 is the only free run, &pool->free is taken for a
\* page of the class.  No other use of that class is modelled (see Alloc).
AllocLocked(s, size) ==
  IF size > MaxSize THEN AllocRun(s, size)
  ELSE IF Shift(size) = PageShift THEN Failure(s, "outside")
  ELSE AllocChunk(s, Shift(size))
-----------------------------------------------------------------------------
(* hcore_slab_free_locked.                                                  *)

\* A page that was taken for full goes back to its slot when a chunk is freed.
Relinked(d, page, shift) ==
  LET slot == SlotNode(shift)
      second == d[slot].next
  IN [d EXCEPT ![page].next = second, ![page].prev = slot,
               ![slot].next = page,
               ![second].prev = page, ![second].type = d[page].type]

\* Mutant: only the words behind the first are searched for a chunk in use.
FreeSmallFirstWord(s) ==
  LET left == s.bitmap[0] \ {0}
      inUse == \E b \in left : b >= WordBits
  IN IF 0 \notin s.bitmap[0] THEN s
     ELSE IF inUse THEN [s EXCEPT !.bitmap[0] = left]
     ELSE FreePages([s EXCEPT !.bitmap[0] = left], 0, 1)

FreeSmall(s) ==
  LET shift == s.desc[0].n
      left == s.bitmap[0] \ {0}
      back == [s EXCEPT !.desc = IF @[0].next = Null THEN Relinked(@, 0, shift) ELSE @,
                        !.bitmap[0] = left]
      inUse == \E b \in left : b >= Max({OwnBits(shift), 1})
  IN IF 0 \notin s.bitmap[0] THEN s ELSE IF inUse THEN back ELSE FreePages(back, 0, 1)

\* Exact and big pages: the bits are in the descriptor.
FreeInWord(s, shift, removed) ==
  LET left == s.desc[0].bits \ {0}
      listed == IF removed THEN Relinked(s.desc, 0, shift) ELSE s.desc
      back == [s EXCEPT !.desc = [listed EXCEPT ![0].bits = left]]
  IN IF 0 \notin s.desc[0].bits THEN s ELSE IF left # {} THEN back ELSE FreePages(back, 0, 1)

\* The index of the page is the distance from pool->start shifted by 4096,
\* which shifts by nothing: only the address of page 0 finds its descriptor.
\* From within page 0 the descriptor is one of the unused, zero ones behind
\* the last page, and the call does nothing; from another page it lies
\* outside the mapping.  An offset beyond DescRoom would read the contents of
\* a page as a descriptor; such a call is not modelled (see Free).
FreeFaults(at) == at.page > 0
DescRoom == 158

FreeLocked(s, at) ==
  IF at.off > 0 THEN s
  ELSE CASE s.desc[0].type = "small" -> FreeSmall(s)
         [] s.desc[0].type = "exact" -> FreeInWord(s, ExactShift, s.desc[0].bits = 0 .. WordBits - 1)
         [] s.desc[0].type = "big" -> FreeInWord(s, s.desc[0].n, s.desc[0].next = Null)
         [] OTHER -> IF s.desc[0].flag = "start" THEN FreePages(s, 0, s.desc[0].n) ELSE s
-----------------------------------------------------------------------------
(* The processes.  A call takes the mutex, works, and gives the mutex up.    *)

\* hcore_slab_init: one run of all pages, and no page in a slot.
Init ==
  /\ desc = [k \in Nodes |->
       CASE k = FreeHead -> [Blank EXCEPT !.next = 0]
         [] k \in SlotNodes -> [Blank EXCEPT !.next = k]
         [] k = 0 -> [Blank EXCEPT !.n = Pages, !.next = FreeHead, !.prev = FreeHead]
         [] OTHER -> Blank]
  /\ bitmap = [k \in PageNodes |-> {}]
  /\ pfree = Pages
  /\ live = {}
  /\ pc = [p \in Procs |-> "idle"]
  /\ clear = [p \in Procs |-> {}]
  /\ Mtx!Init

Running(p, at) == p \in alive /\ pc[p] = at

Become(s) == desc' = s.desc /\ bitmap' = s.bitmap /\ pfree' = s.pfree

Lock(p) ==
  /\ Running(p, "idle") /\ clear[p] = {}
  /\ Mtx!Acquire(p)
  /\ pc' = [pc EXCEPT ![p] = "in"]
  /\ UNCHANGED <<slabVars, live, clear>>

\* The nth allocation in use that begins at an address (see LiveDisjoint).
Allocation(at, size) ==
  LET same == {a.nth : a \in {b \in live : b.page = at.page /\ b.off = at.off}}
  IN [nth |-> Min(1 .. MaxLive \ same), page |-> at.page, off |-> at.off, size |-> size]

\* hcore_shpool_alloc, and hcore_shpool_calloc when zero is set.
Alloc(p, size, zero) ==
  /\ Running(p, "in")
  /\ Cardinality(live) < MaxLive
  /\ size \in MaxSize \div 2 + 1 .. MaxSize => desc[0].next = FreeHead
  /\ LET got == AllocLocked(Now, size)
         new == IF got.kind = "address" THEN {Allocation(got.at, size)} ELSE {}
     IN /\ Become(got.s)
        /\ live' = live \union new
        /\ clear' = [clear EXCEPT ![p] = IF zero THEN new ELSE {}]
        /\ pc' = [pc EXCEPT ![p] = IF got.kind \in {"address", "null"} THEN "out" ELSE got.kind]
  /\ UNCHANGED <<owner, alive>>

\* hcore_shpool_free, of an allocation that a client was given and has cleared.
Free(p, a) ==
  /\ Running(p, "in")
  /\ a.page = 0 => a.off < DescRoom
  /\ \A q \in Procs : a \notin clear[q]
  /\ live' = live \ {a}
  /\ IF FreeFaults(a)
     THEN /\ pc' = [pc EXCEPT ![p] = "faulted"]
          /\ alive' = alive \ {p}
          /\ UNCHANGED slabVars
     ELSE /\ pc' = [pc EXCEPT ![p] = "out"]
          /\ Become(FreeLocked(Now, a))
          /\ UNCHANGED alive
  /\ UNCHANGED <<clear, owner>>

Unlock(p) ==
  /\ Running(p, "out")
  /\ Mtx!Release(p)
  /\ pc' = [pc EXCEPT ![p] = "idle"]
  /\ UNCHANGED <<slabVars, live, clear>>

\* The memzero of hcore_shpool_calloc comes after the unlock.  A chunk that
\* lies on the bitmap of its page clears eight bits for each byte.
Clear(p) ==
  /\ Running(p, "idle") /\ clear[p] # {}
  /\ \E a \in clear[p] :
          bitmap' = IF desc[a.page].type = "small"
                    THEN [bitmap EXCEPT ![a.page] = @ \ (8 * a.off .. 8 * (a.off + a.size) - 1)]
                    ELSE bitmap
  /\ clear' = [clear EXCEPT ![p] = {}]
  /\ UNCHANGED <<desc, pfree, live, pc, owner, alive>>

\* A process is killed outside or inside the section; in the middle of the
\* update of the lists is not modelled.
Die(p) ==
  /\ Mtx!Die(p)
  /\ clear' = [clear EXCEPT ![p] = {}]
  /\ UNCHANGED <<slabVars, live, pc>>

\* hcore_shmtx_force_unlock by a supervisor.
Revoke(p) ==
  /\ Mtx!Revoke(p)
  /\ UNCHANGED <<slabVars, live, pc, clear>>

Work(p) ==
  \/ \E size \in Sizes : Alloc(p, size, FALSE)
  \/ \E size \in Zeroed : Alloc(p, size, TRUE)
  \/ \E a \in live : Free(p, a)

\* An address outside the pool lets a client write anywhere: nothing after it
\* is modelled.
Next ==
  /\ \A p \in Procs : pc[p] # "outside"
  /\ \E p \in Procs : Lock(p) \/ Work(p) \/ Unlock(p) \/ Clear(p) \/ Die(p) \/ Revoke(p)

Spec == Init /\ [][Next]_vars

\* The scheduler runs a process that is in the section.  Of the steps of Next
\* those of Leave(p) are the ones of Work(p), which is enabled there whenever
\* MaxLive > 0; ENABLED is only easier to decide for Leave(p).
Leave(p) ==
  /\ Running(p, "in")
  /\ \E to \in {"out", "hung", "outside", "faulted"} : pc' = [pc EXCEPT ![p] = to]

FairSpec == Spec /\ \A p \in Procs : WF_pc(Leave(p)) /\ WF_vars(Unlock(p))
-----------------------------------------------------------------------------
(* Properties.                                                               *)

Run(d, k) == k .. k + d[k].n - 1

\* The pages that hcore_slab_alloc_pages gave away: slab pages and runs.
SlabPages(d) == {k \in PageNodes : d[k].type # "page"}
StartPages(d) == {k \in PageNodes : d[k].type = "page" /\ d[k].flag = "start"}
TakenPages(d) == SlabPages(d) \union UNION {Run(d, k) : k \in StartPages(d)}

PagesOf(a) == a.page + a.off \div MaxSize .. a.page + (a.off + a.size - 1) \div MaxSize
IsRun(a) == a.size > MaxSize

\* The free list is a circle, linked alike in both directions; its runs lie
\* in the pool, do not overlap and hold no page that was given away, through
\* every split and join of hcore_slab_alloc_pages and hcore_slab_free_pages.
\* pool->pfree, which these update apart from the descriptors, is the number
\* of pages that no slab and no run owns.
FreePagesSound ==
  LET free == FreeRuns(desc)
      given == TakenPages(desc)
  IN
  /\ FreeRun(desc)[Pages] = FreeHead
  /\ \A k \in free \union {FreeHead} : desc[k].next # FreeHead => desc[desc[k].next].prev = k
  /\ \A k \in free : /\ desc[desc[k].prev].next = k
                     /\ desc[k].type = "page" /\ desc[k].flag = "none"
                     /\ Run(desc, k) \union {k} \subseteq PageNodes \ given
  /\ \A j, k \in free : j # k => k \notin Run(desc, j)
  /\ pfree = Pages - Cardinality(given)

\* The pages that can be reached from a slot are of its class, and the last
\* one leads back to the slot: an allocation never takes a chunk from a page
\* of another class, and the unlinking of a page never meets a stale neighbour.
SlotsSound ==
  \A shift \in MinShift .. PageShift - 1 :
    LET slot == SlotNode(shift)
        at == Walk(desc, slot)
    IN /\ at[Pages] = slot
       /\ \A i \in 0 .. Pages :
            at[i] # slot => /\ at[i] \in SlabPages(desc)
                            /\ desc[at[i]].n = (IF shift = ExactShift THEN 0 ELSE shift)
                            /\ desc[desc[at[i]].prev].next = at[i]

\* Two allocations in use lie in the same page only as chunks of one slab
\* page: no run is given away while a part of it is in use.
PagesNotShared ==
  \A a, b \in live :
    a # b /\ PagesOf(a) \intersect PagesOf(b) # {} =>
      ~IsRun(a) /\ ~IsRun(b) /\ a.page = b.page /\ Shift(a.size) = Shift(b.size)

\* What a client holds is still taken in the pool: its page is a slab page of
\* the class or the start of a run that is long enough.  hcore_slab_free_locked
\* gives a page back only after its last chunk.
LiveCovered ==
  \A a \in live :
    IF IsRun(a) THEN /\ a.page \in StartPages(desc)
                     /\ PagesOf(a) \subseteq Run(desc, a.page)
    ELSE /\ a.page \in SlabPages(desc)
         /\ desc[a.page].n = (IF Shift(a.size) = ExactShift THEN 0 ELSE Shift(a.size))

\* The memory that hcore_shpool_alloc returns is the caller's alone: it has no
\* byte in common with another allocation in use, nor with the bitmap that
\* hcore_slab_alloc_locked keeps at the beginning of a small page.
LiveDisjoint ==
  \A a \in live :
    /\ \A b \in live :
         a # b /\ a.page = b.page => a.off + a.size <= b.off \/ b.off + b.size <= a.off
    /\ desc[a.page].type = "small" => 8 * a.off >= PageSize \div 2 ^ desc[a.page].n

\* A call that entered the section leaves it, unless its process is killed.
CallsReturn == \A p \in Procs : pc[p] = "in" ~> pc[p] = "out" \/ p \notin alive
=============================================================================

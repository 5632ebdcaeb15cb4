---------------------------- MODULE PoolClients ----------------------------
(***************************************************************************)
(* The memory pool together with the parts of the library that live in it  *)
(* and reach into it: the growing array of src/src/hcore_array.c, which    *)
(* moves d.last of the first block itself, and the links and buffers of    *)
(* src/src/hcore_buf.c, which keep freed links in pool->chain.  The pool   *)
(* is in use by other clients at the same time (the actions of Pool).      *)
(*                                                                         *)
(* Links are told apart by the chunk they occupy.  A link may have a free  *)
(* function, which may use the pool and its chain before the link itself   *)
(* is put back.                                                            *)
(***************************************************************************)
EXTENDS Pool, SequencesExt

CONSTANTS
  ArraySize, LinkSize, BufSize,   \* sizeof hcore_array_t, hcore_chain_t, hcore_buf_t
  EltSize,                        \* the size of an element
  Counts,                         \* the numbers of elements asked for
  ArrayIds,                       \* bound: the arrays clients have
  MaxElts,                        \* bound: the elements of an array
  MaxLinks                        \* bound: the links in existence

ASSUME ClientAssumption ==
  /\ {ArraySize, LinkSize, BufSize, EltSize, MaxElts} \subseteq Nat \ {0}
  /\ Counts \subseteq Nat \ {0} /\ MaxLinks \in Nat

VARIABLES
  arrays,     \* the arrays of the clients, or NoArray
  links,      \* the chunk of the buffer of each link in existence
  held,       \* the links that clients hold
  freeing,    \* the links whose free function is running, the last one innermost
  chain       \* pool->chain, first element first

clientVars == <<arrays, links, held, freeing, chain>>
allVars == <<vars, clientVars>>
-----------------------------------------------------------------------------
(* Arrays: where the structure is, elts (a chunk, or an object when it is   *)
(* large), nelts and nalloc.                                                *)
NoArray == [struct |-> NoChunk, elts |-> NoChunk, object |-> NoObject,
            nelts |-> 0, nalloc |-> 0]
InUse(a) == arrays[a] # NoArray

ClientInit ==
  /\ Init
  /\ arrays = [a \in ArrayIds |-> NoArray]
  /\ links = [c \in {} |-> NoChunk]
  /\ held = {} /\ freeing = <<>> /\ chain = <<>>

OnlyArrays == OnlyMemory /\ UNCHANGED <<links, held, freeing, chain>>

\* hcore_array_create: the structure, then the elements (hcore_array_init).
\* The structure is lost when there is no room for the elements.
ArrayCreate(a, n) ==
  /\ OnlyArrays /\ Fewer /\ ~InUse(a)
  /\ \E o \in Alloc(mem, ArraySize, "array", TRUE) :
       \/ ~o.ok /\ mem' = o.mem /\ UNCHANGED arrays
       \/ /\ o.ok
          /\ \E e \in Alloc(o.mem, n * EltSize, "array", FALSE) :
               /\ mem' = e.mem
               /\ arrays' = IF ~e.ok THEN arrays
                            ELSE [arrays EXCEPT ![a] =
                                    [struct |-> o.chunk, elts |-> e.chunk, object |-> e.object,
                                     nelts |-> 0, nalloc |-> n]]

\* The elements end at d.last of the first block of the pool.
AtEnd(a) ==
  LET c == arrays[a].elts IN
  /\ arrays[a].object = NoObject
  /\ c.block = 1 /\ c.off + EltSize * arrays[a].nalloc = mem.last[1]

\* The n elements behind those of array r are handed out, and the caller
\* fills them.
Filled(m, r, n) ==
  LET new == [r.elts EXCEPT !.off = @ + EltSize * r.nelts, !.size = EltSize * n]
  IN [m EXCEPT !.broken = @ \/ (r.object = NoObject /\ OverHeader(new))]
HandOut(a, m, r, n) ==
  /\ mem' = Filled(m, r, n)
  /\ arrays' = [arrays EXCEPT ![a] = [r EXCEPT !.nelts = @ + n]]

\* Mutant: the block has room, but not behind the elements.
GrowsInPlaceAnywhere(a, n) ==
  /\ arrays[a].object = NoObject /\ arrays[a].elts.block = 1
  /\ mem.last[1] + EltSize * n <= BlockSize

GrowsInPlace(a, n) == AtEnd(a) /\ mem.last[1] + EltSize * n <= BlockSize

\* A full array grows by n where it is when it ends at d.last and the block
\* has room; otherwise it moves to a new area of nalloc elements, and the old
\* one is lost.
Grow(a, n, nalloc) ==
  LET r == arrays[a]
      c == r.elts
      longer == [c EXCEPT !.size = @ + EltSize * n]
  IN
  IF GrowsInPlace(a, n)
  THEN HandOut(a, [mem EXCEPT !.last[1] = @ + EltSize * n,
                              !.chunks = (@ \ {c}) \union {longer}],
               [r EXCEPT !.elts = longer, !.nalloc = @ + n], n)
  ELSE \E o \in Alloc(mem, EltSize * nalloc, "array", TRUE) :
         IF o.ok
         THEN HandOut(a, [o.mem EXCEPT !.chunks = @ \ {c}],
                      [r EXCEPT !.elts = o.chunk, !.object = o.object, !.nalloc = nalloc], n)
         ELSE mem' = o.mem /\ UNCHANGED arrays

\* hcore_array_push
ArrayPush(a) ==
  LET r == arrays[a] IN
  /\ OnlyArrays /\ InUse(a) /\ r.nelts < MaxElts
  /\ IF r.nelts = r.nalloc THEN Grow(a, 1, 2 * r.nalloc) ELSE HandOut(a, mem, r, 1)

\* Mutant: the area is doubled, however many elements are asked for.
RoomForDoubled(r, n) == 2 * r.nalloc

\* Twice what is there, or twice what is asked for.
RoomFor(r, n) == 2 * (IF n >= r.nalloc THEN n ELSE r.nalloc)

\* hcore_array_push_n
ArrayPushN(a, n) ==
  LET r == arrays[a] IN
  /\ OnlyArrays /\ InUse(a) /\ r.nelts + n <= MaxElts
  /\ IF r.nelts + n > r.nalloc THEN Grow(a, n, RoomFor(r, n)) ELSE HandOut(a, mem, r, n)

\* hcore_array_destroy: what lies at d.last of the first block is given back,
\* the elements first.
ArrayDestroy(a) ==
  LET r == arrays[a]
      last == IF AtEnd(a) THEN r.elts.off ELSE mem.last[1]
      s == r.struct
  IN
  /\ OnlyArrays /\ InUse(a)
  /\ mem' = [mem EXCEPT !.last[1] = IF s.block = 1 /\ s.off + ArraySize = last THEN s.off ELSE last,
                        !.chunks = @ \ {s, r.elts}]
  /\ arrays' = [arrays EXCEPT ![a] = NoArray]
-----------------------------------------------------------------------------
(* Links and buffers *)

NoBuf == NoChunk
OnlyLinks == OnlyMemory /\ UNCHANGED arrays

\* hcore_alloc_chain: the outcomes are the memory, the link, and the links and
\* the chain after it.
ChainOutcomes ==
  IF chain # <<>>
  THEN {[mem |-> mem, ok |-> TRUE, link |-> Head(chain), links |-> links, chain |-> Tail(chain)]}
  ELSE {[mem |-> o.mem, ok |-> o.ok, link |-> o.chunk, chain |-> chain,
         links |-> IF o.ok THEN [c \in DOMAIN links \union {o.chunk} |->
                                   IF c = o.chunk THEN NoBuf ELSE links[c]] ELSE links] :
          o \in Alloc(mem, LinkSize, "link", TRUE)}

MoreLinks == chain # <<>> \/ (Fewer /\ Cardinality(DOMAIN links) < MaxLinks)

AllocChain ==
  /\ OnlyLinks /\ MoreLinks
  /\ \E o \in ChainOutcomes :
       /\ mem' = o.mem /\ links' = o.links /\ chain' = o.chain
       /\ held' = IF o.ok THEN held \union {o.link} ELSE held
  /\ UNCHANGED freeing

\* hcore_alloc_chain_with_buf: a buffer that was left in the link is used
\* again.  The link is lost when there is no room for a new one.
AllocChainWithBuf ==
  /\ OnlyLinks /\ MoreLinks
  /\ \E o \in ChainOutcomes :
       /\ chain' = o.chain
       /\ \/ ~o.ok /\ mem' = o.mem /\ UNCHANGED <<links, held>>
          \/ /\ o.ok /\ o.links[o.link] # NoBuf
             /\ mem' = o.mem /\ links' = o.links /\ held' = held \union {o.link}
          \/ /\ o.ok /\ o.links[o.link] = NoBuf
             /\ \E b \in Alloc(o.mem, BufSize, "link", TRUE) :
                  /\ mem' = b.mem
                  /\ links' = IF b.ok THEN [o.links EXCEPT ![o.link] = b.chunk]
                              ELSE [c \in DOMAIN o.links \ {o.link} |-> o.links[c]]
                  /\ held' = IF b.ok THEN held \union {o.link} ELSE held
  /\ UNCHANGED freeing

\* The buffer of a link after hcore_free_chain and hcore_free_chain_hold_buf.
BufAfter(c, hold) == [links EXCEPT ![c] = IF hold THEN @ ELSE NoBuf]

\* hcore_free_chain and hcore_free_chain_hold_buf of a link without a free
\* function.
FreeChain(c, hold) ==
  /\ OnlyLinks /\ c \in held
  /\ held' = held \ {c}
  /\ chain' = <<c>> \o chain
  /\ links' = BufAfter(c, hold)
  /\ UNCHANGED <<mem, freeing>>

\* Mutant: the link is in the chain while its free function runs.
FreeBeginsListed(c, hold) ==
  /\ OnlyLinks /\ c \in held
  /\ held' = held \ {c}
  /\ freeing' = Append(freeing, [link |-> c, hold |-> hold])
  /\ chain' = <<c>> \o chain
  /\ UNCHANGED <<mem, links>>

\* With one, control passes to it first.
FreeBegins(c, hold) ==
  /\ OnlyLinks /\ c \in held
  /\ held' = held \ {c}
  /\ freeing' = Append(freeing, [link |-> c, hold |-> hold])
  /\ UNCHANGED <<mem, links, chain>>

FreeReturns ==
  /\ OnlyLinks /\ freeing # <<>>
  /\ LET f == Last(freeing) IN
     /\ chain' = <<f.link>> \o chain
     /\ links' = BufAfter(f.link, f.hold)
     /\ freeing' = Front(freeing)
  /\ UNCHANGED <<mem, held>>

\* hcore_alloc_buf: the structure, then the space; the structure is lost when
\* there is no room for it.
AllocBuf(size) ==
  /\ OnlyMemory /\ Fewer
  /\ \E o \in Alloc(mem, BufSize, "link", TRUE) :
       \/ ~o.ok /\ mem' = o.mem
       \/ o.ok /\ \E d \in Alloc(o.mem, size, "link", FALSE) : mem' = d.mem
  /\ UNCHANGED clientVars
-----------------------------------------------------------------------------
\* What other clients do with the pool.
OtherClients ==
  /\ \/ \E size \in Sizes, clear \in BOOLEAN : Palloc(size, clear)
     \/ \E c \in mem.chunks :
          \/ Write(c)
          \/ ReallocToNothing(c)
          \/ \E size \in Sizes : ReallocInPlace(c, size) \/ ReallocByCopy(c, size)
  /\ UNCHANGED clientVars

ClientNext ==
  \/ OtherClients
  \/ \E a \in ArrayIds :
       \/ \E n \in Counts : ArrayCreate(a, n) \/ ArrayPushN(a, n)
       \/ ArrayPush(a)
       \/ ArrayDestroy(a)
  \/ AllocChain
  \/ AllocChainWithBuf
  \/ \E c \in held, hold \in BOOLEAN : FreeChain(c, hold) \/ FreeBegins(c, hold)
  \/ FreeReturns
  \/ \E size \in Sizes : AllocBuf(size)

ClientSpec == ClientInit /\ [][ClientNext]_allVars
-----------------------------------------------------------------------------
(* Properties *)

\* An array owns its memory: through growth in place, by which the array moves
\* d.last of the pool itself, moves to new areas and the destruction of other
\* arrays, its structure and its elements are chunks of the pool in use that
\* no other array has, the area has room for nalloc elements, and no more
\* elements were handed out than that.
ArraysSound ==
  \A a \in ArrayIds : InUse(a) =>
    LET r == arrays[a] IN
    /\ r.nelts <= r.nalloc
    /\ r.struct \in mem.chunks
    /\ IF r.object = NoObject
       THEN r.elts \in mem.chunks /\ r.elts.size = EltSize * r.nalloc
       ELSE LargeObj(r.object) \in mem.heap
    /\ \A b \in ArrayIds \ {a} : InUse(b) =>
         {r.struct, r.elts} \intersect {arrays[b].struct, arrays[b].elts} \subseteq {NoChunk}

\* A link is held by a client, or being freed, or in pool->chain, and there
\* once: no link is handed out twice, also when free functions allocate or
\* free links themselves.  Links and the buffers left in them are chunks of
\* the pool in use, and no two links share a buffer.
LinksOwned ==
  LET inFreeing == {freeing[i].link : i \in DOMAIN freeing} IN
  /\ held \union inFreeing \union ToSet(chain) = DOMAIN links
  /\ Cardinality(held) + Len(freeing) + Len(chain) = Cardinality(DOMAIN links)
  /\ \A c \in DOMAIN links : /\ c \in mem.chunks
                             /\ links[c] # NoBuf => links[c] \in mem.chunks
  /\ \A c, d \in DOMAIN links : c # d /\ links[c] = links[d] => links[c] = NoBuf
=============================================================================

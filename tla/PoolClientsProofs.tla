------------------------- MODULE PoolClientsProofs -------------------------
(***************************************************************************)
(* What is proved of PoolClients for every size of block, structure and    *)
(* element and every number of arrays, links and requests: the memory of   *)
(* the pool stays good although arrays move d.last of the first block      *)
(* themselves, an array owns its memory, and a link is in one place.       *)
(*                                                                         *)
(* The memory is kept good by the lemmas of PoolProofs; what arrays and    *)
(* links add is whose chunk is whose.  A request returns a chunk that      *)
(* nobody had (AllocFacts), and no step takes a chunk of the kind "array"  *)
(* from the arrays or one of the kind "link" from the links, but the       *)
(* operations of the array or the link itself (ArraysKept, LinksKept).     *)
(*                                                                         *)
(* The structures of the library are requested as small chunks; this needs *)
(* a pool that is not custom and blocks in which they fit (Roomy).         *)
(***************************************************************************)
EXTENDS PoolClients, PoolProofs

Roomy == /\ ~Customed
         /\ ArraySize <= PoolMax /\ LinkSize <= PoolMax /\ BufSize <= PoolMax

Chunks == Areas \union {NoChunk}

Arrays == [struct : Chunks, elts : Chunks, object : Objects \union {NoObject},
           nelts : Nat, nalloc : Nat]

\* An array in use has chunks of its own.
ArrayGood(r, m) ==
  /\ r.nelts <= r.nalloc /\ r.nalloc > 0
  /\ r.struct \in m.chunks /\ r.struct.kind = "array" /\ r.struct.size = ArraySize
  /\ IF r.object = NoObject
     THEN /\ r.elts \in m.chunks /\ r.elts.kind = "array"
          /\ r.elts.size = EltSize * r.nalloc /\ r.elts # r.struct
     ELSE r.elts = NoChunk /\ LargeObj(r.object) \in m.heap

Shared(r, s) == {r.struct, r.elts} \intersect {s.struct, s.elts}

ArraysOwn ==
  /\ arrays \in [ArrayIds -> Arrays]
  /\ \A a \in ArrayIds : InUse(a) => ArrayGood(arrays[a], mem)
  /\ \A a, b \in ArrayIds : a # b /\ InUse(a) /\ InUse(b) =>
       Shared(arrays[a], arrays[b]) \subseteq {NoChunk}

\* The links whose free function is running.
Freeing == {freeing[i].link : i \in DOMAIN freeing}

Once(s) == \A i, j \in DOMAIN s : i # j => s[i] # s[j]

\* Links and their buffers are chunks of their own.
LinkChunks ==
  /\ links \in [DOMAIN links -> Chunks]
  /\ \A c \in DOMAIN links :
       /\ c \in mem.chunks /\ c.kind = "link"
       /\ links[c] # NoBuf => links[c] \in mem.chunks /\ links[c].kind = "link"
  /\ \A c, d \in DOMAIN links : c # d /\ links[c] = links[d] => links[c] = NoBuf

\* A link is held, or being freed, or in pool->chain.
LinkPlaces ==
  /\ IsFiniteSet(DOMAIN links) /\ held \in SUBSET DOMAIN links
  /\ freeing \in Seq([link : Chunks, hold : BOOLEAN])
  /\ chain \in Seq(Chunks)
  /\ held \union Freeing \union ToSet(chain) = DOMAIN links
  /\ held \intersect Freeing = {} /\ held \intersect ToSet(chain) = {}
  /\ Freeing \intersect ToSet(chain) = {}
  /\ Once(chain) /\ \A i, j \in DOMAIN freeing : i # j => freeing[i].link # freeing[j].link
  /\ Cardinality(held) + Len(freeing) + Len(chain) = Cardinality(DOMAIN links)

ClientInv == IInv /\ ArraysOwn /\ LinkChunks /\ LinkPlaces
-----------------------------------------------------------------------------
(* What a request returns.                                                  *)

\* What is cut from a block at or behind d.last was nobody's.
LEMMA CutFresh ==
  ASSUME NEW m, Good(m), NEW b \in Blocks, NEW off \in Nat,
         NEW size \in Nat \ {0}, NEW kind \in Kinds, NEW filled \in BOOLEAN,
         b \in 1 .. m.n => m.last[b] <= off,
         NEW o, o = Cut(m, [block |-> b, off |-> off, size |-> size, kind |-> kind], filled)
  PROVE  /\ o.ok /\ o.object = NoObject
         /\ o.chunk \in Areas \ m.chunks /\ o.chunk.kind = kind /\ o.chunk.size = size
         /\ o.mem.chunks = m.chunks \union {o.chunk}
         /\ o.mem.heap = m.heap
  <1> DEFINE c == [block |-> b, off |-> off, size |-> size, kind |-> kind]
  <1>1. m \in Memory /\ c \in Areas /\ c.block = b /\ c.off = off
    BY DEF Good, Areas, Memory
  <1>2. c \notin m.chunks
    <2> SUFFICES ASSUME c \in m.chunks PROVE FALSE
      OBVIOUS
    <2>1. c.block <= m.n /\ c.size > 0 /\ c.off + c.size <= m.last[c.block]
      BY DEF Good, InBounds
    <2>2. b \in 1 .. m.n /\ m.last[b] \in Nat
      BY <1>1, <2>1, BoundAssumption DEF Blocks, Memory
    <2> QED
      BY <2>1, <2>2
  <1>3. o.ok /\ o.object = NoObject /\ o.chunk = c
    BY DEF Cut
  <1>4. o.mem.chunks = m.chunks \union {c} /\ o.mem.heap = m.heap
    BY <1>1 DEF Cut, Memory
  <1>5. c.kind = kind /\ c.size = size
    OBVIOUS
  <1> HIDE DEF c
  <1> QED
    BY <1>1, <1>2, <1>3, <1>4, <1>5

\* hcore_palloc_small and hcore_palloc_block.
LEMMA SmallFacts ==
  ASSUME NEW m, Good(m), NEW size \in SmallSizes, NEW align \in BOOLEAN,
         NEW kind \in Kinds, NEW filled \in BOOLEAN,
         NEW o \in Small(m, size, align, kind, filled)
  PROVE  /\ m.chunks \subseteq o.mem.chunks /\ m.heap \subseteq o.mem.heap
         /\ IF o.ok THEN /\ o.chunk \in o.mem.chunks /\ o.chunk \in Areas \ m.chunks
                         /\ o.chunk.kind = kind /\ o.chunk.size = size
                         /\ o.object = NoObject
            ELSE o = Denied(m)
  <1> DEFINE fit == Fitting(m, size, align)
             b == Min(fit)
             off == CutAt(m, b, align)
             k == m.n + 1
  <1>1. /\ m \in Memory /\ m.n \in Nat \ {0} /\ m.current \in 1 .. m.n /\ 1 .. m.n \subseteq Blocks
        /\ m.last \in [Blocks -> Nat]
    BY BoundAssumption DEF Good, InBounds, Memory, Blocks
  <1>2. CASE fit # {}
    <2>1. fit \in SUBSET Nat /\ fit \subseteq 1 .. m.n
      BY <1>1 DEF Fitting
    <2>2. b \in 1 .. m.n
      BY <2>1, <1>2, LeastElement
    <2>3. off \in Nat /\ m.last[b] <= off
      <3> HIDE DEF b
      <3> QED
        BY <1>1, <2>2, Aligned DEF CutAt
    <2>4. size \in Nat \ {0}
      BY DEF SmallSizes
    <2>5. o = Cut(m, [block |-> b, off |-> off, size |-> size, kind |-> kind], filled)
      BY <1>2 DEF Small
    <2> HIDE DEF b, off, fit
    <2> QED
      BY <1>1, <2>2, <2>3, <2>4, <2>5, CutFresh
  <1>3. CASE fit = {} /\ o = Denied(m)
    BY <1>3 DEF Denied
  <1>4. CASE fit = {} /\ o # Denied(m)
    <2> DEFINE c == [block |-> k, off |-> DataStart(k), size |-> size, kind |-> kind]
    <2>1. m.n < MaxBlocks /\ o = Cut(Grown(m), c, filled)
      BY <1>4 DEF Small
    <2>2. c \in Areas /\ c.block = k /\ c.kind = kind /\ c.size = size
      <3>1. k \in Blocks /\ k \in Nat \ {0} /\ size \in Nat
        BY <1>1, <2>1, BoundAssumption DEF Blocks, SmallSizes
      <3>2. DataStart(k) \in Nat
        BY <3>1, Starts
      <3> QED
        BY <3>1, <3>2 DEF Areas
    <2>3. c \notin m.chunks
      BY <1>1, <2>2 DEF Good, InBounds
    <2>4. Grown(m).chunks = m.chunks /\ Grown(m).heap = m.heap \union {BlockObj(k)}
      BY <1>1 DEF Grown, Memory
    <2> HIDE DEF c
    <2>5. /\ o.mem.chunks = m.chunks \union {c} /\ o.mem.heap = m.heap \union {BlockObj(k)}
          /\ o.ok /\ o.chunk = c /\ o.object = NoObject
      BY <1>1, <2>1, <2>4 DEF Cut, Grown, Memory
    <2> QED
      BY <2>2, <2>3, <2>5
  <1> QED
    BY <1>2, <1>3, <1>4

\* What was in use stays, and what is granted was nobody's.
Granted(m, size, kind, o) ==
  /\ Good(o.mem)
  /\ m.chunks \subseteq o.mem.chunks /\ m.heap \subseteq o.mem.heap
  /\ ~o.ok => o.mem = m
  /\ o.ok /\ size <= PoolMax =>
       /\ o.chunk \in o.mem.chunks /\ o.chunk \in Areas \ m.chunks
       /\ o.chunk.kind = kind /\ o.chunk.size = size
       /\ o.object = NoObject
  /\ o.ok /\ ~(size <= PoolMax) =>
       /\ o.chunk = NoChunk /\ o.object \in Objects
       /\ LargeObj(o.object) \in o.mem.heap

\* hcore_palloc and hcore_pcalloc of a pool that is not custom.
LEMMA AllocFacts ==
  ASSUME ~Customed, NEW m, Good(m), NEW size \in Nat \ {0}, NEW kind \in Kinds,
         NEW filled \in BOOLEAN, NEW o \in Alloc(m, size, kind, filled)
  PROVE  Granted(m, size, kind, o)
  <1>1. Good(o.mem)
    BY AllocGood
  <1>2. Denied(m).mem = m /\ ~Denied(m).ok
    BY DEF Denied
  <1>3. CASE size <= PoolMax
    <2>1. size \in SmallSizes /\ o \in Small(m, size, FALSE, kind, filled)
      BY <1>3 DEF SmallSizes, Alloc
    <2> QED
      BY <1>1, <1>2, <1>3, <2>1, SmallFacts DEF Granted
  <1>4. CASE ~(size <= PoolMax) /\ o = Denied(m)
    BY <1>1, <1>2, <1>4 DEF Granted
  <1>5. CASE ~(size <= PoolMax) /\ o # Denied(m)
    <2>1. PICK i \in Objects : o \in Enlist(m, i)
      BY <1>5 DEF Alloc, Large, FreeObjects
    <2>2. PICK mm, l : /\ o = Taken(mm, i, l) /\ mm \in Memory
                       /\ m.chunks \subseteq mm.chunks /\ m.heap \subseteq mm.heap
      <3>1. CASE EmptySlots(m) # {}
        BY <2>1, <3>1 DEF Enlist, Good
      <3>2. CASE EmptySlots(m) = {}
        <4>1. PICK s \in Small(m, LargeSize, TRUE, "large", TRUE) :
                s.ok /\ o = Taken(s.mem, i, <<i>> \o m.large)
          BY <2>1, <3>2, <1>5 DEF Enlist
        <4>2. LargeSize \in SmallSizes /\ "large" \in Kinds
          BY SizeAssumption DEF SmallSizes, Kinds
        <4>3. m.chunks \subseteq s.mem.chunks /\ m.heap \subseteq s.mem.heap /\ Good(s.mem)
          BY <4>2, SmallFacts, SmallGood
        <4> QED
          BY <4>1, <4>3 DEF Good
      <3> QED
        BY <3>1, <3>2
    <2>3. /\ o.ok /\ o.chunk = NoChunk /\ o.object = i
          /\ o.mem.chunks = mm.chunks /\ o.mem.heap = mm.heap \union {LargeObj(i)}
      BY <2>2 DEF Taken, Memory
    <2> QED
      BY <1>1, <1>5, <2>1, <2>2, <2>3 DEF Granted
  <1> QED
    BY <1>3, <1>4, <1>5
-----------------------------------------------------------------------------
(* What steps of others leave alone.                                        *)

\* A step that keeps the chunks of arrays and frees no object.
LEMMA ArraysKept ==
  ASSUME ArraysOwn, UNCHANGED arrays, mem.heap \subseteq mem'.heap,
         \A c \in mem.chunks : c.kind = "array" => c \in mem'.chunks
  PROVE  ArraysOwn'
  BY DEF ArraysOwn, ArrayGood, InUse

\* A step that keeps the chunks of links.
LEMMA LinksKept ==
  ASSUME LinkChunks, LinkPlaces, UNCHANGED <<links, held, freeing, chain>>,
         \A c \in mem.chunks : c.kind = "link" => c \in mem'.chunks
  PROVE  LinkChunks' /\ LinkPlaces'
  <1>1. LinkChunks'
    BY DEF LinkChunks
  <1>2. LinkPlaces'
    BY DEF LinkPlaces, Freeing, Once
  <1> QED
    BY <1>1, <1>2

\* No chunk is empty, so none is NoChunk.
LEMMA NotNoChunk ==
  ASSUME NEW m, Good(m)
  PROVE  NoChunk \notin m.chunks /\ m.chunks \subseteq Areas
  BY DEF Good, InBounds, NoChunk, Memory

\* The other clients resize and give up chunks of their own kind.
LEMMA OthersStep ==
  ASSUME ClientInv, Roomy, OtherClients
  PROVE  ClientInv'
  <1>1. Good(mem) /\ UNCHANGED clientVars /\ ~Customed /\ mem \in Memory
    BY DEF ClientInv, IInv, OtherClients, Roomy, Good
  <1> DEFINE OthersKept == /\ IInv' /\ mem.heap \subseteq mem'.heap
                           /\ \A c \in mem.chunks : c.kind # "client" => c \in mem'.chunks
  <1>2. OthersKept
    <2>1. ASSUME NEW size \in Sizes, NEW clear \in BOOLEAN, Palloc(size, clear)
          PROVE  OthersKept
      <3>1. IInv'
        BY <2>1, PallocGood DEF ClientInv
      <3>2. PICK o \in Alloc(mem, size, "client", clear) : mem' = o.mem
        BY <2>1 DEF Palloc
      <3>3. size \in Nat \ {0} /\ "client" \in Kinds
        BY SizeAssumption DEF Kinds
      <3>4. mem.chunks \subseteq o.mem.chunks /\ mem.heap \subseteq o.mem.heap
        BY <1>1, <3>3, AllocFacts DEF Granted
      <3> QED
        BY <3>1, <3>2, <3>4
    <2>2. ASSUME NEW c \in mem.chunks, Write(c)
          PROVE  OthersKept
      <3>1. IInv'
        BY <2>2, WriteGood DEF ClientInv
      <3>2. mem'.heap = mem.heap /\ mem'.chunks = mem.chunks
        BY <2>2, <1>1 DEF Write, Memory
      <3> QED
        BY <3>1, <3>2
    <2>3. ASSUME NEW c \in mem.chunks, ReallocToNothing(c)
          PROVE  OthersKept
      <3>1. IInv'
        BY <2>3, ReallocToNothingGood DEF ClientInv
      <3>2. mem'.heap = mem.heap /\ mem'.chunks = mem.chunks \ {c} /\ c.kind = "client"
        BY <2>3, <1>1 DEF ReallocToNothing, Memory, HeldChunks
      <3> QED
        BY <3>1, <3>2
    <2>4. ASSUME NEW c \in mem.chunks, NEW size \in Sizes, ReallocInPlace(c, size)
          PROVE  OthersKept
      <3>1. IInv'
        BY <2>4, ReallocInPlaceGood DEF ClientInv
      <3>2. /\ mem'.heap = mem.heap /\ c.kind = "client"
            /\ mem'.chunks = (mem.chunks \ {c}) \union {[c EXCEPT !.size = size]}
        BY <2>4, <1>1 DEF ReallocInPlace, Memory, HeldChunks
      <3> QED
        BY <3>1, <3>2
    <2>5. ASSUME NEW c \in mem.chunks, NEW size \in Sizes, ReallocByCopy(c, size)
          PROVE  OthersKept
      <3>1. IInv'
        BY <2>5, ReallocByCopyGood DEF ClientInv
      <3>2. PICK o \in Alloc(mem, size, "client", TRUE) :
              mem' = IF o.ok THEN [o.mem EXCEPT !.chunks = @ \ {c}] ELSE o.mem
        BY <2>5 DEF ReallocByCopy
      <3>3. size \in Nat \ {0} /\ "client" \in Kinds /\ c.kind = "client"
        BY <2>5, SizeAssumption DEF Kinds, ReallocByCopy, HeldChunks
      <3>4. /\ mem.chunks \subseteq o.mem.chunks /\ mem.heap \subseteq o.mem.heap
            /\ o.mem \in Memory
        BY <1>1, <3>3, AllocFacts DEF Granted, Good
      <3>5. mem'.heap = o.mem.heap /\ o.mem.chunks \ {c} \subseteq mem'.chunks
        BY <3>2, <3>4 DEF Memory
      <3> QED
        BY <3>1, <3>3, <3>4, <3>5
    <2> QED
      BY <2>1, <2>2, <2>3, <2>4, <2>5 DEF OtherClients
  <1>3. ArraysOwn'
    BY <1>1, <1>2, ArraysKept DEF ClientInv, clientVars
  <1>4. LinkChunks' /\ LinkPlaces'
    BY <1>1, <1>2, LinksKept DEF ClientInv, clientVars
  <1> QED
    BY <1>2, <1>3, <1>4 DEF ClientInv
-----------------------------------------------------------------------------
(* Arrays.                                                                  *)

\* The sizes of areas of elements.
LEMMA Times ==
  ASSUME NEW x \in Nat, NEW y \in Nat
  PROVE  /\ EltSize \in Nat \ {0} /\ EltSize * x \in Nat
         /\ EltSize * (x + y) = EltSize * x + EltSize * y
         /\ x * EltSize = EltSize * x
         /\ x > 0 => EltSize * x > 0
  <1>1. EltSize \in Nat \ {0}
    BY ClientAssumption
  <1> QED
    BY <1>1

\* A request of the library that the clients of the pool get nothing from.
LEMMA RequestStep ==
  ASSUME ClientInv, OnlyMemory, UNCHANGED clientVars, Good(mem'),
         mem.chunks \subseteq mem'.chunks, mem.heap \subseteq mem'.heap
  PROVE  ClientInv'
  <1>1. IInv'
    BY OnlyMemoryGood DEF ClientInv
  <1>2. ArraysOwn' /\ LinkChunks' /\ LinkPlaces'
    BY ArraysKept, LinksKept DEF ClientInv, clientVars
  <1> QED
    BY <1>1, <1>2 DEF ClientInv

\* A step of one array: it may give up its own chunks and take fresh ones.
LEMMA OneArray ==
  ASSUME ClientInv, OnlyArrays, NEW a \in ArrayIds, NEW r \in Arrays,
         arrays' = [arrays EXCEPT ![a] = r],
         Good(mem'), mem.heap \subseteq mem'.heap,
         \A c \in mem.chunks :
           c \in mem'.chunks \/ (InUse(a) /\ c \in {arrays[a].struct, arrays[a].elts}),
         r # NoArray => ArrayGood(r, mem'),
         r # NoArray => \A c \in {r.struct, r.elts} :
           \/ c = NoChunk \/ c \notin mem.chunks
           \/ InUse(a) /\ c \in {arrays[a].struct, arrays[a].elts}
  PROVE  ClientInv'
  <1>1. IInv'
    BY OnlyMemoryGood DEF ClientInv, OnlyArrays
  <1>2. NoChunk \notin mem.chunks /\ ArraysOwn
    BY NotNoChunk DEF ClientInv, IInv
  <1>3. /\ arrays' \in [ArrayIds -> Arrays] /\ arrays'[a] = r
        /\ \A b \in ArrayIds \ {a} : arrays'[b] = arrays[b]
    BY <1>2 DEF ArraysOwn
  <1>4. ASSUME NEW b \in ArrayIds \ {a}, InUse(b)
        PROVE  /\ ArrayGood(arrays[b], mem')
               /\ r # NoArray => Shared(r, arrays[b]) \subseteq {NoChunk}
    <2>1. ArrayGood(arrays[b], mem) /\ (InUse(a) => Shared(arrays[a], arrays[b]) \subseteq {NoChunk})
      BY <1>2, <1>4 DEF ArraysOwn
    <2>2. \A c \in {arrays[b].struct, arrays[b].elts} :
            /\ c = NoChunk \/ c \in mem.chunks
            /\ c \in mem.chunks => c \in mem'.chunks
      BY <1>2, <2>1 DEF ArrayGood, Shared
    <2>3. ArrayGood(arrays[b], mem')
      BY <2>1, <2>2 DEF ArrayGood
    <2>4. r # NoArray => Shared(r, arrays[b]) \subseteq {NoChunk}
      BY <2>1, <2>2 DEF Shared
    <2> QED
      BY <2>3, <2>4
  <1>5. ArraysOwn'
    BY <1>2, <1>3, <1>4 DEF ArraysOwn, InUse, Shared
  <1>6. \A c \in mem.chunks : c.kind = "link" => c \in mem'.chunks
    BY <1>2 DEF ArraysOwn, ArrayGood
  <1>7. LinkChunks' /\ LinkPlaces'
    BY <1>6, LinksKept DEF ClientInv, OnlyArrays
  <1> QED
    BY <1>1, <1>5, <1>7 DEF ClientInv

\* hcore_array_create and hcore_array_init: the array takes chunks of its own.
LEMMA ArrayCreateStep ==
  ASSUME ClientInv, Roomy, NEW a \in ArrayIds, NEW n \in Counts, ArrayCreate(a, n)
  PROVE  ClientInv'
  <1>1. /\ Good(mem) /\ ~Customed /\ OnlyArrays /\ ~InUse(a)
        /\ "array" \in Kinds /\ ArraySize \in Nat \ {0} /\ ArraySize <= PoolMax
        /\ n \in Nat \ {0}
    BY ClientAssumption DEF ClientInv, IInv, Roomy, ArrayCreate, Kinds
  <1>2. n * EltSize \in Nat \ {0} /\ n * EltSize = EltSize * n
    BY <1>1, Times
  <1>3. PICK o \in Alloc(mem, ArraySize, "array", TRUE) :
          \/ ~o.ok /\ mem' = o.mem /\ UNCHANGED arrays
          \/ /\ o.ok
             /\ \E e \in Alloc(o.mem, n * EltSize, "array", FALSE) :
                  /\ mem' = e.mem
                  /\ arrays' = IF ~e.ok THEN arrays
                               ELSE [arrays EXCEPT ![a] =
                                       [struct |-> o.chunk, elts |-> e.chunk, object |-> e.object,
                                        nelts |-> 0, nalloc |-> n]]
    BY DEF ArrayCreate
  <1>4. /\ Good(o.mem) /\ mem.chunks \subseteq o.mem.chunks /\ mem.heap \subseteq o.mem.heap
        /\ o.ok => /\ o.chunk \in o.mem.chunks /\ o.chunk \in Areas \ mem.chunks
                   /\ o.chunk.kind = "array" /\ o.chunk.size = ArraySize
    <2>1. Granted(mem, ArraySize, "array", o)
      BY <1>1, AllocFacts
    <2> QED
      BY <1>1, <2>1 DEF Granted
  <1>5. CASE ~o.ok /\ mem' = o.mem /\ UNCHANGED arrays
    BY <1>1, <1>4, <1>5, RequestStep DEF OnlyArrays, clientVars
  <1>6. ASSUME o.ok, NEW e \in Alloc(o.mem, n * EltSize, "array", FALSE),
               mem' = e.mem,
               arrays' = IF ~e.ok THEN arrays
                         ELSE [arrays EXCEPT ![a] =
                                 [struct |-> o.chunk, elts |-> e.chunk, object |-> e.object,
                                  nelts |-> 0, nalloc |-> n]]
        PROVE  ClientInv'
    <2> DEFINE size == n * EltSize
    <2>1. Granted(o.mem, size, "array", e)
      BY <1>1, <1>2, <1>4, AllocFacts
    <2>2. CASE ~e.ok
      BY <1>1, <1>4, <1>6, <2>1, <2>2, RequestStep DEF OnlyArrays, clientVars, Granted
    <2>3. CASE e.ok
      <3> DEFINE r == [struct |-> o.chunk, elts |-> e.chunk, object |-> e.object,
                       nelts |-> 0, nalloc |-> n]
      <3>0. size = EltSize * n /\ mem' = e.mem
        BY <1>2, <1>6
      <3> HIDE DEF size
      <3>1. r \in Arrays
        BY <1>1, <1>4, <1>6, <2>1, <2>3 DEF Arrays, Chunks, Granted
      <3>2. ArrayGood(r, mem')
        <4>1. \A i \in Objects : i # NoObject
          BY DEF Objects, NoObject
        <4>2. CASE size <= PoolMax
          <5>1. /\ e.chunk \in e.mem.chunks /\ e.chunk \notin o.mem.chunks
                /\ e.chunk.kind = "array" /\ e.chunk.size = size /\ e.object = NoObject
                /\ o.mem.chunks \subseteq e.mem.chunks
            BY <2>1, <2>3, <4>2 DEF Granted
          <5> QED
            BY <1>1, <1>4, <1>6, <3>0, <5>1 DEF ArrayGood
        <4>3. CASE ~(size <= PoolMax)
          <5>1. /\ e.chunk = NoChunk /\ e.object \in Objects /\ LargeObj(e.object) \in e.mem.heap
                /\ o.mem.chunks \subseteq e.mem.chunks
            BY <2>1, <2>3, <4>3 DEF Granted
          <5> QED
            BY <1>1, <1>4, <1>6, <3>0, <4>1, <5>1 DEF ArrayGood
        <4> QED
          BY <4>2, <4>3
      <3>3. \A c \in {r.struct, r.elts} : c = NoChunk \/ c \notin mem.chunks
        BY <1>4, <1>6, <2>1, <2>3 DEF Granted
      <3>4. arrays' = [arrays EXCEPT ![a] = r]
        BY <1>6, <2>3
      <3> HIDE DEF r
      <3> QED
        BY <1>1, <1>4, <3>0, <2>1, <3>1, <3>2, <3>3, <3>4, OneArray DEF Granted
    <2> QED
      BY <2>2, <2>3
  <1> QED
    BY <1>3, <1>5, <1>6

\* The elements are filled: no chunk changes.
LEMMA FilledGood ==
  ASSUME NEW m, Good(m), NEW r, NEW n
  PROVE  /\ Good(Filled(m, r, n))
         /\ Filled(m, r, n).chunks = m.chunks /\ Filled(m, r, n).heap = m.heap
  <1> DEFINE b == m.broken \/ (r.object = NoObject /\
                               OverHeader([r.elts EXCEPT !.off = @ + EltSize * r.nelts,
                                                         !.size = EltSize * n]))
             next == [m EXCEPT !.broken = b]
  <1>1. m \in Memory /\ b \in BOOLEAN
    BY DEF Good
  <1>2. Filled(m, r, n) = next
    BY DEF Filled
  <1> HIDE DEF b
  <1>3. /\ next \in Memory /\ next.n = m.n /\ next.current = m.current
        /\ next.last = m.last /\ next.chunks = m.chunks /\ next.heap = m.heap
    BY <1>1 DEF Memory
  <1> HIDE DEF next
  <1>4. Good(next)
    BY <1>3 DEF Good, InBounds, Apart
  <1> QED
    BY <1>2, <1>3, <1>4

\* There was room for n elements more.
LEMMA HandOutStep ==
  ASSUME ClientInv, NEW a \in ArrayIds, InUse(a), OnlyArrays,
         NEW n \in Nat \ {0}, arrays[a].nelts + n <= arrays[a].nalloc,
         HandOut(a, mem, arrays[a], n)
  PROVE  ClientInv'
  <1> DEFINE r == arrays[a]
             next == [r EXCEPT !.nelts = @ + n]
  <1>1. r \in Arrays /\ Good(mem) /\ ArrayGood(r, mem)
    BY DEF ClientInv, IInv, ArraysOwn
  <1>2. /\ Good(mem') /\ mem'.chunks = mem.chunks /\ mem'.heap = mem.heap
        /\ arrays' = [arrays EXCEPT ![a] = next]
    BY <1>1, FilledGood DEF HandOut
  <1>3. /\ next \in Arrays /\ next.nelts = r.nelts + n /\ next.nalloc = r.nalloc
        /\ next.struct = r.struct /\ next.elts = r.elts /\ next.object = r.object
    BY <1>1 DEF Arrays
  <1> HIDE DEF next
  <1>4. ArrayGood(next, mem')
    BY <1>1, <1>2, <1>3 DEF ArrayGood
  <1> QED
    BY <1>2, <1>3, <1>4, OneArray

\* The area of the array ends at d.last and is made longer where it is.
LEMMA GrowInPlaceStep ==
  ASSUME ClientInv, NEW a \in ArrayIds, InUse(a), OnlyArrays,
         NEW n \in Nat \ {0}, NEW nalloc, GrowsInPlace(a, n), Grow(a, n, nalloc)
  PROVE  ClientInv'
  <1> DEFINE r == arrays[a]
             c == r.elts
             size == c.size + EltSize * n
             longer == [c EXCEPT !.size = size]
             last == [mem.last EXCEPT ![c.block] = c.off + size]
             C == (mem.chunks \ {c}) \union {longer}
             m == [mem EXCEPT !.last = last, !.chunks = C]
             grown == [r EXCEPT !.elts = longer, !.nalloc = @ + n]
             next == [grown EXCEPT !.nelts = @ + n]
  <1>1. r \in Arrays /\ Good(mem) /\ ArrayGood(r, mem) /\ r.object = NoObject /\ mem \in Memory
    BY DEF ClientInv, IInv, ArraysOwn, GrowsInPlace, AtEnd, Good
  <1>2. /\ c \in mem.chunks /\ c.kind = "array" /\ c.size = EltSize * r.nalloc /\ c # r.struct
        /\ c \in Areas /\ r.nalloc \in Nat /\ r.nelts \in Nat /\ r.nelts <= r.nalloc
        /\ r.struct \in mem.chunks
    BY <1>1 DEF ArrayGood, Memory, Arrays
  <1>3. /\ EltSize * n \in Nat \ {0} /\ EltSize * r.nalloc \in Nat
        /\ EltSize * (r.nalloc + n) = EltSize * r.nalloc + EltSize * n
    <2>1. n \in Nat /\ n > 0
      OBVIOUS
    <2>2. EltSize * n \in Nat /\ EltSize * n > 0
      BY <2>1, Times
    <2>3. EltSize * r.nalloc \in Nat
      BY <1>2, Times
    <2>4. EltSize * (r.nalloc + n) = EltSize * r.nalloc + EltSize * n
      BY <1>2, <2>1, Times
    <2> QED
      BY <2>2, <2>3, <2>4
  <1>4. /\ c.block = 1 /\ c.off + c.size = mem.last[1] /\ mem.last[1] + EltSize * n <= BlockSize
        /\ mem.last \in [Blocks -> Nat] /\ c.block \in Blocks
        /\ c.off \in Nat /\ c.size \in Nat
    BY <1>1, <1>2 DEF GrowsInPlace, AtEnd, Memory, Areas
  <1>5. /\ size \in Nat \ {0} /\ c.off + size = mem.last[1] + EltSize * n
        /\ c.off + size <= BlockSize /\ c.off + c.size = mem.last[c.block]
    BY <1>3, <1>4
  <1>6. /\ longer \in Areas /\ longer.block = c.block /\ longer.off = c.off
        /\ longer.size = EltSize * (r.nalloc + n) /\ longer.kind = "array"
    BY <1>2, <1>3, <1>5 DEF Areas
  <1>7. longer \notin mem.chunks
    <2>1. longer.size # c.size
      BY <1>2, <1>3, <1>6
    <2>2. ~Disjoint(c, longer)
      <3> HIDE DEF longer
      <3>1. c.size > 0
        BY <1>1, <1>2 DEF Good, InBounds
      <3> QED
        BY <1>2, <1>3, <1>4, <1>6, <3>1 DEF Disjoint
    <2> HIDE DEF longer
    <2> QED
      BY <1>1, <1>2, <2>1, <2>2 DEF Good, Apart
  <1>8. HandOut(a, m, grown, n)
    <2>1. last = [mem.last EXCEPT ![1] = @ + EltSize * n]
      BY <1>4, <1>5
    <2>2. longer = [c EXCEPT !.size = @ + EltSize * n]
      OBVIOUS
    <2> HIDE DEF last, longer
    <2> QED
      BY <2>1, <2>2 DEF Grow
  <1>9. Good(m) /\ m.chunks = C /\ m.heap = mem.heap
    <2>1. C = (mem.chunks \ {c}) \union (IF size = 0 THEN {} ELSE {[c EXCEPT !.size = size]})
      BY <1>5
    <2>2. last = [mem.last EXCEPT ![c.block] = c.off + size]
      OBVIOUS
    <2>3. m.chunks = C /\ m.heap = mem.heap
      BY <1>1 DEF Memory
    <2> HIDE DEF C, last
    <2>4. Good([mem EXCEPT !.last = last, !.chunks = C])
      BY <1>1, <1>2, <1>5, <2>1, <2>2, ResizedGood
    <2> QED
      BY <2>3, <2>4
  <1> HIDE DEF m
  <1>10. /\ Good(mem') /\ mem'.chunks = C /\ mem'.heap = mem.heap
         /\ arrays' = [arrays EXCEPT ![a] = next]
    BY <1>8, <1>9, FilledGood DEF HandOut
  <1> HIDE DEF longer
  <1>11. /\ next \in Arrays /\ next.nelts = r.nelts + n /\ next.nalloc = r.nalloc + n
         /\ next.struct = r.struct /\ next.elts = longer /\ next.object = NoObject
    <2>1. /\ grown \in Arrays /\ grown.nelts = r.nelts /\ grown.nalloc = r.nalloc + n
          /\ grown.struct = r.struct /\ grown.elts = longer /\ grown.object = NoObject
      <3>1. r.nalloc + n \in Nat /\ longer \in Chunks
        BY <1>2, <1>6 DEF Chunks
      <3>2. r \in Arrays /\ r.object = NoObject
        BY <1>1
      <3> QED
        BY <3>1, <3>2 DEF Arrays
    <2> HIDE DEF grown
    <2> QED
      BY <1>2, <2>1 DEF Arrays
  <1> HIDE DEF next
  <1>12. ArrayGood(next, mem')
    BY <1>1, <1>2, <1>6, <1>7, <1>10, <1>11 DEF ArrayGood
  <1> QED
    BY <1>2, <1>7, <1>10, <1>11, <1>12, OneArray

\* The elements move to a new area.
LEMMA MoveStep ==
  ASSUME ClientInv, Roomy, NEW a \in ArrayIds, InUse(a), OnlyArrays,
         NEW n \in Nat \ {0}, NEW nalloc \in Nat, arrays[a].nelts + n <= nalloc,
         ~GrowsInPlace(a, n), Grow(a, n, nalloc)
  PROVE  ClientInv'
  <1> DEFINE r == arrays[a]
             c == r.elts
             size == EltSize * nalloc
  <1>1. r \in Arrays /\ Good(mem) /\ ArrayGood(r, mem) /\ ~Customed /\ "array" \in Kinds
    BY DEF ClientInv, IInv, ArraysOwn, Roomy, Kinds
  <1>2. /\ r.nelts \in Nat /\ r.nalloc \in Nat /\ r.struct \in mem.chunks
        /\ r.struct # c /\ (c = NoChunk \/ c \in mem.chunks)
    BY <1>1, NotNoChunk DEF ArrayGood, Arrays
  <1>3. nalloc > 0 /\ size \in Nat \ {0}
    <2>1. nalloc > 0
      BY <1>2
    <2>2. size \in Nat /\ size > 0
      BY <2>1, Times
    <2> QED
      BY <2>1, <2>2
  <1>4. PICK o \in Alloc(mem, size, "array", TRUE) :
          IF o.ok
          THEN HandOut(a, [o.mem EXCEPT !.chunks = @ \ {c}],
                       [r EXCEPT !.elts = o.chunk, !.object = o.object, !.nalloc = nalloc], n)
          ELSE mem' = o.mem /\ UNCHANGED arrays
    BY DEF Grow
  <1>5. Granted(mem, size, "array", o)
    BY <1>1, <1>3, AllocFacts
  <1>6. CASE ~o.ok
    BY <1>4, <1>5, <1>6, RequestStep DEF Granted, OnlyArrays, clientVars
  <1>7. CASE o.ok
    <2> DEFINE m == [o.mem EXCEPT !.chunks = @ \ {c}]
               moved == [r EXCEPT !.elts = o.chunk, !.object = o.object, !.nalloc = nalloc]
               next == [moved EXCEPT !.nelts = @ + n]
    <2>1. Good(o.mem) /\ o.mem \in Memory
      BY <1>5 DEF Granted, Good
    <2>2. Good(m) /\ m.chunks = o.mem.chunks \ {c} /\ m.heap = o.mem.heap
      <3>1. Good(m)
        BY <2>1, DroppedGood
      <3> QED
        BY <2>1, <3>1 DEF Memory
    <2>3. HandOut(a, m, moved, n)
      BY <1>4, <1>7
    <2> HIDE DEF m
    <2>4. /\ Good(mem') /\ mem'.chunks = o.mem.chunks \ {c} /\ mem'.heap = o.mem.heap
          /\ arrays' = [arrays EXCEPT ![a] = next]
      BY <2>2, <2>3, FilledGood DEF HandOut
    <2> HIDE DEF size
    <2>5. o.chunk \in Chunks /\ o.object \in Objects \union {NoObject}
      BY <1>5, <1>7 DEF Granted, Chunks
    <2>6. /\ next \in Arrays /\ next.nelts = r.nelts + n /\ next.nalloc = nalloc
          /\ next.struct = r.struct /\ next.elts = o.chunk /\ next.object = o.object
      <3>1. /\ moved \in Arrays /\ moved.nelts = r.nelts /\ moved.nalloc = nalloc
            /\ moved.struct = r.struct /\ moved.elts = o.chunk /\ moved.object = o.object
        BY <1>1, <2>5 DEF Arrays
      <3> HIDE DEF moved
      <3> QED
        BY <1>2, <3>1 DEF Arrays
    <2> HIDE DEF next
    <2>7. ArrayGood(next, mem')
      <3>1. \A i \in Objects : i # NoObject
        BY DEF Objects, NoObject
      <3>2. CASE size <= PoolMax
        <4>1. /\ o.chunk \in o.mem.chunks /\ o.chunk \notin mem.chunks
              /\ o.chunk.kind = "array" /\ o.chunk.size = size /\ o.object = NoObject
              /\ mem.chunks \subseteq o.mem.chunks /\ o.chunk # NoChunk
          BY <1>5, <1>7, <2>1, <3>2, NotNoChunk DEF Granted
        <4> QED
          BY <1>1, <1>2, <1>3, <2>4, <2>6, <4>1 DEF ArrayGood, size
      <3>3. CASE ~(size <= PoolMax)
        <4>1. /\ o.chunk = NoChunk /\ o.object \in Objects /\ LargeObj(o.object) \in o.mem.heap
              /\ mem.chunks \subseteq o.mem.chunks
          BY <1>5, <1>7, <3>3 DEF Granted
        <4> QED
          BY <1>1, <1>2, <1>3, <2>4, <2>6, <3>1, <4>1 DEF ArrayGood
      <3> QED
        BY <3>2, <3>3
    <2>8. /\ mem.heap \subseteq mem'.heap
          /\ \A x \in mem.chunks : x \in mem'.chunks \/ x = c
      BY <1>5, <2>4 DEF Granted
    <2>9. o.chunk = NoChunk \/ o.chunk \notin mem.chunks
      BY <1>5, <1>7 DEF Granted
    <2> QED
      BY <2>4, <2>6, <2>7, <2>8, <2>9, OneArray
  <1> QED
    BY <1>6, <1>7

\* hcore_array_push and hcore_array_push_n, in place, by moving or without room.
LEMMA PushStep ==
  ASSUME ClientInv, Roomy, NEW a \in ArrayIds,
         ArrayPush(a) \/ \E n \in Counts : ArrayPushN(a, n)
  PROVE  ClientInv'
  <1> DEFINE r == arrays[a]
  <1>1. CASE ArrayPush(a)
    <2>1. OnlyArrays /\ InUse(a)
      BY <1>1 DEF ArrayPush
    <2>2. r.nelts \in Nat /\ r.nalloc \in Nat \ {0} /\ r.nelts <= r.nalloc
      BY <2>1 DEF ClientInv, ArraysOwn, Arrays, ArrayGood
    <2>3. CASE r.nelts = r.nalloc
      <3>1. Grow(a, 1, 2 * r.nalloc)
        BY <1>1, <2>3 DEF ArrayPush
      <3>2. 2 * r.nalloc \in Nat /\ r.nelts + 1 <= 2 * r.nalloc
        BY <2>2, <2>3
      <3> QED
        BY <2>1, <3>1, <3>2, GrowInPlaceStep, MoveStep
    <2>4. CASE r.nelts # r.nalloc
      <3>1. HandOut(a, mem, r, 1) /\ r.nelts + 1 <= r.nalloc
        BY <1>1, <2>2, <2>4 DEF ArrayPush
      <3> QED
        BY <2>1, <3>1, HandOutStep
    <2> QED
      BY <2>3, <2>4
  <1>2. ASSUME NEW n \in Counts, ArrayPushN(a, n)
        PROVE  ClientInv'
    <2>1. OnlyArrays /\ InUse(a) /\ n \in Nat \ {0}
      BY <1>2, ClientAssumption DEF ArrayPushN
    <2>2. r.nelts \in Nat /\ r.nalloc \in Nat \ {0} /\ r.nelts <= r.nalloc
      BY <2>1 DEF ClientInv, ArraysOwn, Arrays, ArrayGood
    <2>3. CASE r.nelts + n > r.nalloc
      <3>1. Grow(a, n, RoomFor(r, n))
        BY <1>2, <2>3 DEF ArrayPushN
      <3>2. RoomFor(r, n) \in Nat /\ r.nelts + n <= RoomFor(r, n)
        BY <2>1, <2>2 DEF RoomFor
      <3> QED
        BY <2>1, <3>1, <3>2, GrowInPlaceStep, MoveStep
    <2>4. CASE ~(r.nelts + n > r.nalloc)
      <3>1. HandOut(a, mem, r, n) /\ r.nelts + n <= r.nalloc
        BY <1>2, <2>1, <2>2, <2>4 DEF ArrayPushN
      <3> QED
        BY <2>1, <3>1, HandOutStep
    <2> QED
      BY <2>3, <2>4
  <1> QED
    BY <1>1, <1>2

\* A chunk at d.last of the first block is given back, any other one is lost.
GivenBack(m, c) ==
  [m EXCEPT !.last = [m.last EXCEPT ![1] = IF c.block = 1 /\ c.off + c.size = m.last[1]
                                           THEN c.off ELSE m.last[1]],
            !.chunks = @ \ {c}]

\* A chunk is given back; the end of the first block moves back only over it.
LEMMA GivenBackGood ==
  ASSUME NEW m, Good(m), NEW c \in m.chunks
  PROVE  Good(GivenBack(m, c))
  <1>1. m \in Memory /\ c \in Areas /\ m.last \in [Blocks -> Nat] /\ 1 \in Blocks
    BY BoundAssumption, SMTT(60) DEF Good, Memory, Blocks
  <1>2. c.off \in Nat /\ c.size \in Nat /\ c.block \in Blocks
    BY <1>1 DEF Areas
  <1>3. CASE c.block = 1 /\ c.off + c.size = m.last[1]
    <2> DEFINE last == [m.last EXCEPT ![c.block] = c.off + 0]
               C == (m.chunks \ {c}) \union (IF 0 = 0 THEN {} ELSE {[c EXCEPT !.size = 0]})
    <2>1. last = [m.last EXCEPT ![1] = c.off] /\ C = m.chunks \ {c}
      BY <1>2, <1>3
    <2>2. GivenBack(m, c) = [m EXCEPT !.last = [m.last EXCEPT ![1] = c.off],
                                      !.chunks = m.chunks \ {c}]
      BY <1>3 DEF GivenBack
    <2>3. c.off + c.size = m.last[c.block] /\ 0 <= c.size
      BY <1>2, <1>3
    <2>4. Good([m EXCEPT !.last = last, !.chunks = C])
      <3>1. last = [m.last EXCEPT ![c.block] = c.off + 0]
        OBVIOUS
      <3>2. C = (m.chunks \ {c}) \union (IF 0 = 0 THEN {} ELSE {[c EXCEPT !.size = 0]})
        OBVIOUS
      <3> HIDE DEF last, C
      <3> QED
        BY <2>3, <3>1, <3>2, ResizedGood
    <2> HIDE DEF last, C
    <2> QED
      BY <2>1, <2>2, <2>4
  <1>4. CASE ~(c.block = 1 /\ c.off + c.size = m.last[1])
    <2>1. [m.last EXCEPT ![1] = m.last[1]] = m.last
      BY <1>1
    <2>2. GivenBack(m, c) = [m EXCEPT !.last = m.last, !.chunks = m.chunks \ {c}]
      BY <1>4, <2>1 DEF GivenBack
    <2>3. GivenBack(m, c) = [m EXCEPT !.chunks = m.chunks \ {c}]
      BY <1>1, <2>2 DEF Memory
    <2> QED
      BY <2>3, DroppedGood
  <1> QED
    BY <1>3, <1>4

\* hcore_array_destroy gives back what the array owns, and only that.
LEMMA ArrayDestroyStep ==
  ASSUME ClientInv, NEW a \in ArrayIds, ArrayDestroy(a)
  PROVE  ClientInv'
  <1> DEFINE r == arrays[a]
             c == r.elts
             s == r.struct
             last == IF AtEnd(a) THEN c.off ELSE mem.last[1]
             m == IF r.object = NoObject THEN GivenBack(mem, c) ELSE mem
  <1>1. /\ OnlyArrays /\ InUse(a) /\ Good(mem) /\ r \in Arrays /\ ArrayGood(r, mem)
        /\ mem \in Memory /\ NoChunk \notin mem.chunks
    BY NotNoChunk DEF ClientInv, ArrayDestroy, IInv, ArraysOwn, Good
  <1>2. /\ s \in mem.chunks /\ s.size = ArraySize /\ s # c
        /\ IF r.object = NoObject THEN c \in mem.chunks /\ c.size = EltSize * r.nalloc
           ELSE c = NoChunk
    BY <1>1 DEF ArrayGood
  <1>3. /\ Good(m) /\ m.chunks = mem.chunks \ {c} /\ m.heap = mem.heap
        /\ m.last = [mem.last EXCEPT ![1] = last]
        /\ \E l, C : m = [mem EXCEPT !.last = l, !.chunks = C]
    <2>1. CASE r.object = NoObject
      <3>1. AtEnd(a) <=> (c.block = 1 /\ c.off + c.size = mem.last[1])
        BY <1>2, <2>1 DEF AtEnd
      <3>2. [mem.last EXCEPT ![1] = IF c.block = 1 /\ c.off + c.size = mem.last[1]
                                    THEN c.off ELSE mem.last[1]]
              = [mem.last EXCEPT ![1] = last]
        BY <3>1
      <3>3. m = [mem EXCEPT !.last = [mem.last EXCEPT ![1] = last], !.chunks = mem.chunks \ {c}]
        BY <2>1, <3>2 DEF GivenBack
      <3>4. Good(m)
        BY <1>1, <1>2, <2>1, GivenBackGood
      <3> HIDE DEF last
      <3> QED
        BY <1>1, <3>3, <3>4 DEF Memory
    <2>2. CASE r.object # NoObject
      <3>1. last = mem.last[1] /\ m = mem
        BY <2>2 DEF AtEnd
      <3>2. mem.last = [mem.last EXCEPT ![1] = mem.last[1]] /\ mem.chunks = mem.chunks \ {c}
        BY <1>1, <1>2, <2>2 DEF Memory
      <3>3. mem = [mem EXCEPT !.last = mem.last, !.chunks = mem.chunks]
        BY <1>1 DEF Memory
      <3> QED
        BY <1>1, <3>1, <3>2, <3>3
    <2> QED
      BY <2>1, <2>2
  <1>4. s \in m.chunks /\ m \in Memory
    BY <1>2, <1>3 DEF Good
  <1>5. mem' = GivenBack(m, s)
    <2> DEFINE x == IF s.block = 1 /\ s.off + ArraySize = last THEN s.off ELSE last
    <2>1. mem' = [mem EXCEPT !.last[1] = x, !.chunks = @ \ {s, c}]
      BY DEF ArrayDestroy
    <2>2. PICK l, C : m = [mem EXCEPT !.last = l, !.chunks = C]
      BY <1>3
    <2>3. mem.last \in [Blocks -> Nat] /\ 1 \in Blocks
      BY <1>1, BoundAssumption DEF Memory, Blocks
    <2>4. m.last[1] = last
      BY <1>3, <2>3
    <2>5. GivenBack(m, s) = [m EXCEPT !.last = [m.last EXCEPT ![1] = x], !.chunks = m.chunks \ {s}]
      BY <1>2, <2>4 DEF GivenBack
    <2> HIDE DEF m, x, last
    <2>6. [m.last EXCEPT ![1] = x] = [mem.last EXCEPT ![1] = x]
      BY <1>3, <2>3
    <2>7. m.chunks \ {s} = mem.chunks \ {s, c}
      BY <1>3
    <2>8. mem' = [mem EXCEPT !.last = [mem.last EXCEPT ![1] = x], !.chunks = mem.chunks \ {s, c}]
      BY <2>1
    <2> QED
      BY <1>1, <2>2, <2>5, <2>6, <2>7, <2>8, ZenonT(60) DEF Memory
  <1> HIDE DEF m
  <1>6. Good(mem')
    BY <1>3, <1>4, <1>5, GivenBackGood
  <1>7. mem'.chunks = mem.chunks \ {s, c} /\ mem'.heap = mem.heap
    BY <1>3, <1>4, <1>5 DEF GivenBack, Memory
  <1>8. NoArray \in Arrays
    BY DEF NoArray, Arrays, Chunks
  <1>9. arrays' = [arrays EXCEPT ![a] = NoArray]
    BY DEF ArrayDestroy
  <1> QED
    BY <1>1, <1>6, <1>7, <1>8, <1>9, OneArray
-----------------------------------------------------------------------------
(* Links.                                                                   *)

\* The first element of pool->chain is taken out.
LEMMA TailFacts ==
  ASSUME NEW s \in Seq(Chunks), s # <<>>, Once(s)
  PROVE  /\ Tail(s) \in Seq(Chunks) /\ Len(Tail(s)) + 1 = Len(s) /\ Once(Tail(s))
         /\ Head(s) \in ToSet(s) /\ ToSet(Tail(s)) = ToSet(s) \ {Head(s)}
  <1>1. /\ Tail(s) \in Seq(Chunks) /\ Len(s) \in Nat \ {0} /\ Len(Tail(s)) = Len(s) - 1
        /\ DOMAIN s = 1 .. Len(s) /\ DOMAIN Tail(s) = 1 .. Len(s) - 1
        /\ Head(s) = s[1] /\ \A i \in 1 .. Len(s) - 1 : Tail(s)[i] = s[i + 1]
    OBVIOUS
  <1>2. Once(Tail(s))
    <2> SUFFICES ASSUME NEW i \in 1 .. Len(s) - 1, NEW j \in 1 .. Len(s) - 1, i # j
                 PROVE  Tail(s)[i] # Tail(s)[j]
      BY <1>1 DEF Once
    <2>1. i + 1 \in 1 .. Len(s) /\ j + 1 \in 1 .. Len(s) /\ i + 1 # j + 1
      BY <1>1
    <2> QED
      BY <1>1, <2>1 DEF Once
  <1>3. Head(s) \in ToSet(s)
    BY <1>1 DEF ToSet
  <1>4. ASSUME NEW x \in ToSet(s), x # Head(s)
        PROVE  x \in ToSet(Tail(s))
    <2>1. PICK i \in 1 .. Len(s) : x = s[i]
      BY <1>1 DEF ToSet
    <2>2. i - 1 \in 1 .. Len(s) - 1 /\ (i - 1) + 1 = i
      BY <1>1, <1>4, <2>1
    <2> QED
      BY <1>1, <2>1, <2>2 DEF ToSet
  <1>5. ASSUME NEW x \in ToSet(Tail(s))
        PROVE  x \in ToSet(s) /\ x # Head(s)
    <2>1. PICK i \in 1 .. Len(s) - 1 : x = Tail(s)[i]
      BY <1>1 DEF ToSet
    <2>2. i + 1 \in 1 .. Len(s) /\ i + 1 # 1 /\ 1 \in 1 .. Len(s) /\ x = s[i + 1]
      BY <1>1, <2>1
    <2> QED
      BY <1>1, <2>2 DEF ToSet, Once
  <1> QED
    BY <1>1, <1>2, <1>3, <1>4, <1>5

\* A link is put at the front of pool->chain.
LEMMA ConsFacts ==
  ASSUME NEW s \in Seq(Chunks), NEW c \in Chunks, c \notin ToSet(s), Once(s)
  PROVE  /\ <<c>> \o s \in Seq(Chunks) /\ Len(<<c>> \o s) = Len(s) + 1
         /\ ToSet(<<c>> \o s) = ToSet(s) \union {c} /\ Once(<<c>> \o s)
  <1> DEFINE t == <<c>> \o s
  <1>1. /\ t \in Seq(Chunks) /\ Len(t) = Len(s) + 1 /\ Len(s) \in Nat
        /\ DOMAIN s = 1 .. Len(s) /\ DOMAIN t = 1 .. Len(s) + 1
        /\ t[1] = c /\ \A i \in 1 .. Len(s) : t[i + 1] = s[i]
    <2>1. <<c>> \in Seq(Chunks) /\ Len(<<c>>) = 1 /\ <<c>>[1] = c
      OBVIOUS
    <2> QED
      BY <2>1, ConcatProperties
  <1>2. \A i \in 1 .. Len(s) + 1 : i # 1 => i - 1 \in 1 .. Len(s) /\ t[i] = s[i - 1]
    BY <1>1
  <1> HIDE DEF t
  <1>3. ToSet(t) = ToSet(s) \union {c}
    <2>1. c \in ToSet(t)
      BY <1>1 DEF ToSet
    <2>2. \A i \in 1 .. Len(s) : i + 1 \in 1 .. Len(s) + 1
      BY <1>1
    <2>3. ToSet(s) \subseteq ToSet(t)
      BY <1>1, <2>2 DEF ToSet
    <2>4. ASSUME NEW x \in ToSet(t), x # c
          PROVE  x \in ToSet(s)
      <3>1. PICK i \in 1 .. Len(s) + 1 : x = t[i]
        BY <1>1 DEF ToSet
      <3>2. i - 1 \in 1 .. Len(s) /\ x = s[i - 1]
        BY <1>1, <1>2, <2>4, <3>1
      <3> QED
        BY <1>1, <3>2 DEF ToSet
    <2> QED
      BY <2>1, <2>3, <2>4
  <1>4. Once(t)
    <2> SUFFICES ASSUME NEW i \in 1 .. Len(s) + 1, NEW j \in 1 .. Len(s) + 1, i # j
                 PROVE  t[i] # t[j]
      BY <1>1 DEF Once
    <2>1. CASE i # 1 /\ j # 1
      <3>1. i - 1 # j - 1
        BY <1>1
      <3>2. /\ i - 1 \in 1 .. Len(s) /\ t[i] = s[i - 1]
            /\ j - 1 \in 1 .. Len(s) /\ t[j] = s[j - 1]
        BY <1>2, <2>1
      <3>3. s[i - 1] # s[j - 1]
        BY <1>1, <3>1, <3>2 DEF Once
      <3> QED
        BY <3>2, <3>3
    <2>2. CASE i = 1 \/ j = 1
      BY <1>1, <1>2, <2>2 DEF ToSet
    <2> QED
      BY <2>1, <2>2
  <1> QED
    BY <1>1, <1>3, <1>4 DEF t

\* The links whose free functions run are a stack.
LinksOf(s) == {s[i].link : i \in DOMAIN s}
Apiece(s) == \A i, j \in DOMAIN s : i # j => s[i].link # s[j].link
Frees == [link : Chunks, hold : BOOLEAN]

\* A link more whose free function is to run.
LEMMA PushedFacts ==
  ASSUME NEW s \in Seq(Frees), NEW f \in Frees, f.link \notin LinksOf(s), Apiece(s)
  PROVE  /\ Append(s, f) \in Seq(Frees) /\ Len(Append(s, f)) = Len(s) + 1
         /\ LinksOf(Append(s, f)) = LinksOf(s) \union {f.link} /\ Apiece(Append(s, f))
  <1> DEFINE t == Append(s, f)
  <1>1. /\ t \in Seq(Frees) /\ Len(t) = Len(s) + 1 /\ Len(s) \in Nat
        /\ DOMAIN s = 1 .. Len(s) /\ DOMAIN t = 1 .. Len(s) + 1
        /\ t[Len(s) + 1] = f /\ \A i \in 1 .. Len(s) : t[i] = s[i]
    BY AppendProperties
  <1> HIDE DEF t
  <1>2. \A i \in 1 .. Len(s) + 1 : i \in 1 .. Len(s) \/ i = Len(s) + 1
    BY <1>1
  <1>3. LinksOf(t) = LinksOf(s) \union {f.link}
    <2>1. \A i \in 1 .. Len(s) : i \in 1 .. Len(s) + 1
      BY <1>1
    <2>2. Len(s) + 1 \in 1 .. Len(s) + 1
      BY <1>1
    <2>3. LinksOf(s) \union {f.link} \subseteq LinksOf(t)
      BY <1>1, <2>1, <2>2 DEF LinksOf
    <2>4. LinksOf(t) \subseteq LinksOf(s) \union {f.link}
      BY <1>1, <1>2 DEF LinksOf
    <2> QED
      BY <2>3, <2>4
  <1>4. Apiece(t)
    BY <1>1, <1>2 DEF Apiece, LinksOf
  <1> QED
    BY <1>1, <1>3, <1>4 DEF t

\* A link less whose free function is to run.
LEMMA PoppedFacts ==
  ASSUME NEW s \in Seq(Frees), s # <<>>, Apiece(s)
  PROVE  /\ Front(s) \in Seq(Frees) /\ Len(Front(s)) + 1 = Len(s) /\ Apiece(Front(s))
         /\ Last(s) \in Frees /\ Last(s).link \in LinksOf(s)
         /\ LinksOf(Front(s)) = LinksOf(s) \ {Last(s).link}
  <1> DEFINE t == Front(s)
             n == Len(s)
  <1>1. /\ n \in Nat \ {0} /\ DOMAIN s = 1 .. n /\ Last(s) = s[n] /\ s[n] \in Frees
    BY DEF Last
  <1>2. /\ t \in Seq(Frees) /\ Len(t) = n - 1 /\ DOMAIN t = 1 .. n - 1
        /\ \A i \in 1 .. n - 1 : t[i] = s[i]
    <2>1. \A i \in 1 .. n - 1 : s[i] \in Frees
      BY <1>1
    <2> QED
      BY <1>1, <2>1, SubSeqProperties DEF Front
  <1> HIDE DEF t, n
  <1>3. \A i \in 1 .. n : i \in 1 .. n - 1 \/ i = n
    BY <1>1
  <1>4. \A i \in 1 .. n - 1 : i \in 1 .. n /\ i # n
    BY <1>1
  <1>5. n \in 1 .. n
    BY <1>1
  <1>6. LinksOf(t) = LinksOf(s) \ {Last(s).link}
    <2>1. \A i \in 1 .. n - 1 : s[i].link # s[n].link
      BY <1>1, <1>4, <1>5 DEF Apiece
    <2>2. LinksOf(t) \subseteq LinksOf(s) \ {Last(s).link}
      BY <1>1, <1>2, <1>4, <2>1 DEF LinksOf
    <2>3. LinksOf(s) \ {Last(s).link} \subseteq LinksOf(t)
      BY <1>1, <1>2, <1>3 DEF LinksOf
    <2> QED
      BY <2>2, <2>3
  <1>7. Apiece(t)
    BY <1>1, <1>2, <1>4 DEF Apiece
  <1>8. Last(s).link \in LinksOf(s)
    BY <1>1, <1>5 DEF LinksOf
  <1> QED
    BY <1>1, <1>2, <1>6, <1>7, <1>8 DEF t, n
-----------------------------------------------------------------------------
(* Links and buffers.                                                       *)

\* What ClientInv says of the links, for values of their variables.
LinksGood(m, l, h, f, c) ==
  /\ l \in [DOMAIN l -> Chunks]
  /\ \A x \in DOMAIN l :
       /\ x \in m.chunks /\ x.kind = "link"
       /\ l[x] # NoBuf => l[x] \in m.chunks /\ l[x].kind = "link"
  /\ \A x, y \in DOMAIN l : x # y /\ l[x] = l[y] => l[x] = NoBuf
  /\ IsFiniteSet(DOMAIN l) /\ h \in SUBSET DOMAIN l
  /\ f \in Seq(Frees) /\ c \in Seq(Chunks)
  /\ h \union LinksOf(f) \union ToSet(c) = DOMAIN l
  /\ h \intersect LinksOf(f) = {} /\ h \intersect ToSet(c) = {}
  /\ LinksOf(f) \intersect ToSet(c) = {}
  /\ Once(c) /\ Apiece(f)
  /\ Cardinality(h) + Len(f) + Len(c) = Cardinality(DOMAIN l)

\* These are the conjuncts of ClientInv about links.
LEMMA LinksGoodIs ==
  /\ LinkChunks /\ LinkPlaces <=> LinksGood(mem, links, held, freeing, chain)
  /\ LinkChunks' /\ LinkPlaces' <=> LinksGood(mem', links', held', freeing', chain')
  BY DEF LinkChunks, LinkPlaces, LinksGood, Freeing, LinksOf, Apiece, Frees

\* Counting the links that are held.
LEMMA Counted ==
  ASSUME NEW S, IsFiniteSet(S)
  PROVE  /\ Cardinality(S) \in Nat
         /\ \A x : x \notin S => /\ IsFiniteSet(S \union {x})
                                 /\ Cardinality(S \union {x}) = Cardinality(S) + 1
         /\ \A x \in S : /\ IsFiniteSet(S \ {x})
                         /\ Cardinality(S \ {x}) + 1 = Cardinality(S)
  <1>1. Cardinality(S) \in Nat
    BY FS_CardinalityType
  <1>2. ASSUME NEW x, x \notin S
        PROVE  IsFiniteSet(S \union {x}) /\ Cardinality(S \union {x}) = Cardinality(S) + 1
    BY <1>2, FS_AddElement
  <1>3. ASSUME NEW x \in S
        PROVE  IsFiniteSet(S \ {x}) /\ Cardinality(S \ {x}) + 1 = Cardinality(S)
    <2>1. IsFiniteSet(S \ {x}) /\ Cardinality(S \ {x}) = Cardinality(S) - 1
      BY <1>3, FS_RemoveElement
    <2> QED
      BY <1>1, <2>1
  <1> QED
    BY <1>1, <1>2, <1>3

\* A step that only moves links and what they point to.
LEMMA LinksStep ==
  ASSUME ClientInv, OnlyLinks, Good(mem'),
         mem.chunks \subseteq mem'.chunks, mem.heap \subseteq mem'.heap,
         LinksGood(mem', links', held', freeing', chain')
  PROVE  ClientInv'
  <1>1. IInv'
    BY OnlyMemoryGood DEF ClientInv, OnlyLinks
  <1>2. ArraysOwn'
    BY ArraysKept DEF ClientInv, OnlyLinks
  <1> QED
    BY <1>1, <1>2, LinksGoodIs DEF ClientInv

\* hcore_free_chain drops the buffer of a link unless it holds it.
LEMMA BufFacts ==
  ASSUME links \in [DOMAIN links -> Chunks], NEW c \in DOMAIN links, NEW hold \in BOOLEAN
  PROVE  /\ BufAfter(c, hold) \in [DOMAIN links -> Chunks]
         /\ DOMAIN BufAfter(c, hold) = DOMAIN links
         /\ \A x \in DOMAIN links : BufAfter(c, hold)[x] \in {links[x], NoBuf}
  <1>1. links[c] \in Chunks /\ NoBuf \in Chunks
    BY DEF Chunks, NoBuf
  <1> QED
    BY <1>1 DEF BufAfter

\* A link without a free function goes to the chain at once.
LEMMA FreeChainStep ==
  ASSUME ClientInv, NEW c \in held, NEW hold \in BOOLEAN, FreeChain(c, hold)
  PROVE  ClientInv'
  <1>1. LinksGood(mem, links, held, freeing, chain) /\ OnlyLinks /\ Good(mem) /\ mem' = mem
    BY LinksGoodIs DEF ClientInv, IInv, FreeChain
  <1> DEFINE k == <<c>> \o chain
             l == BufAfter(c, hold)
  <1>2. c \in DOMAIN links /\ c \in Chunks /\ c \notin ToSet(chain)
    <2>1. c \in mem.chunks /\ mem.chunks \subseteq Areas
      BY <1>1, NotNoChunk DEF LinksGood
    <2> QED
      BY <1>1, <2>1 DEF LinksGood, Chunks
  <1>3. /\ k \in Seq(Chunks) /\ Len(k) = Len(chain) + 1 /\ ToSet(k) = ToSet(chain) \union {c}
        /\ Once(k)
    BY <1>1, <1>2, ConsFacts DEF LinksGood
  <1>4. /\ l \in [DOMAIN links -> Chunks] /\ DOMAIN l = DOMAIN links
        /\ \A x \in DOMAIN links : l[x] \in {links[x], NoBuf}
    BY <1>1, <1>2, BufFacts DEF LinksGood
  <1>5. links' = l /\ chain' = k /\ freeing' = freeing /\ held' = held \ {c}
    BY DEF FreeChain
  <1> HIDE DEF k, l
  <1>6. LinksGood(mem, l, held \ {c}, freeing, k)
    <2>1. IsFiniteSet(held)
      BY <1>1, FS_Subset DEF LinksGood
    <2>2. Cardinality(held \ {c}) + 1 = Cardinality(held) /\ Cardinality(held \ {c}) \in Nat
      BY <2>1, Counted
    <2>3. Len(freeing) \in Nat /\ Len(chain) \in Nat
      BY <1>1 DEF LinksGood
    <2>4. Cardinality(held \ {c}) + Len(freeing) + Len(k) = Cardinality(DOMAIN l)
      <3>1. Cardinality(held) + Len(freeing) + Len(chain) = Cardinality(DOMAIN l)
        BY <1>1, <1>4 DEF LinksGood
      <3> HIDE DEF LinksGood
      <3> QED
        BY <1>3, <2>2, <2>3, <3>1
    <2> QED
      BY <1>1, <1>3, <1>4, <2>4 DEF LinksGood
  <1> QED
    BY <1>1, <1>5, <1>6, LinksStep

\* A link whose free function runs is in nobody's hands.
LEMMA FreeBeginsStep ==
  ASSUME ClientInv, NEW c \in held, NEW hold \in BOOLEAN, FreeBegins(c, hold)
  PROVE  ClientInv'
  <1>1. LinksGood(mem, links, held, freeing, chain) /\ OnlyLinks /\ Good(mem) /\ mem' = mem
    BY LinksGoodIs DEF ClientInv, IInv, FreeBegins
  <1> DEFINE fr == [link |-> c, hold |-> hold]
             k == Append(freeing, fr)
  <1>2. c \in DOMAIN links /\ c \in Chunks /\ c \notin LinksOf(freeing)
    <2>1. c \in mem.chunks /\ mem.chunks \subseteq Areas
      BY <1>1, NotNoChunk DEF LinksGood
    <2> QED
      BY <1>1, <2>1 DEF LinksGood, Chunks
  <1>3. fr \in Frees /\ fr.link = c
    BY <1>2 DEF Frees
  <1>4. links' = links /\ chain' = chain /\ freeing' = k /\ held' = held \ {c}
    BY DEF FreeBegins
  <1> HIDE DEF fr
  <1>5. /\ k \in Seq(Frees) /\ Len(k) = Len(freeing) + 1
        /\ LinksOf(k) = LinksOf(freeing) \union {c} /\ Apiece(k)
    BY <1>1, <1>2, <1>3, PushedFacts DEF LinksGood
  <1> HIDE DEF k
  <1>6. LinksGood(mem, links, held \ {c}, k, chain)
    <2>1. IsFiniteSet(held)
      BY <1>1, FS_Subset DEF LinksGood
    <2>2. Cardinality(held \ {c}) + 1 = Cardinality(held) /\ Cardinality(held \ {c}) \in Nat
      BY <2>1, Counted
    <2>3. Len(freeing) \in Nat /\ Len(chain) \in Nat
      BY <1>1 DEF LinksGood
    <2>4. Cardinality(held \ {c}) + Len(k) + Len(chain) = Cardinality(DOMAIN links)
      <3>1. Cardinality(held) + Len(freeing) + Len(chain) = Cardinality(DOMAIN links)
        BY <1>1 DEF LinksGood
      <3> QED
        BY <1>5, <2>2, <2>3, <3>1
    <2> QED
      BY <1>1, <1>5, <2>4 DEF LinksGood
  <1> QED
    BY <1>1, <1>4, <1>6, LinksStep

\* The link of the innermost free function goes to the chain.
LEMMA FreeReturnsStep ==
  ASSUME ClientInv, FreeReturns
  PROVE  ClientInv'
  <1>1. LinksGood(mem, links, held, freeing, chain) /\ OnlyLinks /\ Good(mem) /\ mem' = mem
    BY LinksGoodIs DEF ClientInv, IInv, FreeReturns
  <1> DEFINE c == Last(freeing).link
             hold == Last(freeing).hold
             s == Front(freeing)
             k == <<c>> \o chain
             l == BufAfter(c, hold)
  <1>2. /\ s \in Seq(Frees) /\ Len(s) + 1 = Len(freeing) /\ Apiece(s)
        /\ Last(freeing) \in Frees /\ c \in LinksOf(freeing)
        /\ LinksOf(s) = LinksOf(freeing) \ {c}
    BY <1>1, PoppedFacts DEF LinksGood, FreeReturns
  <1>3. links' = l /\ chain' = k /\ freeing' = s /\ held' = held
    BY DEF FreeReturns
  <1>4. c \in DOMAIN links /\ c \in Chunks /\ c \notin ToSet(chain) /\ hold \in BOOLEAN
    BY <1>1, <1>2 DEF LinksGood, Frees
  <1> HIDE DEF c, hold, s
  <1>5. /\ k \in Seq(Chunks) /\ Len(k) = Len(chain) + 1 /\ ToSet(k) = ToSet(chain) \union {c}
        /\ Once(k)
    BY <1>1, <1>4, ConsFacts DEF LinksGood
  <1>6. /\ l \in [DOMAIN links -> Chunks] /\ DOMAIN l = DOMAIN links
        /\ \A x \in DOMAIN links : l[x] \in {links[x], NoBuf}
    BY <1>1, <1>4, BufFacts DEF LinksGood
  <1> HIDE DEF k, l
  <1>7. LinksGood(mem, l, held, s, k)
    <2>1. IsFiniteSet(held)
      BY <1>1, FS_Subset DEF LinksGood
    <2>2. Cardinality(held) \in Nat
      BY <2>1, Counted
    <2>3. Len(s) \in Nat /\ Len(chain) \in Nat
      BY <1>1, <1>2 DEF LinksGood
    <2>4. Cardinality(held) + Len(s) + Len(k) = Cardinality(DOMAIN l)
      <3>1. Cardinality(held) + Len(freeing) + Len(chain) = Cardinality(DOMAIN l)
        BY <1>1, <1>6 DEF LinksGood
      <3> QED
        BY <1>2, <1>5, <2>2, <2>3, <3>1, SMTT(60)
    <2> QED
      BY <1>1, <1>2, <1>5, <1>6, <2>4 DEF LinksGood
  <1> QED
    BY <1>1, <1>3, <1>7, LinksStep

\* hcore_alloc_buf takes memory of the pool and nothing of the arrays or links.
LEMMA AllocBufStep ==
  ASSUME ClientInv, Roomy, NEW size \in Sizes, AllocBuf(size)
  PROVE  ClientInv'
  <1>1. /\ Good(mem) /\ ~Customed /\ OnlyMemory /\ UNCHANGED clientVars
        /\ "link" \in Kinds /\ BufSize \in Nat \ {0} /\ size \in Nat \ {0}
    BY ClientAssumption, SizeAssumption DEF ClientInv, IInv, Roomy, AllocBuf, Kinds
  <1>2. PICK o \in Alloc(mem, BufSize, "link", TRUE) :
          \/ ~o.ok /\ mem' = o.mem
          \/ o.ok /\ \E d \in Alloc(o.mem, size, "link", FALSE) : mem' = d.mem
    BY DEF AllocBuf
  <1>3. Good(o.mem) /\ mem.chunks \subseteq o.mem.chunks /\ mem.heap \subseteq o.mem.heap
    <2>1. Granted(mem, BufSize, "link", o)
      BY <1>1, AllocFacts
    <2> QED
      BY <2>1 DEF Granted
  <1>4. CASE ~o.ok /\ mem' = o.mem
    BY <1>1, <1>3, <1>4, RequestStep
  <1>5. ASSUME NEW d \in Alloc(o.mem, size, "link", FALSE), mem' = d.mem
        PROVE  ClientInv'
    <2>1. Granted(o.mem, size, "link", d)
      BY <1>1, <1>3, AllocFacts
    <2>2. Good(d.mem) /\ o.mem.chunks \subseteq d.mem.chunks /\ o.mem.heap \subseteq d.mem.heap
      BY <2>1 DEF Granted
    <2> QED
      BY <1>1, <1>3, <1>5, <2>2, RequestStep
  <1> QED
    BY <1>2, <1>4, <1>5

\* The first link of the chain is no longer in it.
LEMMA TakenFacts ==
  ASSUME NEW m, NEW l, NEW h, NEW f, NEW c, LinksGood(m, l, h, f, c), c # <<>>
  PROVE  /\ LinksGood(m, l, h \union {Head(c)}, f, Tail(c))
         /\ Head(c) \in DOMAIN l \ (LinksOf(f) \union ToSet(Tail(c)) \union h)
  <1>1. /\ c \in Seq(Chunks) /\ Once(c) /\ Len(c) \in Nat /\ Len(f) \in Nat
        /\ IsFiniteSet(h)
    BY FS_Subset DEF LinksGood
  <1>2. /\ Head(c) \in Chunks /\ Tail(c) \in Seq(Chunks) /\ Len(Tail(c)) + 1 = Len(c)
        /\ Once(Tail(c)) /\ Head(c) \in ToSet(c) /\ ToSet(Tail(c)) = ToSet(c) \ {Head(c)}
    BY <1>1, TailFacts
  <1>3. Head(c) \in DOMAIN l /\ Head(c) \notin h /\ Head(c) \notin LinksOf(f)
    BY <1>2 DEF LinksGood
  <1>4. Cardinality(h \union {Head(c)}) = Cardinality(h) + 1 /\ Cardinality(h) \in Nat
    BY <1>1, <1>3, Counted
  <1>5. Cardinality(h \union {Head(c)}) + Len(f) + Len(Tail(c)) = Cardinality(DOMAIN l)
    <2>1. Cardinality(h) + Len(f) + Len(c) = Cardinality(DOMAIN l)
      BY DEF LinksGood
    <2>2. Len(Tail(c)) \in Nat
      BY <1>2
    <2> HIDE DEF LinksGood
    <2> QED
      BY <1>1, <1>2, <1>4, <2>1, <2>2
  <1> QED
    BY <1>1, <1>2, <1>3, <1>5 DEF LinksGood

\* A new link, without a buffer.
WithLink(l, c) == [x \in DOMAIN l \union {c} |-> IF x = c THEN NoBuf ELSE l[x]]

\* A link from the pool is nobody's yet, and becomes its taker's.
LEMMA NewLinkFacts ==
  ASSUME NEW m, Good(m), NEW mm, Good(mm), m.chunks \subseteq mm.chunks,
         NEW l, NEW h, NEW f, NEW c, LinksGood(m, l, h, f, c),
         NEW x \in mm.chunks, x \notin m.chunks, x.kind = "link"
  PROVE  /\ LinksGood(mm, WithLink(l, x), h \union {x}, f, c)
         /\ x \in DOMAIN WithLink(l, x) \ (LinksOf(f) \union ToSet(c) \union h)
  <1> DEFINE k == WithLink(l, x)
  <1>1. x \notin DOMAIN l /\ IsFiniteSet(DOMAIN l) /\ IsFiniteSet(h) /\ NoBuf \in Chunks
    BY FS_Subset DEF LinksGood, NoBuf, Chunks
  <1>2. /\ DOMAIN k = DOMAIN l \union {x} /\ k \in [DOMAIN k -> Chunks]
        /\ k[x] = NoBuf /\ \A y \in DOMAIN l : k[y] = l[y]
    <2>1. l \in [DOMAIN l -> Chunks]
      BY DEF LinksGood
    <2> QED
      BY <1>1, <2>1 DEF WithLink
  <1> HIDE DEF k
  <1>3. x \notin h /\ x \notin LinksOf(f) /\ x \notin ToSet(c)
    BY <1>1 DEF LinksGood
  <1>4. /\ Cardinality(h \union {x}) = Cardinality(h) + 1 /\ Cardinality(h) \in Nat
        /\ IsFiniteSet(DOMAIN k) /\ Cardinality(DOMAIN k) = Cardinality(DOMAIN l) + 1
        /\ Cardinality(DOMAIN l) \in Nat
    BY <1>1, <1>2, <1>3, Counted
  <1>5. Cardinality(h \union {x}) + Len(f) + Len(c) = Cardinality(DOMAIN k)
    <2>1. Cardinality(h) + Len(f) + Len(c) = Cardinality(DOMAIN l)
      BY DEF LinksGood
    <2>2. Len(c) \in Nat /\ Len(f) \in Nat
      BY DEF LinksGood
    <2> HIDE DEF LinksGood
    <2> QED
      BY <1>4, <2>1, <2>2
  <1>6. /\ \A y \in DOMAIN k :
             /\ y \in mm.chunks /\ y.kind = "link"
             /\ k[y] # NoBuf => k[y] \in mm.chunks /\ k[y].kind = "link"
        /\ \A y, z \in DOMAIN k : y # z /\ k[y] = k[z] => k[y] = NoBuf
    BY <1>1, <1>2 DEF LinksGood
  <1>7. h \union {x} \in SUBSET DOMAIN k /\ (h \union {x}) \union LinksOf(f) \union ToSet(c) = DOMAIN k
    BY <1>2 DEF LinksGood
  <1>8. LinksGood(mm, k, h \union {x}, f, c)
    BY <1>2, <1>3, <1>4, <1>5, <1>6, <1>7 DEF LinksGood
  <1> QED
    BY <1>2, <1>3, <1>8 DEF k

\* hcore_alloc_chain: the link is in nobody's hands before.
GotLink(o) ==
  /\ Good(o.mem) /\ mem.chunks \subseteq o.mem.chunks /\ mem.heap \subseteq o.mem.heap
  /\ ~o.ok => o.mem = mem /\ o.links = links /\ o.chain = chain
  /\ o.ok => /\ LinksGood(o.mem, o.links, held \union {o.link}, freeing, o.chain)
             /\ o.link \in DOMAIN o.links
             /\ o.link \notin held /\ o.link \notin LinksOf(freeing)
             /\ o.link \notin ToSet(o.chain)

\* hcore_alloc_chain returns a link that nobody else has, from the chain or new.
LEMMA ChainFacts ==
  ASSUME ClientInv, Roomy, NEW o \in ChainOutcomes
  PROVE  GotLink(o)
  <1>1. /\ LinksGood(mem, links, held, freeing, chain) /\ Good(mem) /\ ~Customed
        /\ LinkSize \in Nat \ {0} /\ LinkSize <= PoolMax /\ "link" \in Kinds
    BY LinksGoodIs, ClientAssumption DEF ClientInv, IInv, Roomy, Kinds
  <1>2. CASE chain # <<>>
    <2>1. o = [mem |-> mem, ok |-> TRUE, link |-> Head(chain), links |-> links, chain |-> Tail(chain)]
      BY <1>2 DEF ChainOutcomes
    <2>2. /\ o.mem = mem /\ o.ok /\ o.link = Head(chain) /\ o.links = links
          /\ o.chain = Tail(chain)
      BY <2>1
    <2>3. /\ LinksGood(mem, links, held \union {Head(chain)}, freeing, Tail(chain))
          /\ Head(chain) \in DOMAIN links
                \ (LinksOf(freeing) \union ToSet(Tail(chain)) \union held)
      BY <1>1, <1>2, TakenFacts
    <2> QED
      BY <1>1, <2>2, <2>3 DEF GotLink
  <1>3. CASE ~(chain # <<>>)
    <2>1. PICK p \in Alloc(mem, LinkSize, "link", TRUE) :
            o = [mem |-> p.mem, ok |-> p.ok, link |-> p.chunk, chain |-> chain,
                 links |-> IF p.ok THEN [c \in DOMAIN links \union {p.chunk} |->
                                           IF c = p.chunk THEN NoBuf ELSE links[c]] ELSE links]
      BY <1>3 DEF ChainOutcomes
    <2>2. /\ o.mem = p.mem /\ o.ok = p.ok /\ o.link = p.chunk /\ o.chain = chain
          /\ o.links = IF p.ok THEN WithLink(links, p.chunk) ELSE links
      BY <2>1 DEF WithLink
    <2>3. /\ Good(p.mem) /\ mem.chunks \subseteq p.mem.chunks /\ mem.heap \subseteq p.mem.heap
          /\ ~p.ok => p.mem = mem
          /\ p.ok => p.chunk \in p.mem.chunks /\ p.chunk \notin mem.chunks /\ p.chunk.kind = "link"
      <3>1. Granted(mem, LinkSize, "link", p)
        BY <1>1, AllocFacts
      <3> QED
        BY <1>1, <3>1 DEF Granted
    <2>4. CASE ~p.ok
      BY <2>2, <2>3, <2>4 DEF GotLink
    <2>5. CASE p.ok
      <3>1. /\ LinksGood(p.mem, WithLink(links, p.chunk), held \union {p.chunk}, freeing, chain)
            /\ p.chunk \in DOMAIN WithLink(links, p.chunk)
                  \ (LinksOf(freeing) \union ToSet(chain) \union held)
        BY <1>1, <2>3, <2>5, NewLinkFacts
      <3> QED
        BY <2>2, <2>3, <2>5, <3>1 DEF GotLink
    <2> QED
      BY <2>4, <2>5
  <1> QED
    BY <1>2, <1>3

\* hcore_alloc_chain: the link it returns was nobody's.
LEMMA AllocChainStep ==
  ASSUME ClientInv, Roomy, AllocChain
  PROVE  ClientInv'
  <1>1. OnlyLinks /\ freeing' = freeing /\ LinksGood(mem, links, held, freeing, chain)
    BY LinksGoodIs DEF AllocChain, ClientInv
  <1>2. PICK o \in ChainOutcomes :
          /\ mem' = o.mem /\ links' = o.links /\ chain' = o.chain
          /\ held' = IF o.ok THEN held \union {o.link} ELSE held
    BY DEF AllocChain
  <1>3. GotLink(o)
    BY ChainFacts
  <1>4. LinksGood(mem', links', held', freeing', chain')
    BY <1>1, <1>2, <1>3 DEF GotLink
  <1>5. Good(mem') /\ mem.chunks \subseteq mem'.chunks /\ mem.heap \subseteq mem'.heap
    BY <1>2, <1>3 DEF GotLink
  <1> QED
    BY <1>1, <1>4, <1>5, LinksStep

\* A link gets a buffer that nobody had.
LEMMA NewBufferFacts ==
  ASSUME NEW m, NEW mm, Good(mm), m.chunks \subseteq mm.chunks,
         NEW l, NEW h, NEW f, NEW c, LinksGood(m, l, h, f, c),
         NEW x \in DOMAIN l, NEW b \in mm.chunks, b \notin m.chunks, b.kind = "link"
  PROVE  LinksGood(mm, [l EXCEPT ![x] = b], h, f, c)
  <1> DEFINE k == [l EXCEPT ![x] = b]
  <1>1. b \in Chunks /\ b # NoBuf /\ l \in [DOMAIN l -> Chunks]
    BY NotNoChunk DEF LinksGood, NoBuf, Chunks
  <1>2. /\ DOMAIN k = DOMAIN l /\ k \in [DOMAIN k -> Chunks]
        /\ k[x] = b /\ \A y \in DOMAIN l \ {x} : k[y] = l[y]
    BY <1>1
  <1> HIDE DEF k
  <1>3. \A y \in DOMAIN k :
          /\ y \in mm.chunks /\ y.kind = "link"
          /\ k[y] # NoBuf => k[y] \in mm.chunks /\ k[y].kind = "link"
    BY <1>2 DEF LinksGood
  <1>4. \A y \in DOMAIN l : l[y] # b
    BY <1>1 DEF LinksGood
  <1>5. \A y, z \in DOMAIN k : y # z /\ k[y] = k[z] => k[y] = NoBuf
    BY <1>2, <1>4 DEF LinksGood
  <1>6. LinksGood(mm, k, h, f, c)
    BY <1>2, <1>3, <1>5 DEF LinksGood
  <1> QED
    BY <1>6 DEF k

\* A link that is forgotten is in nobody's hands.
LEMMA LostLinkFacts ==
  ASSUME NEW m, NEW l, NEW h, NEW f, NEW c, NEW x \in DOMAIN l,
         LinksGood(m, l, h \union {x}, f, c),
         x \notin h, x \notin LinksOf(f), x \notin ToSet(c)
  PROVE  LinksGood(m, [y \in DOMAIN l \ {x} |-> l[y]], h, f, c)
  <1> DEFINE k == [y \in DOMAIN l \ {x} |-> l[y]]
  <1>1. /\ DOMAIN k = DOMAIN l \ {x} /\ k \in [DOMAIN k -> Chunks]
        /\ \A y \in DOMAIN k : k[y] = l[y]
    <2>1. l \in [DOMAIN l -> Chunks]
      BY DEF LinksGood
    <2> QED
      BY <2>1
  <1> HIDE DEF k
  <1>2. IsFiniteSet(DOMAIN l) /\ IsFiniteSet(h)
    <2>1. IsFiniteSet(DOMAIN l) /\ h \subseteq DOMAIN l
      BY DEF LinksGood
    <2> QED
      BY <2>1, FS_Subset
  <1>3. /\ Cardinality(h \union {x}) = Cardinality(h) + 1 /\ Cardinality(h) \in Nat
        /\ IsFiniteSet(DOMAIN k) /\ Cardinality(DOMAIN k) + 1 = Cardinality(DOMAIN l)
        /\ Cardinality(DOMAIN k) \in Nat
    BY <1>1, <1>2, Counted
  <1>4. Cardinality(h) + Len(f) + Len(c) = Cardinality(DOMAIN k)
    <2>1. Cardinality(h \union {x}) + Len(f) + Len(c) = Cardinality(DOMAIN l)
      BY DEF LinksGood
    <2>2. Len(c) \in Nat /\ Len(f) \in Nat
      BY DEF LinksGood
    <2> HIDE DEF LinksGood
    <2> QED
      BY <1>3, <2>1, <2>2
  <1>5. h \in SUBSET DOMAIN k /\ h \union LinksOf(f) \union ToSet(c) = DOMAIN k
    BY <1>1 DEF LinksGood
  <1>6. LinksGood(m, k, h, f, c)
    BY <1>1, <1>3, <1>4, <1>5 DEF LinksGood
  <1> QED
    BY <1>6 DEF k

\* hcore_alloc_chain_with_buf: a buffer that was left in the link, a new one,
\* or no link at all.
LEMMA AllocChainWithBufStep ==
  ASSUME ClientInv, Roomy, AllocChainWithBuf
  PROVE  ClientInv'
  <1>1. /\ OnlyLinks /\ freeing' = freeing /\ LinksGood(mem, links, held, freeing, chain)
        /\ ~Customed /\ BufSize \in Nat \ {0} /\ BufSize <= PoolMax /\ "link" \in Kinds
    BY LinksGoodIs, ClientAssumption DEF AllocChainWithBuf, ClientInv, Roomy, Kinds
  <1>2. PICK o \in ChainOutcomes :
          /\ chain' = o.chain
          /\ \/ ~o.ok /\ mem' = o.mem /\ UNCHANGED <<links, held>>
             \/ /\ o.ok /\ o.links[o.link] # NoBuf
                /\ mem' = o.mem /\ links' = o.links /\ held' = held \union {o.link}
             \/ /\ o.ok /\ o.links[o.link] = NoBuf
                /\ \E b \in Alloc(o.mem, BufSize, "link", TRUE) :
                     /\ mem' = b.mem
                     /\ links' = IF b.ok THEN [o.links EXCEPT ![o.link] = b.chunk]
                                 ELSE [c \in DOMAIN o.links \ {o.link} |-> o.links[c]]
                     /\ held' = IF b.ok THEN held \union {o.link} ELSE held
    BY DEF AllocChainWithBuf
  <1>3. GotLink(o)
    BY ChainFacts
  <1>4. CASE ~o.ok /\ mem' = o.mem /\ UNCHANGED <<links, held>>
    <2>1. LinksGood(mem', links', held', freeing', chain')
      BY <1>1, <1>2, <1>3, <1>4 DEF GotLink
    <2>2. Good(mem') /\ mem.chunks \subseteq mem'.chunks /\ mem.heap \subseteq mem'.heap
      BY <1>3, <1>4 DEF GotLink
    <2> QED
      BY <1>1, <2>1, <2>2, LinksStep
  <1>5. CASE o.ok /\ mem' = o.mem /\ links' = o.links /\ held' = held \union {o.link}
    <2>1. LinksGood(mem', links', held', freeing', chain')
      BY <1>1, <1>2, <1>3, <1>5 DEF GotLink
    <2>2. Good(mem') /\ mem.chunks \subseteq mem'.chunks /\ mem.heap \subseteq mem'.heap
      BY <1>3, <1>5 DEF GotLink
    <2> QED
      BY <1>1, <2>1, <2>2, LinksStep
  <1>6. ASSUME o.ok, NEW b \in Alloc(o.mem, BufSize, "link", TRUE),
               mem' = b.mem,
               links' = IF b.ok THEN [o.links EXCEPT ![o.link] = b.chunk]
                        ELSE [c \in DOMAIN o.links \ {o.link} |-> o.links[c]],
               held' = IF b.ok THEN held \union {o.link} ELSE held
        PROVE  ClientInv'
    <2>1. /\ Good(o.mem) /\ mem.chunks \subseteq o.mem.chunks /\ mem.heap \subseteq o.mem.heap
          /\ LinksGood(o.mem, o.links, held \union {o.link}, freeing, o.chain)
          /\ o.link \in DOMAIN o.links
          /\ o.link \notin held /\ o.link \notin LinksOf(freeing)
          /\ o.link \notin ToSet(o.chain)
      BY <1>3, <1>6 DEF GotLink
    <2>2. /\ Good(b.mem) /\ o.mem.chunks \subseteq b.mem.chunks
          /\ o.mem.heap \subseteq b.mem.heap /\ (~b.ok => b.mem = o.mem)
          /\ b.ok => b.chunk \in b.mem.chunks /\ b.chunk \notin o.mem.chunks
                     /\ b.chunk.kind = "link"
      <3>1. Granted(o.mem, BufSize, "link", b)
        BY <1>1, <1>6, <2>1, AllocFacts
      <3> QED
        BY <1>1, <3>1 DEF Granted
    <2>3. LinksGood(mem', links', held', freeing', chain')
      <3>1. CASE b.ok
        <4>1. LinksGood(b.mem, [o.links EXCEPT ![o.link] = b.chunk],
                        held \union {o.link}, freeing, o.chain)
          BY <2>1, <2>2, <3>1, NewBufferFacts
        <4> QED
          BY <1>1, <1>2, <1>6, <3>1, <4>1
      <3>2. CASE ~b.ok
        <4>1. LinksGood(o.mem, [c \in DOMAIN o.links \ {o.link} |-> o.links[c]],
                        held, freeing, o.chain)
          BY <2>1, LostLinkFacts
        <4> QED
          BY <1>1, <1>2, <1>6, <2>2, <3>2, <4>1
      <3> QED
        BY <3>1, <3>2
    <2> QED
      BY <1>1, <1>6, <2>1, <2>2, <2>3, LinksStep
  <1> QED
    BY <1>2, <1>4, <1>5, <1>6
-----------------------------------------------------------------------------
(* The invariant.                                                           *)

\* A pool that was just created has no arrays and no links.
LEMMA ClientInitGood == ClientInit => ClientInv
  <1> SUFFICES ASSUME ClientInit PROVE ClientInv
    OBVIOUS
  <1>1. IInv
    BY InitGood DEF ClientInit
  <1>2. ArraysOwn
    <2>1. NoArray \in Arrays
      BY DEF NoArray, Arrays, Chunks
    <2>2. arrays \in [ArrayIds -> Arrays] /\ \A a \in ArrayIds : ~InUse(a)
      BY <2>1 DEF ClientInit, InUse
    <2> QED
      BY <2>2 DEF ArraysOwn
  <1>3. LinksGood(mem, links, held, freeing, chain)
    <2>1. /\ DOMAIN links = {} /\ links \in [{} -> Chunks]
          /\ held = {} /\ freeing = <<>> /\ chain = <<>>
      BY DEF ClientInit
    <2>2. /\ freeing \in Seq(Frees) /\ chain \in Seq(Chunks)
          /\ DOMAIN freeing = {} /\ DOMAIN chain = {} /\ Len(freeing) = 0 /\ Len(chain) = 0
      BY <2>1
    <2>3. LinksOf(freeing) = {} /\ ToSet(chain) = {}
      BY <2>2 DEF LinksOf, ToSet
    <2>4. IsFiniteSet(DOMAIN links) /\ Cardinality(DOMAIN links) = 0 /\ Cardinality(held) = 0
      BY <2>1, FS_EmptySet
    <2>5. Cardinality(held) + Len(freeing) + Len(chain) = Cardinality(DOMAIN links)
      BY <2>2, <2>4
    <2> QED
      BY <2>1, <2>2, <2>3, <2>4, <2>5 DEF LinksGood, Once, Apiece
  <1> QED
    BY <1>1, <1>2, <1>3, LinksGoodIs DEF ClientInv

\* Every step of the arrays, the links and the other clients preserves it.
LEMMA ClientNextGood == Roomy /\ ClientInv /\ [ClientNext]_allVars => ClientInv'
  <1> SUFFICES ASSUME Roomy, ClientInv, [ClientNext]_allVars PROVE ClientInv'
    OBVIOUS
  <1>1. CASE OtherClients
    BY <1>1, OthersStep
  <1>2. ASSUME NEW a \in ArrayIds, NEW n \in Counts, ArrayCreate(a, n)
        PROVE  ClientInv'
    BY <1>2, ArrayCreateStep
  <1>3. ASSUME NEW a \in ArrayIds, ArrayPush(a) \/ \E n \in Counts : ArrayPushN(a, n)
        PROVE  ClientInv'
    BY <1>3, PushStep
  <1>4. ASSUME NEW a \in ArrayIds, ArrayDestroy(a)
        PROVE  ClientInv'
    BY <1>4, ArrayDestroyStep
  <1>5. CASE AllocChain
    BY <1>5, AllocChainStep
  <1>6. CASE AllocChainWithBuf
    BY <1>6, AllocChainWithBufStep
  <1>7. ASSUME NEW c \in held, NEW hold \in BOOLEAN, FreeChain(c, hold)
        PROVE  ClientInv'
    BY <1>7, FreeChainStep
  <1>8. ASSUME NEW c \in held, NEW hold \in BOOLEAN, FreeBegins(c, hold)
        PROVE  ClientInv'
    BY <1>8, FreeBeginsStep
  <1>9. CASE FreeReturns
    BY <1>9, FreeReturnsStep
  <1>10. ASSUME NEW size \in Sizes, AllocBuf(size)
         PROVE  ClientInv'
    BY <1>10, AllocBufStep
  <1>11. CASE UNCHANGED allVars
    <2>1. IInv'
      BY <1>11, NextGood DEF allVars, ClientInv
    <2>2. UNCHANGED <<mem, arrays, links, held, freeing, chain>>
      BY <1>11 DEF allVars, vars, clientVars
    <2>3. ArraysOwn' /\ LinkChunks' /\ LinkPlaces'
      BY <2>2, ArraysKept, LinksKept DEF ClientInv
    <2> QED
      BY <2>1, <2>3 DEF ClientInv
  <1> QED
    BY <1>1, <1>2, <1>3, <1>4, <1>5, <1>6, <1>7, <1>8, <1>9, <1>10, <1>11 DEF ClientNext

\* The invariant holds in every state of the arrays and links.
LEMMA ClientInvariance ==
  ASSUME Roomy
  PROVE  ClientSpec => []ClientInv
  <1>1. ClientInv /\ [ClientNext]_allVars => ClientInv'
    BY ClientNextGood
  <1> QED
    BY <1>1, ClientInitGood, PTL DEF ClientSpec

\* The pool keeps its type, although arrays write d.last of the first block
\* themselves.
THEOREM ClientsKeepTypes ==
  ASSUME Roomy
  PROVE  ClientSpec => []TypeOK
  <1>1. ClientInv => TypeOK
    BY DEF ClientInv, IInv
  <1> QED
    BY <1>1, ClientInvariance, PTL

\* No two chunks share a byte while arrays of hcore_array.c grow in place, move
\* and give back what lies at d.last, and while links come and go.
THEOREM ClientsDisjoint ==
  ASSUME Roomy
  PROVE  ClientSpec => []ChunksDisjoint
  <1>1. ClientInv => ChunksDisjoint
    BY DEF ClientInv, IInv, Good, Apart, ChunksDisjoint
  <1> QED
    BY <1>1, ClientInvariance, PTL

\* An array that grows in place stays in its block: no chunk lies outside its
\* block and d.last never passes d.end.
THEOREM ClientsContained ==
  ASSUME Roomy, BlockSize % Alignment = 0
  PROVE  ClientSpec => []ChunksInBlock
  <1>1. ClientInv => ChunksInBlock
    BY DEF ClientInv, IInv, Good, InBounds, ChunksInBlock
  <1> QED
    BY <1>1, ClientInvariance, PTL

\* An array of hcore_array.c owns its structure and its elements, and there is
\* room for every element that was handed out.
THEOREM ArraysOwnMemory ==
  ASSUME Roomy
  PROVE  ClientSpec => []ArraysSound
  <1>1. ClientInv => ArraysSound
    BY DEF ClientInv, ArraysOwn, ArrayGood, Shared, ArraysSound
  <1> QED
    BY <1>1, ClientInvariance, PTL

\* hcore_alloc_chain never hands out a link twice, whatever the free functions
\* of links do, and no two links share a buffer.
THEOREM LinksOwnedOnce ==
  ASSUME Roomy
  PROVE  ClientSpec => []LinksOwned
  <1>1. ClientInv => LinksOwned
    BY DEF ClientInv, LinkChunks, LinkPlaces, Freeing, LinksOwned
  <1> QED
    BY <1>1, ClientInvariance, PTL
=============================================================================

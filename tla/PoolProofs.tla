---------------------------- MODULE PoolProofs ----------------------------
(***************************************************************************)
(* What is proved of Pool for every size of block, every set of requested  *)
(* sizes and every number of blocks, objects and handlers: the state is    *)
(* well formed, no two chunks share a byte, no chunk leaves its block when *)
(* the size of a block is a multiple of the alignment, and the destruction *)
(* of a pool frees everything once and runs the handlers from the last     *)
(* registered to the first.                                                *)
(*                                                                         *)
(* The first invariant is the predicate Good of the memory alone.          *)
(* Requests are sets of outcomes, so the argument goes through them once:  *)
(* a chunk that starts at or after d.last keeps a good memory good         *)
(* (CutGood), which every kind of request does (SmallGood, EnlistGood,     *)
(* AllocGood).  The other two are about the heap (HeapInv) and the list of *)
(* handlers (OrderInv).                                                    *)
(***************************************************************************)
EXTENDS Pool, TLAPS, SequenceTheorems, FiniteSetTheorems,
        WellFoundedInduction

\* The sizes that hcore_palloc_small is asked for.
SmallSizes == {s \in Nat \ {0} : s <= PoolMax \/ s = LargeSize}

InBounds(m) ==
  /\ m.current <= m.n
  /\ \A b \in 1 .. m.n : DataStart(b) <= m.last[b]
  /\ (BlockSize % Alignment = 0) => \A b \in 1 .. m.n : m.last[b] <= BlockSize
  /\ \A c \in m.chunks : /\ c.block <= m.n /\ c.size > 0
                         /\ DataStart(c.block) <= c.off
                         /\ c.off + c.size <= m.last[c.block]

Apart(m) == \A c, d \in m.chunks : c # d => Disjoint(c, d)

Good(m) == m \in Memory /\ InBounds(m) /\ Apart(m)

IInv == TypeOK /\ Good(mem)
-----------------------------------------------------------------------------
(* Arithmetic of the header, and the least and greatest element of a set.   *)

\* Rounding up to the alignment.
LEMMA Aligned ==
  ASSUME NEW a \in Nat
  PROVE  /\ AlignUp(a) \in Nat
         /\ a <= AlignUp(a)
         /\ a % Alignment = 0 => AlignUp(a) = a
         /\ \A s \in Nat : s % Alignment = 0 /\ a <= s => AlignUp(a) <= s
  BY DEF AlignUp, Alignment

\* The data of a block start within it, and leave room for one small request.
LEMMA Starts ==
  ASSUME NEW b \in Nat \ {0}
  PROVE  /\ DataStart(b) \in Nat
         /\ DataStart(b) <= BlockSize
         /\ b > 1 => \A s \in SmallSizes : DataStart(b) + s <= BlockSize
  <1>1. AlignUp(DSize) = DSize
    BY Aligned, SizeAssumption
  <1> QED
    BY <1>1, SizeAssumption DEF DataStart, SmallSizes, PoolMax

\* Min returns the least element of a set of numbers.
LEMMA LeastElement ==
  ASSUME NEW S \in SUBSET Nat, S # {}
  PROVE  Min(S) \in S /\ \A y \in S : Min(S) <= y
  <1> DEFINE below == {0 .. x : x \in S}
  <1>1. below \subseteq FiniteSubsetsOf(Nat) /\ below # {}
    <2>1. \A x \in S : IsFiniteSet(0 .. x) /\ 0 .. x \subseteq Nat
      BY FS_Interval
    <2> QED
      BY <2>1 DEF FiniteSubsetsOf
  <1>2. PICK u \in below : \A v \in below : <<v, u>> \notin StrictSubsetOrdering(Nat)
    <2> HIDE DEF below
    <2> QED
      BY <1>1, WFMin, FS_StrictSubsetOrderingWellFounded
  <1>3. PICK x \in S : u = 0 .. x
    BY <1>2
  <1>4. ASSUME NEW y \in S
        PROVE  x <= y
    <2>1. <<0 .. y, 0 .. x>> \notin StrictSubsetOrdering(Nat)
      BY <1>2, <1>3
    <2>2. CASE y < x
      <3>1. 0 .. y \subseteq 0 .. x /\ x \in 0 .. x /\ x \notin 0 .. y
        BY <2>2
      <3> QED
        BY <2>1, <3>1 DEF StrictSubsetOrdering
    <2> QED
      BY <2>2
  <1> QED
    BY <1>4 DEF Min

\* Max returns the greatest element of a bounded set of numbers.
LEMMA GreatestElement ==
  ASSUME NEW k \in Nat, NEW S \in SUBSET (0 .. k), S # {}
  PROVE  Max(S) \in S /\ \A y \in S : y <= Max(S)
  <1> DEFINE T == {k - y : y \in S}
  <1>1. T \in SUBSET Nat /\ T # {}
    <2>1. ASSUME NEW y \in S
          PROVE  k - y \in Nat
      <3>1. y \in Int /\ 0 <= y /\ y <= k
        OBVIOUS
      <3> QED
        BY <3>1
    <2>2. T \subseteq Nat
      BY <2>1, Zenon
    <2>3. T # {}
      <3>1. PICK y \in S : TRUE
        OBVIOUS
      <3>2. k - y \in T
        BY <3>1, Zenon
      <3> QED
        BY <3>2, Zenon
    <2> QED
      BY <2>2, <2>3, Zenon
  <1>2. Min(T) \in T /\ \A t \in T : Min(T) <= t
    BY <1>1, LeastElement
  <1>3. PICK x \in S : Min(T) = k - x
    BY <1>2
  <1>4. ASSUME NEW y \in S
        PROVE  y <= x
    <2>1. k - y \in T
      OBVIOUS
    <2>2. Min(T) <= k - y
      BY <1>2, <2>1
    <2> QED
      BY <1>3, <2>2
  <1> QED
    BY <1>4 DEF Max
-----------------------------------------------------------------------------
(* The memory after one cut, and after a block is appended.                 *)

\* A chunk cut at or after d.last keeps the memory well formed.
LEMMA CutGood ==
  ASSUME NEW m, Good(m), NEW b \in 1 .. m.n, NEW off \in Nat,
         NEW size \in Nat \ {0},
         NEW kind \in Kinds, NEW filled \in BOOLEAN,
         m.last[b] <= off,
         (BlockSize % Alignment = 0) => off + size <= BlockSize
  PROVE  Good(Cut(m, [block |-> b, off |-> off, size |-> size, kind |-> kind], filled).mem)
  <1> DEFINE c == [block |-> b, off |-> off, size |-> size, kind |-> kind]
             next == Cut(m, c, filled).mem
  <1>1. m \in Memory /\ b \in Blocks /\ c \in Areas
    BY BoundAssumption, SMTT(60) DEF Good, Memory, Blocks, Areas
  <1>2. /\ next.n = m.n /\ next.current = m.current
        /\ next.last = [m.last EXCEPT ![b] = off + size]
        /\ next.chunks = m.chunks \union {c}
    BY <1>1 DEF Cut, Memory
  <1>3. next \in Memory
    <2> DEFINE over == m.broken \/ (filled /\ OverHeader(c))
    <2>1. over \in BOOLEAN
      OBVIOUS
    <2>2. next = [m EXCEPT !.last = [m.last EXCEPT ![b] = off + size],
                           !.chunks = m.chunks \union {c}, !.broken = over]
      BY DEF Cut
    <2>3. [m.last EXCEPT ![b] = off + size] \in [Blocks -> Nat]
      BY <1>1 DEF Memory
    <2>4. m.chunks \union {c} \in SUBSET Areas
      BY <1>1 DEF Memory
    <2> HIDE DEF over, c, next
    <2> QED
      BY <1>1, <2>1, <2>2, <2>3, <2>4 DEF Memory
  <1>4. DataStart(b) <= m.last[b]
    BY DEF Good, InBounds
  <1>5. /\ \A x \in Blocks : next.last[x] = IF x = b THEN off + size ELSE m.last[x]
        /\ next.last \in [Blocks -> Nat] /\ m.last \in [Blocks -> Nat]
        /\ m.n \in Blocks /\ Blocks \subseteq Nat \ {0} /\ 1 .. m.n \subseteq Blocks
    <2>1. /\ m.n \in Blocks /\ Blocks \subseteq Nat \ {0} /\ 1 .. m.n \subseteq Blocks
          /\ m.last \in [Blocks -> Nat]
      BY <1>1, BoundAssumption, SMTT(60) DEF Memory, Blocks
    <2> HIDE DEF next
    <2> QED
      BY <2>1, <1>1, <1>2
  <1>6. \A x \in 1 .. m.n : DataStart(x) \in Nat
    BY <1>5, Starts
  <1> HIDE DEF next
  <1>7. \A d \in m.chunks : d \in Areas /\ d.block \in 1 .. m.n /\ d.off + d.size <= m.last[d.block]
    BY <1>1, <1>5 DEF Good, InBounds, Memory, Areas, Blocks
  <1>8. InBounds(next)
    <2>1. \A x \in 1 .. next.n : DataStart(x) <= next.last[x]
      BY <1>2, <1>4, <1>5, <1>6 DEF Good, InBounds
    <2>2. ASSUME NEW d \in next.chunks
          PROVE  /\ d.block <= next.n /\ d.size > 0
                 /\ DataStart(d.block) <= d.off
                 /\ d.off + d.size <= next.last[d.block]
      <3>1. CASE d = c
        BY <3>1, <1>2, <1>4, <1>5, <1>6
      <3>2. CASE d \in m.chunks
        <4>1. next.last[d.block] >= m.last[d.block]
          BY <1>5, <1>7, <3>2
        <4> QED
          BY <3>2, <4>1, <1>2, <1>5, <1>7 DEF Good, InBounds, Areas
      <3> QED
        BY <3>1, <3>2, <1>2
    <2>3. next.current <= next.n
      BY <1>2 DEF Good, InBounds
    <2>4. (BlockSize % Alignment = 0) => \A x \in 1 .. next.n : next.last[x] <= BlockSize
      BY <1>2, <1>5 DEF Good, InBounds
    <2> QED
      BY <2>1, <2>2, <2>3, <2>4 DEF InBounds
  <1>9. Apart(next)
    <2>1. \A d \in m.chunks : Disjoint(c, d) /\ Disjoint(d, c)
      BY <1>1, <1>5, <1>7 DEF Disjoint, Areas
    <2> QED
      BY <2>1, <1>2 DEF Good, Apart
  <1> QED
    BY <1>3, <1>8, <1>9 DEF Good, next

\* So does a new block with its first chunk.
LEMMA GrownGood ==
  ASSUME NEW m, Good(m), m.n < MaxBlocks, NEW size \in SmallSizes,
         NEW kind \in Kinds, NEW filled \in BOOLEAN
  PROVE  Good(Cut(Grown(m), [block |-> m.n + 1, off |-> DataStart(m.n + 1),
                             size |-> size, kind |-> kind], filled).mem)
  <1> DEFINE b == m.n + 1
             c == [block |-> b, off |-> DataStart(b), size |-> size, kind |-> kind]
             next == Cut(Grown(m), c, filled).mem
  <1>1. /\ m \in Memory /\ m.n \in Blocks /\ b \in Blocks /\ Blocks \subseteq Nat \ {0}
        /\ 1 .. m.n \subseteq Blocks /\ m.current \in 1 .. m.n /\ m.n \in Nat \ {0}
    BY BoundAssumption, SMTT(60) DEF Good, InBounds, Memory, Blocks
  <1>2. NextCurrent(m) \in 1 .. m.n
    <2>1. CASE Full(m) = {}
      BY <2>1, <1>1 DEF NextCurrent
    <2>2. CASE Full(m) # {}
      <3>1. Full(m) \in SUBSET (0 .. m.n) /\ \A x \in Full(m) : x + 1 \in 1 .. m.n
        <4>1. m.n \in Nat /\ m.current \in Nat
          BY <1>1
        <4> QED
          BY <1>1, <4>1 DEF Full, Walked
      <3>2. Max(Full(m)) \in Full(m)
        BY <3>1, <2>2, <1>1, GreatestElement
      <3> QED
        BY <3>1, <3>2, <2>2 DEF NextCurrent
    <2> QED
      BY <2>1, <2>2
  <1>3. c \in Areas /\ size \in Nat /\ DataStart(b) + size <= BlockSize
    BY <1>1, Starts DEF Areas, SmallSizes, Blocks
  <1>4. /\ next.n = b /\ next.current = NextCurrent(m)
        /\ next.last = [m.last EXCEPT ![b] = DataStart(b) + size]
        /\ next.chunks = m.chunks \union {c}
    BY <1>1 DEF Cut, Grown, Memory
  <1>5. DataStart(b) \in Nat /\ DataStart(b) + size \in Nat /\ size \in Nat \ {0}
    BY <1>1, <1>3, Starts DEF SmallSizes
  <1> HIDE DEF next
  <1>6. next \in Memory
    <2> DEFINE over == m.broken \/ (filled /\ OverHeader(c))
               failed == [x \in Blocks |-> IF x \in Walked(m) THEN m.failed[x] + 1 ELSE m.failed[x]]
    <2>1. over \in BOOLEAN
      OBVIOUS
    <2>2. Grown(m) = [m EXCEPT !.n = b, !.current = NextCurrent(m), !.failed = failed,
                               !.heap = m.heap \union {BlockObj(b)}]
      BY DEF Grown
    <2>3. next = [Grown(m) EXCEPT !.last = [m.last EXCEPT ![b] = DataStart(b) + size],
                                  !.chunks = m.chunks \union {c}, !.broken = over]
      BY <1>1 DEF Cut, Grown, Memory, next
    <2>4. [m.last EXCEPT ![b] = DataStart(b) + size] \in [Blocks -> Nat]
      BY <1>1, <1>5 DEF Memory
    <2>5. m.chunks \union {c} \in SUBSET Areas
      BY <1>1, <1>3 DEF Memory
    <2>6. failed \in [Blocks -> Nat]
      BY <1>1 DEF Memory
    <2>7. m.heap \union {BlockObj(b)} \in SUBSET Allocated
      BY <1>1 DEF Memory, Allocated
    <2>8. NextCurrent(m) \in Blocks
      BY <1>1, <1>2
    <2> HIDE DEF over, failed, b, c
    <2> QED
      BY <1>1, <2>1, <2>2, <2>3, <2>4, <2>5, <2>6, <2>7, <2>8 DEF Memory
  <1>7. /\ \A x \in Blocks : next.last[x] = IF x = b THEN DataStart(b) + size ELSE m.last[x]
        /\ \A x \in Blocks : DataStart(x) \in Nat
        /\ \A x \in 1 .. b : x = b \/ x \in 1 .. m.n
    <2>1. \A x \in Blocks : x \in Nat \ {0}
      BY BoundAssumption DEF Blocks
    <2>2. m.last \in [Blocks -> Nat]
      BY <1>1 DEF Memory
    <2>3. \A x \in 1 .. b : x = b \/ x \in 1 .. m.n
      BY <1>1
    <2> HIDE DEF b
    <2> QED
      BY <1>1, <1>4, <2>1, <2>2, <2>3, Starts
  <1>8. \A d \in m.chunks : d \in Areas /\ d.block \in 1 .. m.n /\ d.block # b
    BY <1>1 DEF Good, InBounds, Memory, Areas, Blocks
  <1>9. InBounds(next)
    <2>1. \A x \in 1 .. b : DataStart(x) <= next.last[x]
      BY <1>1, <1>3, <1>7 DEF Good, InBounds
    <2>2. (BlockSize % Alignment = 0) => \A x \in 1 .. b : next.last[x] <= BlockSize
      BY <1>1, <1>3, <1>7 DEF Good, InBounds
    <2>3. \A d \in next.chunks : /\ d.block <= b /\ d.size > 0
                                  /\ DataStart(d.block) <= d.off
                                  /\ d.off + d.size <= next.last[d.block]
      <3>1. \A d \in m.chunks : d.block <= b /\ next.last[d.block] = m.last[d.block]
        BY <1>1, <1>7, <1>8
      <3>2. c.block = b /\ c.off = DataStart(b) /\ c.off + c.size = next.last[b]
        BY <1>1, <1>7
      <3>3. \A d \in m.chunks : /\ d.size > 0 /\ DataStart(d.block) <= d.off
                               /\ d.off + d.size <= m.last[d.block]
        BY DEF Good, InBounds
      <3>4. /\ c.block <= b /\ c.size > 0 /\ DataStart(c.block) <= c.off
            /\ c.off + c.size <= next.last[c.block]
        BY <1>1, <1>5, <3>2
      <3> HIDE DEF c
      <3> QED
        BY <1>4, <3>1, <3>3, <3>4
    <2>4. NextCurrent(m) <= b
      BY <1>1, <1>2
    <2> QED
      BY <2>1, <2>2, <2>3, <2>4, <1>4 DEF InBounds
  <1>10. Apart(next)
    BY <1>4, <1>8 DEF Good, Apart, Disjoint
  <1> QED
    BY <1>6, <1>9, <1>10 DEF Good, next
-----------------------------------------------------------------------------
(* Every outcome of a request is a good memory.                             *)

\* A request for a small area.
LEMMA SmallGood ==
  ASSUME NEW m, Good(m), NEW size \in SmallSizes, NEW align \in BOOLEAN,
         NEW kind \in Kinds, NEW filled \in BOOLEAN,
         NEW o \in Small(m, size, align, kind, filled)
  PROVE  Good(o.mem)
  <1> DEFINE fit == Fitting(m, size, align)
             b == Min(fit)
             off == CutAt(m, b, align)
             k == m.n + 1
  <1>1. CASE fit # {}
    <2>1. m.n \in Nat /\ m.current \in 1 .. m.n /\ 1 .. m.n \subseteq Blocks
          /\ m.last \in [Blocks -> Nat]
      BY BoundAssumption DEF Good, InBounds, Memory, Blocks
    <2>2. fit \in SUBSET Nat /\ fit \subseteq 1 .. m.n
      BY <2>1 DEF Fitting
    <2>3. b \in fit
      BY <2>2, <1>1, LeastElement
    <2>4. b \in 1 .. m.n /\ Fits(m, b, size, align) /\ m.last[b] \in Nat
      <3> HIDE DEF b
      <3> QED
        BY <2>1, <2>2, <2>3 DEF Fitting
    <2>5. off \in Nat /\ m.last[b] <= off
      <3> HIDE DEF b
      <3> QED
        BY <2>4, Aligned DEF CutAt
    <2>6. (BlockSize % Alignment = 0) => off + size <= BlockSize
      <3>1. SUFFICES ASSUME BlockSize % Alignment = 0
                     PROVE  off + size <= BlockSize
        OBVIOUS
      <3>2. m.last[b] <= BlockSize
        BY <2>4, <3>1 DEF Good, InBounds
      <3>3. off <= BlockSize
        <4> HIDE DEF b
        <4> QED
          BY <2>4, <3>1, <3>2, Aligned, SizeAssumption DEF CutAt
      <3> HIDE DEF b
      <3> QED
        BY <2>4, <2>5, <3>3, SizeAssumption DEF Fits, SmallSizes
    <2>7. size \in Nat \ {0}
      BY DEF SmallSizes
    <2>8. o = Cut(m, [block |-> b, off |-> off, size |-> size, kind |-> kind], filled)
      BY <1>1 DEF Small
    <2> HIDE DEF b, off, fit
    <2> QED
      BY <2>4, <2>5, <2>6, <2>7, <2>8, CutGood
  <1>2. CASE fit = {}
    <2>1. \/ o = Denied(m)
          \/ /\ m.n < MaxBlocks
             /\ o = Cut(Grown(m), [block |-> k, off |-> DataStart(k), size |-> size,
                                   kind |-> kind], filled)
      BY <1>2 DEF Small
    <2>2. CASE o = Denied(m)
      BY <2>2 DEF Denied
    <2> QED
      BY <2>1, <2>2, GrownGood
  <1> QED
    BY <1>1, <1>2

\* The list of large objects, the heap and wildFree do not matter to the blocks.
LEMMA RelistedGood ==
  ASSUME NEW m, Good(m), NEW l \in Seq(Objects \union {NoObject}),
         NEW h \in SUBSET Allocated, NEW w \in BOOLEAN
  PROVE  Good([m EXCEPT !.large = l, !.heap = h, !.wildFree = w])
  <1> DEFINE next == [m EXCEPT !.large = l, !.heap = h, !.wildFree = w]
  <1>1. m \in Memory
    BY DEF Good
  <1>2. /\ next.n = m.n /\ next.current = m.current
        /\ next.last = m.last /\ next.chunks = m.chunks
    BY <1>1 DEF Memory
  <1>3. next \in Memory
    BY <1>1 DEF Memory
  <1> HIDE DEF next
  <1>4. Good(next)
    BY <1>2, <1>3 DEF Good, InBounds, Apart
  <1> QED
    BY <1>4 DEF next

\* A large object enters the large list.
LEMMA EnlistGood ==
  ASSUME NEW m, Good(m), NEW i \in Objects, NEW o \in Enlist(m, i)
  PROVE  Good(o.mem)
  <1>1. m \in Memory /\ m.large \in Seq(Objects \union {NoObject})
    BY DEF Good, Memory
  <1>2. /\ i \in Objects \union {NoObject} /\ LargeObj(i) \in Allocated
        /\ \A mm : Good(mm) => mm.heap \in SUBSET Allocated /\ mm \in Memory
    BY DEF Allocated, Good, Memory
  <1>3. ASSUME NEW mm, Good(mm), NEW l \in Seq(Objects \union {NoObject})
        PROVE  Good(Taken(mm, i, l).mem)
    <2>1. mm.wildFree \in BOOLEAN /\ mm \in Memory
      BY <1>3 DEF Good, Memory
    <2>2. Taken(mm, i, l).mem = [mm EXCEPT !.large = l, !.heap = mm.heap \union {LargeObj(i)},
                                           !.wildFree = mm.wildFree]
      BY <2>1 DEF Memory, Taken
    <2>3. mm.heap \union {LargeObj(i)} \in SUBSET Allocated
      BY <1>2, <1>3
    <2>4. Good([mm EXCEPT !.large = l, !.heap = mm.heap \union {LargeObj(i)},
                          !.wildFree = mm.wildFree])
      BY <1>3, <2>1, <2>3, RelistedGood
    <2> QED
      BY <2>2, <2>4
  <1>4. CASE EmptySlots(m) # {}
    <2>1. EmptySlots(m) \in SUBSET Nat /\ EmptySlots(m) \subseteq 1 .. Len(m.large)
      BY <1>1, LenProperties DEF EmptySlots
    <2>2. Min(EmptySlots(m)) \in 1 .. Len(m.large)
      BY <1>4, <2>1, LeastElement
    <2>3. [m.large EXCEPT ![Min(EmptySlots(m))] = i] \in Seq(Objects \union {NoObject})
      BY <1>1, <1>2, <2>2, ExceptSeq
    <2>4. o = Taken(m, i, [m.large EXCEPT ![Min(EmptySlots(m))] = i])
      BY <1>4 DEF Enlist
    <2> QED
      BY <1>3, <2>3, <2>4
  <1>5. CASE EmptySlots(m) = {}
    <2>1. PICK p \in Small(m, LargeSize, TRUE, "large", TRUE) :
            o = IF p.ok THEN Taken(p.mem, i, <<i>> \o m.large) ELSE Denied(m)
      BY <1>5 DEF Enlist
    <2>2. LargeSize \in SmallSizes /\ "large" \in Kinds
      BY SizeAssumption DEF SmallSizes, Kinds
    <2>3. Good(p.mem)
      BY <2>2, SmallGood
    <2>4. <<i>> \in Seq(Objects \union {NoObject})
      OBVIOUS
    <2>5. <<i>> \o m.large \in Seq(Objects \union {NoObject})
      BY <1>1, <2>4, ConcatProperties
    <2>6. Denied(m).mem = m
      BY DEF Denied
    <2> QED
      BY <1>3, <2>1, <2>3, <2>5, <2>6
  <1> QED
    BY <1>4, <1>5

\* Any request.
LEMMA AllocGood ==
  ASSUME NEW m, Good(m), NEW size \in Nat \ {0}, NEW kind \in Kinds,
         NEW filled \in BOOLEAN, NEW o \in Alloc(m, size, kind, filled)
  PROVE  Good(o.mem)
  <1>1. Denied(m).mem = m
    BY DEF Denied
  <1>2. CASE Customed
    <2>1. ASSUME NEW i \in FreeObjects(m)
          PROVE  Good([m EXCEPT !.heap = @ \union {CustomObj(i)}])
      <3>1. /\ m \in Memory /\ m.large \in Seq(Objects \union {NoObject})
            /\ m.wildFree \in BOOLEAN
        BY DEF Good, Memory
      <3>2. m.heap \union {CustomObj(i)} \in SUBSET Allocated
        BY <3>1 DEF Memory, Allocated, FreeObjects
      <3>3. [m EXCEPT !.heap = @ \union {CustomObj(i)}]
              = [m EXCEPT !.large = m.large, !.heap = m.heap \union {CustomObj(i)},
                          !.wildFree = m.wildFree]
        BY <3>1 DEF Memory
      <3>4. Good([m EXCEPT !.large = m.large, !.heap = m.heap \union {CustomObj(i)},
                           !.wildFree = m.wildFree])
        BY <3>1, <3>2, RelistedGood
      <3> QED
        BY <3>3, <3>4
    <2> QED
      BY <1>1, <1>2, <2>1 DEF Alloc, Custom
  <1>3. CASE ~Customed /\ size <= PoolMax
    <2>1. size \in SmallSizes
      BY <1>3 DEF SmallSizes
    <2> QED
      BY <1>3, <2>1, SmallGood DEF Alloc
  <1>4. CASE ~Customed /\ ~(size <= PoolMax)
    BY <1>1, <1>4, EnlistGood DEF Alloc, Large, FreeObjects
  <1> QED
    BY <1>2, <1>3, <1>4
-----------------------------------------------------------------------------
(* What hcore_pfree and hcore_prealloc do to the memory.                    *)

\* hcore_pfree of a large object.
LEMMA FreedGood ==
  ASSUME NEW m, Good(m), NEW i \in Objects
  PROVE  Good(Freed(m, i))
  <1>1. m \in Memory /\ m.large \in Seq(Objects \union {NoObject})
    BY DEF Good, Memory
  <1>2. CASE Customed
    <2> DEFINE w == m.wildFree \/ CustomObj(i) \notin m.heap
               h == m.heap \ {CustomObj(i)}
    <2>1. w \in BOOLEAN /\ h \in SUBSET Allocated
      BY <1>1 DEF Memory
    <2>2. Freed(m, i) = [m EXCEPT !.large = m.large, !.heap = h, !.wildFree = w]
      BY <1>1, <1>2 DEF Freed, Memory
    <2> HIDE DEF w, h
    <2>3. Good([m EXCEPT !.large = m.large, !.heap = h, !.wildFree = w])
      BY <1>1, <2>1, RelistedGood
    <2> QED
      BY <2>2, <2>3
  <1>3. CASE ~Customed
    <2> DEFINE w == m.wildFree \/ LargeObj(i) \notin m.heap
               h == m.heap \ {LargeObj(i)}
               l == [k \in DOMAIN m.large |-> IF m.large[k] = i THEN NoObject ELSE m.large[k]]
    <2>1. w \in BOOLEAN /\ h \in SUBSET Allocated
      BY <1>1 DEF Memory
    <2>2. l \in Seq(Objects \union {NoObject})
      <3>1. /\ Len(m.large) \in Nat /\ DOMAIN m.large = 1 .. Len(m.large)
            /\ m.large \in [1 .. Len(m.large) -> Objects \union {NoObject}]
        BY <1>1, LenProperties
      <3>2. l \in [1 .. Len(m.large) -> Objects \union {NoObject}]
        BY <3>1
      <3> QED
        BY <3>1, <3>2, SeqDef
    <2>3. Freed(m, i) = [m EXCEPT !.large = l, !.heap = h, !.wildFree = w]
      BY <1>3 DEF Freed
    <2> HIDE DEF w, h, l
    <2>4. Good([m EXCEPT !.large = l, !.heap = h, !.wildFree = w])
      BY <2>1, <2>2, RelistedGood
    <2> QED
      BY <2>3, <2>4
  <1> QED
    BY <1>2, <1>3

\* Forgetting chunks harms nothing.
LEMMA DroppedGood ==
  ASSUME NEW m, Good(m), NEW C \in SUBSET m.chunks
  PROVE  Good([m EXCEPT !.chunks = C])
  <1> DEFINE next == [m EXCEPT !.chunks = C]
  <1>1. m \in Memory
    BY DEF Good
  <1>2. /\ next.n = m.n /\ next.current = m.current
        /\ next.last = m.last /\ next.chunks = C
    BY <1>1 DEF Memory
  <1>3. next \in Memory
    BY <1>1 DEF Memory
  <1> HIDE DEF next
  <1>4. Good(next)
    BY <1>2, <1>3 DEF Good, InBounds, Apart
  <1> QED
    BY <1>4 DEF next

\* The last chunk c of its block ends elsewhere, or disappears (size 0).
LEMMA ResizedGood ==
  ASSUME NEW m, Good(m), NEW c \in m.chunks, NEW size \in Nat,
         c.off + c.size = m.last[c.block],
         c.off + size <= BlockSize \/ size <= c.size,
         NEW last, last = [m.last EXCEPT ![c.block] = c.off + size],
         NEW C, C = (m.chunks \ {c}) \union
                    (IF size = 0 THEN {} ELSE {[c EXCEPT !.size = size]})
  PROVE  Good([m EXCEPT !.last = last, !.chunks = C])
  <1> DEFINE d == [c EXCEPT !.size = size]
             next == [m EXCEPT !.last = last, !.chunks = C]
  <1>1. /\ m \in Memory /\ m.chunks \in SUBSET Areas /\ m.last \in [Blocks -> Nat]
        /\ m.n \in Blocks /\ Blocks \subseteq Nat \ {0} /\ 1 .. m.n \subseteq Blocks
    BY BoundAssumption DEF Good, Memory, Blocks
  <1>2. ASSUME NEW x \in m.chunks
        PROVE  /\ x \in Areas /\ x.block \in 1 .. m.n /\ x.off \in Nat
               /\ x.size \in Nat \ {0} /\ DataStart(x.block) <= x.off
               /\ x.off + x.size <= m.last[x.block]
    <2>1. /\ x.block <= m.n /\ x.size > 0 /\ DataStart(x.block) <= x.off
          /\ x.off + x.size <= m.last[x.block]
      BY DEF Good, InBounds
    <2>2. x \in Areas /\ x.block \in Blocks /\ x.off \in Nat /\ x.size \in Nat
      BY <1>1 DEF Areas
    <2>3. x.block \in Nat \ {0} /\ m.n \in Nat
      BY <1>1, <2>2
    <2>4. x.block \in 1 .. m.n /\ x.size \in Nat \ {0}
      BY <2>1, <2>2, <2>3
    <2> QED
      BY <2>1, <2>2, <2>4
  <1>3. /\ c \in Areas /\ c.block \in 1 .. m.n /\ c.off \in Nat /\ c.size \in Nat \ {0}
        /\ DataStart(c.block) \in Nat /\ DataStart(c.block) <= c.off
    BY <1>1, <1>2, Starts
  <1>4. d \in Areas /\ d.block = c.block /\ d.off = c.off /\ d.size = size
    BY <1>3 DEF Areas
  <1>5. last \in [Blocks -> Nat]
        /\ \A b \in Blocks : last[b] = IF b = c.block THEN c.off + size ELSE m.last[b]
    BY <1>1, <1>3
  <1>6. C \in SUBSET Areas
    BY <1>1, <1>4
  <1>7. /\ next.n = m.n /\ next.current = m.current
        /\ next.last = last /\ next.chunks = C
    BY <1>1 DEF Memory
  <1>8. next \in Memory
    BY <1>1, <1>5, <1>6 DEF Memory
  <1>9. \A x \in m.chunks : x # c /\ x.block = c.block => x.off + x.size <= c.off
    BY <1>3, <1>2 DEF Good, Apart, Disjoint
  <1> HIDE DEF next
  <1>10. InBounds(next)
    <2>1. \A b \in 1 .. m.n : DataStart(b) <= last[b]
      BY <1>1, <1>3, <1>5, Starts DEF Good, InBounds
    <2>2. (BlockSize % Alignment = 0) => \A b \in 1 .. m.n : last[b] <= BlockSize
      <3>1. (BlockSize % Alignment = 0) => \A b \in 1 .. m.n : m.last[b] <= BlockSize
        BY DEF Good, InBounds
      <3>2. (BlockSize % Alignment = 0) => c.off + size <= BlockSize
        BY <1>1, <1>3, <3>1, SizeAssumption
      <3> QED
        BY <1>1, <1>5, <3>1, <3>2
    <2>3. ASSUME NEW x \in C
          PROVE  /\ x.block <= m.n /\ x.size > 0
                 /\ DataStart(x.block) <= x.off
                 /\ x.off + x.size <= last[x.block]
      <3>1. CASE x = d /\ size # 0
        <4> HIDE DEF d
        <4> QED
          BY <3>1, <1>1, <1>3, <1>4, <1>5
      <3>2. CASE x \in m.chunks /\ x # c
        BY <3>2, <1>1, <1>3, <1>5, <1>2, <1>9
      <3> QED
        BY <3>1, <3>2
    <2>4. m.current <= m.n
      BY DEF Good, InBounds
    <2> QED
      BY <1>7, <2>1, <2>2, <2>3, <2>4 DEF InBounds
  <1>11. Apart(next)
    <2>1. \A x \in m.chunks : x # c => Disjoint(x, d) /\ Disjoint(d, x)
      <3> HIDE DEF d
      <3> QED
        BY <1>3, <1>4, <1>2, <1>9 DEF Disjoint
    <2>2. \A x \in C : x = d \/ (x \in m.chunks /\ x # c)
      OBVIOUS
    <2>3. Apart(m)
      BY DEF Good
    <2> HIDE DEF d
    <2> QED
      BY <1>7, <2>1, <2>2, <2>3 DEF Apart
  <1> QED
    BY <1>8, <1>10, <1>11 DEF Good, next
\* A chunk shrinks where it is.
LEMMA ShrunkGood ==
  ASSUME NEW m, Good(m), NEW c \in m.chunks, NEW size \in Nat \ {0}, size <= c.size,
         NEW C, C = (m.chunks \ {c}) \union {[c EXCEPT !.size = size]}
  PROVE  Good([m EXCEPT !.chunks = C])
  <1> DEFINE d == [c EXCEPT !.size = size]
             next == [m EXCEPT !.chunks = C]
  <1>1. m \in Memory /\ m.chunks \in SUBSET Areas
    BY DEF Good, Memory
  <1>2. d \in Areas /\ d.block = c.block /\ d.off = c.off /\ d.size = size
    BY <1>1 DEF Areas
  <1>3. next.n = m.n /\ next.current = m.current /\ next.last = m.last /\ next.chunks = C
    BY <1>1 DEF Memory
  <1>4. \A x \in C : x = d \/ (x \in m.chunks /\ x # c)
    OBVIOUS
  <1>5. next \in Memory
    BY <1>1, <1>2 DEF Memory
  <1>6. \A x \in m.chunks : /\ x.block \in Nat /\ x.off \in Nat /\ x.size \in Nat
    BY <1>1, BoundAssumption DEF Areas, Blocks
  <1> HIDE DEF next, d
  <1>7. InBounds(next)
    <2>1. InBounds(m)
      BY DEF Good
    <2>2. m.last \in [Blocks -> Nat] /\ c.block \in Blocks
      BY <1>1 DEF Memory, Areas
    <2>3. m.last[c.block] \in Nat
      BY <2>2
    <2>4. /\ d.block <= m.n /\ d.size > 0 /\ DataStart(d.block) <= d.off
          /\ d.off + d.size <= m.last[d.block]
      BY <2>1, <2>3, <1>2, <1>6 DEF InBounds
    <2> QED
      BY <2>1, <2>4, <1>3, <1>4 DEF InBounds
  <1>8. Apart(next)
    <2>1. \A x \in m.chunks : x # c => Disjoint(x, d) /\ Disjoint(d, x)
      BY <1>2, <1>6 DEF Good, Apart, Disjoint
    <2>2. Apart(m)
      BY DEF Good
    <2> QED
      BY <1>3, <1>4, <2>1, <2>2 DEF Apart
  <1> QED
    BY <1>5, <1>7, <1>8 DEF Good, next
-----------------------------------------------------------------------------
(* The initial state and the actions.                                       *)

\* A pool that was just created.
LEMMA InitGood == Init => IInv
  <1> SUFFICES ASSUME Init PROVE IInv
    OBVIOUS
  <1>1. 1 \in Blocks /\ Blocks \subseteq Nat \ {0}
    BY BoundAssumption DEF Blocks
  <1>2. DataStart(1) \in Nat /\ DataStart(1) <= BlockSize
    BY Starts
  <1>3. <<>> \in Seq(Objects \union {NoObject}) /\ <<>> \in Seq(1 .. MaxCleanups)
    BY EmptySeq
  <1>4. BlockObj(1) \in Allocated
    BY <1>1 DEF Allocated
  <1>5. mem \in Memory
    <2> DEFINE last == [b \in Blocks |-> IF b = 1 THEN DataStart(1) ELSE 0]
               failed == [b \in Blocks |-> 0]
    <2>1. last \in [Blocks -> Nat] /\ failed \in [Blocks -> Nat]
      BY <1>2
    <2>2. mem = [n |-> 1, current |-> 1, last |-> last, failed |-> failed,
                 chunks |-> {}, large |-> <<>>, heap |-> {BlockObj(1)},
                 wildFree |-> FALSE, broken |-> FALSE]
      BY DEF Init
    <2> HIDE DEF last, failed
    <2> QED
      BY <1>1, <1>3, <1>4, <2>1, <2>2 DEF Memory
  <1>6. InBounds(mem)
    <2>1. mem.n = 1 /\ mem.current = 1 /\ mem.last[1] = DataStart(1) /\ mem.chunks = {}
      BY <1>1 DEF Init
    <2> QED
      BY <1>2, <2>1 DEF InBounds
  <1>7. Apart(mem)
    BY DEF Init, Apart
  <1> QED
    BY <1>3, <1>5, <1>6, <1>7 DEF Init, IInv, TypeOK, Good

\* An action that only touches the memory keeps the invariant when the
\* memory stays good.
LEMMA OnlyMemoryGood ==
  ASSUME IInv, Good(mem'), OnlyMemory
  PROVE  IInv'
  BY DEF IInv, TypeOK, Good, OnlyMemory

\* hcore_palloc and hcore_pcalloc.
LEMMA PallocGood ==
  ASSUME IInv, NEW size \in Sizes, NEW clear \in BOOLEAN, Palloc(size, clear)
  PROVE  IInv'
  <1>1. PICK o \in Alloc(mem, size, "client", clear) : mem' = o.mem
    BY DEF Palloc
  <1>2. Good(o.mem)
    BY AllocGood, SizeAssumption DEF IInv, Kinds
  <1> QED
    BY <1>1, <1>2, OnlyMemoryGood DEF Palloc

\* hcore_pfree.
LEMMA PfreeGood ==
  ASSUME IInv, NEW i \in Objects, Pfree(i)
  PROVE  IInv'
  <1>1. mem' = Freed(mem, i) /\ Good(mem)
    BY DEF Pfree, IInv
  <1>2. Good(mem')
    BY <1>1, FreedGood
  <1> QED
    BY <1>2, OnlyMemoryGood DEF Pfree

\* hcore_prealloc of a large object.
LEMMA ReallocLargeGood ==
  ASSUME IInv, NEW i \in Objects, NEW size \in Sizes, ReallocLarge(i, size)
  PROVE  IInv'
  <1>1. PICK o \in Alloc(mem, size, "client", TRUE) :
          mem' = IF o.ok THEN Freed(o.mem, i) ELSE o.mem
    BY DEF ReallocLarge
  <1>2. Good(o.mem)
    BY AllocGood, SizeAssumption DEF IInv, Kinds
  <1>3. Good(mem')
    BY <1>1, <1>2, FreedGood
  <1> QED
    BY <1>3, OnlyMemoryGood DEF ReallocLarge

\* A client fills its chunk.
LEMMA WriteGood ==
  ASSUME IInv, NEW c \in mem.chunks, Write(c)
  PROVE  IInv'
  <1>1. mem \in Memory /\ Good(mem)
    BY DEF IInv, Good
  <1>2. OverHeader(c) \in BOOLEAN
    BY DEF OverHeader
  <1>3. mem' \in Memory
    BY <1>1, <1>2 DEF Write, Memory
  <1>4. /\ mem'.n = mem.n /\ mem'.current = mem.current
        /\ mem'.last = mem.last /\ mem'.chunks = mem.chunks
    BY <1>1 DEF Write, Memory
  <1>5. Good(mem')
    BY <1>1, <1>3, <1>4 DEF Good, InBounds, Apart
  <1> QED
    BY <1>5, OnlyMemoryGood DEF Write

\* hcore_prealloc to no bytes.
LEMMA ReallocToNothingGood ==
  ASSUME IInv, NEW c \in mem.chunks, ReallocToNothing(c)
  PROVE  IInv'
  <1>1. mem \in Memory /\ Good(mem) /\ mem.chunks \in SUBSET Areas
    BY DEF IInv, Good, Memory
  <1>2. CASE c.block = 1 /\ c.off + c.size = mem.last[1]
    <2> DEFINE last == [mem.last EXCEPT ![c.block] = c.off]
               C == mem.chunks \ {c}
    <2>1. c.off \in Nat /\ c.size \in Nat /\ c.off + 0 = c.off /\ 0 <= c.size
      BY <1>1 DEF Areas
    <2>2. /\ last = [mem.last EXCEPT ![c.block] = c.off + 0]
          /\ C = (mem.chunks \ {c}) \union
                 (IF 0 = 0 THEN {} ELSE {[c EXCEPT !.size = 0]})
      BY <2>1
    <2>3. mem' = [mem EXCEPT !.last = last, !.chunks = C]
      BY <1>2 DEF ReallocToNothing
    <2>4. c.off + c.size = mem.last[c.block]
      BY <1>2
    <2> HIDE DEF last, C
    <2>5. Good([mem EXCEPT !.last = last, !.chunks = C])
      BY <1>1, <2>1, <2>2, <2>4, ResizedGood
    <2> QED
      BY <2>3, <2>5, OnlyMemoryGood DEF ReallocToNothing
  <1>3. CASE ~(c.block = 1 /\ c.off + c.size = mem.last[1])
    <2>1. mem' = [mem EXCEPT !.chunks = mem.chunks \ {c}]
      BY <1>1, <1>3 DEF ReallocToNothing, Memory
    <2>2. Good(mem')
      BY <1>1, <2>1, DroppedGood
    <2> QED
      BY <2>2, OnlyMemoryGood DEF ReallocToNothing
  <1> QED
    BY <1>2, <1>3

\* hcore_prealloc that moves the contents.
LEMMA ReallocByCopyGood ==
  ASSUME IInv, NEW c \in mem.chunks, NEW size \in Sizes, ReallocByCopy(c, size)
  PROVE  IInv'
  <1>1. PICK o \in Alloc(mem, size, "client", TRUE) :
          mem' = IF o.ok THEN [o.mem EXCEPT !.chunks = @ \ {c}] ELSE o.mem
    BY DEF ReallocByCopy
  <1>2. Good(o.mem)
    BY AllocGood, SizeAssumption DEF IInv, Kinds
  <1>3. Good(mem')
    BY <1>1, <1>2, DroppedGood
  <1> QED
    BY <1>3, OnlyMemoryGood DEF ReallocByCopy

\* hcore_prealloc that moves d.last.
LEMMA ReallocInPlaceGood ==
  ASSUME IInv, NEW c \in mem.chunks, NEW size \in Sizes, ReallocInPlace(c, size)
  PROVE  IInv'
  <1> DEFINE last == [mem.last EXCEPT ![c.block] = c.off + size]
             C == (mem.chunks \ {c}) \union {[c EXCEPT !.size = size]}
  <1>1. mem \in Memory /\ Good(mem) /\ size \in Nat \ {0}
    BY SizeAssumption DEF IInv, Good
  <1>2. CASE InPlace(c, size)
    <2>1. mem' = [mem EXCEPT !.last = last, !.chunks = C]
      BY <1>2 DEF ReallocInPlace
    <2>2. c.off + c.size = mem.last[c.block] /\ c.off + size <= BlockSize
      BY <1>2 DEF InPlace
    <2>3. C = (mem.chunks \ {c}) \union
              (IF size = 0 THEN {} ELSE {[c EXCEPT !.size = size]})
      BY <1>1
    <2>4. last = [mem.last EXCEPT ![c.block] = c.off + size]
      OBVIOUS
    <2> HIDE DEF last, C
    <2>5. Good([mem EXCEPT !.last = last, !.chunks = C])
      BY <1>1, <2>2, <2>3, <2>4, ResizedGood
    <2> QED
      BY <2>1, <2>5, OnlyMemoryGood DEF ReallocInPlace
  <1>3. CASE ~InPlace(c, size)
    <2>1. mem' = [mem EXCEPT !.last = mem.last, !.chunks = C] /\ size <= c.size
      BY <1>3 DEF ReallocInPlace
    <2>2. C = (mem.chunks \ {c}) \union {[c EXCEPT !.size = size]}
      OBVIOUS
    <2> HIDE DEF C
    <2>3. mem' = [mem EXCEPT !.chunks = C]
      BY <1>1, <2>1 DEF Memory
    <2>4. Good([mem EXCEPT !.chunks = C])
      BY <1>1, <2>1, <2>2, ShrunkGood
    <2> QED
      BY <2>3, <2>4, OnlyMemoryGood DEF ReallocInPlace
  <1> QED
    BY <1>2, <1>3

\* hcore_pool_cleanup_add.
LEMMA CleanupAddGood ==
  ASSUME IInv, NEW size \in Sizes \union {0}, NEW arm \in BOOLEAN, CleanupAdd(size, arm)
  PROVE  IInv'
  <1> DEFINE id == Len(cleanups) + 1
  <1>1. Good(mem) /\ cleanups \in Seq(1 .. MaxCleanups) /\ armed \in SUBSET (1 .. MaxCleanups)
    BY DEF IInv, TypeOK
  <1>2. id \in 1 .. MaxCleanups
    BY <1>1, LenProperties, BoundAssumption DEF CleanupAdd
  <1>3. PICK o \in Alloc(mem, CleanupSize, "cleanup", TRUE) :
          \/ mem' = o.mem /\ UNCHANGED <<cleanups, armed>>
          \/ \E d \in IF size = 0 THEN {o} ELSE Alloc(o.mem, size, "client", FALSE) :
               /\ mem' = d.mem
               /\ cleanups' = IF d.ok THEN Registered(id) ELSE cleanups
               /\ armed' = IF d.ok /\ arm THEN armed \union {id} ELSE armed
    BY DEF CleanupAdd
  <1>4. Good(o.mem)
    BY <1>1, AllocGood, SizeAssumption DEF Kinds
  <1>5. Registered(id) \in Seq(1 .. MaxCleanups)
    <2>1. <<id>> \in Seq(1 .. MaxCleanups)
      BY <1>2
    <2> QED
      BY <1>1, <2>1, ConcatProperties DEF Registered
  <1> HIDE DEF id
  <1>6. /\ Good(mem') /\ cleanups' \in Seq(1 .. MaxCleanups)
        /\ armed' \in SUBSET (1 .. MaxCleanups)
    <2>1. CASE mem' = o.mem /\ UNCHANGED <<cleanups, armed>>
      BY <2>1, <1>1, <1>4
    <2>2. CASE \E d \in IF size = 0 THEN {o} ELSE Alloc(o.mem, size, "client", FALSE) :
               /\ mem' = d.mem
               /\ cleanups' = IF d.ok THEN Registered(id) ELSE cleanups
               /\ armed' = IF d.ok /\ arm THEN armed \union {id} ELSE armed
      <3>1. PICK d \in IF size = 0 THEN {o} ELSE Alloc(o.mem, size, "client", FALSE) :
               /\ mem' = d.mem
               /\ cleanups' = IF d.ok THEN Registered(id) ELSE cleanups
               /\ armed' = IF d.ok /\ arm THEN armed \union {id} ELSE armed
        BY <2>2
      <3>2. Good(d.mem)
        <4>1. CASE size = 0
          BY <4>1, <1>4
        <4>2. CASE size # 0
          BY <4>2, <1>4, AllocGood, SizeAssumption DEF Kinds
        <4> QED
          BY <4>1, <4>2
      <3> QED
        BY <3>1, <3>2, <1>1, <1>2, <1>5
    <2> QED
      BY <1>3, <2>1, <2>2
  <1> QED
    BY <1>6 DEF CleanupAdd, IInv, TypeOK, Good

\* The steps of hcore_destroy_pool.
LEMMA DestroyGood ==
  ASSUME IInv, DestroyBegin \/ DestroyStep
  PROVE  IInv'
  <1>1. CASE DestroyBegin
    BY <1>1 DEF DestroyBegin, IInv, TypeOK, Good
  <1>2. CASE RunHandler
    <2>1. todo \in Seq(1 .. MaxCleanups) /\ todo # <<>> /\ ran \in Seq(1 .. MaxCleanups)
      BY <1>2 DEF RunHandler, IInv, TypeOK
    <2>2. Head(todo) \in 1 .. MaxCleanups /\ Tail(todo) \in Seq(1 .. MaxCleanups)
      BY <2>1, HeadTailProperties
    <2>3. Append(ran, Head(todo)) \in Seq(1 .. MaxCleanups)
      BY <2>1, <2>2, AppendProperties
    <2> QED
      BY <1>2, <2>1, <2>2, <2>3 DEF RunHandler, IInv, TypeOK, Good
  <1>3. CASE HandlerReturns
    BY <1>3 DEF HandlerReturns, IInv, TypeOK, Good
  <1>4. CASE DestroyRelease
    <2> DEFINE h == mem.heap \ Released
               w == \/ mem.wildFree \/ ~(Released \subseteq mem.heap)
                    \/ \E j, k \in Listed : j # k /\ mem.large[j] = mem.large[k]
    <2>1. mem \in Memory /\ Good(mem) /\ mem.large \in Seq(Objects \union {NoObject})
      BY DEF IInv, Good, Memory
    <2>2. h \in SUBSET Allocated /\ w \in BOOLEAN
      BY <2>1 DEF Memory
    <2>3. mem' = [mem EXCEPT !.large = mem.large, !.heap = h, !.wildFree = w]
      BY <1>4, <2>1 DEF DestroyRelease, Memory
    <2> HIDE DEF h, w
    <2>4. Good(mem')
      BY <2>1, <2>2, <2>3, RelistedGood
    <2> QED
      BY <1>4, <2>4 DEF DestroyRelease, IInv, TypeOK, Good
  <1> QED
    BY <1>1, <1>2, <1>3, <1>4 DEF DestroyStep

\* Every step keeps the invariant.
LEMMA NextGood == IInv /\ [Next]_vars => IInv'
  <1> SUFFICES ASSUME IInv, [Next]_vars PROVE IInv'
    OBVIOUS
  <1>1. CASE Next
    BY <1>1, PallocGood, PfreeGood, ReallocLargeGood, WriteGood, ReallocToNothingGood,
       ReallocInPlaceGood, ReallocByCopyGood, CleanupAddGood, DestroyGood
       DEF Next, Over, vars, IInv, TypeOK, Good
  <1>2. CASE UNCHANGED vars
    BY <1>2 DEF vars, IInv, TypeOK, Good
  <1> QED
    BY <1>1, <1>2
-----------------------------------------------------------------------------
(* The theorems.                                                            *)

\* The invariant holds throughout.
LEMMA Invariance == Spec => []IInv
  BY InitGood, NextGood, PTL DEF Spec

\* The blocks, the list of large objects, the heap and the cleanups stay well
\* formed through every call of hcore_pool.c.
THEOREM TypeCorrect == Spec => []TypeOK
  <1>1. IInv => TypeOK
    BY DEF IInv
  <1> QED
    BY <1>1, Invariance, PTL

\* No two chunks that hcore_pool.c handed out share a byte, for every size of
\* block and every sequence of allocations, reallocations and cleanups.
THEOREM Disjointness == Spec => []ChunksDisjoint
  <1>1. IInv => ChunksDisjoint
    BY DEF IInv, Good, Apart, ChunksDisjoint
  <1> QED
    BY <1>1, Invariance, PTL

\* When the size given to hcore_create_pool is a multiple of the alignment,
\* no chunk lies outside its block and d.last never passes d.end.
THEOREM Containment ==
  ASSUME BlockSize % Alignment = 0
  PROVE  Spec => []ChunksInBlock
  <1>1. IInv => ChunksInBlock
    BY DEF IInv, Good, InBounds, ChunksInBlock
  <1> QED
    BY <1>1, Invariance, PTL
-----------------------------------------------------------------------------
(* hcore_destroy_pool: what is in the heap, and the order of the handlers.  *)

\* What is not freed yet is in the chain of blocks or, once, in pool->large.
Blk(m) == {BlockObj(b) : b \in 1 .. m.n}
Lrg(m) == {LargeObj(m.large[k]) : k \in {j \in DOMAIN m.large : m.large[j] # NoObject}}
Accounted(m) ==
  /\ m.heap = Blk(m) \union Lrg(m)
  /\ \A j, k \in DOMAIN m.large :
       j # k /\ m.large[j] # NoObject => m.large[j] # m.large[k]
  /\ ~m.wildFree

HeapInv == IF phase = "done" THEN mem.heap = {} /\ ~mem.wildFree ELSE Accounted(mem)

\* A list in which element 1 is the last one.
CountsDown(s) == \A k \in DOMAIN s : s[k] = Len(s) + 1 - k

\* Cleanups are numbered as they are registered.  Those that hcore_destroy_pool
\* has not visited are the first Len(todo) ones, and the handlers it called are
\* those of the others that were due.
OrderInv ==
  /\ CountsDown(cleanups) /\ armed \subseteq 1 .. Len(cleanups)
  /\ phase = "live" => ran = <<>>
  /\ phase # "live" =>
       /\ CountsDown(todo) /\ Len(todo) <= Len(cleanups)
       /\ armed \intersect (1 .. Len(todo)) = due \intersect (1 .. Len(todo))
       /\ {ran[k] : k \in DOMAIN ran} = due \ (1 .. Len(todo))
       /\ \A k \in 1 .. Len(ran) - 1 : ran[k + 1] < ran[k]
  /\ phase = "done" => todo = <<>>

\* Objects of different kinds are different.
LEMMA Objs ==
  /\ \A b, i : BlockObj(b) # LargeObj(i) /\ BlockObj(b) # CustomObj(i) /\ CustomObj(b) # LargeObj(i)
  /\ \A i, j : LargeObj(i) = LargeObj(j) => i = j
  /\ \A i, j : BlockObj(i) = BlockObj(j) => i = j
  BY DEF BlockObj, LargeObj, CustomObj

\* The blocks, the list and the heap decide; chunks do not matter.
LEMMA SameHeap ==
  ASSUME NEW m, Accounted(m), NEW mm,
         mm.n = m.n, mm.large = m.large, mm.heap = m.heap, mm.wildFree = m.wildFree
  PROVE  Accounted(mm)
  BY DEF Accounted, Blk, Lrg

\* A small request may append a block, and the list of large objects stays.
LEMMA SmallAccounted ==
  ASSUME NEW m, m \in Memory, Accounted(m), NEW size, NEW align, NEW kind, NEW filled,
         NEW o \in Small(m, size, align, kind, filled)
  PROVE  /\ Accounted(o.mem) /\ o.mem.large = m.large
         /\ \A i : LargeObj(i) \in o.mem.heap <=> LargeObj(i) \in m.heap
  <1>1. ASSUME NEW mm \in Memory, NEW c, o = Cut(mm, c, filled)
        PROVE  /\ o.mem.n = mm.n /\ o.mem.large = mm.large
               /\ o.mem.heap = mm.heap /\ o.mem.wildFree = mm.wildFree
    BY <1>1 DEF Cut, Memory
  <1>2. ASSUME NEW c, o = Cut(Grown(m), c, filled), m.n < MaxBlocks
        PROVE  /\ o.mem.n = m.n + 1 /\ o.mem.large = m.large
               /\ o.mem.heap = m.heap \union {BlockObj(m.n + 1)}
               /\ o.mem.wildFree = m.wildFree
    BY <1>2 DEF Cut, Grown, Memory
  <1>3. CASE \E c : o = Cut(m, c, filled)
    BY <1>1, <1>3, SameHeap
  <1>4. CASE o = Denied(m)
    BY <1>4 DEF Denied
  <1>5. ASSUME NEW c, o = Cut(Grown(m), c, filled), m.n < MaxBlocks
        PROVE  /\ Accounted(o.mem) /\ o.mem.large = m.large
               /\ \A i : LargeObj(i) \in o.mem.heap <=> LargeObj(i) \in m.heap
    <2>1. m.n \in Nat
      BY BoundAssumption DEF Memory, Blocks
    <2>2. 1 .. o.mem.n = (1 .. m.n) \union {m.n + 1}
      BY <1>2, <1>5, <2>1
    <2>3. Blk(o.mem) = Blk(m) \union {BlockObj(m.n + 1)} /\ Lrg(o.mem) = Lrg(m)
      BY <1>2, <1>5, <2>2 DEF Blk, Lrg
    <2>4. Accounted(o.mem)
      BY <1>2, <1>5, <2>3 DEF Accounted
    <2>5. \A i : LargeObj(i) # BlockObj(m.n + 1)
      BY Objs
    <2> QED
      BY <1>2, <1>5, <2>4, <2>5
  <1> QED
    BY <1>3, <1>4, <1>5 DEF Small

\* An element of the list that was empty takes a new object.
LEMMA SlotAccounted ==
  ASSUME NEW m, m \in Memory, Accounted(m), NEW i \in Objects, LargeObj(i) \notin m.heap,
         NEW k0 \in DOMAIN m.large, m.large[k0] = NoObject
  PROVE  Accounted(Taken(m, i, [m.large EXCEPT ![k0] = i]).mem)
  <1> DEFINE l == [m.large EXCEPT ![k0] = i]
             mm == Taken(m, i, l).mem
  <1>1. /\ mm.n = m.n /\ mm.large = l /\ mm.heap = m.heap \union {LargeObj(i)}
        /\ mm.wildFree = m.wildFree
    BY DEF Taken, Memory
  <1>2. /\ DOMAIN l = DOMAIN m.large /\ l[k0] = i
        /\ \A k \in DOMAIN m.large : k # k0 => l[k] = m.large[k]
    BY DEF Memory
  <1>3. i # NoObject
    BY BoundAssumption DEF Objects, NoObject
  <1>4. \A k \in DOMAIN m.large : m.large[k] # i
    <2>1. \A k \in DOMAIN m.large : m.large[k] # NoObject => LargeObj(m.large[k]) \in m.heap
      BY DEF Accounted, Lrg
    <2> QED
      BY <1>3, <2>1
  <1> HIDE DEF l, mm
  <1>5. Lrg(mm) = Lrg(m) \union {LargeObj(i)} /\ Blk(mm) = Blk(m)
    BY <1>1, <1>2, <1>3 DEF Lrg, Blk
  <1>6. \A j, k \in DOMAIN l : j # k /\ l[j] # NoObject => l[j] # l[k]
    BY <1>2, <1>4 DEF Accounted
  <1>7. Accounted(mm)
    BY <1>1, <1>5, <1>6 DEF Accounted
  <1> QED
    BY <1>7 DEF mm, l

\* A new element at the front of the list takes a new object.
LEMMA FrontAccounted ==
  ASSUME NEW m, m \in Memory, Accounted(m), NEW i \in Objects, LargeObj(i) \notin m.heap
  PROVE  Accounted(Taken(m, i, <<i>> \o m.large).mem)
  <1> DEFINE s == m.large
             l == <<i>> \o s
             mm == Taken(m, i, l).mem
  <1>1. /\ mm.n = m.n /\ mm.large = l /\ mm.heap = m.heap \union {LargeObj(i)}
        /\ mm.wildFree = m.wildFree
    BY DEF Taken, Memory
  <1>2. s \in Seq(Objects \union {NoObject})
    BY DEF Memory
  <1>3. /\ Len(s) \in Nat /\ DOMAIN s = 1 .. Len(s) /\ DOMAIN l = 1 .. Len(s) + 1
        /\ l[1] = i /\ \A k \in 1 .. Len(s) : l[k + 1] = s[k]
    <2>1. <<i>> \in Seq(Objects \union {NoObject}) /\ Len(<<i>>) = 1 /\ <<i>>[1] = i
      OBVIOUS
    <2> QED
      BY <1>2, <2>1, ConcatProperties
  <1>4. \A k \in 1 .. Len(s) + 1 : k # 1 => k - 1 \in 1 .. Len(s) /\ l[k] = s[k - 1]
    BY <1>3
  <1>5. i # NoObject
    BY BoundAssumption DEF Objects, NoObject
  <1>6. \A k \in 1 .. Len(s) : s[k] # i
    <2>1. \A k \in DOMAIN s : s[k] # NoObject => LargeObj(s[k]) \in m.heap
      BY DEF Accounted, Lrg
    <2> QED
      BY <1>3, <1>5, <2>1
  <1> HIDE DEF l, mm
  <1>7. Lrg(mm) = Lrg(m) \union {LargeObj(i)} /\ Blk(mm) = Blk(m)
    <2>1. Blk(mm) = Blk(m)
      BY <1>1 DEF Blk
    <2>2. \A k \in 1 .. Len(s) : k + 1 \in 1 .. Len(s) + 1
      BY <1>3
    <2>3. 1 \in 1 .. Len(s) + 1
      BY <1>3
    <2>4. Lrg(m) \union {LargeObj(i)} \subseteq Lrg(mm)
      BY <1>1, <1>3, <1>5, <2>2, <2>3 DEF Lrg
    <2>5. Lrg(mm) \subseteq Lrg(m) \union {LargeObj(i)}
      BY <1>1, <1>3, <1>4 DEF Lrg
    <2> QED
      BY <2>1, <2>4, <2>5
  <1>8. \A j, k \in DOMAIN l : j # k /\ l[j] # NoObject => l[j] # l[k]
    <2> SUFFICES ASSUME NEW j \in 1 .. Len(s) + 1, NEW k \in 1 .. Len(s) + 1,
                        j # k, l[j] # NoObject
                 PROVE  l[j] # l[k]
      BY <1>3
    <2>1. CASE j = 1 \/ k = 1
      BY <1>3, <1>4, <1>6, <2>1
    <2>2. CASE j # 1 /\ k # 1
      <3>1. /\ j - 1 \in DOMAIN s /\ l[j] = s[j - 1]
            /\ k - 1 \in DOMAIN s /\ l[k] = s[k - 1]
        BY <1>3, <1>4, <2>2
      <3>2. j - 1 # k - 1
        BY <1>3
      <3> QED
        BY <3>1, <3>2 DEF Accounted
    <2> QED
      BY <2>1, <2>2
  <1>9. Accounted(mm)
    BY <1>1, <1>7, <1>8 DEF Accounted
  <1> QED
    BY <1>9 DEF mm, l

\* A request accounts for what it allocates, and the objects that were there
\* are still there.
LEMMA AllocAccounted ==
  ASSUME ~Customed, NEW m, Good(m), Accounted(m), NEW size \in Nat \ {0}, NEW kind \in Kinds,
         NEW filled \in BOOLEAN, NEW o \in Alloc(m, size, kind, filled)
  PROVE  Accounted(o.mem) /\ \A i : LargeObj(i) \in m.heap => LargeObj(i) \in o.mem.heap
  <1>1. m \in Memory /\ Denied(m).mem = m
    BY DEF Good, Denied
  <1>2. CASE size <= PoolMax
    BY <1>1, <1>2, SmallAccounted DEF Alloc
  <1>3. CASE ~(size <= PoolMax) /\ o = Denied(m)
    BY <1>1, <1>3
  <1>4. CASE ~(size <= PoolMax) /\ o # Denied(m)
    <2>1. PICK i \in FreeObjects(m) : o \in Enlist(m, i)
      BY <1>4 DEF Alloc, Large
    <2>2. i \in Objects /\ LargeObj(i) \notin m.heap
      BY <2>1 DEF FreeObjects
    <2>3. CASE EmptySlots(m) # {}
      <3> DEFINE k == Min(EmptySlots(m))
      <3>1. k \in EmptySlots(m)
        <4>1. EmptySlots(m) \in SUBSET Nat
          BY <1>1 DEF EmptySlots, Memory
        <4> QED
          BY <2>3, <4>1, LeastElement
      <3>2. k \in DOMAIN m.large /\ m.large[k] = NoObject
        BY <3>1 DEF EmptySlots
      <3>3. o = Taken(m, i, [m.large EXCEPT ![k] = i])
        BY <2>1, <2>3 DEF Enlist
      <3> HIDE DEF k
      <3>4. Accounted(o.mem)
        BY <1>1, <2>2, <3>2, <3>3, SlotAccounted
      <3>5. o.mem.heap = m.heap \union {LargeObj(i)}
        BY <1>1, <3>3 DEF Taken, Memory
      <3> QED
        BY <3>4, <3>5
    <2>4. CASE EmptySlots(m) = {}
      <3>1. PICK p \in Small(m, LargeSize, TRUE, "large", TRUE) :
              o = IF p.ok THEN Taken(p.mem, i, <<i>> \o m.large) ELSE Denied(m)
        BY <2>1, <2>4 DEF Enlist
      <3>2. /\ Accounted(p.mem) /\ p.mem.large = m.large
            /\ \A j : LargeObj(j) \in p.mem.heap <=> LargeObj(j) \in m.heap
        BY <1>1, SmallAccounted
      <3>3. p.mem \in Memory
        <4>1. LargeSize \in SmallSizes /\ "large" \in Kinds
          BY SizeAssumption DEF SmallSizes, Kinds
        <4> QED
          BY <4>1, SmallGood DEF Good
      <3>4. CASE ~p.ok
        BY <1>1, <3>1, <3>4
      <3>5. CASE p.ok
        <4>1. o = Taken(p.mem, i, <<i>> \o p.mem.large)
          BY <3>1, <3>2, <3>5
        <4>2. Accounted(o.mem)
          BY <2>2, <3>2, <3>3, <4>1, FrontAccounted
        <4>3. o.mem.heap = p.mem.heap \union {LargeObj(i)}
          BY <3>3, <4>1 DEF Taken, Memory
        <4> QED
          BY <3>2, <4>2, <4>3
      <3> QED
        BY <3>4, <3>5
    <2> QED
      BY <2>3, <2>4
  <1> QED
    BY <1>2, <1>3, <1>4

\* hcore_pfree empties the one element that holds the object.
LEMMA FreedAccounted ==
  ASSUME ~Customed, NEW m, m \in Memory, Accounted(m), NEW i \in Objects,
         LargeObj(i) \in m.heap
  PROVE  Accounted(Freed(m, i))
  <1> DEFINE l == [k \in DOMAIN m.large |-> IF m.large[k] = i THEN NoObject ELSE m.large[k]]
             mm == Freed(m, i)
  <1>1. /\ mm.n = m.n /\ mm.large = l /\ mm.heap = m.heap \ {LargeObj(i)}
        /\ ~mm.wildFree
    <2>1. Freed(m, i) = [m EXCEPT !.large = l, !.heap = m.heap \ {LargeObj(i)},
                                  !.wildFree = m.wildFree \/ LargeObj(i) \notin m.heap]
      BY DEF Freed
    <2>2. ~m.wildFree
      BY DEF Accounted
    <2> HIDE DEF l
    <2> QED
      BY <2>1, <2>2 DEF Memory
  <1>2. /\ DOMAIN l = DOMAIN m.large
        /\ \A k \in DOMAIN m.large : l[k] = IF m.large[k] = i THEN NoObject ELSE m.large[k]
    OBVIOUS
  <1>3. i # NoObject
    BY BoundAssumption DEF Objects, NoObject
  <1> HIDE DEF l, mm
  <1>4. Lrg(mm) = Lrg(m) \ {LargeObj(i)}
    BY <1>1, <1>2, <1>3, Objs DEF Lrg
  <1>5. Blk(mm) = Blk(m) /\ LargeObj(i) \notin Blk(m)
    BY <1>1, Objs DEF Blk
  <1>6. \A j, k \in DOMAIN l : j # k /\ l[j] # NoObject => l[j] # l[k]
    BY <1>2 DEF Accounted
  <1>7. Accounted(mm)
    BY <1>1, <1>4, <1>5, <1>6 DEF Accounted
  <1> QED
    BY <1>7 DEF mm

\* The heap while clients use the pool.
LEMMA UseAccounted ==
  ASSUME ~Customed, IInv, HeapInv, OnlyMemory, Accounted(mem) => Accounted(mem')
  PROVE  HeapInv'
  BY DEF HeapInv, OnlyMemory, Usable

\* Every action keeps account of the heap, and hcore_destroy_pool frees what
\* is in the account.
LEMMA HeapNext ==
  ASSUME ~Customed, IInv, HeapInv, [Next]_vars
  PROVE  HeapInv'
  <1>1. Good(mem) /\ mem \in Memory /\ "client" \in Kinds /\ "cleanup" \in Kinds
        /\ CleanupSize \in Nat \ {0}
    BY SizeAssumption DEF IInv, Good, Kinds
  <1>2. ASSUME NEW size \in Sizes, NEW clear \in BOOLEAN, Palloc(size, clear)
        PROVE  HeapInv'
    <2>1. PICK o \in Alloc(mem, size, "client", clear) : mem' = o.mem
      BY <1>2 DEF Palloc
    <2>2. Accounted(mem) => Accounted(mem')
      BY <1>1, <2>1, AllocAccounted, SizeAssumption
    <2> QED
      BY <1>2, <2>2, UseAccounted DEF Palloc
  <1>3. ASSUME NEW i \in Objects, Pfree(i)
        PROVE  HeapInv'
    <2>1. OnlyMemory /\ mem' = Freed(mem, i) /\ i \in HeldObjects
      BY <1>3 DEF Pfree
    <2>2. Accounted(mem) => LargeObj(i) \in mem.heap
      BY <2>1, Objs DEF HeldObjects, Accounted, Blk, Lrg
    <2>3. Accounted(mem) => Accounted(mem')
      BY <1>1, <2>1, <2>2, FreedAccounted
    <2> QED
      BY <2>1, <2>3, UseAccounted
  <1>4. ASSUME NEW i \in Objects, NEW size \in Sizes, ReallocLarge(i, size)
        PROVE  HeapInv'
    <2>1. OnlyMemory /\ i \in HeldObjects
      BY <1>4 DEF ReallocLarge
    <2>2. PICK o \in Alloc(mem, size, "client", TRUE) :
            mem' = IF o.ok THEN Freed(o.mem, i) ELSE o.mem
      BY <1>4 DEF ReallocLarge
    <2>3. Accounted(mem) => LargeObj(i) \in mem.heap
      BY <2>1, Objs DEF HeldObjects, Accounted, Blk, Lrg
    <2>4. Good(o.mem)
      BY <1>1, AllocGood, SizeAssumption
    <2>5. Accounted(mem) => Accounted(o.mem) /\ LargeObj(i) \in o.mem.heap
      BY <1>1, <2>3, AllocAccounted, SizeAssumption
    <2>6. Accounted(mem) => Accounted(mem')
      BY <2>2, <2>4, <2>5, FreedAccounted DEF Good
    <2> QED
      BY <2>1, <2>6, UseAccounted
  <1>5. ASSUME NEW c \in mem.chunks,
               \/ Write(c) \/ ReallocToNothing(c)
               \/ \E size \in Sizes : ReallocInPlace(c, size)
        PROVE  HeapInv'
    <2>1. /\ mem'.n = mem.n /\ mem'.large = mem.large
          /\ mem'.heap = mem.heap /\ mem'.wildFree = mem.wildFree
      BY <1>1, <1>5 DEF Write, ReallocToNothing, ReallocInPlace, Memory
    <2>2. Accounted(mem) => Accounted(mem')
      BY <2>1, SameHeap
    <2> QED
      BY <1>5, <2>2, UseAccounted DEF Write, ReallocToNothing, ReallocInPlace
  <1>6. ASSUME NEW c \in mem.chunks, NEW size \in Sizes, ReallocByCopy(c, size)
        PROVE  HeapInv'
    <2>1. PICK o \in Alloc(mem, size, "client", TRUE) :
            mem' = IF o.ok THEN [o.mem EXCEPT !.chunks = @ \ {c}] ELSE o.mem
      BY <1>6 DEF ReallocByCopy
    <2>2. Accounted(mem) => Accounted(o.mem)
      BY <1>1, AllocAccounted, SizeAssumption
    <2>3. o.mem \in Memory
      BY <1>1, AllocGood, SizeAssumption DEF Good
    <2>4. /\ mem'.n = o.mem.n /\ mem'.large = o.mem.large
          /\ mem'.heap = o.mem.heap /\ mem'.wildFree = o.mem.wildFree
      BY <2>1, <2>3 DEF Memory
    <2>5. Accounted(mem) => Accounted(mem')
      BY <2>2, <2>4, SameHeap
    <2> QED
      BY <1>6, <2>5, UseAccounted DEF ReallocByCopy
  <1>7. ASSUME NEW size \in Sizes \union {0}, NEW arm \in BOOLEAN, CleanupAdd(size, arm)
        PROVE  HeapInv'
    <2>1. phase' = phase /\ phase # "done" /\ Accounted(mem)
      BY <1>7 DEF CleanupAdd, Usable, HeapInv
    <2>2. PICK o \in Alloc(mem, CleanupSize, "cleanup", TRUE) :
            \/ mem' = o.mem
            \/ \E d \in IF size = 0 THEN {o} ELSE Alloc(o.mem, size, "client", FALSE) :
                 mem' = d.mem
      BY <1>7 DEF CleanupAdd
    <2>3. Accounted(o.mem) /\ Good(o.mem)
      BY <1>1, <2>1, AllocAccounted, AllocGood
    <2>4. CASE mem' = o.mem \/ size = 0
      BY <2>1, <2>2, <2>3, <2>4 DEF HeapInv
    <2>5. CASE ~(mem' = o.mem \/ size = 0)
      <3>1. PICK d \in Alloc(o.mem, size, "client", FALSE) : mem' = d.mem
        BY <2>2, <2>5
      <3>2. Accounted(d.mem)
        BY <1>1, <2>3, <2>5, AllocAccounted, SizeAssumption
      <3> QED
        BY <2>1, <3>1, <3>2 DEF HeapInv
    <2> QED
      BY <2>4, <2>5
  <1>8. CASE DestroyBegin \/ RunHandler \/ HandlerReturns \/ Over \/ UNCHANGED vars
    BY <1>8 DEF DestroyBegin, RunHandler, HandlerReturns, Over, vars, HeapInv
  <1>9. CASE DestroyRelease
    <2>1. Accounted(mem) /\ phase' = "done"
      BY <1>9 DEF DestroyRelease, HeapInv
    <2>2. Released = mem.heap
      BY <2>1 DEF Released, Accounted, Blk, Lrg, Listed
    <2>3. ~\E j, k \in Listed : j # k /\ mem.large[j] = mem.large[k]
      BY <2>1 DEF Listed, Accounted
    <2>4. mem'.heap = mem.heap \ Released
          /\ (mem'.wildFree = \/ mem.wildFree \/ ~(Released \subseteq mem.heap)
                              \/ \E j, k \in Listed : j # k /\ mem.large[j] = mem.large[k])
      BY <1>1, <1>9 DEF DestroyRelease, Memory
    <2>5. mem'.heap = {} /\ ~mem'.wildFree
      BY <2>1, <2>2, <2>3, <2>4 DEF Accounted
    <2> QED
      BY <2>1, <2>5 DEF HeapInv
  <1> QED
    BY <1>2, <1>3, <1>4, <1>5, <1>6, <1>7, <1>8, <1>9 DEF Next, DestroyStep

\* A number is put in front of a list that counts down, or taken from it.
LEMMA CountOn ==
  ASSUME NEW S, NEW s \in Seq(S), CountsDown(s), NEW x \in S, x = Len(s) + 1
  PROVE  CountsDown(<<x>> \o s) /\ Len(<<x>> \o s) = Len(s) + 1
  <1> DEFINE t == <<x>> \o s
  <1>1. /\ Len(s) \in Nat /\ DOMAIN s = 1 .. Len(s) /\ DOMAIN t = 1 .. Len(s) + 1
        /\ Len(t) = Len(s) + 1
        /\ t[1] = x /\ \A k \in 1 .. Len(s) : t[k + 1] = s[k]
    <2>1. <<x>> \in Seq(S) /\ Len(<<x>>) = 1 /\ <<x>>[1] = x
      OBVIOUS
    <2> QED
      BY <2>1, ConcatProperties
  <1>2. \A k \in 1 .. Len(s) + 1 : k # 1 => k - 1 \in 1 .. Len(s) /\ t[k] = s[k - 1]
    BY <1>1
  <1> HIDE DEF t
  <1>3. ASSUME NEW k \in 1 .. Len(s) + 1
        PROVE  t[k] = Len(s) + 1 + 1 - k
    <2>1. CASE k = 1
      BY <1>1, <2>1
    <2>2. CASE k # 1
      <3>1. k - 1 \in DOMAIN s /\ t[k] = s[k - 1]
        BY <1>1, <1>2, <2>2
      <3>2. s[k - 1] = Len(s) + 1 - (k - 1)
        BY <3>1 DEF CountsDown
      <3> QED
        BY <1>1, <3>1, <3>2
    <2> QED
      BY <2>1, <2>2
  <1>4. CountsDown(t) /\ Len(t) = Len(s) + 1
    BY <1>1, <1>3 DEF CountsDown
  <1> QED
    BY <1>4 DEF t

\* A list that counts down to 1 goes on doing so without its first element.
LEMMA CountOff ==
  ASSUME NEW S, NEW s \in Seq(S), CountsDown(s), s # <<>>
  PROVE  /\ CountsDown(Tail(s)) /\ Len(Tail(s)) = Len(s) - 1
         /\ Head(s) = Len(s) /\ Len(s) \in Nat \ {0}
  <1>1. /\ Len(s) \in Nat \ {0} /\ DOMAIN s = 1 .. Len(s)
        /\ Head(s) = s[1] /\ Len(Tail(s)) = Len(s) - 1
        /\ DOMAIN Tail(s) = 1 .. Len(s) - 1
        /\ \A k \in 1 .. Len(s) - 1 : Tail(s)[k] = s[k + 1]
    BY HeadTailProperties
  <1>2. s[1] = Len(s)
    BY <1>1 DEF CountsDown
  <1>3. ASSUME NEW k \in 1 .. Len(s) - 1
        PROVE  Tail(s)[k] = Len(s) - 1 + 1 - k
    <2>1. k + 1 \in DOMAIN s /\ Tail(s)[k] = s[k + 1]
      BY <1>1
    <2>2. s[k + 1] = Len(s) + 1 - (k + 1)
      BY <2>1 DEF CountsDown
    <2> QED
      BY <1>1, <2>1, <2>2
  <1>4. CountsDown(Tail(s))
    BY <1>1, <1>3 DEF CountsDown
  <1> QED
    BY <1>1, <1>2, <1>4

\* hcore_pool_cleanup_add numbers what it registers, also while
\* hcore_destroy_pool runs.
LEMMA RegisterOrder ==
  ASSUME IInv, OrderInv,
         NEW size \in Sizes \union {0}, NEW arm \in BOOLEAN, CleanupAdd(size, arm)
  PROVE  OrderInv'
  <1> DEFINE id == Len(cleanups) + 1
  <1>1. /\ cleanups \in Seq(1 .. MaxCleanups) /\ Len(cleanups) \in Nat
        /\ id \in 1 .. MaxCleanups /\ UNCHANGED <<phase, todo, due, ran>>
        /\ todo \in Seq(1 .. MaxCleanups) /\ Len(todo) \in Nat
    <2>1. cleanups \in Seq(1 .. MaxCleanups) /\ todo \in Seq(1 .. MaxCleanups)
      BY DEF IInv, TypeOK
    <2>2. Len(cleanups) \in Nat /\ Len(todo) \in Nat
      BY <2>1, LenProperties
    <2> QED
      BY <2>1, <2>2, BoundAssumption DEF CleanupAdd
  <1>2. \/ UNCHANGED <<cleanups, armed>>
        \/ cleanups' = Registered(id) /\ armed' \in {armed, armed \union {id}}
    BY DEF CleanupAdd
  <1>3. CASE UNCHANGED <<cleanups, armed>>
    BY <1>1, <1>3 DEF OrderInv
  <1>4. CASE cleanups' = Registered(id) /\ armed' \in {armed, armed \union {id}}
    <2>1. CountsDown(cleanups') /\ Len(cleanups') = id
      BY <1>1, <1>4, CountOn DEF OrderInv, Registered
    <2>2. armed' \subseteq 1 .. Len(cleanups')
      <3>1. 1 .. id = (1 .. Len(cleanups)) \union {id}
        BY <1>1
      <3> QED
        BY <1>4, <2>1, <3>1 DEF OrderInv
    <2>3. phase # "live" =>
            /\ Len(todo) <= Len(cleanups')
            /\ armed' \intersect (1 .. Len(todo)) = armed \intersect (1 .. Len(todo))
      <3>1. Len(todo) <= Len(cleanups) => Len(todo) <= id /\ id \notin 1 .. Len(todo)
        BY <1>1
      <3> HIDE DEF id
      <3> QED
        BY <1>4, <2>1, <3>1 DEF OrderInv
    <2> HIDE DEF id
    <2> QED
      BY <1>1, <2>1, <2>2, <2>3 DEF OrderInv
  <1> QED
    BY <1>2, <1>3, <1>4

\* hcore_destroy_pool visits the next cleanup.
LEMMA RunOrder ==
  ASSUME IInv, OrderInv, RunHandler
  PROVE  OrderInv'
  <1> DEFINE n == Len(todo)
  <1>1. /\ todo \in Seq(1 .. MaxCleanups) /\ todo # <<>> /\ ran \in Seq(1 .. MaxCleanups)
        /\ due \subseteq 1 .. MaxCleanups /\ phase = "cleaning"
        /\ Len(cleanups) \in Nat
    BY LenProperties DEF RunHandler, IInv, TypeOK
  <1>2. /\ CountsDown(todo') /\ Len(todo') = n - 1 /\ Head(todo) = n /\ n \in Nat \ {0}
    BY <1>1, CountOff DEF RunHandler, OrderInv
  <1>3. /\ UNCHANGED <<mem, cleanups, armed, due>>
        /\ \/ n \in armed /\ phase' = "handler" /\ ran' = Append(ran, n)
           \/ n \notin armed /\ UNCHANGED <<phase, ran>>
    BY <1>2 DEF RunHandler
  <1>4. 1 .. n = (1 .. n - 1) \union {n} /\ n \notin 1 .. n - 1
    BY <1>2
  <1>5. /\ n <= Len(cleanups)
        /\ armed \intersect (1 .. n) = due \intersect (1 .. n)
        /\ {ran[k] : k \in DOMAIN ran} = due \ (1 .. n)
        /\ \A k \in 1 .. Len(ran) - 1 : ran[k + 1] < ran[k]
    BY <1>1 DEF OrderInv
  <1> HIDE DEF n
  <1>6. n - 1 <= Len(cleanups)
    BY <1>1, <1>2, <1>5
  <1>7. armed \intersect (1 .. n - 1) = due \intersect (1 .. n - 1)
    BY <1>4, <1>5
  <1>8. n \in armed <=> n \in due
    BY <1>4, <1>5
  <1>9. /\ {ran'[k] : k \in DOMAIN ran'} = due \ (1 .. n - 1)
        /\ \A k \in 1 .. Len(ran') - 1 : ran'[k + 1] < ran'[k]
    <2>1. CASE n \notin armed /\ UNCHANGED <<phase, ran>>
      BY <1>4, <1>5, <1>8, <2>1
    <2>2. CASE n \in armed /\ ran' = Append(ran, n)
      <3> DEFINE t == Append(ran, n)
      <3>1. /\ Len(ran) \in Nat /\ DOMAIN ran = 1 .. Len(ran)
            /\ Len(t) = Len(ran) + 1 /\ DOMAIN t = 1 .. Len(ran) + 1
            /\ t[Len(ran) + 1] = n /\ \A k \in 1 .. Len(ran) : t[k] = ran[k]
        <4>1. n \in 1 .. MaxCleanups
          BY <1>1, <1>8, <2>2
        <4> QED
          BY <1>1, <4>1, AppendProperties
      <3> HIDE DEF t
      <3>2. 1 .. Len(ran) + 1 = (1 .. Len(ran)) \union {Len(ran) + 1}
        BY <3>1
      <3>3. {t[k] : k \in DOMAIN t} = {ran[k] : k \in DOMAIN ran} \union {n}
        BY <3>1, <3>2
      <3>4. due \ (1 .. n - 1) = (due \ (1 .. n)) \union {n}
        BY <1>4, <1>8, <2>2
      <3>5. ASSUME NEW k \in 1 .. Len(ran)
            PROVE  t[k + 1] < t[k]
        <4>1. ran[k] \in due \ (1 .. n)
          BY <1>5, <3>1
        <4>2. ran[k] \in Nat \ {0} /\ n < ran[k]
          <5> DEFINE r == ran[k]
          <5>1. r \in 1 .. MaxCleanups /\ r \notin 1 .. n
            BY <1>1, <4>1
          <5>2. n \in Nat \ {0}
            BY <1>2
          <5> HIDE DEF r
          <5>3. r \in Nat \ {0} /\ n < r
            BY <5>1, <5>2, BoundAssumption
          <5> QED
            BY <5>3 DEF r
        <4>3. CASE k = Len(ran)
          BY <3>1, <4>2, <4>3
        <4>4. CASE k # Len(ran)
          <5>1. Len(ran) \in Nat
            BY <3>1
          <5>2. k \in 1 .. Len(ran) - 1 /\ k + 1 \in 1 .. Len(ran)
            BY <4>4, <5>1
          <5> QED
            BY <1>5, <3>1, <5>2
        <4> QED
          BY <4>3, <4>4
      <3>6. Len(t) - 1 = Len(ran)
        BY <3>1
      <3>7. \A k \in 1 .. Len(t) - 1 : t[k + 1] < t[k]
        BY <3>5, <3>6
      <3>8. {t[k] : k \in DOMAIN t} = due \ (1 .. n - 1)
        BY <1>5, <3>3, <3>4
      <3> QED
        BY <2>2, <3>7, <3>8 DEF t
    <2> QED
      BY <1>3, <2>1, <2>2
  <1>10. phase' \in {"cleaning", "handler"}
    BY <1>1, <1>3
  <1> QED
    BY <1>2, <1>3, <1>6, <1>7, <1>9, <1>10 DEF OrderInv

\* The order of the handlers is kept by every action.
LEMMA OrderNext ==
  ASSUME IInv, OrderInv, [Next]_vars
  PROVE  OrderInv'
  <1>1. CASE UNCHANGED <<cleanups, armed, phase, todo, due, ran>>
    BY <1>1 DEF OrderInv
  <1>2. CASE \E size \in Sizes \union {0}, arm \in BOOLEAN : CleanupAdd(size, arm)
    BY <1>2, RegisterOrder
  <1>3. CASE DestroyBegin
    <2>1. /\ phase = "live" /\ phase' = "cleaning" /\ todo' = cleanups /\ due' = armed
          /\ UNCHANGED <<cleanups, armed, ran>>
      BY <1>3 DEF DestroyBegin
    <2>2. Len(cleanups) \in Nat
      BY LenProperties DEF IInv, TypeOK
    <2>3. CountsDown(cleanups) /\ armed \subseteq 1 .. Len(cleanups) /\ ran = <<>>
      BY <2>1 DEF OrderInv
    <2>4. DOMAIN ran = {} /\ 1 .. Len(ran) - 1 = {}
      BY <2>3
    <2>5. {ran[k] : k \in DOMAIN ran} = due' \ (1 .. Len(todo'))
      BY <2>1, <2>3, <2>4
    <2> QED
      BY <2>1, <2>2, <2>3, <2>4, <2>5 DEF OrderInv
  <1>4. CASE RunHandler
    BY <1>4, RunOrder
  <1>5. CASE HandlerReturns
    BY <1>5 DEF HandlerReturns, OrderInv
  <1>6. CASE DestroyRelease
    BY <1>6 DEF DestroyRelease, OrderInv
  <1> QED
    BY <1>1, <1>2, <1>3, <1>4, <1>5, <1>6 DEF Next, Over, vars, DestroyStep, OnlyMemory,
       Palloc, Pfree, ReallocLarge, Write, ReallocToNothing, ReallocInPlace, ReallocByCopy

\* At first the heap holds the first block, and no handler was registered.
LEMMA DestroyInit == Init => HeapInv /\ OrderInv
  <1> SUFFICES ASSUME Init PROVE HeapInv /\ OrderInv
    OBVIOUS
  <1>1. Accounted(mem)
    <2>1. mem.n = 1 /\ mem.large = <<>> /\ mem.heap = {BlockObj(1)} /\ ~mem.wildFree
      BY DEF Init
    <2>2. 1 .. mem.n = {1} /\ DOMAIN mem.large = {}
      BY <2>1
    <2>3. Blk(mem) = {BlockObj(1)} /\ Lrg(mem) = {}
      BY <2>2 DEF Blk, Lrg
    <2> QED
      BY <2>1, <2>2, <2>3 DEF Accounted
  <1>2. cleanups = <<>> /\ armed = {} /\ phase = "live" /\ ran = <<>>
    BY DEF Init
  <1>3. CountsDown(cleanups)
    BY <1>2 DEF CountsDown
  <1> QED
    BY <1>1, <1>2, <1>3 DEF HeapInv, OrderInv

\* hcore_destroy_pool frees every block and every large object once, also those
\* that cleanup handlers allocate or free while it runs.  (For a custom pool the
\* freeing is left to the functions it was made with.)
THEOREM DestroyedOnce ==
  ASSUME ~Customed
  PROVE  Spec => []DestroyFreesAll
  <1>1. IInv /\ HeapInv /\ [Next]_vars => HeapInv'
    BY HeapNext
  <1>2. HeapInv => DestroyFreesAll
    BY DEF HeapInv, DestroyFreesAll
  <1> QED
    BY <1>1, <1>2, DestroyInit, Invariance, PTL DEF Spec

\* The handlers that were registered before hcore_destroy_pool began are called
\* once each, last registered first, whatever handlers register themselves.
THEOREM LastRegisteredFirst == Spec => []HandlersInOrder
  <1>1. IInv /\ OrderInv /\ [Next]_vars => OrderInv'
    BY OrderNext
  <1>2. OrderInv => HandlersInOrder
    <2> SUFFICES ASSUME OrderInv, phase = "done"
                 PROVE  /\ \A k \in 1 .. Len(ran) - 1 : ran[k + 1] < ran[k]
                        /\ {ran[k] : k \in DOMAIN ran} = due
      BY DEF HandlersInOrder
    <2>1. todo = <<>> /\ 1 .. Len(todo) = {}
      BY DEF OrderInv
    <2> QED
      BY <2>1 DEF OrderInv
  <1> QED
    BY <1>1, <1>2, DestroyInit, Invariance, PTL DEF Spec
=============================================================================

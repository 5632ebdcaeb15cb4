---------------------------- MODULE ShPoolProofs ----------------------------
(***************************************************************************)
(* What is proved of ShPool for every number of pages that the pool has,   *)
(* any sizes of requests, any number of processes and of allocations: the  *)
(* free list, the counter of free pages and the lists of the slots are     *)
(* sound in every state, what clients hold stays taken, and no run is      *)
(* given away while a part of it is in use.                                *)
(*                                                                         *)
(* The invariant is Sound: the runs and the slab pages lie one behind the  *)
(* other (Layout), the free list is linked in both directions in the order *)
(* of the pages (Linked), pool->pfree counts (Counted), and every page of  *)
(* a class is in the list of its slot, or in none, as its bits in use say  *)
(* (ClassOK).  For each list update of the code a lemma says what it       *)
(* leaves in each descriptor (the lemmas that end in Fields); the others   *)
(* speak about those fields only.  A request and a free are sound one by   *)
(* one (AllocSound, FreeLockedSound), and so is every step (NextSound).    *)
(* For the allocations of clients there is HeldOK besides, which counts    *)
(* those in page 0, the only page that hcore_slab_free_locked finds.       *)
(***************************************************************************)
EXTENDS ShPool, TLAPS, FiniteSetTheorems, WellFoundedInduction
-----------------------------------------------------------------------------
(* Soundness of the pool: what every call inside the mutex relies on, and   *)
(* leaves behind.                                                           *)

\* The classes of chunks, and how a page of a class is marked.
Classes == MinShift .. PageShift - 1
TypeOf(shift) == IF shift < ExactShift THEN "small"
                 ELSE IF shift = ExactShift THEN "exact" ELSE "big"
Number(shift) == IF shift = ExactShift THEN 0 ELSE shift

InClass(d, k, shift) == k \in PageNodes /\ d[k].type = TypeOf(shift) /\ d[k].n = Number(shift)

\* The first pages of free runs, of runs in use, and the slab pages; how many
\* pages each of them stands for.
FreeStarts(d) == {k \in PageNodes : d[k].type = "page" /\ d[k].next # Null}
Heads(d) == FreeStarts(d) \union StartPages(d) \union SlabPages(d)
Extent(d, k) == IF d[k].type = "page" THEN d[k].n ELSE 1

\* The components of the state have their types.
Typed(s) ==
  /\ s = [desc |-> s.desc, bitmap |-> s.bitmap, pfree |-> s.pfree]
  /\ s.desc \in [Nodes -> Descriptor]
  /\ s.bitmap \in [PageNodes -> SUBSET Nat]

\* The runs and slab pages lie in the pool one behind the other.  Only page 0 can
\* be the start of a free run of no pages: JoinNext leaves such a run.
Layout(d) ==
  /\ \A k \in FreeStarts(d) : d[k].flag = "none"
  /\ \A k \in StartPages(d) : d[k].next = Null /\ d[k].n >= 1
  /\ \A k \in Heads(d) : k + Extent(d, k) <= Pages /\ (k # 0 => Extent(d, k) >= 1)
  /\ \A j, k \in Heads(d) : j < k => j + Extent(d, j) <= k

\* The free list is linked alike in both directions, in the order of the pages.
Linked(d) ==
  /\ \A k \in FreeStarts(d) \union {FreeHead} :
       d[k].next # FreeHead =>
         d[k].next \in FreeStarts(d) /\ d[k].next > k /\ d[d[k].next].prev = k
  /\ \A k \in FreeStarts(d) :
       d[k].prev \in FreeStarts(d) \union {FreeHead} /\ d[d[k].prev].next = k

\* pool->pfree counts the pages that no run and no slab page owns.
Counted(s) == s.pfree = Pages - Cardinality(TakenPages(s.desc))

\* The page that a slot leads to is of its class and leads back to it.
HeadOK(d, shift) ==
  LET slot == SlotNode(shift)  k == d[slot].next
  IN k # slot => InClass(d, k, shift) /\ d[k].prev = slot /\ d[k].next # Null

\* Page 0, the only one that hcore_slab_free_locked can put back, is the first in
\* its list, and has at most one page behind it.
ZeroOK(d, shift) ==
  LET slot == SlotNode(shift)  q == d[0].next
  IN InClass(d, 0, shift) /\ q # Null =>
       /\ d[0].prev = slot
       /\ q # slot => /\ q # 0 /\ InClass(d, q, shift)
                      /\ d[slot].next = 0 /\ d[q].prev = 0 /\ d[q].next = slot

\* A page in the list of its slot has a chunk left where the code looks for one.
\* Two chunks fill a page of 128-byte chunks, as the code sees it (TakenForFull).
RoomOK(s, k, shift) ==
  LET d == s.desc  slot == SlotNode(shift) IN
  /\ shift \in {3, 4} /\ d[k].next # Null => ~ SmallBits(shift) \subseteq s.bitmap[k]
  /\ shift = 7 => d[k].bits \subseteq {0, 1} /\ (d[k].next # Null => d[k].bits # {0, 1})
  /\ shift = ExactShift => d[k].bits \subseteq {0}
  /\ shift \notin {3, 4, 7} => d[k].next = slot /\ d[k].prev = slot

ClassOK(s, shift) ==
  /\ HeadOK(s.desc, shift) /\ ZeroOK(s.desc, shift)
  /\ \A k \in PageNodes : InClass(s.desc, k, shift) =>
       /\ k # 0 => s.desc[k].next \in {SlotNode(shift), Null}
       /\ RoomOK(s, k, shift)

SlotsOK(s) ==
  /\ \A k \in SlabPages(s.desc) : \E shift \in Classes : InClass(s.desc, k, shift)
  /\ \A shift \in Classes : ClassOK(s, shift)

PagesOK(s) == Typed(s) /\ Layout(s.desc) /\ Linked(s.desc) /\ Counted(s)
Sound(s) == PagesOK(s) /\ SlotsOK(s)

\* A set of numbers has a least element.
LEMMA Least ==
  ASSUME NEW C \in SUBSET Nat, C # {}
  PROVE  \E x \in C : \A y \in C : x <= y
  <1> DEFINE below == {0 .. x : x \in C}
  <1>1. below \subseteq FiniteSubsetsOf(Nat) /\ below # {}
    <2>1. \A x \in C : IsFiniteSet(0 .. x) /\ 0 .. x \subseteq Nat
      BY FS_Interval
    <2> QED
      BY <2>1 DEF FiniteSubsetsOf
  <1>2. PICK u \in below : \A v \in below : <<v, u>> \notin StrictSubsetOrdering(Nat)
    <2> HIDE DEF below
    <2> QED
      BY <1>1, WFMin, FS_StrictSubsetOrderingWellFounded
  <1>3. PICK x \in C : u = 0 .. x
    BY <1>2
  <1>4. ASSUME NEW y \in C, y < x
        PROVE  FALSE
    <2>1. <<0 .. y, 0 .. x>> \notin StrictSubsetOrdering(Nat)
      BY <1>2, <1>3
    <2>2. 0 .. y \subseteq 0 .. x /\ x \in 0 .. x /\ x \notin 0 .. y
      BY <1>4
    <2> QED
      BY <2>1, <2>2 DEF StrictSubsetOrdering
  <1> QED
    BY <1>4

\* What is true of 0, and of k + 1 when it is of k, is true of all numbers.
LEMMA Induction ==
  ASSUME NEW T, 0 \in T, \A k \in Nat : k \in T => k + 1 \in T
  PROVE  Nat \subseteq T
  <1> DEFINE C == Nat \ T
  <1> SUFFICES ASSUME C # {} PROVE FALSE
    OBVIOUS
  <1>1. PICK x \in C : \A y \in C : x <= y
    BY Least
  <1>2. x \in Nat /\ x # 0
    OBVIOUS
  <1>3. x - 1 \in Nat /\ ~(x <= x - 1) /\ (x - 1) + 1 = x
    BY <1>2
  <1>4. x - 1 \in T
    BY <1>1, <1>3
  <1> QED
    BY <1>3, <1>4
-----------------------------------------------------------------------------
(* Numbers and nodes.                                                       *)

\* The nodes of the lists as numbers: the descriptors of the pages, the slots in
\* front of them (hcore_slab_slots) and pool->free.
LEMMA Numbers ==
  /\ Pages \in 1 .. 11 /\ PageNodes = 0 .. Pages - 1 /\ PageNodes \subseteq Nodes
  /\ FreeHead = -9 /\ Null = -10 /\ Nodes = -9 .. Pages - 1 /\ SlotNodes = -8 .. -1
  /\ Classes = 3 .. 10
  /\ \A shift \in Classes : SlotNode(shift) = shift - 11 /\ SlotNode(shift) \in Nodes
  BY PoolAssumption DEF PageNodes, FreeHead, Null, Nodes, SlotNodes, NSlots, Classes, SlotNode,
                        PageShift, MinShift

\* Nodes are integers, and pages the ones from 0 on.
LEMMA Bounds ==
  /\ Pages \in Int /\ 1 <= Pages /\ Pages <= 11
  /\ \A k \in Nodes : k \in Int
  /\ \A k \in PageNodes : k \in Nodes /\ k \in Int /\ 0 <= k /\ k < Pages
  /\ \A k \in Int : 0 <= k /\ k < Pages => k \in PageNodes
  /\ Null \notin Nodes /\ FreeHead \in Nodes /\ FreeHead \notin PageNodes
  <1>1. Pages \in Int /\ 1 <= Pages /\ Pages <= 11
    BY PoolAssumption
  <1>2. Nodes = -9 .. Pages - 1 /\ PageNodes = 0 .. Pages - 1 /\ Null = -10 /\ FreeHead = -9
    BY Numbers
  <1>3. \A k \in Nodes : k \in Int
    BY <1>1, <1>2
  <1>4. \A k \in PageNodes : k \in Nodes /\ k \in Int /\ 0 <= k /\ k < Pages
    BY <1>1, <1>2
  <1>5. Null \notin Nodes /\ FreeHead \in Nodes /\ FreeHead \notin PageNodes
    BY <1>1, <1>2
  <1> QED
    BY <1>1, <1>2, <1>3, <1>4, <1>5

\* The slots lie before the pages.
LEMMA SlotBounds ==
  \A j \in SlotNodes : j \in Nodes /\ j \in Int /\ j < 0 /\ j \notin PageNodes
                       /\ j # FreeHead /\ j # Null
  <1> SUFFICES ASSUME NEW j \in SlotNodes
               PROVE  j \in Nodes /\ j \in Int /\ j < 0 /\ j \notin PageNodes
                      /\ j # FreeHead /\ j # Null
    OBVIOUS
  <1>1. j \in Int /\ -8 <= j /\ j <= -1
    <2>1. SlotNodes = -8 .. -1
      BY Numbers
    <2> QED
      BY <2>1
  <1> QED
    BY <1>1, Numbers
-----------------------------------------------------------------------------
(* Walks along a list.                                                      *)

NextOf(d, head, k) == IF k \in {head, Null} THEN k ELSE d[k].next

WalkStep(d, head, f, i) == IF i = 0 THEN d[head].next ELSE NextOf(d, head, f[i - 1])

\* A walk starts behind the head and follows the links.
LEMMA WalkFollows ==
  ASSUME NEW d, NEW head
  PROVE  /\ Walk(d, head)[0] = d[head].next
         /\ \A i \in 1 .. Pages : Walk(d, head)[i] = NextOf(d, head, Walk(d, head)[i - 1])
  <1> DEFINE Is(f) == f = [i \in 0 .. Pages |-> WalkStep(d, head, f, i)]
             Settled(f, k) == \A i \in 0 .. Pages : i <= k => f[i] = WalkStep(d, head, f, i)
             T == {k \in Nat : \E f : DOMAIN f = 0 .. Pages /\ Settled(f, k)}
  <1>1. Pages \in Nat
    BY Numbers
  <1>2. 0 \in T
    <2> DEFINE f == [i \in 0 .. Pages |-> d[head].next]
    <2>1. DOMAIN f = 0 .. Pages /\ \A i \in 0 .. Pages : i <= 0 => f[i] = WalkStep(d, head, f, i)
      BY <1>1 DEF WalkStep
    <2> QED
      BY <2>1
  <1>3. ASSUME NEW k \in Nat, k \in T
        PROVE  k + 1 \in T
    <2>1. PICK f : DOMAIN f = 0 .. Pages /\ \A i \in 0 .. Pages : i <= k => f[i] = WalkStep(d, head, f, i)
      BY <1>3
    <2> DEFINE g == [i \in 0 .. Pages |-> WalkStep(d, head, f, i)]
    <2>2. \A i \in 0 .. Pages : i <= k => g[i] = f[i]
      BY <2>1
    <2>3. \A i \in 0 .. Pages : g[i] = WalkStep(d, head, f, i)
      OBVIOUS
    <2>4. DOMAIN g = 0 .. Pages
      OBVIOUS
    <2> HIDE DEF g
    <2>5. ASSUME NEW i \in 0 .. Pages, i <= k + 1
          PROVE  g[i] = WalkStep(d, head, g, i)
      <3>1. CASE i = 0
        BY <2>3, <3>1 DEF WalkStep
      <3>2. CASE i # 0
        <4>1. i - 1 \in 0 .. Pages /\ i - 1 <= k
          BY <1>1, <2>5, <3>2
        <4>2. g[i - 1] = f[i - 1]
          BY <2>2, <4>1
        <4> QED
          BY <2>3, <3>2, <4>2 DEF WalkStep
      <3> QED
        BY <3>1, <3>2
    <2>6. DOMAIN g = 0 .. Pages /\ Settled(g, k + 1)
      BY <2>4, <2>5
    <2> HIDE DEF Settled
    <2> QED
      BY <2>6
  <1>4. Pages \in T
    <2> HIDE DEF T
    <2> QED
      BY <1>1, <1>2, <1>3, Induction
  <1>5. \E f : Is(f)
    <2>1. PICK f : DOMAIN f = 0 .. Pages /\ \A i \in 0 .. Pages : i <= Pages => f[i] = WalkStep(d, head, f, i)
      BY <1>4
    <2> DEFINE g == [i \in 0 .. Pages |-> f[i]]
    <2>2. \A i \in 0 .. Pages : g[i] = f[i]
      OBVIOUS
    <2>3. \A i \in 0 .. Pages : f[i] = WalkStep(d, head, f, i)
      BY <1>1, <2>1
    <2>4. \A i \in 0 .. Pages : WalkStep(d, head, f, i) = WalkStep(d, head, g, i)
      <3> SUFFICES ASSUME NEW i \in 0 .. Pages PROVE WalkStep(d, head, f, i) = WalkStep(d, head, g, i)
        OBVIOUS
      <3>1. CASE i = 0
        BY <3>1 DEF WalkStep
      <3>2. CASE i # 0
        <4>1. i - 1 \in 0 .. Pages
          BY <1>1, <3>2
        <4>2. g[i - 1] = f[i - 1]
          BY <2>2, <4>1
        <4> HIDE DEF g
        <4> QED
          BY <3>2, <4>2 DEF WalkStep
      <3> QED
        BY <3>1, <3>2
    <2>5. g = [i \in 0 .. Pages |-> WalkStep(d, head, g, i)]
      BY <2>3, <2>4
    <2> QED
      BY <2>5
  <1> DEFINE w == CHOOSE f : Is(f)
  <1>6. Walk(d, head) = w
    BY DEF Walk, WalkStep, NextOf
  <1>7. Is(w)
    <2> HIDE DEF Is
    <2> QED
      BY <1>5
  <1> HIDE DEF w
  <1>8. \A i \in 0 .. Pages : w[i] = WalkStep(d, head, w, i)
    BY <1>7
  <1>9. w[0] = d[head].next
    BY <1>1, <1>8 DEF WalkStep
  <1>10. ASSUME NEW i \in 1 .. Pages
         PROVE  w[i] = NextOf(d, head, w[i - 1])
    <2>1. i \in 0 .. Pages /\ i # 0
      BY <1>1
    <2> QED
      BY <1>8, <2>1 DEF WalkStep
  <1> QED
    BY <1>6, <1>9, <1>10

\* A walk stays among the nodes that the links lead to.
LEMMA WalkStays ==
  ASSUME NEW d, NEW head, NEW S, d[head].next \in S \union {head},
         \A k \in S : d[k].next \in S \union {head}
  PROVE  \A i \in 0 .. Pages : Walk(d, head)[i] \in S \union {head}
  <1> DEFINE w == Walk(d, head)
             T == {i \in Nat : i <= Pages => w[i] \in S \union {head}}
  <1>1. /\ w[0] = d[head].next
        /\ \A i \in 1 .. Pages : w[i] = NextOf(d, head, w[i - 1])
    BY WalkFollows
  <1> HIDE DEF w
  <1>2. Pages \in Nat
    BY Numbers
  <1>3. 0 \in T
    BY <1>1
  <1>4. ASSUME NEW k \in Nat, k \in T
        PROVE  k + 1 \in T
    <2> SUFFICES ASSUME k + 1 <= Pages PROVE w[k + 1] \in S \union {head}
      OBVIOUS
    <2>1. k <= Pages /\ k + 1 \in 1 .. Pages /\ (k + 1) - 1 = k
      BY <1>2
    <2>2. w[k] \in S \union {head}
      BY <1>4, <2>1
    <2>3. w[k + 1] = NextOf(d, head, w[k])
      BY <1>1, <2>1
    <2> QED
      BY <2>2, <2>3 DEF NextOf
  <1>5. Nat \subseteq T
    <2> HIDE DEF T
    <2> QED
      BY <1>3, <1>4, Induction
  <1> QED
    BY <1>2, <1>5 DEF w

\* The free list is in the order of addresses, so that a walk along it is back
\* at the head after at most as many links as there are pages.
LEMMA FreeWalk ==
  ASSUME NEW d, Linked(d)
  PROVE  /\ \A i \in 0 .. Pages : FreeRun(d)[i] \in FreeStarts(d) \union {FreeHead}
         /\ FreeRun(d)[Pages] = FreeHead
  <1> DEFINE w == FreeRun(d)
             T == {i \in Nat : i <= Pages => w[i] = FreeHead \/ w[i] >= i}
  <1>1. /\ w[0] = d[FreeHead].next
        /\ \A i \in 1 .. Pages : w[i] = NextOf(d, FreeHead, w[i - 1])
    BY WalkFollows DEF FreeRun
  <1>2. \A i \in 0 .. Pages : w[i] \in FreeStarts(d) \union {FreeHead}
    BY WalkStays DEF FreeRun, Linked
  <1> HIDE DEF w
  <1>3. /\ Pages \in Nat /\ FreeStarts(d) \subseteq 0 .. Pages - 1
        /\ FreeHead = -9 /\ Null = -10
    BY Numbers DEF FreeStarts
  <1>4. 0 \in T
    BY <1>1, <1>2, <1>3
  <1>5. ASSUME NEW k \in Nat, k \in T
        PROVE  k + 1 \in T
    <2> SUFFICES ASSUME k + 1 <= Pages PROVE w[k + 1] = FreeHead \/ w[k + 1] >= k + 1
      OBVIOUS
    <2>1. k <= Pages /\ k + 1 \in 1 .. Pages /\ (k + 1) - 1 = k /\ k \in 0 .. Pages /\ k + 1 \in 0 .. Pages
      BY <1>3
    <2>2. (w[k] = FreeHead \/ w[k] >= k) /\ w[k] \in FreeStarts(d) \union {FreeHead}
      BY <1>2, <1>5, <2>1
    <2>3. w[k + 1] = NextOf(d, FreeHead, w[k])
      BY <1>1, <2>1
    <2>4. CASE w[k] = FreeHead
      BY <2>3, <2>4 DEF NextOf
    <2>5. CASE w[k] # FreeHead
      <3>1. w[k] \in FreeStarts(d) /\ w[k] >= k /\ w[k] \in 0 .. Pages - 1
        BY <1>3, <2>2, <2>5
      <3>2. w[k + 1] = d[w[k]].next
        BY <1>3, <2>3, <3>1 DEF NextOf
      <3>3. w[k + 1] = FreeHead \/ w[k + 1] > w[k]
        BY <3>1, <3>2 DEF Linked
      <3>4. w[k + 1] \in 0 .. Pages - 1 \/ w[k + 1] = FreeHead
        BY <1>2, <1>3, <2>1
      <3> QED
        BY <1>3, <3>1, <3>3, <3>4
    <2> QED
      BY <2>4, <2>5
  <1>6. Nat \subseteq T
    <2> HIDE DEF T
    <2> QED
      BY <1>4, <1>5, Induction
  <1>7. w[Pages] = FreeHead \/ w[Pages] >= Pages
    BY <1>3, <1>6
  <1> QED
    BY <1>2, <1>3, <1>7 DEF w
-----------------------------------------------------------------------------
(* Fields of descriptors.                                                   *)

Descs == [Nodes -> Descriptor]

\* e differs from d in the links and types of a list at most.
SameRest(d, e, j) == e[j].n = d[j].n /\ e[j].flag = d[j].flag /\ e[j].bits = d[j].bits

\* The fields of a descriptor have their types.
LEMMA Fields ==
  ASSUME NEW d \in Descs, NEW k \in Nodes
  PROVE  /\ d[k] \in Descriptor
         /\ d[k].n \in 0 .. 11 /\ d[k].n \in 0 .. Pages \union 0 .. PageShift
         /\ d[k].flag \in {"none", "start", "busy"} /\ d[k].bits \in SUBSET (0 .. WordBits - 1)
         /\ d[k].prev \in Nodes \union {Null} /\ d[k].next \in Nodes \union {Null}
         /\ d[k].type \in Types
  <1>1. d[k] \in Descriptor
    BY DEF Descs
  <1> DEFINE N == 0 .. Pages \union 0 .. PageShift
             B == SUBSET (0 .. WordBits - 1)
  <1>2. Descriptor = [n : N, flag : {"none", "start", "busy"}, bits : B,
                      prev : Nodes \union {Null}, type : Types, next : Nodes \union {Null}]
    BY DEF Descriptor
  <1>3. N \subseteq 0 .. 11
    BY Bounds DEF PageShift
  <1> HIDE DEF N, B
  <1>4. /\ d[k].n \in N /\ d[k].flag \in {"none", "start", "busy"} /\ d[k].bits \in B
        /\ d[k].prev \in Nodes \union {Null} /\ d[k].next \in Nodes \union {Null}
        /\ d[k].type \in Types
    BY <1>1, <1>2
  <1> QED
    BY <1>1, <1>3, <1>4 DEF N, B

\* A descriptor with one link or its type changed, and all of them with one
\* link or type of node a changed.
WithNext(r, x) == [r EXCEPT !.next = x]
WithPrev(r, x) == [r EXCEPT !.prev = x]
WithType(r, x) == [r EXCEPT !.type = x]
PutNext(d, a, x) == [d EXCEPT ![a].next = x]
PutPrev(d, a, x) == [d EXCEPT ![a].prev = x]
PutType(d, a, x) == [d EXCEPT ![a].type = x]

\* A descriptor with another next is one still.
LEMMA WithNextIs ==
  ASSUME NEW r \in Descriptor, NEW x \in Nodes \union {Null}
  PROVE  /\ WithNext(r, x) \in Descriptor /\ WithNext(r, x).next = x
         /\ WithNext(r, x).prev = r.prev /\ WithNext(r, x).type = r.type
         /\ WithNext(r, x).n = r.n /\ WithNext(r, x).flag = r.flag /\ WithNext(r, x).bits = r.bits
  <1> DEFINE N == 0 .. Pages \union 0 .. PageShift
             B == SUBSET (0 .. WordBits - 1)
             L == Nodes \union {Null}
  <1>1. Descriptor = [n : N, flag : {"none", "start", "busy"}, bits : B,
                      prev : L, type : Types, next : L]
    BY DEF Descriptor
  <1>2. x \in L
    OBVIOUS
  <1> HIDE DEF N, B, L
  <1> QED
    BY <1>1, <1>2 DEF WithNext

\* An assignment of next changes the next of one node.
LEMMA PutNextIs ==
  ASSUME NEW d \in Descs, NEW a, NEW x \in Nodes \union {Null}
  PROVE  /\ PutNext(d, a, x) \in Descs
         /\ \A j \in Nodes : /\ SameRest(d, PutNext(d, a, x), j)
                             /\ PutNext(d, a, x)[j].next = (IF j = a THEN x ELSE d[j].next)
                             /\ PutNext(d, a, x)[j].prev = d[j].prev
                             /\ PutNext(d, a, x)[j].type = d[j].type
  <1> DEFINE e == PutNext(d, a, x)
  <1>1. d \in [Nodes -> Descriptor]
    BY DEF Descs
  <1>2. DOMAIN e = Nodes /\ e = [j \in Nodes |-> e[j]]
        /\ \A j \in Nodes : e[j] = IF j = a THEN WithNext(d[j], x) ELSE d[j]
    BY <1>1 DEF PutNext, WithNext
  <1> HIDE DEF e
  <1>3. ASSUME NEW j \in Nodes
        PROVE  /\ SameRest(d, e, j) /\ e[j] \in Descriptor
               /\ e[j].next = (IF j = a THEN x ELSE d[j].next)
               /\ e[j].prev = d[j].prev /\ e[j].type = d[j].type
    <2>1. d[j] \in Descriptor
      BY <1>1
    <2>2. CASE j = a
      BY <1>2, <2>1, <2>2, WithNextIs DEF SameRest
    <2>3. CASE j # a
      BY <1>2, <2>1, <2>3 DEF SameRest
    <2> QED
      BY <2>2, <2>3
  <1>4. e \in Descs
    BY <1>2, <1>3 DEF Descs
  <1> QED
    BY <1>3, <1>4 DEF e

\* A descriptor with another prev is one still.
LEMMA WithPrevIs ==
  ASSUME NEW r \in Descriptor, NEW x \in Nodes \union {Null}
  PROVE  /\ WithPrev(r, x) \in Descriptor /\ WithPrev(r, x).prev = x
         /\ WithPrev(r, x).next = r.next /\ WithPrev(r, x).type = r.type
         /\ WithPrev(r, x).n = r.n /\ WithPrev(r, x).flag = r.flag /\ WithPrev(r, x).bits = r.bits
  <1> DEFINE N == 0 .. Pages \union 0 .. PageShift
             B == SUBSET (0 .. WordBits - 1)
             L == Nodes \union {Null}
  <1>1. Descriptor = [n : N, flag : {"none", "start", "busy"}, bits : B,
                      prev : L, type : Types, next : L]
    BY DEF Descriptor
  <1>2. x \in L
    OBVIOUS
  <1> HIDE DEF N, B, L
  <1> QED
    BY <1>1, <1>2 DEF WithPrev

\* An assignment of prev changes the prev of one node.
LEMMA PutPrevIs ==
  ASSUME NEW d \in Descs, NEW a, NEW x \in Nodes \union {Null}
  PROVE  /\ PutPrev(d, a, x) \in Descs
         /\ \A j \in Nodes : /\ SameRest(d, PutPrev(d, a, x), j)
                             /\ PutPrev(d, a, x)[j].prev = (IF j = a THEN x ELSE d[j].prev)
                             /\ PutPrev(d, a, x)[j].next = d[j].next
                             /\ PutPrev(d, a, x)[j].type = d[j].type
  <1> DEFINE e == PutPrev(d, a, x)
  <1>1. d \in [Nodes -> Descriptor]
    BY DEF Descs
  <1>2. DOMAIN e = Nodes /\ e = [j \in Nodes |-> e[j]]
        /\ \A j \in Nodes : e[j] = IF j = a THEN WithPrev(d[j], x) ELSE d[j]
    BY <1>1 DEF PutPrev, WithPrev
  <1> HIDE DEF e
  <1>3. ASSUME NEW j \in Nodes
        PROVE  /\ SameRest(d, e, j) /\ e[j] \in Descriptor
               /\ e[j].prev = (IF j = a THEN x ELSE d[j].prev)
               /\ e[j].next = d[j].next /\ e[j].type = d[j].type
    <2>1. d[j] \in Descriptor
      BY <1>1
    <2>2. CASE j = a
      BY <1>2, <2>1, <2>2, WithPrevIs DEF SameRest
    <2>3. CASE j # a
      BY <1>2, <2>1, <2>3 DEF SameRest
    <2> QED
      BY <2>2, <2>3
  <1>4. e \in Descs
    BY <1>2, <1>3 DEF Descs
  <1> QED
    BY <1>3, <1>4 DEF e

\* A descriptor with another type in the low bits of prev is one still.
LEMMA WithTypeIs ==
  ASSUME NEW r \in Descriptor, NEW x \in Types
  PROVE  /\ WithType(r, x) \in Descriptor /\ WithType(r, x).type = x
         /\ WithType(r, x).next = r.next /\ WithType(r, x).prev = r.prev
         /\ WithType(r, x).n = r.n /\ WithType(r, x).flag = r.flag /\ WithType(r, x).bits = r.bits
  <1> DEFINE N == 0 .. Pages \union 0 .. PageShift
             B == SUBSET (0 .. WordBits - 1)
             L == Nodes \union {Null}
  <1>1. Descriptor = [n : N, flag : {"none", "start", "busy"}, bits : B,
                      prev : L, type : Types, next : L]
    BY DEF Descriptor
  <1>2. x \in Types
    OBVIOUS
  <1> HIDE DEF N, B, L
  <1> QED
    BY <1>1, <1>2 DEF WithType

\* An assignment of the type changes the type of one node.
LEMMA PutTypeIs ==
  ASSUME NEW d \in Descs, NEW a, NEW x \in Types
  PROVE  /\ PutType(d, a, x) \in Descs
         /\ \A j \in Nodes : /\ SameRest(d, PutType(d, a, x), j)
                             /\ PutType(d, a, x)[j].type = (IF j = a THEN x ELSE d[j].type)
                             /\ PutType(d, a, x)[j].next = d[j].next
                             /\ PutType(d, a, x)[j].prev = d[j].prev
  <1> DEFINE e == PutType(d, a, x)
  <1>1. d \in [Nodes -> Descriptor]
    BY DEF Descs
  <1>2. DOMAIN e = Nodes /\ e = [j \in Nodes |-> e[j]]
        /\ \A j \in Nodes : e[j] = IF j = a THEN WithType(d[j], x) ELSE d[j]
    BY <1>1 DEF PutType, WithType
  <1> HIDE DEF e
  <1>3. ASSUME NEW j \in Nodes
        PROVE  /\ SameRest(d, e, j) /\ e[j] \in Descriptor
               /\ e[j].type = (IF j = a THEN x ELSE d[j].type)
               /\ e[j].next = d[j].next /\ e[j].prev = d[j].prev
    <2>1. d[j] \in Descriptor
      BY <1>1
    <2>2. CASE j = a
      BY <1>2, <2>1, <2>2, WithTypeIs DEF SameRest
    <2>3. CASE j # a
      BY <1>2, <2>1, <2>3 DEF SameRest
    <2> QED
      BY <2>2, <2>3
  <1>4. e \in Descs
    BY <1>2, <1>3 DEF Descs
  <1> QED
    BY <1>3, <1>4 DEF e

\* What the unlinking of a page leaves in each descriptor: its neighbours are
\* linked, with the type of the page.
LEMMA UnlinkFields ==
  ASSUME NEW d \in Descs, NEW k \in Nodes
  PROVE  /\ Unlink(d, k) \in Descs
         /\ \A j \in Nodes :
              /\ SameRest(d, Unlink(d, k), j)
              /\ Unlink(d, k)[j].next = (IF j = d[k].prev THEN d[k].next ELSE d[j].next)
              /\ Unlink(d, k)[j].prev = (IF j = d[k].next THEN d[k].prev ELSE d[j].prev)
              /\ Unlink(d, k)[j].type = (IF j = d[k].next THEN d[k].type ELSE d[j].type)
  <1> DEFINE p == d[k].prev
             q == d[k].next
             t == d[k].type
             d1 == PutNext(d, p, q)
             d2 == PutPrev(d1, q, p)
             d3 == PutType(d2, q, t)
  <1>1. p \in Nodes \union {Null} /\ q \in Nodes \union {Null} /\ t \in Types
    BY Fields
  <1>2. Unlink(d, k) = d3
    BY DEF Unlink, PutNext, PutPrev, PutType
  <1> HIDE DEF p, q, t
  <1>3. /\ d1 \in Descs
        /\ \A j \in Nodes : /\ SameRest(d, d1, j) /\ d1[j].next = (IF j = p THEN q ELSE d[j].next)
                            /\ d1[j].prev = d[j].prev /\ d1[j].type = d[j].type
    BY <1>1, PutNextIs
  <1> HIDE DEF d1
  <1>4. /\ d2 \in Descs
        /\ \A j \in Nodes : /\ SameRest(d1, d2, j) /\ d2[j].prev = (IF j = q THEN p ELSE d1[j].prev)
                            /\ d2[j].next = d1[j].next /\ d2[j].type = d1[j].type
    BY <1>1, <1>3, PutPrevIs
  <1> HIDE DEF d2
  <1>5. /\ d3 \in Descs
        /\ \A j \in Nodes : /\ SameRest(d2, d3, j) /\ d3[j].type = (IF j = q THEN t ELSE d2[j].type)
                            /\ d3[j].next = d2[j].next /\ d3[j].prev = d2[j].prev
    BY <1>1, <1>4, PutTypeIs
  <1> HIDE DEF d3
  <1>6. \A j \in Nodes : /\ SameRest(d, d3, j)
                         /\ d3[j].next = (IF j = p THEN q ELSE d[j].next)
                         /\ d3[j].prev = (IF j = q THEN p ELSE d[j].prev)
                         /\ d3[j].type = (IF j = q THEN t ELSE d[j].type)
    BY <1>3, <1>4, <1>5 DEF SameRest
  <1> QED
    BY <1>2, <1>5, <1>6 DEF p, q, t

-----------------------------------------------------------------------------
(* hcore_slab_alloc_pages.                                                  *)

\* The descriptors when the first k pages of the free run at page are taken.
CutOff(d, page, k) ==
  Taken(IF k < d[page].n THEN Split(d, page, k) ELSE Unlink(d, page), page, k)

\* Descriptors as hcore_slab_alloc_pages writes them.
Busy(r) == [r EXCEPT !.n = 0, !.flag = "busy", !.bits = {}, !.next = Null]
Rest(r, k) == [r EXCEPT !.n = @ - k]
Put(d, a, r) == [d EXCEPT ![a] = r]

\* HCORE_SLAB_PAGE_BUSY leaves a page that is in no list and keeps its type.
LEMMA BusyIs ==
  ASSUME NEW r \in Descriptor
  PROVE  /\ Busy(r) \in Descriptor /\ Busy(r).next = Null /\ Busy(r).flag = "busy"
         /\ Busy(r).type = r.type /\ Busy(r).prev = r.prev
  <1> DEFINE N == 0 .. Pages \union 0 .. PageShift
             B == SUBSET (0 .. WordBits - 1)
             L == Nodes \union {Null}
  <1>1. Descriptor = [n : N, flag : {"none", "start", "busy"}, bits : B,
                      prev : L, type : Types, next : L]
    BY DEF Descriptor
  <1>2. 0 \in N /\ {} \in B /\ Null \in L
    BY Numbers DEF PageShift
  <1> HIDE DEF N, B, L
  <1> QED
    BY <1>1, <1>2 DEF Busy

\* The rest of a run that is cut is a run of the pages that are left.
LEMMA RestIs ==
  ASSUME NEW r \in Descriptor, NEW k \in 0 .. r.n
  PROVE  /\ Rest(r, k) \in Descriptor /\ Rest(r, k).n = r.n - k /\ Rest(r, k).flag = r.flag
         /\ Rest(r, k).type = r.type /\ Rest(r, k).prev = r.prev /\ Rest(r, k).next = r.next
  <1> DEFINE N == 0 .. Pages \union 0 .. PageShift
             B == SUBSET (0 .. WordBits - 1)
             L == Nodes \union {Null}
  <1>1. Descriptor = [n : N, flag : {"none", "start", "busy"}, bits : B,
                      prev : L, type : Types, next : L]
    BY DEF Descriptor
  <1>2. r.n \in N
    BY <1>1
  <1>3. r.n - k \in N
    <2>1. r.n \in Int /\ 0 <= r.n /\ (r.n <= Pages \/ r.n <= 11)
      BY <1>2, Bounds DEF PageShift
    <2>2. k \in Int /\ 0 <= k /\ k <= r.n
      BY <2>1
    <2> QED
      BY <2>1, <2>2, Bounds DEF PageShift
  <1> HIDE DEF N, B, L
  <1> QED
    BY <1>1, <1>3 DEF Rest

\* A descriptor that is overwritten as a whole.
LEMMA PutIs ==
  ASSUME NEW d \in Descs, NEW a \in Nodes, NEW r \in Descriptor
  PROVE  /\ Put(d, a, r) \in Descs /\ Put(d, a, r)[a] = r
         /\ \A j \in Nodes : j # a => Put(d, a, r)[j] = d[j]
  BY DEF Put, Descs

\* What the marking of a run in hcore_slab_alloc_pages leaves in each descriptor:
\* a first page with the length, and busy ones.
LEMMA TakenFields ==
  ASSUME NEW d \in Descs, NEW page \in PageNodes, NEW k \in 1 .. Pages
  PROVE  /\ Taken(d, page, k) \in Descs
         /\ Taken(d, page, k)[page].n = k /\ Taken(d, page, k)[page].flag = "start"
         /\ Taken(d, page, k)[page].type = "page" /\ Taken(d, page, k)[page].next = Null
         /\ \A j \in Nodes : j \in page + 1 .. page + k - 1 => Taken(d, page, k)[j] = Busy(d[j])
         /\ \A j \in Nodes : j \notin page .. page + k - 1 => Taken(d, page, k)[j] = d[j]
  <1> DEFINE e == Taken(d, page, k)
             first == [Blank EXCEPT !.n = k, !.flag = "start"]
  <1>1. page \in Nodes /\ page \in Int /\ k \in Int /\ k >= 1 /\ Nodes \subseteq Int
    BY Numbers
  <1>2. /\ e[page] = first
        /\ \A j \in Nodes : j # page /\ j \in page + 1 .. page + k - 1 => e[j] = Busy(d[j])
        /\ \A j \in Nodes : j # page /\ j \notin page + 1 .. page + k - 1 => e[j] = d[j]
        /\ e = [j \in Nodes |-> e[j]]
    BY <1>1 DEF Taken, Busy
  <1>3. /\ first.n = k /\ first.flag = "start" /\ first.type = "page" /\ first.next = Null
        /\ first \in Descriptor
    <2> DEFINE N == 0 .. Pages \union 0 .. PageShift
               B == SUBSET (0 .. WordBits - 1)
               L == Nodes \union {Null}
    <2>1. Descriptor = [n : N, flag : {"none", "start", "busy"}, bits : B,
                        prev : L, type : Types, next : L]
      BY DEF Descriptor
    <2>2. k \in N /\ {} \in B /\ Null \in L /\ "page" \in Types
      BY Bounds DEF Types
    <2> HIDE DEF N, B, L
    <2> QED
      BY <2>1, <2>2 DEF Blank
  <1> HIDE DEF e, first
  <1>5. \A j \in Nodes : j \in page + 1 .. page + k - 1 => e[j] = Busy(d[j])
    BY <1>1, <1>2
  <1>6. \A j \in Nodes : j \notin page .. page + k - 1 => e[j] = d[j]
    BY <1>1, <1>2
  <1>7. \A j \in Nodes : e[j] \in Descriptor
    <2> SUFFICES ASSUME NEW j \in Nodes PROVE e[j] \in Descriptor
      OBVIOUS
    <2>1. d[j] \in Descriptor /\ Busy(d[j]) \in Descriptor
      BY BusyIs DEF Descs
    <2> QED
      BY <1>2, <1>3, <2>1
  <1>8. e \in Descs
    BY <1>2, <1>7 DEF Descs
  <1> QED
    BY <1>2, <1>3, <1>5, <1>6, <1>8 DEF e

\* A run of n pages at page whose first k are cut off it: the rest takes its
\* place between its neighbours.
LEMMA SplitFields ==
  ASSUME NEW d \in Descs, NEW page \in PageNodes, NEW k \in 1 .. d[page].n - 1,
         page + d[page].n <= Pages,
         d[page].type = "page", d[page + d[page].n - 1].type = "page",
         d[page].prev \notin page .. page + d[page].n - 1,
         d[page].next \notin page .. page + d[page].n - 1
  PROVE  LET e == Split(d, page, k)
             rest == page + k
             last == page + d[page].n - 1
             p == d[page].prev
             q == d[page].next
         IN /\ e \in Descs
            /\ /\ e[rest].n = d[page].n - k /\ e[rest].flag = d[page].flag
               /\ e[rest].prev = p /\ e[rest].next = q
            /\ \A j \in Nodes :
                 /\ e[j].type = (IF j = rest THEN "page" ELSE d[j].type)
                 /\ j # rest =>
                      /\ SameRest(d, e, j)
                      /\ e[j].next = (IF j = p THEN rest ELSE d[j].next)
                      /\ j # last => e[j].prev = (IF j = q THEN rest ELSE d[j].prev)
  <1> DEFINE n == d[page].n
             rest == page + k
             last == page + n - 1
             p == d[page].prev
             q == d[page].next
             d1 == PutPrev(d, last, rest)
             d2 == PutType(d1, last, "page")
             r == Rest(d2[page], k)
             d3 == Put(d2, rest, r)
             d4 == PutNext(d3, p, rest)
             d5 == PutPrev(d4, q, rest)
  <1>1. Split(d, page, k) = d5
    BY DEF Split, Rest, Put, PutPrev, PutType, PutNext
  <1>2. /\ page \in Nodes /\ page \in Int /\ n \in Int /\ k \in Int /\ rest \in Nodes /\ last \in Nodes
        /\ rest \in PageNodes /\ rest # page /\ last # page /\ k \in 0 .. n
        /\ p \in Nodes \union {Null} /\ q \in Nodes \union {Null} /\ p # rest /\ q # rest /\ p # last /\ q # last
        /\ rest \in Nodes \union {Null} /\ "page" \in Types /\ p # page /\ q # page
    <2>0. page \in Nodes /\ page \in Int /\ page >= 0 /\ n \in Int
      <3>1. page \in Nodes
        BY Bounds
      <3>2. n \in 0 .. 11
        BY <3>1, Fields
      <3> QED
        BY <3>1, <3>2, Bounds
    <2>1. /\ page \in Int /\ n \in Int /\ k \in Int /\ page >= 0 /\ k >= 1 /\ k < n /\ page + n <= Pages
          /\ page \in Nodes /\ Pages \in Int
      BY <2>0, Bounds
    <2>2. rest \in page .. page + n - 1 /\ last \in page .. page + n - 1 /\ rest # page /\ last # page
      BY <2>1
    <2>3. rest \in PageNodes /\ last \in PageNodes
      BY <2>1, Bounds
    <2>4. p \in Nodes \union {Null} /\ q \in Nodes \union {Null}
      BY <2>1, Fields
    <2>5. page \in page .. page + n - 1
      BY <2>1
    <2>6. p \notin page .. page + n - 1 /\ q \notin page .. page + n - 1
      OBVIOUS
    <2>7. rest \in Nodes /\ last \in Nodes /\ k \in 0 .. n
      BY <2>1, <2>3, Bounds
    <2> HIDE DEF rest, last, p, q, n
    <2> QED
      BY <2>1, <2>2, <2>3, <2>4, <2>5, <2>6, <2>7 DEF Types
  <1> HIDE DEF rest, last, p, q
  <1>3. /\ d1 \in Descs
        /\ \A j \in Nodes : /\ SameRest(d, d1, j) /\ d1[j].prev = (IF j = last THEN rest ELSE d[j].prev)
                            /\ d1[j].next = d[j].next /\ d1[j].type = d[j].type
    BY <1>2, PutPrevIs
  <1> HIDE DEF d1
  <1>4. /\ d2 \in Descs
        /\ \A j \in Nodes : /\ SameRest(d1, d2, j) /\ d2[j].type = (IF j = last THEN "page" ELSE d1[j].type)
                            /\ d2[j].next = d1[j].next /\ d2[j].prev = d1[j].prev
    BY <1>2, <1>3, PutTypeIs
  <1> HIDE DEF d2
  <1>5. /\ r \in Descriptor /\ r.n = n - k /\ r.flag = d[page].flag /\ r.type = "page"
        /\ r.prev = p /\ r.next = q
    <2>1. d2[page] \in Descriptor /\ d2[page].n = n
      BY <1>2, <1>3, <1>4 DEF Descs, SameRest
    <2>2. /\ r \in Descriptor /\ r.n = d2[page].n - k /\ r.flag = d2[page].flag
          /\ r.type = d2[page].type /\ r.prev = d2[page].prev /\ r.next = d2[page].next
      BY <1>2, <2>1, RestIs
    <2> QED
      BY <1>2, <1>3, <1>4, <2>1, <2>2 DEF SameRest, p, q
  <1> HIDE DEF r
  <1>6. d3 \in Descs /\ d3[rest] = r /\ \A j \in Nodes : j # rest => d3[j] = d2[j]
    <2>1. d2 \in Descs /\ rest \in Nodes /\ r \in Descriptor
      BY <1>2, <1>4, <1>5
    <2> HIDE DEF d3
    <2>2. d3 = Put(d2, rest, r)
      BY DEF d3
    <2> QED
      BY <2>1, <2>2, PutIs
  <1> HIDE DEF d3
  <1>7. /\ d4 \in Descs
        /\ \A j \in Nodes : /\ SameRest(d3, d4, j) /\ d4[j].next = (IF j = p THEN rest ELSE d3[j].next)
                            /\ d4[j].prev = d3[j].prev /\ d4[j].type = d3[j].type
    BY <1>2, <1>6, PutNextIs
  <1> HIDE DEF d4
  <1>8. /\ d5 \in Descs
        /\ \A j \in Nodes : /\ SameRest(d4, d5, j) /\ d5[j].prev = (IF j = q THEN rest ELSE d4[j].prev)
                            /\ d5[j].next = d4[j].next /\ d5[j].type = d4[j].type
    BY <1>2, <1>7, PutPrevIs
  <1> HIDE DEF d5
  <1>9. /\ d5[rest].n = n - k /\ d5[rest].flag = d[page].flag /\ d5[rest].type = "page"
        /\ d5[rest].prev = p /\ d5[rest].next = q
    <2>1. rest \in Nodes /\ rest # p /\ rest # q
      BY <1>2
    <2> QED
      BY <1>5, <1>6, <1>7, <1>8, <2>1 DEF SameRest
  <1>10. ASSUME NEW j \in Nodes, j # rest
         PROVE  /\ SameRest(d, d5, j) /\ d5[j].type = d[j].type
                /\ d5[j].next = (IF j = p THEN rest ELSE d[j].next)
                /\ j # last => d5[j].prev = (IF j = q THEN rest ELSE d[j].prev)
    <2>1. d3[j] = d2[j]
      BY <1>6, <1>10
    <2>2. SameRest(d, d5, j)
      BY <1>3, <1>4, <1>7, <1>8, <2>1 DEF SameRest
    <2>3. d[last].type = "page"
      BY DEF last
    <2> QED
      BY <1>3, <1>4, <1>7, <1>8, <2>1, <2>2, <2>3
  <1> QED
    BY <1>1, <1>8, <1>9, <1>10 DEF rest, last, p, q

\* A free run lies between its neighbours in the list, and its pages behind
\* the first are in no list and belong to nobody.
LEMMA RunFacts ==
  ASSUME NEW d \in Descs, Layout(d), Linked(d), NEW page \in FreeStarts(d)
  PROVE  /\ page \in PageNodes /\ d[page].type = "page" /\ d[page].flag = "none"
         /\ page + d[page].n <= Pages
         /\ \A j \in Nodes : page < j /\ j < page + d[page].n =>
              j \in PageNodes /\ j \notin Heads(d)
              /\ d[j].type = "page" /\ d[j].next = Null /\ d[j].flag # "start"
         /\ d[page].prev \in FreeStarts(d) \union {FreeHead}
         /\ d[page].next \in FreeStarts(d) \union {FreeHead}
         /\ d[d[page].prev].next = page /\ d[page].prev < page
         /\ d[page].next # FreeHead => d[page].next > page /\ d[d[page].next].prev = page
         /\ d[page].prev \notin page .. page + d[page].n - 1
         /\ d[page].next \notin page .. page + d[page].n - 1
         /\ d[page].next # page
  <1>1. page \in PageNodes /\ d[page].type = "page" /\ d[page].flag = "none" /\ page \in Heads(d)
    BY DEF FreeStarts, Layout, Heads
  <1>2. page + d[page].n <= Pages
    BY <1>1 DEF Layout, Extent
  <1>3. page \in Nodes /\ page \in Int /\ 0 <= page /\ page < Pages
    BY <1>1, Bounds
  <1>4. d[page].n \in Int /\ 0 <= d[page].n
    <2>1. d[page].n \in 0 .. 11
      BY <1>3, Fields
    <2> QED
      BY <2>1
  <1>5. ASSUME NEW j \in Nodes, page < j, j < page + d[page].n
        PROVE  j \in PageNodes /\ j \notin Heads(d)
               /\ d[j].type = "page" /\ d[j].next = Null /\ d[j].flag # "start"
    <2>1. j \in Int /\ 0 <= j /\ j < Pages
      BY <1>2, <1>3, <1>4, <1>5, Bounds
    <2>2. j \in PageNodes
      BY <2>1, Bounds
    <2>3. j \notin Heads(d)
      <3>1. j \in Heads(d) => page + Extent(d, page) <= j
        BY <1>1, <1>5 DEF Layout
      <3>2. Extent(d, page) = d[page].n
        BY <1>1 DEF Extent
      <3> QED
        BY <1>3, <1>4, <1>5, <2>1, <3>1, <3>2
    <2> QED
      BY <2>2, <2>3 DEF Heads, FreeStarts, StartPages, SlabPages
  <1>6. /\ d[page].prev \in FreeStarts(d) \union {FreeHead} /\ d[d[page].prev].next = page
    BY DEF Linked
  <1>7. d[page].prev < page
    <2>1. page # FreeHead
      BY <1>1, Bounds
    <2> QED
      BY <1>6, <2>1 DEF Linked
  <1>8. /\ d[page].next \in FreeStarts(d) \union {FreeHead}
        /\ d[page].next # FreeHead => d[page].next > page /\ d[d[page].next].prev = page
    BY DEF Linked
  <1>9. FreeStarts(d) \subseteq PageNodes /\ FreeHead = -9
    BY Numbers DEF FreeStarts
  <1>10. d[page].prev \notin page .. page + d[page].n - 1
    <2>1. d[page].prev \in Int
      BY <1>6, <1>9, Bounds
    <2> QED
      BY <1>3, <1>4, <1>7, <2>1
  <1>11. d[page].next \notin page .. page + d[page].n - 1 /\ d[page].next # page
    <2>1. CASE d[page].next = FreeHead
      BY <1>3, <1>4, <1>9, <2>1
    <2>2. CASE d[page].next # FreeHead
      <3>1. d[page].next \in FreeStarts(d) /\ d[page].next > page
        BY <1>8, <2>2
      <3>2. d[page].next \in Heads(d) /\ d[page].next \in Nodes /\ d[page].next \in Int
        BY <1>9, <3>1, Bounds DEF Heads
      <3>3. ~(d[page].next < page + d[page].n)
        BY <1>5, <3>1, <3>2
      <3> QED
        BY <1>3, <1>4, <3>1, <3>2, <3>3
    <2> QED
      BY <2>1, <2>2
  <1> QED
    BY <1>1, <1>2, <1>5, <1>6, <1>7, <1>8, <1>10, <1>11

\* The first k pages of a free run are taken: the run leaves the list, or its
\* rest takes its place there.
Shorter(d, page, k) == IF k < d[page].n THEN page + k ELSE d[page].next
Longer(d, page, k) == IF k < d[page].n THEN page + k ELSE d[page].prev

\* What hcore_slab_alloc_pages leaves in each descriptor, whether it splits the
\* run or takes the whole of it.
LEMMA CutFields ==
  ASSUME NEW d \in Descs, Layout(d), Linked(d), NEW page \in FreeStarts(d),
         NEW k \in 1 .. d[page].n
  PROVE  LET e == CutOff(d, page, k)
             n == d[page].n
             p == d[page].prev
             q == d[page].next
         IN /\ e \in Descs
            /\ e[page].n = k /\ e[page].flag = "start"
            /\ e[page].type = "page" /\ e[page].next = Null
            /\ \A j \in Nodes : page < j /\ j < page + k =>
                 e[j].flag = "busy" /\ e[j].type = "page" /\ e[j].next = Null
            /\ k < n =>
                 /\ e[page + k].n = n - k /\ e[page + k].flag = "none"
                 /\ e[page + k].type = "page"
                 /\ e[page + k].prev = p /\ e[page + k].next = q
            /\ \A j \in Nodes :
                 (j < page \/ j >= page + k) /\ (k < n => j # page + k) =>
                   /\ SameRest(d, e, j)
                   /\ j \in PageNodes => e[j].type = d[j].type
                   /\ e[j].next = (IF j = p THEN Shorter(d, page, k) ELSE d[j].next)
                   /\ j # page + n - 1 =>
                        e[j].prev = (IF j = q THEN Longer(d, page, k) ELSE d[j].prev)
  <1> DEFINE n == d[page].n
             p == d[page].prev
             q == d[page].next
             f == IF k < n THEN Split(d, page, k) ELSE Unlink(d, page)
             e == CutOff(d, page, k)
  <1>1. /\ page \in PageNodes /\ d[page].type = "page" /\ d[page].flag = "none"
        /\ page + n <= Pages
        /\ \A j \in Nodes : page < j /\ j < page + n =>
             d[j].type = "page" /\ d[j].next = Null /\ d[j].flag # "start"
        /\ p \in FreeStarts(d) \union {FreeHead} /\ q \in FreeStarts(d) \union {FreeHead}
        /\ p \notin page .. page + n - 1 /\ q \notin page .. page + n - 1
    BY RunFacts
  <1>2. /\ page \in Nodes /\ page \in Int /\ 0 <= page /\ n \in 0 .. 11 /\ n \in Int
        /\ k \in Int /\ 1 <= k /\ k <= n /\ k \in 1 .. Pages
    <2>1. page \in Nodes /\ page \in Int /\ 0 <= page
      BY <1>1, Bounds
    <2>2. n \in 0 .. 11
      BY <2>1, Fields
    <2>3. n \in Int /\ k \in Int /\ 1 <= k /\ k <= n
      BY <2>2
    <2> QED
      BY <1>1, <2>1, <2>2, <2>3, Bounds
  <1>3. \A j \in PageNodes : j \in Nodes /\ j \in Int
    BY Bounds
  <1>4. q \in PageNodes => d[q].type = "page"
    BY <1>1, Bounds DEF FreeStarts
  <1>5. /\ f \in Descs
        /\ k < n =>
             /\ f[page + k].n = n - k /\ f[page + k].flag = "none" /\ f[page + k].type = "page"
             /\ f[page + k].prev = p /\ f[page + k].next = q
        /\ \A j \in Nodes : (k < n => j # page + k) =>
             /\ SameRest(d, f, j)
             /\ j \in PageNodes => f[j].type = d[j].type
             /\ f[j].next = (IF j = p THEN Shorter(d, page, k) ELSE d[j].next)
             /\ (k < n => j # page + n - 1) =>
                  f[j].prev = (IF j = q THEN Longer(d, page, k) ELSE d[j].prev)
    <2>1. CASE k < n
      <3>1. page + n - 1 \in Nodes /\ k \in 1 .. n - 1
        BY <1>1, <1>2, <2>1, Bounds
      <3>2. d[page + n - 1].type = "page"
        <4>1. page < page + n - 1 /\ page + n - 1 < page + n
          BY <1>2, <2>1
        <4> QED
          BY <1>1, <3>1, <4>1
      <3>3. f = Split(d, page, k)
        BY <2>1
      <3> HIDE DEF f
      <3>4. /\ f \in Descs
            /\ /\ f[page + k].n = n - k /\ f[page + k].flag = d[page].flag
               /\ f[page + k].prev = p /\ f[page + k].next = q
            /\ \A j \in Nodes :
                 /\ f[j].type = (IF j = page + k THEN "page" ELSE d[j].type)
                 /\ j # page + k =>
                      /\ SameRest(d, f, j)
                      /\ f[j].next = (IF j = p THEN page + k ELSE d[j].next)
                      /\ j # page + n - 1 =>
                           f[j].prev = (IF j = q THEN page + k ELSE d[j].prev)
        BY <1>1, <3>1, <3>2, <3>3, SplitFields
      <3>5. Shorter(d, page, k) = page + k /\ Longer(d, page, k) = page + k
        BY <2>1 DEF Shorter, Longer
      <3>6. page + k \in Nodes
        BY <1>1, <1>2, <2>1, Bounds
      <3> HIDE DEF n, p, q
      <3> QED
        BY <1>1, <2>1, <3>4, <3>5, <3>6
    <2>2. CASE ~(k < n)
      <3>1. f = Unlink(d, page)
        BY <2>2
      <3> HIDE DEF f
      <3> QED
        BY <1>1, <1>2, <1>4, <2>2, <3>1, UnlinkFields DEF Shorter, Longer
    <2> QED
      BY <2>1, <2>2
  <1>6. e = Taken(f, page, k)
    BY DEF CutOff
  <1> HIDE DEF f, e
  <1>7. /\ e \in Descs
        /\ e[page].n = k /\ e[page].flag = "start" /\ e[page].type = "page" /\ e[page].next = Null
        /\ \A j \in Nodes : j \in page + 1 .. page + k - 1 => e[j] = Busy(f[j])
        /\ \A j \in Nodes : j \notin page .. page + k - 1 => e[j] = f[j]
    BY <1>1, <1>2, <1>5, <1>6, TakenFields
  <1>8. ASSUME NEW j \in Nodes, page < j, j < page + k
        PROVE  e[j].flag = "busy" /\ e[j].type = "page" /\ e[j].next = Null
    <2>1. j \in Int /\ j \in page + 1 .. page + k - 1 /\ j # page + k /\ j < page + n /\ j \in PageNodes
      BY <1>1, <1>2, <1>8, Bounds
    <2>2. f[j] \in Descriptor /\ f[j].type = "page"
      BY <1>1, <1>5, <1>8, <2>1 DEF Descs
    <2> QED
      BY <1>7, <2>1, <2>2, BusyIs
  <1>9. k < n => page + k \in Nodes /\ page + k \notin page .. page + k - 1
    BY <1>1, <1>2, Bounds
  <1>10. \A j \in Nodes : j < page \/ j >= page + k => j \notin page .. page + k - 1
    BY <1>2, Bounds
  <1>11. \A j \in Nodes : (j < page \/ j >= page + k) /\ (k < n => j # page + k) =>
                   /\ SameRest(d, e, j)
                   /\ j \in PageNodes => e[j].type = d[j].type
                   /\ e[j].next = (IF j = p THEN Shorter(d, page, k) ELSE d[j].next)
                   /\ j # page + n - 1 =>
                        e[j].prev = (IF j = q THEN Longer(d, page, k) ELSE d[j].prev)
    BY <1>5, <1>7, <1>10 DEF SameRest
  <1>12. k < n => /\ e[page + k].n = n - k /\ e[page + k].flag = "none"
                  /\ e[page + k].type = "page"
                  /\ e[page + k].prev = p /\ e[page + k].next = q
    BY <1>5, <1>7, <1>9
  <1> QED
    BY <1>7, <1>8, <1>11, <1>12 DEF e

\* Node j has the same descriptor, link for link.
Alike(d, e, j) == /\ SameRest(d, e, j) /\ e[j].type = d[j].type
                  /\ e[j].next = d[j].next /\ e[j].prev = d[j].prev

\* The run at page becomes an allocated one and what is left of it stays free.
LEMMA CutHeads ==
  ASSUME NEW d \in Descs, Layout(d), Linked(d), NEW page \in FreeStarts(d),
         NEW k \in 1 .. d[page].n
  PROVE  LET e == CutOff(d, page, k) IN
         \A j \in PageNodes :
           /\ j \in FreeStarts(e) <=> \/ j \in FreeStarts(d) /\ j # page
                                      \/ k < d[page].n /\ j = page + k
           /\ j \in StartPages(e) <=> j \in StartPages(d) \/ j = page
           /\ j \in SlabPages(e) <=> j \in SlabPages(d)
           /\ j \in Heads(d) /\ j # page => /\ SameRest(d, e, j) /\ e[j].type = d[j].type
                                            /\ j < page \/ j >= page + d[page].n
                                            /\ k < d[page].n => j # page + k
           /\ j \in SlabPages(d) \union StartPages(d) => Alike(d, e, j)
  <1> DEFINE e == CutOff(d, page, k)
             n == d[page].n
             p == d[page].prev
             q == d[page].next
  <1>1. /\ e[page].n = k /\ e[page].flag = "start" /\ e[page].type = "page" /\ e[page].next = Null
        /\ \A j \in Nodes : page < j /\ j < page + k =>
             e[j].flag = "busy" /\ e[j].type = "page" /\ e[j].next = Null
        /\ k < n => e[page + k].flag = "none" /\ e[page + k].type = "page" /\ e[page + k].next = q
        /\ \A j \in Nodes : (j < page \/ j >= page + k) /\ (k < n => j # page + k) =>
             /\ SameRest(d, e, j)
             /\ j \in PageNodes => e[j].type = d[j].type
             /\ e[j].next = (IF j = p THEN Shorter(d, page, k) ELSE d[j].next)
             /\ j # page + n - 1 =>
                  e[j].prev = (IF j = q THEN Longer(d, page, k) ELSE d[j].prev)
    BY CutFields
  <1>2. /\ page \in PageNodes /\ d[page].type = "page" /\ d[page].flag = "none"
        /\ page + n <= Pages
        /\ \A j \in Nodes : page < j /\ j < page + n =>
             /\ j \in PageNodes /\ j \notin Heads(d)
             /\ d[j].type = "page" /\ d[j].next = Null /\ d[j].flag # "start"
        /\ p \in FreeStarts(d) \union {FreeHead} /\ q \in FreeStarts(d) \union {FreeHead}
        /\ d[p].next = page /\ p \notin page .. page + n - 1 /\ q # page
    BY RunFacts
  <1> HIDE DEF e
  <1>3. /\ page \in Int /\ n \in Int /\ k \in Int /\ 1 <= k /\ k <= n /\ page \in Nodes
        /\ d[page].next # Null
    <2>1. page \in Nodes /\ page \in Int
      BY <1>2, Bounds
    <2>2. n \in 0 .. 11
      BY <2>1, Fields
    <2> QED
      BY <2>1, <2>2 DEF FreeStarts
  <1>4. q # Null /\ page + k # Null /\ page # Null
    BY <1>2, <1>3, Numbers DEF FreeStarts
  <1>5. Shorter(d, page, k) # Null
    BY <1>4 DEF Shorter
  <1> SUFFICES ASSUME NEW j \in PageNodes
               PROVE /\ j \in FreeStarts(e) <=> \/ j \in FreeStarts(d) /\ j # page
                                                \/ k < n /\ j = page + k
                     /\ j \in StartPages(e) <=> j \in StartPages(d) \/ j = page
                     /\ j \in SlabPages(e) <=> j \in SlabPages(d)
                     /\ j \in Heads(d) /\ j # page =>
                          /\ SameRest(d, e, j) /\ e[j].type = d[j].type
                          /\ j < page \/ j >= page + n
                          /\ k < n => j # page + k
                     /\ j \in SlabPages(d) \union StartPages(d) => Alike(d, e, j)
    BY DEF e
  <1>6. j \in Nodes /\ j \in Int
    BY Bounds
  <1>7. CASE j = page
    <2>1. k < n => j # page + k
      BY <1>3, <1>7
    <2> QED
      BY <1>1, <1>2, <1>7, <2>1 DEF FreeStarts, StartPages, SlabPages
  <1>8. CASE page < j /\ j < page + k
    <2>1. j < page + n /\ j # page /\ j # page + k
      BY <1>3, <1>6, <1>8
    <2> QED
      BY <1>1, <1>2, <1>6, <1>8, <2>1 DEF FreeStarts, StartPages, SlabPages, Heads
  <1>9. CASE k < n /\ j = page + k
    <2>1. page < j /\ j < page + n /\ j # page
      BY <1>3, <1>6, <1>9
    <2> QED
      BY <1>1, <1>2, <1>4, <1>6, <1>9, <2>1 DEF FreeStarts, StartPages, SlabPages, Heads
  <1>10. CASE (j < page \/ j >= page + k) /\ j # page /\ (k < n => j # page + k)
    <2>1. /\ SameRest(d, e, j) /\ e[j].type = d[j].type
          /\ e[j].next = (IF j = p THEN Shorter(d, page, k) ELSE d[j].next)
          /\ j # page + n - 1 =>
               e[j].prev = (IF j = q THEN Longer(d, page, k) ELSE d[j].prev)
      BY <1>1, <1>6, <1>10
    <2>2. e[j].next = Null <=> d[j].next = Null
      BY <1>2, <1>4, <1>5, <2>1
    <2>3. /\ j \in FreeStarts(e) <=> j \in FreeStarts(d)
          /\ j \in StartPages(e) <=> j \in StartPages(d)
          /\ j \in SlabPages(e) <=> j \in SlabPages(d)
      BY <2>1, <2>2 DEF FreeStarts, StartPages, SlabPages, SameRest
    <2>4. j \in Heads(d) => j < page \/ j >= page + n
      BY <1>2, <1>3, <1>6, <1>10
    <2>5. ASSUME j \in SlabPages(d) \union StartPages(d)
          PROVE  Alike(d, e, j)
      <3>1. j \notin FreeStarts(d)
        BY <2>5, <1>2 DEF FreeStarts, StartPages, SlabPages, Layout
      <3>2. j # p /\ j # q
        BY <1>2, <3>1, Bounds
      <3>3. j # page + n - 1
        BY <1>3, <1>6, <1>10, <2>4, <2>5 DEF Heads
      <3> QED
        BY <2>1, <3>2, <3>3 DEF Alike
    <2> QED
      BY <1>10, <2>1, <2>3, <2>4, <2>5
  <1> QED
    BY <1>3, <1>6, <1>7, <1>8, <1>9, <1>10

\* hcore_slab_alloc_pages keeps the runs apart and inside the pool.
LEMMA CutLayout ==
  ASSUME NEW d \in Descs, Layout(d), Linked(d), NEW page \in FreeStarts(d),
         NEW k \in 1 .. d[page].n
  PROVE  Layout(CutOff(d, page, k))
  <1> DEFINE e == CutOff(d, page, k)
             n == d[page].n
             H == Heads(d)
             rest == page + k
  <1>1. \A j \in PageNodes :
           /\ j \in FreeStarts(e) <=> \/ j \in FreeStarts(d) /\ j # page
                                      \/ k < n /\ j = rest
           /\ j \in StartPages(e) <=> j \in StartPages(d) \/ j = page
           /\ j \in SlabPages(e) <=> j \in SlabPages(d)
           /\ j \in H /\ j # page => /\ SameRest(d, e, j) /\ e[j].type = d[j].type
                                     /\ j < page \/ j >= page + n
           /\ j \in SlabPages(d) \union StartPages(d) => Alike(d, e, j)
    BY CutHeads
  <1>2. /\ e \in Descs
        /\ e[page].n = k /\ e[page].type = "page" /\ e[page].next = Null
        /\ k < n => e[rest].n = n - k /\ e[rest].flag = "none" /\ e[rest].type = "page"
    BY CutFields
  <1>3. page \in PageNodes /\ page \in FreeStarts(d) /\ d[page].type = "page" /\ page + n <= Pages
    BY RunFacts
  <1>4. page \in Int /\ n \in Int /\ k \in Int /\ 1 <= k /\ k <= n /\ 0 <= page
    <2>1. page \in Nodes /\ page \in Int /\ 0 <= page
      BY <1>3, Bounds
    <2>2. n \in 0 .. 11
      BY <2>1, Fields
    <2> QED
      BY <2>1, <2>2
  <1> HIDE DEF e
  <1>5. k < n => rest \in PageNodes
    BY <1>3, <1>4, Bounds
  <1>6. /\ FreeStarts(e) \subseteq PageNodes /\ StartPages(e) \subseteq PageNodes
        /\ SlabPages(e) \subseteq PageNodes
        /\ FreeStarts(d) \subseteq PageNodes /\ StartPages(d) \subseteq PageNodes
        /\ SlabPages(d) \subseteq PageNodes
    BY DEF FreeStarts, StartPages, SlabPages
  <1>7. \A j \in Heads(e) :
           \/ j \in H /\ j # page /\ Extent(e, j) = Extent(d, j) /\ (j < page \/ j >= page + n)
           \/ j = page /\ Extent(e, j) = k
           \/ k < n /\ j = rest /\ Extent(e, j) = n - k
    <2> SUFFICES ASSUME NEW j \in Heads(e)
                 PROVE \/ j \in H /\ j # page /\ Extent(e, j) = Extent(d, j) /\ (j < page \/ j >= page + n)
                       \/ j = page /\ Extent(e, j) = k
                       \/ k < n /\ j = rest /\ Extent(e, j) = n - k
      OBVIOUS
    <2>1. j \in PageNodes
      BY <1>6 DEF Heads
    <2>2. j = page \/ (k < n /\ j = rest) \/ (j \in H /\ j # page)
      BY <1>1, <2>1 DEF Heads
    <2>3. CASE j = page
      BY <1>2, <2>3 DEF Extent
    <2>4. CASE k < n /\ j = rest
      BY <1>2, <2>4 DEF Extent
    <2>5. CASE j \in H /\ j # page
      BY <1>1, <2>1, <2>5 DEF Extent, SameRest
    <2> QED
      BY <2>2, <2>3, <2>4, <2>5
  <1>8. page \in H /\ Extent(d, page) = n
    BY <1>3 DEF Heads, Extent
  <1>9. \A j \in H : j \in PageNodes /\ j \in Int /\ 0 <= j /\ Extent(d, j) \in Int /\ 0 <= Extent(d, j)
    <2> SUFFICES ASSUME NEW j \in H
                 PROVE  j \in PageNodes /\ j \in Int /\ 0 <= j /\ Extent(d, j) \in Int /\ 0 <= Extent(d, j)
      OBVIOUS
    <2>1. j \in PageNodes /\ j \in Int /\ 0 <= j /\ j \in Nodes
      BY <1>6, Bounds DEF Heads
    <2>2. d[j].n \in 0 .. 11
      BY <2>1, Fields
    <2> QED
      BY <2>1, <2>2 DEF Extent
  <1>10. \A j \in H : j + Extent(d, j) <= Pages /\ (j # 0 => Extent(d, j) >= 1)
    BY DEF Layout
  <1>11. \A j, l \in H : j < l => j + Extent(d, j) <= l
    BY DEF Layout
  <1>12. \A j \in FreeStarts(e) : e[j].flag = "none"
    <2> SUFFICES ASSUME NEW j \in FreeStarts(e) PROVE e[j].flag = "none"
      OBVIOUS
    <2>1. CASE k < n /\ j = rest
      BY <1>2, <2>1
    <2>2. CASE ~(k < n /\ j = rest)
      <3>1. j \in PageNodes /\ j \in FreeStarts(d) /\ j # page
        BY <1>1, <1>6, <2>2
      <3>2. SameRest(d, e, j)
        BY <1>1, <3>1 DEF Heads
      <3> QED
        BY <3>1, <3>2 DEF SameRest, Layout
    <2> QED
      BY <2>1, <2>2
  <1>13. \A j \in StartPages(e) : e[j].next = Null /\ e[j].n >= 1
    <2> SUFFICES ASSUME NEW j \in StartPages(e) PROVE e[j].next = Null /\ e[j].n >= 1
      OBVIOUS
    <2>1. CASE j = page
      BY <1>2, <1>4, <2>1
    <2>2. CASE j # page
      <3>1. j \in PageNodes /\ j \in StartPages(d)
        BY <1>1, <1>6, <2>2
      <3> QED
        BY <1>1, <3>1 DEF Alike, SameRest, Layout
    <2> QED
      BY <2>1, <2>2
  <1> HIDE DEF H, rest
  <1>14. \A j \in Heads(e) : j + Extent(e, j) <= Pages /\ (j # 0 => Extent(e, j) >= 1)
    <2> SUFFICES ASSUME NEW j \in Heads(e)
                 PROVE  j + Extent(e, j) <= Pages /\ (j # 0 => Extent(e, j) >= 1)
      OBVIOUS
    <2>1. CASE j = page /\ Extent(e, j) = k
      BY <1>3, <1>4, <2>1, Bounds
    <2>2. CASE k < n /\ j = rest /\ Extent(e, j) = n - k
      BY <1>3, <1>4, <2>2, Bounds DEF rest
    <2>3. CASE j \in H /\ Extent(e, j) = Extent(d, j)
      BY <1>10, <2>3
    <2> QED
      BY <1>7, <2>1, <2>2, <2>3
  <1>15. \A j, l \in Heads(e) : j < l => j + Extent(e, j) <= l
    <2> SUFFICES ASSUME NEW j \in Heads(e), NEW l \in Heads(e), j < l
                 PROVE  j + Extent(e, j) <= l
      OBVIOUS
    <2>1. CASE j = page /\ Extent(e, j) = k
      BY <1>4, <1>7, <1>9, <2>1 DEF rest
    <2>2. CASE k < n /\ j = rest /\ Extent(e, j) = n - k
      BY <1>4, <1>7, <1>9, <2>2 DEF rest
    <2>3. CASE j \in H /\ j # page /\ Extent(e, j) = Extent(d, j) /\ (j < page \/ j >= page + n)
      <3>1. CASE l \in H
        BY <1>11, <2>3, <3>1
      <3>2. CASE l = page
        BY <1>8, <1>11, <2>3, <3>2
      <3>3. CASE k < n /\ l = rest
        <4>1. j \in Int /\ j < page
          BY <1>4, <1>9, <2>3, <3>3 DEF rest
        <4>2. j + Extent(d, j) <= page
          BY <1>8, <1>11, <2>3, <4>1
        <4> QED
          BY <1>4, <1>9, <2>3, <3>3, <4>2 DEF rest
      <3> QED
        BY <1>7, <3>1, <3>2, <3>3
    <2> QED
      BY <1>7, <2>1, <2>2, <2>3
  <1> QED
    BY <1>12, <1>13, <1>14, <1>15 DEF Layout, e

\* hcore_slab_alloc_pages keeps the free list linked alike in both directions and
\* in the order of the pages.
LEMMA CutLinked ==
  ASSUME NEW d \in Descs, Layout(d), Linked(d), NEW page \in FreeStarts(d),
         NEW k \in 1 .. d[page].n
  PROVE  Linked(CutOff(d, page, k))
  <1> DEFINE e == CutOff(d, page, k)
             n == d[page].n
             p == d[page].prev
             q == d[page].next
             rest == page + k
             F == FreeStarts(d)
             L == F \union {FreeHead}
  <1>1. /\ \A j \in FreeStarts(e) : (j \in F /\ j # page) \/ (k < n /\ j = rest)
        /\ \A j \in F : j # page => j \in FreeStarts(e)
        /\ k < n => rest \in FreeStarts(e)
    <2>1. k < n => rest \in PageNodes
      <3>1. page \in PageNodes /\ page + n <= Pages /\ page \in Nodes /\ page \in Int /\ 0 <= page
        BY RunFacts, Bounds
      <3>2. n \in 0 .. 11
        BY <3>1, Fields
      <3> QED
        BY <3>1, <3>2, Bounds
    <2> QED
      BY <2>1, CutHeads DEF FreeStarts
  <1>2. /\ k < n => e[rest].prev = p /\ e[rest].next = q
        /\ \A j \in Nodes : (j < page \/ j >= page + k) /\ (k < n => j # rest) =>
             /\ e[j].next = (IF j = p THEN Shorter(d, page, k) ELSE d[j].next)
             /\ j # page + n - 1 =>
                  e[j].prev = (IF j = q THEN Longer(d, page, k) ELSE d[j].prev)
    BY CutFields
  <1>3. /\ page \in PageNodes /\ page \in F /\ page + n <= Pages
        /\ p \in L /\ q \in L /\ d[p].next = page /\ p < page
        /\ q # FreeHead => q > page /\ d[q].prev = page
        /\ p \notin page .. page + n - 1 /\ q \notin page .. page + n - 1 /\ q # page
    BY RunFacts
  <1>4. page \in Int /\ n \in Int /\ k \in Int /\ 1 <= k /\ k <= n /\ 0 <= page /\ page \in Nodes
    <2>1. page \in Nodes /\ page \in Int /\ 0 <= page
      BY <1>3, Bounds
    <2>2. n \in 0 .. 11
      BY <2>1, Fields
    <2> QED
      BY <2>1, <2>2
  <1>5. \A j \in L : j \in Nodes /\ j \in Int
    BY Bounds DEF FreeStarts
  <1>6. FreeHead < 0 /\ \A j \in F : j >= 0 /\ j # FreeHead
    BY Numbers DEF FreeStarts
  <1>7. \A j \in L : j # page => (j < page \/ j >= page + n) /\ (k < n => j # rest)
    <2> SUFFICES ASSUME NEW j \in L, j # page
                 PROVE  (j < page \/ j >= page + n) /\ (k < n => j # rest)
      OBVIOUS
    <2>1. CASE j = FreeHead
      BY <1>4, <1>6, <2>1
    <2>2. CASE j \in F
      BY <2>2, CutHeads DEF Heads, FreeStarts
    <2> QED
      BY <2>1, <2>2
  <1>8. ASSUME NEW j \in L, j # page
        PROVE  /\ e[j].next = (IF j = p THEN Shorter(d, page, k) ELSE d[j].next)
               /\ e[j].prev = (IF j = q THEN Longer(d, page, k) ELSE d[j].prev)
    <2>1. j \in Nodes /\ j \in Int /\ (j < page \/ j >= page + n) /\ (k < n => j # rest)
      BY <1>5, <1>7, <1>8
    <2> QED
      BY <1>2, <1>4, <2>1
  <1>9. /\ \A j \in L : d[j].next # FreeHead => d[j].next \in F /\ d[j].next > j /\ d[d[j].next].prev = j
        /\ \A j \in F : d[j].prev \in L /\ d[d[j].prev].next = j
    BY DEF Linked
  <1>10. page \in L /\ p # page /\ p \in Int /\ q \in Int
    BY <1>3, <1>4, <1>5
  <1> HIDE DEF e, F, L, p, q, n, rest
  <1>11. ASSUME NEW j \in L, j # page, d[j].next # page
         PROVE  e[j].next = d[j].next
    BY <1>3, <1>8, <1>11
  <1>12. ASSUME NEW j \in F, j # page, d[j].prev # page
         PROVE  e[j].prev = d[j].prev
    <2>1. j \in L
      BY DEF L
    <2>2. j = q => FALSE
      BY <1>3, <1>6, <1>12
    <2> QED
      BY <1>8, <1>12, <2>1, <2>2
  <1>13. e[p].next = Shorter(d, page, k)
    BY <1>3, <1>8, <1>10
  <1>14. q # FreeHead => e[q].prev = Longer(d, page, k)
    BY <1>3, <1>8
  <1>15. /\ k < n => Shorter(d, page, k) = rest /\ Longer(d, page, k) = rest
         /\ ~(k < n) => Shorter(d, page, k) = q /\ Longer(d, page, k) = p
    BY DEF Shorter, Longer, n, rest, p, q
  <1>16. k < n => rest \in Int /\ rest > page /\ rest # FreeHead /\ (q # FreeHead => q > rest)
    <2>1. q # FreeHead => q >= page + n
      BY <1>3, <1>7, <1>4, <1>10
    <2> QED
      BY <1>4, <1>6, <1>10, <2>1 DEF rest
  <1>17. ASSUME NEW j \in FreeStarts(e) \union {FreeHead}, e[j].next # FreeHead
         PROVE  /\ e[j].next \in FreeStarts(e) /\ e[j].next > j /\ e[e[j].next].prev = j
    <2>1. CASE k < n /\ j = rest
      <3>1. e[j].next = q /\ q # FreeHead
        BY <1>2, <1>17, <2>1
      <3>2. q \in F
        BY <1>3, <3>1 DEF L
      <3> QED
        BY <1>1, <1>3, <1>14, <1>15, <1>16, <2>1, <3>1, <3>2
    <2>2. CASE ~(k < n /\ j = rest)
      <3>1. j \in L /\ j # page
        BY <1>1, <1>3, <1>6, <2>2 DEF L
      <3>2. CASE d[j].next = page
        <4>1. j = p
          BY <1>9, <3>1, <3>2, <1>3, <1>6 DEF p
        <4>2. CASE k < n
          <5>1. e[j].next = rest /\ rest \in FreeStarts(e) /\ e[rest].prev = j
            BY <1>1, <1>2, <1>13, <1>15, <4>1, <4>2
          <5>2. rest > j
            BY <1>3, <1>4, <1>10, <1>16, <4>1, <4>2
          <5> QED
            BY <5>1, <5>2
        <4>3. CASE ~(k < n)
          <5>1. e[j].next = q /\ q # FreeHead /\ q \in F
            BY <1>3, <1>13, <1>15, <1>17, <4>1, <4>3 DEF L
          <5> QED
            BY <1>1, <1>3, <1>4, <1>10, <1>14, <1>15, <4>1, <4>3, <5>1
        <4> QED
          BY <4>2, <4>3
      <3>3. CASE d[j].next # page
        <4>1. e[j].next = d[j].next /\ d[j].next \in F /\ d[j].next > j /\ d[d[j].next].prev = j
          BY <1>9, <1>11, <1>17, <3>1, <3>3
        <4>2. e[d[j].next].prev = j
          BY <1>12, <3>1, <3>3, <4>1
        <4> QED
          BY <1>1, <3>3, <4>1, <4>2
      <3> QED
        BY <3>2, <3>3
    <2> QED
      BY <2>1, <2>2
  <1>18. ASSUME NEW j \in FreeStarts(e)
         PROVE  /\ e[j].prev \in FreeStarts(e) \union {FreeHead} /\ e[e[j].prev].next = j
    <2>1. CASE k < n /\ j = rest
      <3>1. e[j].prev = p
        BY <1>2, <2>1
      <3> QED
        BY <1>1, <1>3, <1>10, <1>13, <1>15, <2>1, <3>1 DEF L
    <2>2. CASE ~(k < n /\ j = rest)
      <3>1. j \in F /\ j # page
        BY <1>1, <2>2
      <3>2. CASE d[j].prev = page
        <4>1. j = q /\ q # FreeHead
          BY <1>6, <1>9, <3>1, <3>2 DEF q
        <4>2. CASE k < n
          BY <1>1, <1>2, <1>14, <1>15, <4>1, <4>2
        <4>3. CASE ~(k < n)
          BY <1>1, <1>3, <1>10, <1>13, <1>14, <1>15, <4>1, <4>3 DEF L
        <4> QED
          BY <4>2, <4>3
      <3>3. CASE d[j].prev # page
        <4>1. e[j].prev = d[j].prev /\ d[j].prev \in L /\ d[d[j].prev].next = j
          BY <1>9, <1>12, <3>1, <3>3
        <4>2. e[d[j].prev].next = j
          BY <1>11, <3>1, <3>3, <4>1
        <4> QED
          BY <1>1, <3>3, <4>1, <4>2 DEF L
      <3> QED
        BY <3>2, <3>3
    <2> QED
      BY <2>1, <2>2
  <1> QED
    BY <1>17, <1>18 DEF Linked, e

\* The pages that were given away are pages of the pool.
LEMMA TakenInside ==
  ASSUME NEW d \in Descs, Layout(d)
  PROVE  /\ TakenPages(d) \subseteq PageNodes
         /\ IsFiniteSet(TakenPages(d)) /\ Cardinality(TakenPages(d)) \in 0 .. Pages
  <1>1. ASSUME NEW j \in StartPages(d), NEW t \in Run(d, j)
        PROVE  t \in PageNodes
    <2>1. j \in PageNodes /\ j \in Heads(d) /\ Extent(d, j) = d[j].n
      BY DEF StartPages, Heads, Extent
    <2>2. j + d[j].n <= Pages
      BY <2>1 DEF Layout
    <2>3. j \in Nodes /\ j \in Int /\ 0 <= j
      BY <2>1, Bounds
    <2>4. d[j].n \in 0 .. 11
      BY <2>3, Fields
    <2>5. t \in Int /\ j <= t /\ t <= j + d[j].n - 1
      BY <2>3, <2>4 DEF Run
    <2> QED
      BY <2>2, <2>3, <2>4, <2>5, Bounds
  <1>2. TakenPages(d) \subseteq PageNodes
    BY <1>1 DEF TakenPages, SlabPages
  <1>3. IsFiniteSet(PageNodes) /\ Cardinality(PageNodes) = Pages
    <2>1. PageNodes = 0 .. Pages - 1 /\ Pages \in Int /\ 1 <= Pages
      BY Numbers, Bounds
    <2>2. 0 \in Int /\ Pages - 1 \in Int /\ ~(0 > Pages - 1) /\ (Pages - 1) - 0 + 1 = Pages
      BY <2>1
    <2> QED
      BY <2>1, <2>2, FS_Interval
  <1>4. /\ IsFiniteSet(TakenPages(d))
        /\ Cardinality(TakenPages(d)) <= Pages /\ Cardinality(TakenPages(d)) \in Nat
    BY <1>2, <1>3, FS_Subset, FS_CardinalityType
  <1> QED
    BY <1>2, <1>4, Bounds

\* A page of a free run, or of no run at all, was not given away.
LEMMA FreeNotTaken ==
  ASSUME NEW d \in Descs, Layout(d), NEW k \in FreeStarts(d)
  PROVE  \A t \in Run(d, k) \union {k} : t \notin TakenPages(d)
  <1>1. k \in PageNodes /\ k \in Heads(d) /\ d[k].type = "page" /\ d[k].flag = "none"
        /\ Extent(d, k) = d[k].n
    BY DEF FreeStarts, Heads, Layout, Extent
  <1>2. k \in Nodes /\ k \in Int /\ 0 <= k
    BY <1>1, Bounds
  <1>3. d[k].n \in Int /\ 0 <= d[k].n
    <2>1. d[k].n \in 0 .. 11
      BY <1>2, Fields
    <2> QED
      BY <2>1
  <1>4. k # 0 => d[k].n >= 1
    BY <1>1 DEF Layout
  <1> SUFFICES ASSUME NEW t \in Run(d, k) \union {k}, t \in TakenPages(d) PROVE FALSE
    OBVIOUS
  <1>5. t \in Int /\ k <= t /\ (t < k + d[k].n \/ t = k)
    BY <1>2, <1>3 DEF Run
  <1>6. PICK j \in Heads(d) : /\ j \in SlabPages(d) \union StartPages(d)
                              /\ j <= t /\ t < j + Extent(d, j) /\ j \in PageNodes
    <2>1. CASE t \in SlabPages(d)
      BY <1>5, <2>1 DEF Heads, Extent, SlabPages
    <2>2. CASE \E i \in StartPages(d) : t \in Run(d, i)
      <3>1. PICK i \in StartPages(d) : t \in Run(d, i)
        BY <2>2
      <3>2. i \in PageNodes /\ i \in Heads(d) /\ Extent(d, i) = d[i].n
        BY DEF StartPages, Heads, Extent
      <3>3. i \in Nodes /\ i \in Int
        BY <3>2, Bounds
      <3>4. d[i].n \in 0 .. 11
        BY <3>3, Fields
      <3>5. i <= t /\ t < i + d[i].n
        BY <3>1, <3>3, <3>4 DEF Run
      <3> QED
        BY <3>2, <3>5
    <2> QED
      BY <2>1, <2>2 DEF TakenPages
  <1>7. j # k
    BY <1>1, <1>6 DEF SlabPages, StartPages
  <1>8. j \in Int /\ 0 <= j /\ Extent(d, j) \in Int
    <2>1. j \in Nodes /\ j \in Int /\ 0 <= j
      BY <1>6, Bounds
    <2>2. d[j].n \in 0 .. 11
      BY <2>1, Fields
    <2> QED
      BY <2>1, <2>2 DEF Extent
  <1>9. CASE j < k
    <2>1. j + Extent(d, j) <= k
      BY <1>1, <1>9 DEF Layout
    <2> QED
      BY <1>2, <1>5, <1>6, <1>8, <2>1
  <1>10. CASE k < j
    <2>1. k + d[k].n <= j
      BY <1>1, <1>10 DEF Layout
    <2> QED
      BY <1>2, <1>3, <1>5, <1>6, <1>8, <1>10, <2>1
  <1> QED
    BY <1>2, <1>7, <1>8, <1>9, <1>10

\* k pages more are given away than before.
LEMMA CutTaken ==
  ASSUME NEW d \in Descs, Layout(d), Linked(d), NEW page \in FreeStarts(d),
         NEW k \in 1 .. d[page].n
  PROVE  Cardinality(TakenPages(CutOff(d, page, k))) = Cardinality(TakenPages(d)) + k
  <1> DEFINE e == CutOff(d, page, k)
             new == page .. page + k - 1
  <1>1. page \in PageNodes /\ page + d[page].n <= Pages
    BY RunFacts
  <1>2. /\ page \in Int /\ k \in Int /\ 1 <= k /\ k <= d[page].n /\ d[page].n \in Int /\ 0 <= page
        /\ page \in Nodes
    <2>1. page \in Nodes /\ page \in Int /\ 0 <= page
      BY <1>1, Bounds
    <2>2. d[page].n \in 0 .. 11
      BY <2>1, Fields
    <2> QED
      BY <2>1, <2>2
  <1>3. new \subseteq Run(d, page)
    BY <1>2 DEF Run
  <1>4. new \intersect TakenPages(d) = {}
    BY <1>3, FreeNotTaken
  <1>5. /\ SlabPages(e) = SlabPages(d) /\ StartPages(e) = StartPages(d) \union {page}
        /\ \A j \in StartPages(d) : e[j].n = d[j].n
    <2>1. \A j \in PageNodes : /\ j \in StartPages(e) <=> j \in StartPages(d) \/ j = page
                               /\ j \in SlabPages(e) <=> j \in SlabPages(d)
                               /\ j \in StartPages(d) => Alike(d, e, j)
      BY CutHeads
    <2>2. \A f : StartPages(f) \subseteq PageNodes /\ SlabPages(f) \subseteq PageNodes
      BY DEF StartPages, SlabPages
    <2> HIDE DEF e
    <2> QED
      BY <1>1, <2>1, <2>2 DEF Alike, SameRest
  <1>6. e[page].n = k
    BY CutFields
  <1> HIDE DEF e
  <1>7. Run(e, page) = new /\ \A j \in StartPages(d) : Run(e, j) = Run(d, j)
    BY <1>5, <1>6 DEF Run
  <1>8. UNION {Run(e, j) : j \in StartPages(e)} = new \union UNION {Run(d, j) : j \in StartPages(d)}
    <2> HIDE DEF new
    <2> QED
      BY <1>5, <1>7
  <1>9. TakenPages(e) = TakenPages(d) \union new
    BY <1>5, <1>8 DEF TakenPages
  <1>10. IsFiniteSet(new) /\ Cardinality(new) = k
    <2>1. page \in Int /\ page + k - 1 \in Int /\ ~(page > page + k - 1) /\ (page + k - 1) - page + 1 = k
      BY <1>2
    <2> QED
      BY <2>1, FS_Interval
  <1>11. /\ IsFiniteSet(TakenPages(d))
         /\ Cardinality(TakenPages(d)) \in Int
    BY TakenInside
  <1> HIDE DEF new
  <1>12. Cardinality(TakenPages(d) \union new)
           = Cardinality(TakenPages(d)) + Cardinality(new) - Cardinality(TakenPages(d) \intersect new)
    BY <1>10, <1>11, FS_Union
  <1>13. Cardinality(TakenPages(d) \intersect new) = 0
    BY <1>4, FS_EmptySet
  <1> QED
    BY <1>2, <1>9, <1>10, <1>11, <1>12, <1>13 DEF e
-----------------------------------------------------------------------------
(* Classes of pages.                                                        *)

\* A page has one class, and the slots of two classes are two nodes.
LEMMA ClassFacts ==
  /\ \A shift \in Classes : shift \in Int /\ 3 <= shift /\ shift <= 10 /\ SlotNode(shift) = shift - 11
  /\ \A shift \in Classes : SlotNode(shift) \in Nodes /\ SlotNode(shift) \notin PageNodes
                            /\ SlotNode(shift) # FreeHead /\ SlotNode(shift) # Null
                            /\ SlotNode(shift) < 0 /\ SlotNode(shift) \in SlotNodes
  /\ \A a, b \in Classes : SlotNode(a) = SlotNode(b) => a = b
  <1>1. \A shift \in Classes : shift \in Int /\ 3 <= shift /\ shift <= 10 /\ SlotNode(shift) = shift - 11
    <2>1. Classes = 3 .. 10 /\ \A shift \in Classes : SlotNode(shift) = shift - 11
      BY Numbers
    <2> QED
      BY <2>1
  <1>2. \A shift \in Classes : SlotNode(shift) \in Nodes /\ SlotNode(shift) \notin PageNodes
                               /\ SlotNode(shift) # FreeHead /\ SlotNode(shift) # Null
                               /\ SlotNode(shift) < 0 /\ SlotNode(shift) \in SlotNodes
    <2>1. ASSUME NEW shift \in Classes
          PROVE  SlotNode(shift) \in SlotNodes
      <3>1. shift \in Int /\ 3 <= shift /\ shift <= 10 /\ SlotNode(shift) = shift - 11
        BY <1>1
      <3>2. SlotNodes = -8 .. -1
        BY Numbers
      <3> QED
        BY <3>1, <3>2
    <2> QED
      BY <2>1, SlotBounds
  <1> QED
    BY <1>1, <1>2

\* A page is of one class.
LEMMA OneClass ==
  ASSUME NEW d, NEW k, NEW a \in Classes, NEW b \in Classes, InClass(d, k, a), InClass(d, k, b)
  PROVE  a = b
  <1>1. a \in Int /\ b \in Int
    BY ClassFacts
  <1> QED
    BY <1>1 DEF InClass, TypeOf, Number, ExactShift

\* A page of a class is a slab page.
LEMMA InClassIsSlab ==
  ASSUME NEW d, NEW k, NEW shift \in Classes, InClass(d, k, shift)
  PROVE  k \in SlabPages(d) /\ k \in PageNodes
  BY DEF InClass, TypeOf, SlabPages

\* A class whose pages and slot did not change is as it was.
LEMMA ClassKept ==
  ASSUME NEW s, NEW t, NEW shift \in Classes, ClassOK(s, shift),
         t.desc[SlotNode(shift)].next = s.desc[SlotNode(shift)].next,
         \A j \in PageNodes : InClass(t.desc, j, shift) <=> InClass(s.desc, j, shift),
         \A j \in PageNodes : InClass(s.desc, j, shift) =>
           Alike(s.desc, t.desc, j) /\ t.bitmap[j] = s.bitmap[j]
  PROVE  ClassOK(t, shift)
  <1> DEFINE slot == SlotNode(shift)
             d == s.desc
             e == t.desc
  <1>1. \A j : InClass(e, j, shift) <=> InClass(d, j, shift)
    BY DEF InClass
  <1>2. \A j : InClass(d, j, shift) => Alike(d, e, j) /\ t.bitmap[j] = s.bitmap[j]
    BY DEF InClass
  <1>3. HeadOK(e, shift)
    BY <1>1, <1>2 DEF ClassOK, HeadOK, Alike
  <1>4. ZeroOK(e, shift)
    BY <1>1, <1>2 DEF ClassOK, ZeroOK, Alike
  <1>5. ASSUME NEW k \in PageNodes, InClass(e, k, shift)
        PROVE  /\ k # 0 => e[k].next \in {slot, Null}
               /\ RoomOK(t, k, shift)
    <2>1. /\ k # 0 => d[k].next \in {slot, Null}
          /\ RoomOK(s, k, shift)
      BY <1>1, <1>5 DEF ClassOK
    <2>2. Alike(d, e, k) /\ t.bitmap[k] = s.bitmap[k]
      BY <1>1, <1>2, <1>5
    <2> QED
      BY <2>1, <2>2 DEF RoomOK, Alike, SameRest
  <1> QED
    BY <1>3, <1>4, <1>5 DEF ClassOK

\* So are all slots when no slab page and no slot changed.
LEMMA SlotsKept ==
  ASSUME NEW s, NEW t, SlotsOK(s), t.bitmap = s.bitmap,
         \A j \in SlotNodes : t.desc[j].next = s.desc[j].next,
         \A j \in PageNodes : j \in SlabPages(t.desc) <=> j \in SlabPages(s.desc),
         \A j \in PageNodes : j \in SlabPages(s.desc) => Alike(s.desc, t.desc, j)
  PROVE  SlotsOK(t)
  <1>1. ASSUME NEW shift \in Classes
        PROVE  \A j \in PageNodes :
                 /\ InClass(t.desc, j, shift) <=> InClass(s.desc, j, shift)
                 /\ InClass(s.desc, j, shift) => Alike(s.desc, t.desc, j) /\ t.bitmap[j] = s.bitmap[j]
    BY InClassIsSlab DEF InClass, Alike, SameRest
  <1>2. ASSUME NEW shift \in Classes
        PROVE  ClassOK(t, shift)
    BY <1>1, ClassFacts, ClassKept DEF SlotsOK
  <1>3. ASSUME NEW k \in SlabPages(t.desc)
        PROVE  \E shift \in Classes : InClass(t.desc, k, shift)
    <2>1. k \in PageNodes /\ k \in SlabPages(s.desc)
      BY <1>3 DEF SlabPages
    <2> QED
      BY <1>1, <2>1 DEF SlotsOK
  <1> QED
    BY <1>2, <1>3 DEF SlotsOK
-----------------------------------------------------------------------------
(* hcore_slab_alloc_pages, as a whole.                                      *)

\* The least element that the searches of the code find.
LEMMA MinIs ==
  ASSUME NEW S \in SUBSET Nat, S # {}
  PROVE  Min(S) \in S /\ \A y \in S : Min(S) <= y
  <1>1. \E x \in S : \A y \in S : x <= y
    BY Least
  <1> QED
    BY <1>1 DEF Min

\* The state of the pool, made of its components.
State(d, b, c) == [desc |-> d, bitmap |-> b, pfree |-> c]

\* A part of the state is replaced.
WithDesc(s, x) == [s EXCEPT !.desc = x]
WithBitmap(s, x) == [s EXCEPT !.bitmap = x]
WithPfree(s, x) == [s EXCEPT !.pfree = x]

\* One component of the state of the pool is assigned.
LEMMA OneSet ==
  ASSUME NEW a, NEW b, NEW c, NEW x
  PROVE  /\ WithDesc(State(a, b, c), x) = State(x, b, c)
         /\ WithBitmap(State(a, b, c), x) = State(a, x, c)
         /\ WithPfree(State(a, b, c), x) = State(a, b, x)
  <1>1. WithDesc(State(a, b, c), x) = State(x, b, c)
    BY DEF State, WithDesc
  <1>2. WithBitmap(State(a, b, c), x) = State(a, x, c)
    BY DEF State, WithBitmap
  <1>3. WithPfree(State(a, b, c), x) = State(a, b, x)
    BY DEF State, WithPfree
  <1> QED
    BY <1>1, <1>2, <1>3

\* The state of the pool is its three components.
LEMMA StateIs ==
  ASSUME NEW s, Typed(s)
  PROVE  /\ s = State(s.desc, s.bitmap, s.pfree)
         /\ s.desc \in Descs /\ s.bitmap \in [PageNodes -> SUBSET Nat]
  BY DEF Typed, State, Descs

\* Nothing is taken, or the first k pages of a run that has as many.
LEMMA AllocPagesIs ==
  ASSUME NEW s, PagesOK(s), NEW k \in Nat \ {0}
  PROVE  \/ AllocPages(s, k).page = Null /\ AllocPages(s, k).s = s
         \/ LET page == AllocPages(s, k).page IN
            /\ page \in FreeStarts(s.desc) /\ page # Null /\ k \in 1 .. s.desc[page].n
            /\ AllocPages(s, k).s = State(CutOff(s.desc, page, k), s.bitmap, s.pfree - k)
  <1> DEFINE run == FreeRun(s.desc)
             fit == {i \in 0 .. Pages : run[i] # FreeHead /\ k <= s.desc[run[i]].n}
             page == run[Min(fit)]
             new == [s EXCEPT !.desc = CutOff(s.desc, page, k), !.pfree = s.pfree - k]
  <1>3. AllocPages(s, k) = IF fit = {} THEN [s |-> s, page |-> Null]
                           ELSE [s |-> new, page |-> page]
    BY Zenon DEF AllocPages, CutOff
  <1> HIDE DEF new
  <1>1. CASE fit = {}
    <2>1. AllocPages(s, k) = [s |-> s, page |-> Null]
      BY <1>1, <1>3, Zenon
    <2> QED
      BY <2>1
  <1>2. CASE fit # {}
    <2>1. Min(fit) \in fit
      <3>1. fit \subseteq Nat
        OBVIOUS
      <3> HIDE DEF fit
      <3> QED
        BY <1>2, <3>1, MinIs
    <2>2. /\ page \in FreeStarts(s.desc) /\ k <= s.desc[page].n
      BY <2>1, FreeWalk DEF PagesOK
    <2>8. AllocPages(s, k) = [s |-> new, page |-> page]
      BY <1>2, <1>3, Zenon
    <2> HIDE DEF page
    <2>3. page \in Nodes /\ page # Null
      BY <2>2, Bounds DEF FreeStarts
    <2>4. s.desc[page].n \in 0 .. 11
      BY <2>3, Fields, StateIs DEF PagesOK
    <2>5. k \in 1 .. s.desc[page].n
      BY <2>2, <2>4
    <2>6. /\ AllocPages(s, k).page = page
          /\ AllocPages(s, k).s = [s EXCEPT !.desc = CutOff(s.desc, page, k), !.pfree = s.pfree - k]
      BY <2>8 DEF new
    <2>7. AllocPages(s, k).s = State(CutOff(s.desc, page, k), s.bitmap, s.pfree - k)
      <3>1. s = [desc |-> s.desc, bitmap |-> s.bitmap, pfree |-> s.pfree]
        BY DEF PagesOK, Typed
      <3> DEFINE dd == s.desc
                 bb == s.bitmap
                 cc == s.pfree
                 c == CutOff(dd, page, k)
      <3>2. s = [desc |-> dd, bitmap |-> bb, pfree |-> cc]
        BY <3>1
      <3>3. AllocPages(s, k).s = [s EXCEPT !.desc = c, !.pfree = cc - k]
        BY <2>6
      <3> HIDE DEF dd, bb, cc, c
      <3>4. AllocPages(s, k).s = [desc |-> c, bitmap |-> bb, pfree |-> cc - k]
        BY <3>2, <3>3
      <3> QED
        BY <3>4 DEF State, dd, bb, cc, c
    <2> QED
      BY <2>2, <2>3, <2>5, <2>6, <2>7
  <1> QED
    BY <1>1, <1>2

\* The pool stays sound when pages are taken.
LEMMA TakeSound ==
  ASSUME NEW s, Sound(s), NEW page \in FreeStarts(s.desc), NEW k \in 1 .. s.desc[page].n
  PROVE  LET t == State(CutOff(s.desc, page, k), s.bitmap, s.pfree - k) IN
         /\ Sound(t)
         /\ page \in StartPages(t.desc) /\ t.desc[page].n = k
         /\ \A j \in SlotNodes : t.desc[j].next = s.desc[j].next
  <1> DEFINE d == s.desc
             e == CutOff(d, page, k)
             t == State(e, s.bitmap, s.pfree - k)
  <1>1. d \in Descs /\ Layout(d) /\ Linked(d) /\ s.bitmap \in [PageNodes -> SUBSET Nat]
        /\ s.pfree = Pages - Cardinality(TakenPages(d))
    BY StateIs DEF Sound, PagesOK, Counted
  <1>2. t.desc = e /\ t.bitmap = s.bitmap /\ t.pfree = s.pfree - k /\ t = State(e, s.bitmap, s.pfree - k)
    BY DEF State
  <1>3. e \in Descs /\ e[page].n = k
    BY <1>1, CutFields
  <1>4. Layout(e) /\ Linked(e)
    BY <1>1, CutLayout, CutLinked
  <1>5. Cardinality(TakenPages(e)) = Cardinality(TakenPages(d)) + k
    BY <1>1, CutTaken
  <1>6. page \in PageNodes /\ d[page].prev \in FreeStarts(d) \union {FreeHead}
    BY <1>1, RunFacts
  <1>7. \A j \in PageNodes : /\ j \in StartPages(e) <=> j \in StartPages(d) \/ j = page
                             /\ j \in SlabPages(e) <=> j \in SlabPages(d)
                             /\ j \in SlabPages(d) => Alike(d, e, j)
    BY <1>1, CutHeads
  <1>8. \A j \in SlotNodes : e[j].next = d[j].next
    <2>1. \A j \in SlotNodes : j \in Nodes /\ j < page /\ j # page + k /\ j # d[page].prev
      <3>1. page \in Int /\ 0 <= page /\ k \in Int /\ 1 <= k
        <4>1. page \in Nodes /\ page \in Int /\ 0 <= page
          BY <1>6, Bounds
        <4>2. d[page].n \in 0 .. 11
          BY <1>1, <4>1, Fields
        <4> QED
          BY <4>1, <4>2
      <3>2. \A j \in SlotNodes : j # d[page].prev
        BY <1>6, SlotBounds DEF FreeStarts
      <3>3. \A j \in SlotNodes : j \in Nodes /\ j \in Int /\ j < 0
        BY SlotBounds
      <3> QED
        BY <3>1, <3>2, <3>3
    <2> QED
      BY <1>1, <2>1, CutFields
  <1> HIDE DEF e, t
  <1>9. Typed(t)
    <2>1. t = [desc |-> t.desc, bitmap |-> t.bitmap, pfree |-> t.pfree]
      BY <1>2 DEF State
    <2> QED
      BY <1>1, <1>2, <1>3, <2>1 DEF Typed, Descs
  <1>10. Counted(t)
    <2>1. k \in Int /\ Cardinality(TakenPages(d)) \in Int /\ Pages \in Int
      <3>1. page \in Nodes
        BY <1>6, Bounds
      <3>2. d[page].n \in 0 .. 11
        BY <1>1, <3>1, Fields
      <3> QED
        BY <1>1, <3>2, TakenInside, Bounds
    <2> QED
      BY <1>1, <1>2, <1>5, <2>1 DEF Counted
  <1>11. SlotsOK(t)
    BY <1>2, <1>7, <1>8, SlotsKept DEF Sound
  <1> QED
    BY <1>2, <1>3, <1>4, <1>6, <1>7, <1>8, <1>9, <1>10, <1>11 DEF Sound, PagesOK, t, e
-----------------------------------------------------------------------------
(* Changes of pages that were given away.                                   *)

\* The first pages of runs in use and slab pages, and the pages each stands for.
Given(d) == StartPages(d) \union SlabPages(d)
Part(d, k) == k .. k + Extent(d, k) - 1

\* The pages that were given away are the extents of runs in use and slab pages.
LEMMA TakenIs ==
  ASSUME NEW d \in Descs
  PROVE  TakenPages(d) = UNION {Part(d, k) : k \in Given(d)}
  <1>1. \A k \in StartPages(d) : Part(d, k) = Run(d, k)
    BY DEF StartPages, Part, Run, Extent
  <1>2. ASSUME NEW k \in SlabPages(d)
        PROVE  Part(d, k) = {k}
    <2>1. k \in Int /\ Extent(d, k) = 1
      BY Bounds DEF SlabPages, Extent
    <2> QED
      BY <2>1 DEF Part
  <1> QED
    BY <1>1, <1>2 DEF TakenPages, Given

\* The list of free runs and the count of pages do not depend on what is in
\* the pages that were given away, as long as they stay given away.
LEMMA PagesKept ==
  ASSUME NEW s, NEW t, PagesOK(s), Typed(t), t.pfree = s.pfree,
         t.desc[FreeHead].next = s.desc[FreeHead].next,
         \A j \in PageNodes : j \in FreeStarts(t.desc) <=> j \in FreeStarts(s.desc),
         \A j \in FreeStarts(s.desc) : Alike(s.desc, t.desc, j),
         \A j \in PageNodes : j \in Given(t.desc) <=> j \in Given(s.desc),
         \A j \in Given(s.desc) : Extent(t.desc, j) = Extent(s.desc, j),
         \A j \in StartPages(t.desc) : t.desc[j].next = Null /\ t.desc[j].n >= 1
  PROVE  PagesOK(t)
  <1> DEFINE d == s.desc
             e == t.desc
  <1>1. /\ FreeStarts(e) = FreeStarts(d) /\ Given(e) = Given(d)
        /\ \A f : FreeStarts(f) \subseteq PageNodes /\ Given(f) \subseteq PageNodes
    BY DEF FreeStarts, Given, StartPages, SlabPages
  <1>2. Layout(d) /\ Linked(d) /\ Counted(s) /\ d \in Descs /\ e \in Descs
    BY StateIs DEF PagesOK
  <1>3. \A f : Heads(f) = FreeStarts(f) \union Given(f)
    BY DEF Heads, Given
  <1>4. Heads(e) = Heads(d) /\ \A j \in Heads(d) : Extent(e, j) = Extent(d, j)
    BY <1>1, <1>3 DEF Extent, Alike, SameRest
  <1>5. \A j \in FreeStarts(e) : e[j].flag = "none"
    BY <1>1, <1>2 DEF Layout, Alike, SameRest
  <1>6. Layout(e)
    <2>1. \A j \in Heads(e) : j + Extent(e, j) <= Pages /\ (j # 0 => Extent(e, j) >= 1)
      BY <1>2, <1>4 DEF Layout
    <2>2. \A j, k \in Heads(e) : j < k => j + Extent(e, j) <= k
      BY <1>2, <1>4 DEF Layout
    <2> QED
      BY <1>5, <2>1, <2>2 DEF Layout
  <1>7. Linked(e)
    <2>1. \A j \in FreeStarts(e) \union {FreeHead} : e[j].next = d[j].next
      BY <1>1 DEF Alike
    <2>2. \A j \in FreeStarts(e) : e[j].prev = d[j].prev
      BY <1>1 DEF Alike
    <2> HIDE DEF e, d
    <2> QED
      BY <1>1, <1>2, <2>1, <2>2 DEF Linked
  <1>8. TakenPages(e) = TakenPages(d)
    <2>1. \A j \in Given(d) : Part(e, j) = Part(d, j)
      BY DEF Part
    <2>2. {Part(e, j) : j \in Given(e)} = {Part(d, j) : j \in Given(d)}
      BY <1>1, <2>1
    <2> QED
      BY <1>2, <2>2, TakenIs
  <1> QED
    BY <1>2, <1>6, <1>7, <1>8 DEF PagesOK, Counted

\* Slots are sound when one class is, and the others did not change.
LEMMA OneClassChanged ==
  ASSUME NEW s, NEW t, SlotsOK(s), NEW shift \in Classes, ClassOK(t, shift),
         \A j \in SlotNodes : j # SlotNode(shift) => t.desc[j].next = s.desc[j].next,
         \A j \in PageNodes :
           \/ InClass(t.desc, j, shift) /\ (InClass(s.desc, j, shift) \/ j \notin SlabPages(s.desc))
           \/ j \notin SlabPages(t.desc) /\ (InClass(s.desc, j, shift) \/ j \notin SlabPages(s.desc))
           \/ Alike(s.desc, t.desc, j) /\ t.bitmap[j] = s.bitmap[j]
  PROVE  SlotsOK(t)
  <1>1. ASSUME NEW other \in Classes, other # shift, NEW j \in PageNodes
        PROVE  /\ InClass(t.desc, j, other) <=> InClass(s.desc, j, other)
               /\ InClass(s.desc, j, other) => Alike(s.desc, t.desc, j) /\ t.bitmap[j] = s.bitmap[j]
    <2>1. CASE Alike(s.desc, t.desc, j) /\ t.bitmap[j] = s.bitmap[j]
      BY <2>1 DEF InClass, Alike, SameRest
    <2>2. CASE ~(Alike(s.desc, t.desc, j) /\ t.bitmap[j] = s.bitmap[j])
      <3>1. ~InClass(s.desc, j, other)
        BY <1>1, <2>2, OneClass, InClassIsSlab
      <3>2. ~InClass(t.desc, j, other)
        BY <1>1, <2>2, OneClass, InClassIsSlab
      <3> QED
        BY <3>1, <3>2
    <2> QED
      BY <2>1, <2>2
  <1>2. ASSUME NEW other \in Classes, other # shift
        PROVE  ClassOK(t, other)
    <2>1. SlotNode(other) \in SlotNodes /\ SlotNode(other) # SlotNode(shift)
      BY <1>2, ClassFacts
    <2> QED
      BY <1>1, <1>2, <2>1, ClassKept DEF SlotsOK
  <1>3. ASSUME NEW k \in SlabPages(t.desc)
        PROVE  \E c \in Classes : InClass(t.desc, k, c)
    <2>1. k \in PageNodes
      BY <1>3 DEF SlabPages
    <2>2. CASE InClass(t.desc, k, shift)
      BY <2>2
    <2>3. CASE ~InClass(t.desc, k, shift)
      <3>1. Alike(s.desc, t.desc, k)
        BY <1>3, <2>1, <2>3
      <3>2. k \in SlabPages(s.desc)
        BY <1>3, <3>1 DEF SlabPages, Alike
      <3> QED
        BY <3>1, <3>2 DEF SlotsOK, InClass, Alike, SameRest
    <2> QED
      BY <2>2, <2>3
  <1> QED
    BY <1>2, <1>3 DEF SlotsOK
-----------------------------------------------------------------------------
(* A new slab page.                                                         *)

\* Sizes of bitmaps: 512 chunks of 8 bytes, 256 of 16 and 32 of 128.
LEMMA BitNumbers ==
  /\ SmallBits(3) = 0 .. 511 /\ SmallBits(4) = 0 .. 255
  /\ Max({OwnBits(3), 1}) = 8 /\ Max({OwnBits(4), 1}) = 2
  /\ BigBits(7) = 0 .. 31
  <1>1. SmallBits(3) = 0 .. 511 /\ SmallBits(4) = 0 .. 255 /\ OwnBits(3) = 8 /\ OwnBits(4) = 2
    BY SMT DEF SmallBits, OwnBits, PageSize
  <1>2. BigBits(7) = 0 .. 31
    BY SMT DEF BigBits, PageSize, WordBits
  <1>3. Max({8, 1}) = 8 /\ Max({2, 1}) = 2
    BY DEF Max
  <1> QED
    BY <1>1, <1>2, <1>3

\* A listed page of one of these classes has room.
LEMMA ListedHasRoom ==
  ASSUME NEW s, Sound(s), NEW shift \in {3, 4, 7},
         s.desc[SlotNode(shift)].next # SlotNode(shift)
  PROVE  HasChunk(s, shift, s.desc[SlotNode(shift)].next)
  <1> DEFINE d == s.desc
             slot == SlotNode(shift)
             k == d[slot].next
  <1>1. shift \in Classes /\ ExactShift = 5
    BY Numbers DEF ExactShift
  <1>2. ClassOK(s, shift)
    BY <1>1 DEF Sound, SlotsOK
  <1>3. InClass(d, k, shift) /\ d[k].next # Null /\ k \in PageNodes
    BY <1>2, <1>1, InClassIsSlab DEF ClassOK, HeadOK
  <1>4. d[k].next # k
    <2>1. CASE k = 0
      BY <1>2, <1>3, <2>1, <1>1, ClassFacts DEF ClassOK, ZeroOK
    <2>2. CASE k # 0
      BY <1>2, <1>3, <2>2, <1>1, ClassFacts DEF ClassOK
    <2> QED
      BY <2>1, <2>2
  <1>5. RoomOK(s, k, shift)
    BY <1>2, <1>3 DEF ClassOK
  <1>6. CASE shift \in {3, 4}
    <2>1. ~ SmallBits(shift) \subseteq s.bitmap[k]
      BY <1>3, <1>5, <1>6 DEF RoomOK
    <2> QED
      BY <1>1, <1>4, <1>6, <2>1 DEF HasChunk
  <1>7. CASE shift = 7
    <2>1. d[k].bits \subseteq {0, 1}
      BY <1>5, <1>7 DEF RoomOK
    <2>2. 2 \in BigBits(7) /\ 2 \notin {0, 1}
      BY BitNumbers
    <2> QED
      BY <1>1, <1>4, <1>7, <2>1, <2>2 DEF HasChunk
  <1> QED
    BY <1>6, <1>7

\* Pages that were given away keep their class, or their length.
Keeps(d, e) ==
  \A j \in PageNodes :
    /\ \A c \in Classes : InClass(d, j, c) => InClass(e, j, c)
    /\ j \in StartPages(d) => j \in StartPages(e) /\ e[j].n = d[j].n

\* The descriptor of a new slab page.
SlabRecord(shift) ==
  [n |-> IF TypeOf(shift) = "exact" THEN 0 ELSE shift, flag |-> "none", bits |-> IF TypeOf(shift) = "small" THEN {} ELSE {0},
   prev |-> SlotNode(shift), type |-> TypeOf(shift), next |-> SlotNode(shift)]

\* The descriptor of a new slab page is one.
LEMMA SlabRecordIs ==
  ASSUME NEW shift \in Classes
  PROVE  SlabRecord(shift) \in Descriptor
  <1> DEFINE N == 0 .. Pages \union 0 .. PageShift
             B == SUBSET (0 .. WordBits - 1)
             L == Nodes \union {Null}
             b == IF TypeOf(shift) = "small" THEN {} ELSE {0}
             sn == SlotNode(shift)
             ty == TypeOf(shift)
             nn == IF TypeOf(shift) = "exact" THEN 0 ELSE shift
  <1>1. Descriptor = [n : N, flag : {"none", "start", "busy"}, bits : B,
                      prev : L, type : Types, next : L]
    BY DEF Descriptor
  <1>2. nn \in N
    BY ClassFacts DEF PageShift
  <1>3. b \in B /\ sn \in L /\ ty \in Types
    BY ClassFacts DEF WordBits, TypeOf, Types
  <1>4. SlabRecord(shift) = [n |-> nn, flag |-> "none", bits |-> b, prev |-> sn, type |-> ty, next |-> sn]
    BY DEF SlabRecord
  <1> HIDE DEF N, B, L, b, sn, ty, nn
  <1> QED
    BY <1>1, <1>2, <1>3, <1>4

\* The first page of the run at g becomes a slab page at the head of its slot.
Listing(d, g, shift) == PutNext(Put(d, g, SlabRecord(shift)), SlotNode(shift), g)

\* hcore_slab_alloc_locked takes one page for the class, writes its descriptor and
\* puts it at the head of the slot; when there is no page it changes nothing.
LEMMA NewPageIs ==
  ASSUME NEW s, PagesOK(s), NEW shift \in Classes
  PROVE  LET got == AllocPages(s, 1)
             g == got.page
             b == IF TypeOf(shift) = "small"
                  THEN [s.bitmap EXCEPT ![g] = 0 .. Max({OwnBits(shift), 1})] ELSE s.bitmap
         IN \/ NewPage(s, shift).s = s /\ NewPage(s, shift).kind = "null"
            \/ /\ g \in FreeStarts(s.desc) /\ 1 \in 1 .. s.desc[g].n
               /\ NewPage(s, shift).s =
                    State(Listing(CutOff(s.desc, g, 1), g, shift), b, s.pfree - 1)
               /\ NewPage(s, shift).kind = "address" /\ NewPage(s, shift).at.page = g
  <1> DEFINE got == AllocPages(s, 1)
             g == got.page
             b == IF TypeOf(shift) = "small"
                  THEN [s.bitmap EXCEPT ![g] = 0 .. Max({OwnBits(shift), 1})] ELSE s.bitmap
             c == CutOff(s.desc, g, 1)
             x == s.pfree - 1
             bb == s.bitmap
  <1>1. \/ g = Null /\ got.s = s
        \/ g \in FreeStarts(s.desc) /\ g # Null /\ 1 \in 1 .. s.desc[g].n /\ got.s = State(c, bb, x)
    BY AllocPagesIs
  <1>2. CASE g = Null
    BY <1>2 DEF NewPage, Failure, Outcome
  <1>3. CASE g # Null
    <2> DEFINE small == TypeOf(shift) = "small"
               slot == SlotNode(shift)
               own == Max({OwnBits(shift), 1})
               off == IF small THEN own * 2 ^ shift ELSE 0
               u == got.s
               X == [u.desc EXCEPT ![g] = SlabRecord(shift), ![slot].next = g]
               Y == IF small THEN [u.bitmap EXCEPT ![g] = 0 .. own] ELSE u.bitmap
    <2>1. NewPage(s, shift) = Outcome([u EXCEPT !.desc = X, !.bitmap = Y], "address", g, off)
      BY <1>3 DEF NewPage, SlabRecord, TypeOf
    <2>2. u = State(c, bb, x)
      BY <1>1, <1>3
    <2>3. u.desc = c /\ u.bitmap = bb
      BY <2>2 DEF State
    <2>4. X = Listing(c, g, shift)
      <3> HIDE DEF c, g, u
      <3> QED
        BY <2>3 DEF Listing, Put, PutNext
    <2>5. Y = b
      BY <2>3
    <2> HIDE DEF X, Y, off, u, g, c, bb, x, b, got
    <2>6. [u EXCEPT !.desc = X, !.bitmap = Y] = State(X, Y, x)
      <3>1. [u EXCEPT !.desc = X, !.bitmap = Y] = WithBitmap(WithDesc(u, X), Y)
        BY DEF WithDesc, WithBitmap
      <3> QED
        BY <2>2, <3>1, OneSet
    <2>7. NewPage(s, shift).s = State(X, Y, x) /\ NewPage(s, shift).kind = "address"
          /\ NewPage(s, shift).at.page = g
      BY <2>1, <2>6 DEF Outcome
    <2>8. g \in FreeStarts(s.desc) /\ 1 \in 1 .. s.desc[g].n
      BY <1>1, <1>3
    <2> QED
      BY <2>4, <2>5, <2>7, <2>8 DEF g, c, bb, x, b, got
  <1> QED
    BY <1>2, <1>3
-----------------------------------------------------------------------------
(* Page 0, the only one that hcore_slab_free_locked can give back.          *)

\* No more than m allocations in use begin in page 0, as far as the bits in
\* use tell: the own bit of a small page keeps it in its class.
Own(shift) == Max({OwnBits(shift), 1})
Bound(s, m) ==
  /\ 0 \in StartPages(s.desc) => m <= 1
  /\ s.desc[0].type \in {"exact", "big"} => m <= Cardinality(s.desc[0].bits)
  /\ s.desc[0].type = "small" => Own(s.desc[0].n) \in s.bitmap[0]

\* Page 0 keeps what it is, and every bit in use.
ZeroKept(s, t) ==
  /\ t.desc[0].type = s.desc[0].type /\ t.desc[0].n = s.desc[0].n
  /\ t.desc[0].flag = s.desc[0].flag
  /\ s.desc[0].bits \subseteq t.desc[0].bits /\ s.bitmap[0] \subseteq t.bitmap[0]

\* The bits in use keep up with the addresses that requests return.
Granted(s, got) ==
  \A m \in Nat : Bound(s, m) /\ (0 \notin Given(s.desc) => m = 0) =>
    Bound(got.s, IF got.kind = "address" /\ got.at.page = 0 THEN m + 1 ELSE m)

\* The bits of a descriptor are finitely many.
LEMMA BitsFinite ==
  ASSUME NEW d \in Descs, NEW k \in Nodes
  PROVE  IsFiniteSet(d[k].bits) /\ Cardinality(d[k].bits) \in Nat
  <1>1. d[k].bits \in SUBSET (0 .. WordBits - 1)
    BY Fields
  <1>2. IsFiniteSet(0 .. WordBits - 1)
    <2>1. \A b \in Int : IsFiniteSet(0 .. b)
      BY FS_Interval
    <2>2. WordBits - 1 \in Int
      BY DEF WordBits
    <2> QED
      BY <2>1, <2>2
  <1> QED
    BY <1>1, <1>2, FS_Subset, FS_CardinalityType

\* What bounds the allocations in page 0 still does when bits are added.
LEMMA BoundKept ==
  ASSUME NEW s, NEW t, Typed(s), Typed(t), ZeroKept(s, t), NEW m \in Nat, Bound(s, m)
  PROVE  Bound(t, m)
  <1>1. s.desc \in Descs /\ t.desc \in Descs /\ 0 \in Nodes
    BY StateIs, Bounds
  <1>2. 0 \in StartPages(t.desc) => 0 \in StartPages(s.desc)
    BY DEF ZeroKept, StartPages
  <1>3. Cardinality(s.desc[0].bits) <= Cardinality(t.desc[0].bits)
    BY <1>1, BitsFinite, FS_Subset DEF ZeroKept
  <1>4. Cardinality(s.desc[0].bits) \in Nat /\ Cardinality(t.desc[0].bits) \in Nat
    BY <1>1, BitsFinite
  <1>5. t.desc[0].type \in {"exact", "big"} => m <= Cardinality(t.desc[0].bits)
    BY <1>3, <1>4 DEF ZeroKept, Bound
  <1> QED
    BY <1>2, <1>5 DEF ZeroKept, Bound

\* A request that only adds bits, and returns an address in page 0 at most when
\* this is a small page.
LEMMA GrantKept ==
  ASSUME NEW s, NEW got, Typed(s), Typed(got.s), ZeroKept(s, got.s),
         got.kind = "address" /\ got.at.page = 0 => s.desc[0].type = "small"
  PROVE  Granted(s, got)
  <1> SUFFICES ASSUME NEW m \in Nat, Bound(s, m)
               PROVE  Bound(got.s, IF got.kind = "address" /\ got.at.page = 0 THEN m + 1 ELSE m)
    BY DEF Granted
  <1>1. Bound(got.s, m)
    BY BoundKept
  <1>2. CASE got.kind = "address" /\ got.at.page = 0
    <2>1. got.s.desc[0].type = "small" /\ 0 \notin StartPages(got.s.desc)
      BY <1>2 DEF ZeroKept, StartPages
    <2> QED
      BY <1>1, <1>2, <2>1 DEF Bound
  <1> QED
    BY <1>1, <1>2

\* The fields of the descriptor of a new slab page.
LEMMA SlabRecordFields ==
  ASSUME NEW shift
  PROVE  LET r == SlabRecord(shift) IN
         /\ r.n = Number(shift) /\ r.flag = "none" /\ r.type = TypeOf(shift)
         /\ r.prev = SlotNode(shift) /\ r.next = SlotNode(shift)
         /\ r.bits = IF TypeOf(shift) = "small" THEN {} ELSE {0}
  BY DEF SlabRecord, Number, TypeOf, ExactShift

\* What the descriptors are after a new page was put in its slot.
LEMMA ListingFields ==
  ASSUME NEW c \in Descs, NEW g \in PageNodes, NEW shift \in Classes
  PROVE  LET e == Listing(c, g, shift) IN
         /\ e \in Descs
         /\ e[g].n = Number(shift) /\ e[g].flag = "none" /\ e[g].type = TypeOf(shift)
         /\ e[g].prev = SlotNode(shift) /\ e[g].next = SlotNode(shift)
         /\ e[g].bits = IF TypeOf(shift) = "small" THEN {} ELSE {0}
         /\ e[SlotNode(shift)].next = g
         /\ \A j \in Nodes : j # g /\ j # SlotNode(shift) => Alike(c, e, j)
  <1> DEFINE slot == SlotNode(shift)
             r == SlabRecord(shift)
             c1 == Put(c, g, r)
             e == Listing(c, g, shift)
  <1>1. g \in Nodes /\ slot \in Nodes /\ g # slot /\ g \in Nodes \union {Null}
    BY Bounds, ClassFacts
  <1>2. /\ r \in Descriptor
        /\ r.n = Number(shift) /\ r.flag = "none" /\ r.type = TypeOf(shift)
        /\ r.prev = SlotNode(shift) /\ r.next = SlotNode(shift)
        /\ r.bits = IF TypeOf(shift) = "small" THEN {} ELSE {0}
    BY SlabRecordIs, SlabRecordFields
  <1>3. c1 \in Descs /\ c1[g] = r /\ \A j \in Nodes : j # g => c1[j] = c[j]
    BY <1>1, <1>2, PutIs
  <1>4. e = PutNext(c1, slot, g)
    BY DEF Listing
  <1> HIDE DEF c1, e, r, slot
  <1>5. /\ e \in Descs
        /\ \A j \in Nodes : /\ SameRest(c1, e, j)
                            /\ e[j].next = (IF j = slot THEN g ELSE c1[j].next)
                            /\ e[j].prev = c1[j].prev
                            /\ e[j].type = c1[j].type
    BY <1>1, <1>3, <1>4, PutNextIs
  <1>6. \A j \in Nodes : j # g /\ j # slot => Alike(c, e, j)
    BY <1>3, <1>5 DEF Alike, SameRest
  <1>7. e[slot].next = g
    BY <1>1, <1>5
  <1>8. SameRest(c1, e, g) /\ e[g].next = r.next /\ e[g].prev = r.prev /\ e[g].type = r.type
    BY <1>1, <1>3, <1>5
  <1> QED
    BY <1>2, <1>3, <1>5, <1>6, <1>7, <1>8 DEF SameRest, slot, e

\* Pages that are taken leave the ones that were given away before alone.
LEMMA TakeKeeps ==
  ASSUME NEW s, Sound(s), NEW page \in FreeStarts(s.desc), NEW k \in 1 .. s.desc[page].n
  PROVE  Keeps(s.desc, CutOff(s.desc, page, k))
  <1> DEFINE c == CutOff(s.desc, page, k)
  <1>1. s.desc \in Descs /\ Layout(s.desc) /\ Linked(s.desc)
    BY StateIs DEF Sound, PagesOK
  <1>2. \A j \in PageNodes :
          /\ j \in StartPages(c) <=> j \in StartPages(s.desc) \/ j = page
          /\ j \in SlabPages(s.desc) \union StartPages(s.desc) => Alike(s.desc, c, j)
    BY <1>1, CutHeads
  <1> HIDE DEF c
  <1> QED
    BY <1>2, InClassIsSlab DEF Keeps, InClass, Alike, SameRest, c

\* The run that is taken was not given away, and page 0 stays what it was unless
\* the run begins there.
LEMMA TakeGrants ==
  ASSUME NEW s, Sound(s), NEW page \in FreeStarts(s.desc), NEW k \in 1 .. s.desc[page].n
  PROVE  LET t == State(CutOff(s.desc, page, k), s.bitmap, s.pfree - k) IN
         /\ page \notin Given(s.desc)
         /\ page = 0 => Bound(t, 1)
         /\ page # 0 => \A m \in Nat : Bound(s, m) /\ (0 \notin Given(s.desc) => m = 0) => Bound(t, m)
  <1> DEFINE d == s.desc
             e == CutOff(d, page, k)
             t == State(e, s.bitmap, s.pfree - k)
  <1>1. d \in Descs /\ Layout(d) /\ Linked(d) /\ 0 \in PageNodes
    BY StateIs, Bounds DEF Sound, PagesOK
  <1>2. t.desc = e /\ t.bitmap = s.bitmap
    BY DEF State
  <1>3. page \in PageNodes /\ d[page].type = "page" /\ d[page].next # Null
    BY DEF FreeStarts
  <1>4. page \notin Given(d)
    BY <1>1, <1>3 DEF Given, StartPages, SlabPages, Layout
  <1>5. /\ 0 \in StartPages(e) <=> 0 \in StartPages(d) \/ 0 = page
        /\ 0 \in SlabPages(e) <=> 0 \in SlabPages(d)
        /\ 0 \in SlabPages(d) \union StartPages(d) => Alike(d, e, 0)
    BY <1>1, CutHeads
  <1> HIDE DEF e, t, d
  <1>6. ASSUME page = 0
        PROVE  Bound(t, 1)
    <2>1. e[0].type = "page"
      BY <1>5, <1>6 DEF StartPages
    <2> QED
      BY <1>2, <2>1 DEF Bound
  <1>7. ASSUME page # 0, NEW m \in Nat, Bound(s, m), 0 \notin Given(d) => m = 0
        PROVE  Bound(t, m)
    <2>1. CASE 0 \in Given(d)
      <3>1. Alike(d, e, 0) /\ (0 \in StartPages(e) => 0 \in StartPages(d))
        BY <1>5, <1>7, <2>1 DEF Given
      <3> QED
        BY <1>2, <1>7, <3>1 DEF Bound, Alike, SameRest, d
    <2>2. CASE 0 \notin Given(d)
      <3>1. 0 \notin SlabPages(e)
        BY <1>5, <2>2 DEF Given
      <3>2. e[0].type = "page"
        BY <1>1, <3>1 DEF SlabPages
      <3> QED
        BY <1>2, <1>7, <2>2, <3>2 DEF Bound
    <2> QED
      BY <2>1, <2>2
  <1> QED
    BY <1>4, <1>6, <1>7 DEF d, e, t

\* A new page for a class whose slot is empty, or whose first page is full, leaves a
\* sound pool.
LEMMA NewSound ==
  ASSUME NEW s, Sound(s), NEW shift \in Classes,
         shift \in {3, 4, 7} => s.desc[SlotNode(shift)].next = SlotNode(shift)
  PROVE  LET got == NewPage(s, shift) IN
         /\ Sound(got.s) /\ Keeps(s.desc, got.s.desc)
         /\ got.kind = "address" => InClass(got.s.desc, got.at.page, shift)
         /\ Granted(s, got)
  <1> SUFFICES /\ Sound(NewPage(s, shift).s) /\ Keeps(s.desc, NewPage(s, shift).s.desc)
               /\ NewPage(s, shift).kind = "address" =>
                    InClass(NewPage(s, shift).s.desc, NewPage(s, shift).at.page, shift)
               /\ Granted(s, NewPage(s, shift))
    OBVIOUS
  <1> DEFINE got == NewPage(s, shift)
             g == AllocPages(s, 1).page
             slot == SlotNode(shift)
             small == TypeOf(shift) = "small"
             own == Max({OwnBits(shift), 1})
             b == IF small THEN [s.bitmap EXCEPT ![g] = 0 .. own] ELSE s.bitmap
             u == State(CutOff(s.desc, g, 1), s.bitmap, s.pfree - 1)
             c == u.desc
             e == Listing(c, g, shift)
             t == State(e, b, s.pfree - 1)
  <1>1. CASE got.s = s /\ got.kind = "null"
    BY <1>1 DEF Keeps, Granted
  <1>2. CASE /\ g \in FreeStarts(s.desc) /\ 1 \in 1 .. s.desc[g].n
             /\ got.s = t /\ got.kind = "address" /\ got.at.page = g
    <2>1. /\ Sound(u) /\ g \in StartPages(c) /\ c[g].n = 1
          /\ \A j \in SlotNodes : c[j].next = s.desc[j].next
      BY <1>2, TakeSound
    <2>2. /\ s.desc \in Descs /\ Layout(s.desc) /\ Linked(s.desc) /\ s.bitmap \in [PageNodes -> SUBSET Nat]
      BY StateIs DEF Sound, PagesOK
    <2>3. u.desc = CutOff(s.desc, g, 1) /\ u.bitmap = s.bitmap /\ u.pfree = s.pfree - 1
      BY DEF State
    <2>4. Keeps(s.desc, c)
      BY <1>2, <2>3, TakeKeeps
    <2>5. g \in PageNodes /\ g \notin SlabPages(c) /\ c[g].type = "page" /\ c[g].next = Null
      BY <2>1 DEF StartPages, SlabPages, Sound, PagesOK, Layout
    <2>6. c \in Descs
      BY <2>1, StateIs DEF Sound, PagesOK
    <2>7. /\ e \in Descs
          /\ e[g].n = Number(shift) /\ e[g].flag = "none" /\ e[g].type = TypeOf(shift)
          /\ e[g].prev = slot /\ e[g].next = slot
          /\ e[g].bits = IF small THEN {} ELSE {0}
          /\ e[slot].next = g
          /\ \A j \in Nodes : j # g /\ j # slot => Alike(c, e, j)
      BY <2>5, <2>6, ListingFields
    <2>8. t = State(e, b, s.pfree - 1) /\ t.desc = e /\ t.bitmap = b /\ t.pfree = u.pfree
      BY <2>3 DEF State
    <2>9. slot \in Nodes /\ slot \notin PageNodes /\ slot # FreeHead /\ slot # Null /\ slot \in SlotNodes
      BY ClassFacts
    <2>10. shift \in {3, 4} <=> small
      BY ClassFacts DEF TypeOf, ExactShift
    <2>11. /\ b \in [PageNodes -> SUBSET Nat]
           /\ \A j \in PageNodes : j # g => b[j] = u.bitmap[j]
           /\ shift = 3 => b[g] = 0 .. 8
           /\ shift = 4 => b[g] = 0 .. 2
           /\ small => Own(shift) \in b[g]
      <3>1. shift \in {3, 4} => own \in Nat
        <4>1. shift = 3 => own \in Nat
          BY BitNumbers
        <4>2. shift = 4 => own \in Nat
          BY BitNumbers
        <4> QED
          BY <4>1, <4>2
      <3>2. shift \in {3, 4} => 0 .. own \in SUBSET Nat
        <4> HIDE DEF own
        <4> QED
          BY <3>1
      <3>3. shift \in {3, 4} => b = [s.bitmap EXCEPT ![g] = 0 .. own]
        BY <2>10
      <3>4. shift \notin {3, 4} => b = s.bitmap
        BY <2>10
      <3>5. own = (IF shift = 3 THEN 8 ELSE 2) \/ shift \notin {3, 4}
        BY BitNumbers
      <3>9. Own(shift) = own
        BY DEF Own
      <3>8. Own(shift) = own /\ (shift \in {3, 4} => own \in 0 .. own)
        <4> HIDE DEF own
        <4> QED
          BY <3>1, <3>9
      <3> HIDE DEF b, own
      <3>6. /\ b \in [PageNodes -> SUBSET Nat]
            /\ \A j \in PageNodes : j # g => b[j] = u.bitmap[j]
        BY <2>2, <2>3, <2>5, <3>2, <3>3, <3>4
      <3>7. shift \in {3, 4} => b[g] = 0 .. own
        BY <2>2, <2>5, <3>3
      <3> QED
        BY <2>10, <3>5, <3>6, <3>7, <3>8
    <2> HIDE DEF c, e, t, b, slot, u, got, g, small
    <2>30. Granted(s, got)
      <3>1. \A m \in Nat : Bound(s, m) /\ (0 \notin Given(s.desc) => m = 0) =>
              Bound(t, IF g = 0 THEN m + 1 ELSE m)
        <4> SUFFICES ASSUME NEW m \in Nat, Bound(s, m), 0 \notin Given(s.desc) => m = 0
                     PROVE  Bound(t, IF g = 0 THEN m + 1 ELSE m)
          OBVIOUS
        <4>1. /\ g \notin Given(s.desc)
              /\ g # 0 => Bound(u, m)
          BY <1>2, TakeGrants DEF u
        <4>2. CASE g # 0
          <5>1. 0 \in Nodes /\ 0 # slot /\ 0 \in PageNodes
            BY <2>9, Bounds
          <5>2. Alike(c, e, 0) /\ t.bitmap[0] = u.bitmap[0]
            BY <2>7, <2>8, <2>11, <4>2, <5>1
          <5>3. u.desc = c /\ t.desc = e
            BY <2>8 DEF c
          <5>4. 0 \in StartPages(e) => 0 \in StartPages(c)
            BY <5>2 DEF StartPages, Alike, SameRest
          <5> QED
            BY <4>1, <4>2, <5>2, <5>3, <5>4 DEF Bound, Alike, SameRest
        <4>3. CASE g = 0
          <5>1. m = 0 /\ m + 1 = 1
            BY <4>1, <4>3
          <5>2. Cardinality({0}) = 1
            BY FS_Singleton
          <5>3. 0 \notin StartPages(e)
            BY <2>7, <4>3 DEF StartPages, TypeOf
          <5>4. e[0].type \in {"exact", "big"} => e[0].bits = {0}
            BY <2>7, <4>3 DEF small
          <5>5. e[0].type = "small" => Own(e[0].n) \in b[0]
            <6>1. small => shift \in {3, 4} /\ Number(shift) = shift
              BY <2>10 DEF Number, ExactShift
            <6> QED
              BY <2>7, <2>11, <4>3, <6>1 DEF small
          <5>6. Bound(t, 1)
            BY <2>8, <5>2, <5>3, <5>4, <5>5 DEF Bound
          <5> QED
            BY <4>3, <5>1, <5>6
        <4> QED
          BY <4>2, <4>3
      <3> QED
        BY <1>2, <3>1 DEF Granted
    <2>12. Typed(t)
      <3>1. t = [desc |-> t.desc, bitmap |-> t.bitmap, pfree |-> t.pfree]
        BY <2>8 DEF State
      <3> QED
        BY <2>7, <2>8, <2>11, <3>1 DEF Typed, Descs
    <2>13. TypeOf(shift) # "page"
      BY DEF TypeOf
    <2>14. \A j \in PageNodes : j # g => Alike(c, e, j)
      BY <2>7, <2>9, Bounds
    <2>15. e[FreeHead].next = c[FreeHead].next
      BY <2>5, <2>7, <2>9, Bounds DEF Alike
    <2>16. /\ g \notin FreeStarts(c) /\ g \notin FreeStarts(e) /\ g \in SlabPages(e)
           /\ g \notin StartPages(e)
      BY <2>5, <2>7, <2>13 DEF FreeStarts, SlabPages, StartPages
    <2>17. \A j \in PageNodes : j # g =>
             /\ j \in FreeStarts(e) <=> j \in FreeStarts(c)
             /\ j \in StartPages(e) <=> j \in StartPages(c)
             /\ j \in SlabPages(e) <=> j \in SlabPages(c)
             /\ Extent(e, j) = Extent(c, j)
      BY <2>14 DEF FreeStarts, SlabPages, StartPages, Extent, Alike, SameRest
    <2>18. PagesOK(t)
      <3>1. PagesOK(u) /\ u.desc = c /\ Layout(c)
        BY <2>1 DEF Sound, PagesOK, c
      <3>2. Extent(e, g) = 1 /\ Extent(c, g) = 1
        BY <2>1, <2>5, <2>7, <2>13 DEF Extent
      <3>3. \A j \in FreeStarts(c) : j \in PageNodes /\ j # g
        BY <2>16 DEF FreeStarts
      <3>4. \A j \in StartPages(e) : j \in PageNodes /\ j # g
        BY <2>16 DEF StartPages
      <3>5. \A j \in StartPages(e) : e[j].next = Null /\ e[j].n >= 1
        BY <2>14, <2>17, <3>1, <3>4 DEF Layout, Alike, SameRest
      <3>6. \A j \in PageNodes : j \in FreeStarts(e) <=> j \in FreeStarts(c)
        BY <2>16, <2>17
      <3>7. \A j \in PageNodes : j \in Given(e) <=> j \in Given(c)
        BY <2>1, <2>16, <2>17 DEF Given
      <3>8. \A j \in Given(c) : Extent(e, j) = Extent(c, j)
        BY <2>17, <3>2 DEF Given, StartPages, SlabPages
      <3>9. \A j \in FreeStarts(c) : Alike(c, e, j)
        BY <2>14, <3>3
      <3> QED
        BY <2>8, <2>12, <2>15, <3>1, <3>5, <3>6, <3>7, <3>8, <3>9, PagesKept
    <2>19. \A j \in PageNodes : InClass(e, j, shift) <=> InClass(c, j, shift) \/ j = g
      BY <2>5, <2>7, <2>14 DEF InClass, Alike, SameRest
    <2>20. c[slot].next = slot \/ shift \notin {3, 4, 7}
      BY <2>1, <2>9 DEF slot
    <2>21. ClassOK(u, shift) /\ u.desc = c
      BY <2>1 DEF Sound, SlotsOK, c
    <2>22. HeadOK(e, shift)
      BY <2>5, <2>7, <2>9, <2>19 DEF HeadOK, slot
    <2>23. ZeroOK(e, shift)
      <3>1. CASE g = 0
        BY <2>7, <3>1 DEF ZeroOK, slot
      <3>2. CASE g # 0
        <4> SUFFICES ASSUME InClass(e, 0, shift), e[0].next # Null
                     PROVE  e[0].prev = slot /\ e[0].next = slot
          BY DEF ZeroOK, slot
        <4>1. 0 \in PageNodes /\ InClass(c, 0, shift) /\ Alike(c, e, 0)
          BY <2>14, <2>19, <3>2 DEF InClass
        <4>2. c[0].prev = slot /\ (c[0].next # slot => c[slot].next = 0)
          BY <2>21, <4>1 DEF ClassOK, ZeroOK, Alike, slot
        <4>3. c[0].next = slot
          <5>1. CASE shift \in {3, 4, 7}
            BY <2>9, <2>20, <4>1, <4>2, <5>1
          <5>2. CASE shift \notin {3, 4, 7}
            BY <2>21, <4>1, <5>2 DEF ClassOK, RoomOK, slot
          <5> QED
            BY <5>1, <5>2
        <4> QED
          BY <4>1, <4>2, <4>3 DEF Alike
      <3> QED
        BY <3>1, <3>2
    <2>24. ASSUME NEW k \in PageNodes, InClass(e, k, shift)
           PROVE  /\ k # 0 => e[k].next \in {slot, Null}
                  /\ RoomOK(t, k, shift)
      <3>1. CASE k = g
        <4>1. shift = 3 => ~ SmallBits(3) \subseteq b[g]
          <5>1. 511 \in SmallBits(3) /\ 511 \notin 0 .. 8
            BY BitNumbers
          <5> QED
            BY <2>11, <5>1
        <4>2. shift = 4 => ~ SmallBits(4) \subseteq b[g]
          <5>1. 255 \in SmallBits(4) /\ 255 \notin 0 .. 2
            BY BitNumbers
          <5> QED
            BY <2>11, <5>1
        <4>3. shift \notin {3, 4} => e[g].bits = {0}
          BY <2>7, <2>10
        <4>4. {0} # {0, 1}
          <5>1. 1 \in {0, 1} /\ 1 \notin {0}
            OBVIOUS
          <5> QED
            BY ONLY <5>1
        <4>5. e[g].next = slot
          BY <2>7
        <4> QED
          BY <2>7, <2>8, <3>1, <4>1, <4>2, <4>3, <4>4, <4>5 DEF RoomOK, slot, ExactShift
      <3>2. CASE k # g
        <4>1. InClass(c, k, shift) /\ Alike(c, e, k) /\ b[k] = u.bitmap[k]
          BY <2>11, <2>14, <2>19, <2>24, <3>2
        <4>2. /\ k # 0 => c[k].next \in {slot, Null}
              /\ RoomOK(u, k, shift)
          BY <2>21, <4>1 DEF ClassOK, slot
        <4>3. RoomOK(t, k, shift)
          BY <2>8, <2>21, <4>1, <4>2 DEF RoomOK, Alike, SameRest, slot
        <4> QED
          BY <4>1, <4>2, <4>3 DEF Alike
      <3> QED
        BY <3>1, <3>2
    <2>25. ClassOK(t, shift)
      BY <2>8, <2>22, <2>23, <2>24 DEF ClassOK, slot
    <2>26. SlotsOK(t)
      <3>1. SlotsOK(u)
        BY <2>1 DEF Sound
      <3>2. \A j \in SlotNodes : j # slot => e[j].next = c[j].next
        BY <2>5, <2>7, SlotBounds DEF Alike
      <3>3. \A j \in PageNodes : j # g => Alike(c, e, j) /\ t.bitmap[j] = u.bitmap[j]
        BY <2>8, <2>11, <2>14
      <3> QED
        BY <2>5, <2>8, <2>19, <2>21, <2>25, <3>1, <3>2, <3>3, OneClassChanged DEF slot
    <2>27. Keeps(s.desc, e)
      <3>1. g \notin StartPages(s.desc) /\ \A o \in Classes : ~InClass(s.desc, g, o)
        BY <1>2, <2>2, InClassIsSlab DEF FreeStarts, StartPages, SlabPages, Layout
      <3>2. \A j \in PageNodes : j # g =>
              /\ \A o \in Classes : InClass(c, j, o) => InClass(e, j, o)
              /\ j \in StartPages(c) => j \in StartPages(e) /\ e[j].n = c[j].n
        BY <2>14, <2>17 DEF InClass, Alike, SameRest
      <3>3. \A j \in PageNodes :
              /\ \A o \in Classes : InClass(s.desc, j, o) => InClass(c, j, o)
              /\ j \in StartPages(s.desc) => j \in StartPages(c) /\ c[j].n = s.desc[j].n
        BY <2>4 DEF Keeps
      <3>4. ASSUME NEW j \in PageNodes
            PROVE  /\ \A o \in Classes : InClass(s.desc, j, o) => InClass(e, j, o)
                   /\ j \in StartPages(s.desc) => j \in StartPages(e) /\ e[j].n = s.desc[j].n
        BY <3>1, <3>2, <3>3
      <3> QED
        BY <3>4 DEF Keeps
    <2>28. Sound(t)
      BY <2>18, <2>26 DEF Sound
    <2>29. got.s = t /\ got.at.page = g /\ t.desc = e /\ InClass(e, g, shift)
      BY <1>2, <2>5, <2>8, <2>19
    <2> QED
      BY <2>27, <2>28, <2>29, <2>30 DEF got
  <1>3. \/ got.s = s /\ got.kind = "null"
        \/ /\ g \in FreeStarts(s.desc) /\ 1 \in 1 .. s.desc[g].n
           /\ got.s = t /\ got.kind = "address" /\ got.at.page = g
    <2>1. PagesOK(s)
      BY DEF Sound
    <2>2. c = CutOff(s.desc, g, 1)
      BY DEF State
    <2> HIDE DEF c
    <2> QED
      BY <2>1, <2>2, NewPageIs
  <1> QED
    BY <1>1, <1>2, <1>3
-----------------------------------------------------------------------------
(* Chunks of slab pages.                                                    *)

\* All of a page but its bits is as it was.
Marked(d, e, k) == /\ e[k].n = d[k].n /\ e[k].flag = d[k].flag /\ e[k].type = d[k].type
                   /\ e[k].next = d[k].next /\ e[k].prev = d[k].prev

\* What a page is and how far it reaches depends on a few fields.
LEMMA Sorts ==
  ASSUME NEW d, NEW e, NEW j, e[j].n = d[j].n, e[j].flag = d[j].flag, e[j].type = d[j].type
  PROVE  /\ d[j].type # "page" =>
              /\ j \in FreeStarts(e) <=> j \in FreeStarts(d)
              /\ j \in StartPages(e) <=> j \in StartPages(d)
              /\ j \in SlabPages(e) <=> j \in SlabPages(d)
         /\ e[j].next = d[j].next =>
              /\ j \in FreeStarts(e) <=> j \in FreeStarts(d)
              /\ j \in StartPages(e) <=> j \in StartPages(d)
              /\ j \in SlabPages(e) <=> j \in SlabPages(d)
         /\ Extent(e, j) = Extent(d, j)
         /\ \A c : InClass(e, j, c) <=> InClass(d, j, c)
  BY DEF FreeStarts, StartPages, SlabPages, Extent, InClass

\* The pages stay sound when only slab pages and slots change.
LEMMA PagesUntouched ==
  ASSUME NEW s, NEW t, PagesOK(s), Typed(t), t.pfree = s.pfree,
         \A j \in PageNodes : \/ Alike(s.desc, t.desc, j)
                              \/ /\ j \in SlabPages(s.desc) /\ t.desc[j].n = s.desc[j].n
                                 /\ t.desc[j].flag = s.desc[j].flag
                                 /\ t.desc[j].type = s.desc[j].type,
         t.desc[FreeHead].next = s.desc[FreeHead].next
  PROVE  PagesOK(t) /\ Keeps(s.desc, t.desc)
  <1> DEFINE d == s.desc
             e == t.desc
  <1>1. \A j \in PageNodes : e[j].n = d[j].n /\ e[j].flag = d[j].flag /\ e[j].type = d[j].type
    BY DEF Alike, SameRest
  <1>2. \A j \in PageNodes : d[j].type # "page" \/ Alike(d, e, j)
    BY DEF SlabPages
  <1> HIDE DEF d, e
  <1>3. \A j \in PageNodes :
          /\ j \in FreeStarts(e) <=> j \in FreeStarts(d)
          /\ j \in StartPages(e) <=> j \in StartPages(d)
          /\ j \in SlabPages(e) <=> j \in SlabPages(d)
          /\ Extent(e, j) = Extent(d, j)
          /\ \A c : InClass(e, j, c) <=> InClass(d, j, c)
    BY <1>1, <1>2, Sorts DEF Alike
  <1>4. \A j \in FreeStarts(d) : j \in PageNodes /\ Alike(d, e, j)
    BY <1>2 DEF FreeStarts
  <1>5. \A j \in StartPages(d) : j \in PageNodes /\ Alike(d, e, j)
    BY <1>2 DEF StartPages
  <1>6. \A j \in StartPages(e) : e[j].next = Null /\ e[j].n >= 1
    <2>1. \A j \in StartPages(d) : d[j].next = Null /\ d[j].n >= 1
      BY DEF PagesOK, Layout, d
    <2>2. \A j \in StartPages(e) : j \in StartPages(d)
      BY <1>3 DEF StartPages
    <2> QED
      BY <1>5, <2>1, <2>2 DEF Alike, SameRest
  <1>7. \A j \in PageNodes : j \in Given(e) <=> j \in Given(d)
    BY <1>3 DEF Given
  <1>8. \A j \in Given(d) : Extent(e, j) = Extent(d, j)
    BY <1>3 DEF Given, StartPages, SlabPages
  <1>9. PagesOK(t)
    BY <1>3, <1>4, <1>6, <1>7, <1>8, PagesKept DEF d, e
  <1>10. Keeps(d, e)
    BY <1>1, <1>3 DEF Keeps
  <1> QED
    BY <1>9, <1>10 DEF d, e

\* The bits of one page change, and it still has room if it must.
LEMMA MarkSound ==
  ASSUME NEW s, NEW t, Sound(s), Typed(t), t.pfree = s.pfree,
         NEW shift \in Classes, NEW k \in PageNodes, InClass(s.desc, k, shift),
         Marked(s.desc, t.desc, k),
         \A j \in Nodes : j # k => Alike(s.desc, t.desc, j),
         \A j \in PageNodes : j # k => t.bitmap[j] = s.bitmap[j],
         RoomOK(t, k, shift)
  PROVE  Sound(t) /\ Keeps(s.desc, t.desc)
  <1> DEFINE d == s.desc
             e == t.desc
             slot == SlotNode(shift)
  <1>1. k \in SlabPages(d) /\ k \in Nodes
    BY InClassIsSlab, Bounds
  <1>2. PagesOK(s) /\ SlotsOK(s) /\ ClassOK(s, shift)
    BY DEF Sound, SlotsOK
  <1>3. \A j \in PageNodes : \/ Alike(d, e, j)
                             \/ j \in SlabPages(d) /\ e[j].n = d[j].n /\ e[j].flag = d[j].flag
                                /\ e[j].type = d[j].type
    BY <1>1, Bounds DEF Marked
  <1>4. e[FreeHead].next = d[FreeHead].next
    BY Bounds DEF Alike
  <1>5. PagesOK(t) /\ Keeps(d, e)
    BY <1>2, <1>3, <1>4, PagesUntouched
  <1>6. \A j \in Nodes : Marked(d, e, j)
    BY DEF Alike, SameRest, Marked
  <1> HIDE DEF d, e, slot
  <1>7. \A j : InClass(e, j, shift) <=> InClass(d, j, shift)
    BY <1>6, Bounds DEF InClass, Marked
  <1>8. slot \in Nodes /\ slot \in SlotNodes
    BY ClassFacts DEF slot
  <1>9. HeadOK(e, shift)
    <2>1. e[slot].next = d[slot].next
      BY <1>6, <1>8 DEF Marked
    <2>2. \A j : InClass(d, j, shift) => j \in Nodes
      BY Bounds DEF InClass
    <2> QED
      BY <1>2, <1>6, <1>7, <2>1, <2>2 DEF ClassOK, HeadOK, Marked, slot, d
  <1>10. ZeroOK(e, shift)
    <2>1. e[slot].next = d[slot].next
      BY <1>6, <1>8 DEF Marked
    <2>2. \A j : InClass(d, j, shift) => j \in Nodes
      BY Bounds DEF InClass
    <2> QED
      BY <1>2, <1>6, <1>7, <2>1, <2>2 DEF ClassOK, ZeroOK, Marked, slot, d
  <1>11. ASSUME NEW j \in PageNodes, InClass(e, j, shift)
         PROVE  /\ j # 0 => e[j].next \in {slot, Null}
                /\ RoomOK(t, j, shift)
    <2>1. j \in Nodes /\ InClass(d, j, shift)
      BY <1>7, <1>11, Bounds
    <2>2. /\ j # 0 => d[j].next \in {slot, Null}
          /\ RoomOK(s, j, shift)
      BY <1>2, <2>1 DEF ClassOK, d, slot
    <2>3. j # 0 => e[j].next \in {slot, Null}
      BY <1>6, <2>1, <2>2 DEF Marked
    <2>4. j # k => RoomOK(t, j, shift)
      BY <2>1, <2>2 DEF RoomOK, Alike, SameRest, d, e
    <2> QED
      BY <2>3, <2>4
  <1>12. ClassOK(t, shift)
    BY <1>9, <1>10, <1>11 DEF ClassOK, e, slot
  <1>13. SlotsOK(t)
    <2>1. \A j \in SlotNodes : e[j].next = d[j].next
      BY <1>6, SlotBounds DEF Marked
    <2>2. \A j \in PageNodes :
             \/ InClass(e, j, shift) /\ InClass(d, j, shift)
             \/ Alike(d, e, j) /\ t.bitmap[j] = s.bitmap[j]
      BY <1>7, Bounds DEF d, e
    <2> QED
      BY <1>2, <1>12, <2>1, <2>2, OneClassChanged DEF d, e
  <1> QED
    BY <1>5, <1>13 DEF Sound, d, e
-----------------------------------------------------------------------------
(* hcore_slab_remove_full_page.                                             *)

\* What hcore_slab_remove_full_page leaves in each descriptor.
LEMMA RemoveFullFields ==
  ASSUME NEW d \in Descs, NEW k \in Nodes, NEW type \in Types
  PROVE  LET e == RemoveFull(d, k, type)
             p == d[k].prev
             q == d[k].next
         IN /\ e \in Descs
            /\ e[k].next = Null /\ e[k].prev = Null /\ e[k].type = type /\ SameRest(d, e, k)
            /\ \A j \in Nodes : j # k =>
                 /\ SameRest(d, e, j)
                 /\ e[j].next = (IF j = p THEN q ELSE d[j].next)
                 /\ e[j].prev = (IF j = q THEN p ELSE d[j].prev)
                 /\ e[j].type = (IF j = q THEN d[k].type ELSE d[j].type)
  <1> DEFINE u == Unlink(d, k)
             d1 == PutNext(u, k, Null)
             d2 == PutPrev(d1, k, Null)
             d3 == PutType(d2, k, type)
  <1>1. RemoveFull(d, k, type) = d3
    BY DEF RemoveFull, PutNext, PutPrev, PutType
  <1>2. /\ u \in Descs
        /\ \A j \in Nodes :
              /\ SameRest(d, u, j)
              /\ u[j].next = (IF j = d[k].prev THEN d[k].next ELSE d[j].next)
              /\ u[j].prev = (IF j = d[k].next THEN d[k].prev ELSE d[j].prev)
              /\ u[j].type = (IF j = d[k].next THEN d[k].type ELSE d[j].type)
    BY UnlinkFields
  <1> HIDE DEF u
  <1>3. Null \in Nodes \union {Null}
    OBVIOUS
  <1>4. /\ d1 \in Descs
        /\ \A j \in Nodes : /\ SameRest(u, d1, j) /\ d1[j].next = (IF j = k THEN Null ELSE u[j].next)
                            /\ d1[j].prev = u[j].prev /\ d1[j].type = u[j].type
    BY <1>2, <1>3, PutNextIs
  <1> HIDE DEF d1
  <1>5. /\ d2 \in Descs
        /\ \A j \in Nodes : /\ SameRest(d1, d2, j) /\ d2[j].prev = (IF j = k THEN Null ELSE d1[j].prev)
                            /\ d2[j].next = d1[j].next /\ d2[j].type = d1[j].type
    BY <1>3, <1>4, PutPrevIs
  <1> HIDE DEF d2
  <1>6. /\ d3 \in Descs
        /\ \A j \in Nodes : /\ SameRest(d2, d3, j) /\ d3[j].type = (IF j = k THEN type ELSE d2[j].type)
                            /\ d3[j].next = d2[j].next /\ d3[j].prev = d2[j].prev
    BY <1>5, PutTypeIs
  <1> HIDE DEF d3
  <1>7. d3[k].next = Null /\ d3[k].prev = Null /\ d3[k].type = type
    BY <1>4, <1>5, <1>6
  <1>8. \A j \in Nodes : SameRest(d, d3, j)
    BY <1>2, <1>4, <1>5, <1>6 DEF SameRest
  <1>9. \A j \in Nodes : j # k =>
          /\ d3[j].next = (IF j = d[k].prev THEN d[k].next ELSE d[j].next)
          /\ d3[j].prev = (IF j = d[k].next THEN d[k].prev ELSE d[j].prev)
          /\ d3[j].type = (IF j = d[k].next THEN d[k].type ELSE d[j].type)
    BY <1>2, <1>4, <1>5, <1>6
  <1> QED
    BY <1>1, <1>6, <1>7, <1>8, <1>9

\* The first page of a slot is followed by the slot, or is page 0 and followed
\* by one page.
LEMMA FirstOfSlot ==
  ASSUME NEW s, Sound(s), NEW shift \in Classes,
         NEW k, k = s.desc[SlotNode(shift)].next, k # SlotNode(shift)
  PROVE  LET d == s.desc
             slot == SlotNode(shift)
             q == d[k].next
         IN /\ InClass(d, k, shift) /\ k \in PageNodes /\ k \in SlabPages(d)
            /\ d[k].prev = slot /\ q # k /\ RoomOK(s, k, shift)
            /\ q # slot => /\ k = 0 /\ q # 0 /\ InClass(d, q, shift)
                           /\ d[q].prev = 0 /\ d[q].next = slot
  <1> DEFINE d == s.desc
             slot == SlotNode(shift)
             q == d[k].next
  <1>1. ClassOK(s, shift)
    BY DEF Sound, SlotsOK
  <1>2. InClass(d, k, shift) /\ d[k].prev = slot /\ q # Null
    BY <1>1 DEF ClassOK, HeadOK
  <1>3. k \in PageNodes /\ k \in SlabPages(d) /\ slot \notin PageNodes
    BY <1>2, InClassIsSlab, ClassFacts
  <1>4. RoomOK(s, k, shift) /\ (k # 0 => q \in {slot, Null})
    BY <1>1, <1>2, <1>3 DEF ClassOK
  <1>5. CASE k # 0
    BY <1>2, <1>3, <1>4, <1>5
  <1>6. CASE k = 0
    <2>1. q # slot => q # 0 /\ InClass(d, q, shift) /\ d[q].prev = 0 /\ d[q].next = slot
      BY <1>1, <1>2, <1>6 DEF ClassOK, ZeroOK
    <2>2. q # k
      BY <1>3, <1>6, <2>1
    <2> QED
      BY <1>2, <1>3, <1>4, <1>6, <2>1, <2>2
  <1> QED
    BY <1>5, <1>6

\* Between the descriptors d and e the page k, the first of its slot, left the list,
\* and became that of a full page.
Removed(d, e, k, shift) ==
  /\ e[k].next = Null /\ e[k].type = TypeOf(shift)
  /\ e[k].n = d[k].n /\ e[k].flag = d[k].flag
  /\ shift = 7 => e[k].bits \subseteq {0, 1}
  /\ \A j \in Nodes : j # k =>
       /\ SameRest(d, e, j)
       /\ e[j].next = (IF j = SlotNode(shift) THEN d[k].next ELSE d[j].next)
       /\ e[j].prev = (IF j = d[k].next THEN SlotNode(shift) ELSE d[j].prev)
       /\ e[j].type = (IF j = d[k].next THEN TypeOf(shift) ELSE d[j].type)

\* The first page of a slot leaves it.
LEMMA RemoveSound ==
  ASSUME NEW s, NEW t, Sound(s), Typed(t), t.pfree = s.pfree,
         NEW shift \in {3, 4, 7}, NEW k, k = s.desc[SlotNode(shift)].next, k # SlotNode(shift),
         Removed(s.desc, t.desc, k, shift),
         \A j \in PageNodes : j # k => t.bitmap[j] = s.bitmap[j]
  PROVE  Sound(t) /\ Keeps(s.desc, t.desc)
  <1> DEFINE d == s.desc
             e == t.desc
             slot == SlotNode(shift)
             q == d[k].next
  <1>1. shift \in Classes /\ ExactShift = 5
    <2>1. Classes = 3 .. 10
      BY Numbers
    <2> QED
      BY <2>1 DEF ExactShift
  <1>2. /\ slot \in Nodes /\ slot \in SlotNodes /\ slot \notin PageNodes /\ slot # FreeHead /\ slot # Null
    BY <1>1, ClassFacts
  <1>3. /\ InClass(d, k, shift) /\ k \in PageNodes /\ k \in SlabPages(d)
        /\ q # k /\ q # 0
        /\ q # slot => k = 0 /\ InClass(d, q, shift) /\ d[q].next = slot
    <2>1. slot # 0
      BY <1>1, ClassFacts
    <2> QED
      BY <1>1, <2>1, FirstOfSlot
  <1>4. k \in Nodes /\ k # slot
    BY <1>2, <1>3, Bounds
  <1>19. \A j \in Nodes : j # k =>
          /\ SameRest(d, e, j)
          /\ e[j].next = (IF j = slot THEN q ELSE d[j].next)
          /\ e[j].prev = (IF j = q THEN slot ELSE d[j].prev)
          /\ e[j].type = (IF j = q THEN TypeOf(shift) ELSE d[j].type)
    BY DEF Removed
  <1>9. InClass(e, k, shift) /\ e[k].next = Null /\ e[k].type = d[k].type
    BY <1>3 DEF InClass, Removed
  <1>10. e[k].n = d[k].n /\ e[k].flag = d[k].flag /\ (shift = 7 => e[k].bits \subseteq {0, 1})
    BY DEF Removed
  <1>11. PagesOK(s) /\ SlotsOK(s) /\ ClassOK(s, shift)
    BY <1>1 DEF Sound, SlotsOK
  <1>20. d[slot].next = k
    OBVIOUS
  <1> HIDE DEF d, e, slot, q
  <1>5. \A j \in PageNodes : j # k /\ j # q => Alike(d, e, j)
    BY <1>2, <1>19, Bounds DEF Alike
  <1>6. q # slot => /\ q \in PageNodes /\ q \in SlabPages(d) /\ q # slot /\ d[q].type = TypeOf(shift)
                    /\ SameRest(d, e, q) /\ e[q].next = slot /\ e[q].prev = slot
                    /\ e[q].type = d[q].type
    <2> SUFFICES ASSUME q # slot
                 PROVE  /\ q \in PageNodes /\ q \in SlabPages(d) /\ d[q].type = TypeOf(shift)
                        /\ SameRest(d, e, q) /\ e[q].next = slot /\ e[q].prev = slot
                        /\ e[q].type = d[q].type
      OBVIOUS
    <2>1. q \in PageNodes /\ q \in SlabPages(d) /\ q \in Nodes /\ d[q].type = TypeOf(shift)
      BY <1>1, <1>3, InClassIsSlab, Bounds DEF InClass
    <2> QED
      BY <1>3, <1>19, <2>1
  <1>7. e[slot].next = q /\ \A j \in SlotNodes : j # slot => e[j].next = d[j].next
    BY <1>2, <1>3, <1>4, <1>19, SlotBounds
  <1>8. e[FreeHead].next = d[FreeHead].next
    BY <1>2, <1>3, <1>19, Bounds
  <1>12. PagesOK(t) /\ Keeps(d, e)
    <2>1. \A j \in PageNodes : \/ Alike(d, e, j)
                               \/ j \in SlabPages(d) /\ e[j].n = d[j].n /\ e[j].flag = d[j].flag
                                  /\ e[j].type = d[j].type
      <3> SUFFICES ASSUME NEW j \in PageNodes, ~Alike(d, e, j)
                   PROVE  j \in SlabPages(d) /\ e[j].n = d[j].n /\ e[j].flag = d[j].flag
                                  /\ e[j].type = d[j].type
        OBVIOUS
      <3>1. j = k \/ (j = q /\ q # slot)
        BY <1>2, <1>5
      <3> QED
        BY <1>3, <1>6, <1>9, <1>10, <3>1 DEF SameRest
    <2> QED
      BY <1>8, <1>11, <2>1, PagesUntouched DEF d, e
  <1>13. \A j \in PageNodes : InClass(e, j, shift) <=> InClass(d, j, shift)
    <2>1. ASSUME NEW j \in PageNodes
          PROVE  InClass(e, j, shift) <=> InClass(d, j, shift)
      <3>1. CASE j = k
        BY <1>3, <1>9, <3>1
      <3>2. CASE j = q
        BY <1>2, <1>6, <3>2 DEF InClass, SameRest
      <3>3. CASE j # k /\ j # q
        BY <1>5, <3>3 DEF InClass, Alike, SameRest
      <3> QED
        BY <3>1, <3>2, <3>3
    <2> QED
      BY <2>1
  <1>14. HeadOK(e, shift)
    <2>1. q # slot => InClass(e, q, shift) /\ e[q].prev = slot /\ e[q].next # Null
      BY <1>2, <1>3, <1>6, <1>13
    <2> QED
      BY <1>7, <2>1 DEF HeadOK, slot
  <1>15. ZeroOK(e, shift)
    <2> SUFFICES ASSUME InClass(e, 0, shift), e[0].next # Null
                 PROVE  e[0].prev = slot /\ e[0].next = slot
      BY DEF ZeroOK, slot
    <2>1. 0 # k /\ 0 # q /\ 0 \in PageNodes
      BY <1>3, <1>9 DEF InClass
    <2>2. Alike(d, e, 0) /\ InClass(d, 0, shift)
      BY <1>5, <1>13, <2>1
    <2>4. d[0].prev = slot /\ d[0].next = slot
      BY <1>11, <1>20, <2>1, <2>2 DEF ClassOK, ZeroOK, Alike, d, slot
    <2> QED
      BY <2>2, <2>4 DEF Alike
  <1>16. ASSUME NEW j \in PageNodes, InClass(e, j, shift)
         PROVE  /\ j # 0 => e[j].next \in {slot, Null}
                /\ RoomOK(t, j, shift)
    <2>1. shift \in {3, 4, 7}
      OBVIOUS
    <2>2. CASE j = k
      <3>1. t.desc[j].next = Null /\ (shift = 7 => t.desc[j].bits \subseteq {0, 1})
        BY <1>9, <1>10, <2>2 DEF e
      <3>2. RoomOK(t, j, shift)
        BY <1>1, <2>1, <3>1 DEF RoomOK
      <3> QED
        BY <3>1, <3>2 DEF e
    <2>3. CASE j # k
      <3>1. InClass(d, j, shift)
        BY <1>13, <1>16
      <3>2. (j # 0 => d[j].next \in {slot, Null}) /\ RoomOK(s, j, shift)
        BY <1>11, <3>1 DEF ClassOK, d, slot
      <3>3. SameRest(d, e, j) /\ e[j].next = d[j].next /\ t.bitmap[j] = s.bitmap[j]
        <4>1. t.bitmap[j] = s.bitmap[j]
          BY <2>3
        <4>2. CASE j = q
          BY <1>2, <1>3, <1>6, <4>1, <4>2
        <4>3. CASE j # q
          BY <1>5, <2>3, <4>1, <4>3 DEF Alike
        <4> QED
          BY <4>2, <4>3
      <3>4. RoomOK(t, j, shift)
        BY <1>1, <2>1, <3>2, <3>3 DEF RoomOK, SameRest, d, e
      <3> QED
        BY <3>2, <3>3, <3>4
    <2> QED
      BY <2>2, <2>3
  <1>17. ClassOK(t, shift)
    BY <1>14, <1>15, <1>16 DEF ClassOK, e, slot
  <1>18. SlotsOK(t)
    <2>1. \A j \in PageNodes :
             \/ InClass(e, j, shift) /\ InClass(d, j, shift)
             \/ Alike(d, e, j) /\ t.bitmap[j] = s.bitmap[j]
      <3> SUFFICES ASSUME NEW j \in PageNodes, ~InClass(d, j, shift)
                   PROVE  Alike(d, e, j) /\ t.bitmap[j] = s.bitmap[j]
        BY <1>13
      <3>1. j # k /\ j # q
        BY <1>2, <1>3
      <3> QED
        BY <1>5, <3>1
    <2> QED
      BY <1>1, <1>7, <1>11, <1>17, <2>1, OneClassChanged DEF d, e, slot
  <1> QED
    BY <1>12, <1>18 DEF Sound, d, e
-----------------------------------------------------------------------------
(* The allocation of a chunk.                                               *)

\* The bits of a descriptor, changed in one place.
WithBits(r, x) == [r EXCEPT !.bits = x]
PutBits(d, a, x) == [d EXCEPT ![a].bits = x]

\* A descriptor with other bits is one still.
LEMMA WithBitsIs ==
  ASSUME NEW r \in Descriptor, NEW x \in SUBSET (0 .. WordBits - 1)
  PROVE  /\ WithBits(r, x) \in Descriptor /\ WithBits(r, x).bits = x
         /\ WithBits(r, x).next = r.next /\ WithBits(r, x).prev = r.prev /\ WithBits(r, x).type = r.type
         /\ WithBits(r, x).n = r.n /\ WithBits(r, x).flag = r.flag
  <1> DEFINE N == 0 .. Pages \union 0 .. PageShift
             B == SUBSET (0 .. WordBits - 1)
             L == Nodes \union {Null}
  <1>1. Descriptor = [n : N, flag : {"none", "start", "busy"}, bits : B,
                      prev : L, type : Types, next : L]
    BY DEF Descriptor
  <1>2. x \in B
    OBVIOUS
  <1> HIDE DEF N, B, L
  <1> QED
    BY <1>1, <1>2 DEF WithBits

\* An assignment of the bits changes the bits of one node.
LEMMA PutBitsIs ==
  ASSUME NEW d \in Descs, NEW a \in Nodes, NEW x \in SUBSET (0 .. WordBits - 1)
  PROVE  /\ PutBits(d, a, x) \in Descs
         /\ PutBits(d, a, x)[a].bits = x /\ Marked(d, PutBits(d, a, x), a)
         /\ \A j \in Nodes : j # a => Alike(d, PutBits(d, a, x), j)
  <1>1. d[a] \in Descriptor
    BY Fields
  <1>2. PutBits(d, a, x) = Put(d, a, WithBits(d[a], x))
    BY DEF PutBits, Put, WithBits
  <1>3. /\ WithBits(d[a], x) \in Descriptor /\ WithBits(d[a], x).bits = x
        /\ WithBits(d[a], x).next = d[a].next /\ WithBits(d[a], x).prev = d[a].prev
        /\ WithBits(d[a], x).type = d[a].type
        /\ WithBits(d[a], x).n = d[a].n /\ WithBits(d[a], x).flag = d[a].flag
    BY <1>1, WithBitsIs
  <1> HIDE DEF PutBits
  <1>4. /\ PutBits(d, a, x) \in Descs /\ PutBits(d, a, x)[a] = WithBits(d[a], x)
        /\ \A j \in Nodes : j # a => PutBits(d, a, x)[j] = d[j]
    BY <1>2, <1>3, PutIs
  <1> QED
    BY <1>3, <1>4 DEF Marked, Alike, SameRest

\* A state made of parts of the right kinds is typed.
LEMMA TypedState ==
  ASSUME NEW d \in Descs, NEW b \in [PageNodes -> SUBSET Nat], NEW c
  PROVE  /\ Typed(State(d, b, c)) /\ State(d, b, c).desc = d
         /\ State(d, b, c).bitmap = b /\ State(d, b, c).pfree = c
  <1>1. State(d, b, c).desc = d /\ State(d, b, c).bitmap = b /\ State(d, b, c).pfree = c
    BY DEF State
  <1>2. State(d, b, c) = [desc |-> State(d, b, c).desc, bitmap |-> State(d, b, c).bitmap,
                          pfree |-> State(d, b, c).pfree]
    BY <1>1 DEF State
  <1> QED
    BY <1>1, <1>2 DEF Typed, Descs

\* What an allocation of a class leaves behind.
Answered(s, got, shift) ==
  /\ Sound(got.s) /\ Keeps(s.desc, got.s.desc)
  /\ got.kind = "address" => InClass(got.s.desc, got.at.page, shift)
  /\ Granted(s, got)

\* A chunk of a small page: the page leaves its slot with its last chunk.
LEMMA AllocSmallSound ==
  ASSUME NEW s, Sound(s), NEW shift \in {3, 4},
         NEW k, k = s.desc[SlotNode(shift)].next, k # SlotNode(shift), HasChunk(s, shift, k)
  PROVE  Answered(s, AllocSmall(s, k, shift), shift)
  <1> DEFINE d == s.desc
             slot == SlotNode(shift)
             room == SmallBits(shift) \ s.bitmap[k]
             b == Min(room)
             bits == s.bitmap[k] \union {b}
             full == SmallBits(shift) \subseteq bits
             D == IF full THEN RemoveFull(d, k, "small") ELSE d
             B == [s.bitmap EXCEPT ![k] = bits]
             t == State(D, B, s.pfree)
             got == AllocSmall(s, k, shift)
  <1>1. shift \in Classes /\ TypeOf(shift) = "small" /\ shift < ExactShift /\ shift # ExactShift
    <2>1. shift \in Classes
      BY Numbers
    <2>2. shift < ExactShift /\ shift # ExactShift
      BY DEF ExactShift
    <2> QED
      BY <2>1, <2>2 DEF TypeOf
  <1>2. /\ InClass(d, k, shift) /\ k \in PageNodes /\ d[k].prev = slot /\ d[k].next # k
        /\ d[k].type = "small"
    BY <1>1, FirstOfSlot DEF InClass
  <1>3. k \in Nodes /\ "small" \in Types
    BY <1>2, Bounds DEF Types
  <1>4. d \in Descs /\ s.bitmap \in [PageNodes -> SUBSET Nat] /\ s = State(d, s.bitmap, s.pfree)
    BY StateIs DEF Sound, PagesOK
  <1>5. SmallBits(shift) \subseteq Nat
    <2>1. 0 .. 511 \subseteq Nat /\ 0 .. 255 \subseteq Nat
      OBVIOUS
    <2> QED
      BY <2>1, BitNumbers
  <1>6. room # {}
    <2>1. ~(shift > ExactShift)
      BY DEF ExactShift
    <2>2. ~ SmallBits(shift) \subseteq s.bitmap[k]
      BY <1>1, <2>1 DEF HasChunk
    <2> QED
      BY <2>2
  <1>7. b \in Nat
    <2>1. room \in SUBSET Nat
      BY <1>5
    <2> HIDE DEF room
    <2> QED
      BY <1>6, <2>1, MinIs
  <1>8. got.s = t /\ got.at.page = k
    <2>1. got.s = [s EXCEPT !.bitmap[k] = bits, !.desc = IF full THEN RemoveFull(@, k, "small") ELSE @]
          /\ got.at.page = k
      BY DEF AllocSmall, Outcome
    <2> DEFINE bb == s.bitmap
               cc == s.pfree
               s1 == WithBitmap(s, B)
    <2>2. got.s = WithDesc(s1, D)
      BY <2>1 DEF WithDesc, WithBitmap
    <2> HIDE DEF bits, b, full, got, D, d
    <2>3. s1 = State(d, B, s.pfree)
      <3> HIDE DEF B
      <3> QED
        BY <1>4, OneSet
    <2> HIDE DEF s1, B
    <2>4. got.s = State(D, B, s.pfree)
      BY <2>2, <2>3, OneSet
    <2> QED
      BY <2>1, <2>4
  <1>9. B \in [PageNodes -> SUBSET Nat] /\ B[k] = bits /\ \A j \in PageNodes : j # k => B[j] = s.bitmap[j]
    <2>1. bits \in SUBSET Nat
      BY <1>2, <1>4, <1>7
    <2> HIDE DEF bits
    <2> QED
      BY <1>2, <1>4, <2>1
  <1>12. /\ 0 \in Nodes /\ 0 \in PageNodes /\ 0 # slot
         /\ d[k].next # slot => k = 0 /\ d[k].next # 0
    BY <1>1, FirstOfSlot, ClassFacts, Bounds
  <1>13. s.bitmap[0] \subseteq B[0]
    <2>1. k = 0 => s.bitmap[0] \subseteq bits
      OBVIOUS
    <2> HIDE DEF B, bits
    <2>2. CASE k = 0
      BY <1>9, <2>1, <2>2
    <2>3. CASE k # 0
      BY <1>9, <1>12, <2>3
    <2> QED
      BY <2>2, <2>3
  <1>10. Sound(t) /\ Keeps(d, t.desc) /\ ZeroKept(s, t)
    <2> HIDE DEF B, b, bits
    <2>1. CASE full
      <3>1. /\ D \in Descs /\ D[k].next = Null /\ D[k].type = "small" /\ SameRest(d, D, k)
            /\ \A j \in Nodes : j # k =>
                 /\ SameRest(d, D, j)
                 /\ D[j].next = (IF j = slot THEN d[k].next ELSE d[j].next)
                 /\ D[j].prev = (IF j = d[k].next THEN slot ELSE d[j].prev)
                 /\ D[j].type = (IF j = d[k].next THEN "small" ELSE d[j].type)
        <4>1. D = RemoveFull(d, k, "small")
          BY <2>1
        <4> HIDE DEF D, d, slot
        <4> QED
          BY <1>2, <1>3, <1>4, <4>1, RemoveFullFields
      <3> HIDE DEF D
      <3>2. Typed(t) /\ t.desc = D /\ t.bitmap = B /\ t.pfree = s.pfree
        BY <1>9, <3>1, TypedState
      <3>3. shift \in {3, 4, 7} /\ shift # 7
        OBVIOUS
      <3>4. D[k].n = d[k].n /\ D[k].flag = d[k].flag
        BY <3>1 DEF SameRest
      <3>5. D[0].type = d[0].type /\ SameRest(d, D, 0)
        <4>1. CASE k = 0
          BY <1>2, <3>1, <4>1
        <4>2. CASE k # 0
          <5>1. d[k].next # 0 /\ 0 # k
            BY <1>12, <4>2
          <5> HIDE DEF d, slot
          <5> QED
            BY <1>12, <3>1, <5>1
        <4> QED
          BY <4>1, <4>2
      <3>6. ZeroKept(s, t)
        BY <1>13, <3>2, <3>5 DEF ZeroKept, SameRest
      <3> HIDE DEF t, d
      <3> QED
        <4>1. Removed(d, D, k, shift)
          <5>1. SlotNode(shift) = slot
            OBVIOUS
          <5> HIDE DEF slot
          <5> QED
            BY <1>1, <3>1, <3>3, <3>4, <5>1 DEF Removed
        <4>2. \A j \in PageNodes : j # k => t.bitmap[j] = s.bitmap[j]
          BY <1>9, <3>2
        <4> QED
          BY <1>1, <3>2, <3>3, <3>6, <4>1, <4>2, RemoveSound DEF d
    <2>2. CASE ~full
      <3>1. D = d
        BY <2>2
      <3> HIDE DEF D
      <3>2. Typed(t) /\ t.desc = d /\ t.bitmap = B /\ t.pfree = s.pfree
        BY <1>4, <1>9, <3>1, TypedState
      <3>3. RoomOK(t, k, shift)
        <4>1. ~ SmallBits(shift) \subseteq t.bitmap[k]
          BY <1>9, <2>2, <3>2
        <4>2. shift \in {3, 4} /\ shift # 7
          OBVIOUS
        <4> HIDE DEF t
        <4> QED
          BY <1>1, <4>1, <4>2 DEF RoomOK
      <3>4. Marked(d, t.desc, k) /\ \A j \in Nodes : Alike(d, t.desc, j)
        BY <3>2 DEF Marked, Alike, SameRest
      <3>5. \A j \in PageNodes : j # k => t.bitmap[j] = s.bitmap[j]
        BY <1>9, <3>2
      <3>6. ZeroKept(s, t)
        BY <1>13, <3>2 DEF ZeroKept
      <3> HIDE DEF t
      <3> QED
        BY <1>1, <1>2, <3>2, <3>3, <3>4, <3>5, <3>6, MarkSound
    <2> QED
      BY <2>1, <2>2
  <1> HIDE DEF t, got
  <1>11. InClass(t.desc, k, shift)
    BY <1>1, <1>2, <1>10 DEF Keeps
  <1>14. Granted(s, got)
    <2>1. Typed(s) /\ Typed(got.s) /\ ZeroKept(s, got.s)
      BY <1>8, <1>10 DEF Sound, PagesOK
    <2>2. got.at.page = 0 => s.desc[0].type = "small"
      BY <1>2, <1>8
    <2> QED
      BY <2>1, <2>2, GrantKept
  <1> QED
    BY <1>8, <1>10, <1>11, <1>14 DEF Answered, got

\* The loop of hcore_slab_alloc_locked for exact pages leaves a sound pool even
\* where it returns an address outside it.
LEMMA AllocExactSound ==
  ASSUME NEW s, Sound(s),
         NEW k, k = s.desc[SlotNode(ExactShift)].next, k # SlotNode(ExactShift)
  PROVE  Answered(s, AllocExact(s, k), ExactShift)
  <1> DEFINE d == s.desc
             D == PutBits(d, k, {0})
             t == State(D, s.bitmap, s.pfree)
             got == AllocExact(s, k)
  <1>1. ExactShift \in Classes /\ ExactShift = 5
    BY Numbers DEF ExactShift
  <1>2. InClass(d, k, ExactShift) /\ k \in PageNodes /\ RoomOK(s, k, ExactShift)
    BY <1>1, FirstOfSlot
  <1>3. k \in Nodes /\ {0} \in SUBSET (0 .. WordBits - 1)
    BY <1>2, Bounds DEF WordBits
  <1>4. d \in Descs /\ s.bitmap \in [PageNodes -> SUBSET Nat] /\ s = State(d, s.bitmap, s.pfree)
    BY StateIs DEF Sound, PagesOK
  <1>5. d[k].bits \subseteq {0} /\ d[k].next = SlotNode(5) /\ d[k].prev = SlotNode(5)
    BY <1>1, <1>2 DEF RoomOK
  <1>6. CASE 0 \in d[k].bits
    BY <1>6 DEF AllocExact, Failure, Outcome, Answered, Keeps, Granted
  <1>7. CASE 0 \notin d[k].bits
    <2>1. d[k].bits \union {0} = {0}
      BY <1>5
    <2>2. got = Failure(WithDesc(s, D), "outside")
      <3>1. got = Failure([s EXCEPT !.desc[k].bits = d[k].bits \union {0}], "outside")
        BY <1>7 DEF AllocExact
      <3> QED
        BY <2>1, <3>1 DEF WithDesc, PutBits
    <2>3. WithDesc(s, D) = t
      <3> HIDE DEF D, d
      <3> QED
        BY <1>4, OneSet
    <2>4. got.s = t /\ got.kind = "outside"
      BY <2>2, <2>3 DEF Failure, Outcome
    <2>5. /\ D \in Descs /\ D[k].bits = {0} /\ Marked(d, D, k)
          /\ \A j \in Nodes : j # k => Alike(d, D, j)
      BY <1>3, <1>4, PutBitsIs
    <2> HIDE DEF D
    <2>6. Typed(t) /\ t.desc = D /\ t.bitmap = s.bitmap /\ t.pfree = s.pfree
      BY <1>4, <2>5, TypedState
    <2>7. RoomOK(t, k, ExactShift)
      BY <1>1, <1>5, <2>5, <2>6 DEF RoomOK, Marked
    <2>9. ZeroKept(s, t)
      <3>1. 0 \in Nodes
        BY Bounds
      <3>2. k = 0 => d[0].bits \subseteq D[0].bits
        BY <1>5, <2>5
      <3> QED
        BY <2>5, <2>6, <3>1, <3>2 DEF ZeroKept, Marked, Alike, SameRest
    <2> HIDE DEF t
    <2>8. Sound(t) /\ Keeps(d, t.desc)
      BY <1>1, <1>2, <2>5, <2>6, <2>7, MarkSound
    <2>10. Granted(s, got)
      <3>1. Typed(s) /\ Typed(got.s) /\ ZeroKept(s, got.s) /\ got.kind # "address"
        BY <2>4, <2>8, <2>9 DEF Sound, PagesOK
      <3> HIDE DEF got
      <3> QED
        BY <3>1, GrantKept
    <2> QED
      BY <2>4, <2>8, <2>10 DEF Answered
  <1> QED
    BY <1>6, <1>7

\* Only chunks of 128 bytes fill the mask of a page that is taken for full.
LEMMA BigNumbers ==
  /\ BigBits(6) = {} /\ BigBits(8) = 0 .. 15 /\ BigBits(9) = 0 .. 7 /\ BigBits(10) = 0 .. 3
  /\ \A shift \in {7, 8, 9, 10} : BigBits(shift) \subseteq 0 .. WordBits - 1
  /\ \A shift \in {7, 8, 9, 10} : TakenForFull(shift) <=> shift = 7
  <1>1. BigBits(6) = {} /\ BigBits(8) = 0 .. 15 /\ BigBits(9) = 0 .. 7 /\ BigBits(10) = 0 .. 3
    BY SMT DEF BigBits, PageSize, WordBits
  <1>2. BigBits(7) = 0 .. 31
    BY BitNumbers
  <1>3. Cardinality(0 .. 31) = 32 /\ Cardinality(0 .. 7) = 8
    <2>1. ASSUME NEW b \in Nat
          PROVE  Cardinality(0 .. b) = b + 1
      <3>1. 0 \in Int /\ b \in Int /\ ~(0 > b) /\ b - 0 + 1 = b + 1
        OBVIOUS
      <3> QED
        BY <3>1, FS_Interval
    <2>2. 31 \in Nat /\ 7 \in Nat /\ 31 + 1 = 32 /\ 7 + 1 = 8
      OBVIOUS
    <2> QED
      BY <2>1, <2>2
  <1>4. ASSUME NEW shift \in {7, 8, 9, 10}
        PROVE  /\ BigBits(shift) \subseteq 0 .. WordBits - 1
               /\ TakenForFull(shift) <=> shift = 7
    <2>1. CASE shift = 7
      BY <1>2, <1>3, <2>1 DEF TakenForFull, WordBits
    <2>2. CASE shift = 9
      BY <1>1, <1>3, <2>2 DEF TakenForFull, WordBits
    <2>3. CASE shift \in {8, 10}
      BY <1>1, <2>3 DEF TakenForFull, WordBits
    <2> QED
      BY <2>1, <2>2, <2>3
  <1> QED
    BY <1>1, <1>4

\* A chunk of a big page: the page leaves its slot when it is taken for full.
LEMMA AllocBigSound ==
  ASSUME NEW s, Sound(s), NEW shift \in {7, 8, 9, 10},
         NEW k, k = s.desc[SlotNode(shift)].next, k # SlotNode(shift), HasChunk(s, shift, k)
  PROVE  Answered(s, AllocBig(s, k, shift), shift)
  <1> DEFINE d == s.desc
             slot == SlotNode(shift)
             room == BigBits(shift) \ d[k].bits
             b == Min(room)
             bits == d[k].bits \union {b}
             m == PutBits(d, k, bits)
             D == IF shift = 7 THEN RemoveFull(m, k, "big") ELSE m
             t == State(D, s.bitmap, s.pfree)
             got == AllocBig(s, k, shift)
  <1>1. /\ shift \in Classes /\ TypeOf(shift) = "big"
        /\ ExactShift = 5 /\ ~(shift < ExactShift) /\ shift # ExactShift
    <2>1. shift \in Classes
      BY Numbers
    <2>2. ExactShift = 5 /\ ~(shift < ExactShift) /\ shift # ExactShift
      BY DEF ExactShift
    <2> QED
      BY <2>1, <2>2 DEF TypeOf
  <1>2. /\ InClass(d, k, shift) /\ k \in PageNodes /\ d[k].prev = slot /\ d[k].next # k
        /\ d[k].type = "big" /\ RoomOK(s, k, shift)
    BY <1>1, FirstOfSlot DEF InClass
  <1>3. k \in Nodes /\ "big" \in Types
    BY <1>2, Bounds DEF Types
  <1>4. d \in Descs /\ s.bitmap \in [PageNodes -> SUBSET Nat] /\ s = State(d, s.bitmap, s.pfree)
    BY StateIs DEF Sound, PagesOK
  <1>5. BigBits(shift) \subseteq 0 .. WordBits - 1 /\ (TakenForFull(shift) <=> shift = 7)
        /\ d[k].bits \subseteq 0 .. WordBits - 1
    <2>1. d[k].bits \in SUBSET (0 .. WordBits - 1)
      BY <1>3, <1>4, Fields
    <2> QED
      BY <2>1, BigNumbers
  <1>6. room # {}
    <2>1. ~ BigBits(shift) \subseteq d[k].bits
      BY <1>1 DEF HasChunk
    <2> QED
      BY <2>1
  <1>7. b \in room /\ \A y \in room : b <= y
    <2>1. room \in SUBSET Nat
      <3>1. 0 .. WordBits - 1 \subseteq Nat
        BY DEF WordBits
      <3> QED
        BY <1>5, <3>1
    <2> HIDE DEF room
    <2> QED
      BY <1>6, <2>1, MinIs
  <1>8. bits \in SUBSET (0 .. WordBits - 1)
    <2> HIDE DEF b
    <2> QED
      BY <1>5, <1>7
  <1>9. shift = 7 => bits \subseteq {0, 1}
    <2> SUFFICES ASSUME shift = 7 PROVE bits \subseteq {0, 1}
      OBVIOUS
    <2>1. d[k].next # Null
      BY <1>1, FirstOfSlot, ClassFacts DEF Sound, SlotsOK, ClassOK, HeadOK
    <2>2. d[k].bits \subseteq {0, 1} /\ d[k].bits # {0, 1}
      BY <1>2, <2>1 DEF RoomOK
    <2>3. PICK y \in {0, 1} : y \notin d[k].bits
      BY <2>2
    <2>4. y \in room
      <3>1. y \in BigBits(7)
        BY <2>3, BitNumbers
      <3> QED
        BY <2>3, <3>1
    <2>5. b \in BigBits(7) /\ b <= y
      <3> HIDE DEF b
      <3> QED
        BY <1>7, <2>4
    <2>6. b \in {0, 1}
      <3> HIDE DEF b
      <3> QED
        BY <2>3, <2>5, BitNumbers
    <2> HIDE DEF b
    <2> QED
      BY <2>2, <2>6
  <1>10. got.s = t /\ got.at.page = k
    <2>1. got = Outcome(WithDesc(s, D), "address", k, 0)
      <3> HIDE DEF D
      <3>1. got = Outcome(WithDesc(s, IF TakenForFull(shift) THEN RemoveFull(m, k, "big") ELSE m), "address", k, 0)
        BY DEF AllocBig, WithDesc, PutBits
      <3> QED
        BY <1>5, <3>1 DEF D
    <2>2. WithDesc(s, D) = t
      <3> HIDE DEF D, d
      <3> QED
        BY <1>4, OneSet
    <2> QED
      BY <2>1, <2>2 DEF Outcome
  <1>11. /\ m \in Descs /\ m[k].bits = bits /\ Marked(d, m, k)
         /\ \A j \in Nodes : j # k => Alike(d, m, j)
    <2> HIDE DEF bits
    <2> QED
      BY <1>3, <1>4, <1>8, PutBitsIs
  <1>14. b \notin d[k].bits /\ bits = d[k].bits \union {b} /\ d[k].bits \subseteq bits
    <2> HIDE DEF b
    <2> QED
      BY <1>7
  <1> HIDE DEF m, got, b, room, bits
  <1>15. /\ 0 \in Nodes /\ 0 \in PageNodes /\ 0 # slot
         /\ d[k].next # slot => k = 0 /\ d[k].next # 0
    BY <1>1, FirstOfSlot, ClassFacts, Bounds
  <1>12. Sound(t) /\ Keeps(d, t.desc)
    <2>1. CASE shift = 7
      <3>1. /\ D \in Descs /\ D[k].next = Null /\ D[k].type = "big" /\ SameRest(m, D, k)
            /\ \A j \in Nodes : j # k =>
                 /\ SameRest(m, D, j)
                 /\ D[j].next = (IF j = m[k].prev THEN m[k].next ELSE m[j].next)
                 /\ D[j].prev = (IF j = m[k].next THEN m[k].prev ELSE m[j].prev)
                 /\ D[j].type = (IF j = m[k].next THEN m[k].type ELSE m[j].type)
        <4>1. D = RemoveFull(m, k, "big")
          BY <2>1
        <4> HIDE DEF D, d, slot
        <4> QED
          BY <1>3, <1>11, <4>1, RemoveFullFields
      <3> HIDE DEF D
      <3>2. /\ m[k].prev = slot /\ m[k].next = d[k].next /\ m[k].type = "big"
            /\ m[k].n = d[k].n /\ m[k].flag = d[k].flag
            /\ \A j \in Nodes : j # k => SameRest(d, m, j) /\ m[j].type = d[j].type
                                         /\ m[j].next = d[j].next /\ m[j].prev = d[j].prev
        BY <1>2, <1>11 DEF Marked, Alike
      <3>3. \A j \in Nodes : j # k =>
              /\ SameRest(d, D, j)
              /\ D[j].next = (IF j = slot THEN d[k].next ELSE d[j].next)
              /\ D[j].prev = (IF j = d[k].next THEN slot ELSE d[j].prev)
              /\ D[j].type = (IF j = d[k].next THEN "big" ELSE d[j].type)
        BY <3>1, <3>2 DEF SameRest
      <3>4. Typed(t) /\ t.desc = D /\ t.bitmap = s.bitmap /\ t.pfree = s.pfree
        BY <1>4, <3>1, TypedState
      <3>5. shift \in {3, 4, 7} /\ (shift = 7 => D[k].bits \subseteq {0, 1})
        BY <1>9, <1>11, <2>1, <3>1 DEF SameRest
      <3>6. D[k].n = d[k].n /\ D[k].flag = d[k].flag
        BY <3>1, <3>2 DEF SameRest
      <3> HIDE DEF t, d
      <3> QED
        <4>1. Removed(d, D, k, shift)
          <5>1. SlotNode(shift) = slot
            OBVIOUS
          <5> HIDE DEF slot
          <5> QED
            BY <1>1, <3>1, <3>3, <3>5, <3>6, <5>1 DEF Removed
        <4>2. \A j \in PageNodes : t.bitmap[j] = s.bitmap[j]
          BY <3>4
        <4> QED
          BY <1>1, <3>4, <3>5, <4>1, <4>2, RemoveSound DEF d
    <2>2. CASE shift # 7
      <3>1. D = m
        BY <2>2
      <3> HIDE DEF D
      <3>2. Typed(t) /\ t.desc = m /\ t.bitmap = s.bitmap /\ t.pfree = s.pfree
        BY <1>4, <1>11, <3>1, TypedState
      <3>3. RoomOK(t, k, shift)
        <4>1. m[k].next = slot /\ m[k].prev = slot
          BY <1>2, <1>11, <2>2 DEF RoomOK, Marked
        <4> HIDE DEF t
        <4> QED
          BY <1>1, <2>2, <3>2, <4>1 DEF RoomOK
      <3> HIDE DEF t
      <3> QED
        BY <1>1, <1>2, <1>11, <3>2, <3>3, MarkSound
    <2> QED
      BY <2>1, <2>2
  <1>13. InClass(t.desc, k, shift)
    BY <1>1, <1>2, <1>12 DEF Keeps
  <1>16. /\ D[0].type = d[0].type /\ D[0].n = d[0].n /\ D[0].flag = d[0].flag
         /\ D[0].bits = IF k = 0 THEN bits ELSE d[0].bits
    <2>1. m[k].type = "big" /\ m[k].next = d[k].next /\ m[0].type = d[0].type /\ m[0].n = d[0].n
          /\ m[0].flag = d[0].flag /\ m[0].bits = IF k = 0 THEN bits ELSE d[0].bits
      BY <1>2, <1>11, <1>15 DEF Marked, Alike, SameRest
    <2>2. CASE shift = 7
      <3>1. /\ D[k].type = "big" /\ SameRest(m, D, k)
            /\ \A j \in Nodes : j # k =>
                 /\ SameRest(m, D, j)
                 /\ D[j].type = (IF j = m[k].next THEN m[k].type ELSE m[j].type)
        <4>1. D = RemoveFull(m, k, "big")
          BY <2>2
        <4> HIDE DEF D, d, slot
        <4> QED
          BY <1>3, <1>11, <4>1, RemoveFullFields
      <3> HIDE DEF D
      <3>2. D[0].type = m[0].type /\ SameRest(m, D, 0)
        BY <1>15, <2>1, <3>1
      <3> QED
        BY <2>1, <3>2 DEF SameRest
    <2>3. CASE shift # 7
      <3>1. D = m
        BY <2>3
      <3> HIDE DEF D
      <3> QED
        BY <2>1, <3>1
    <2> QED
      BY <2>2, <2>3
  <1> HIDE DEF D
  <1>17. t.desc = D /\ t.bitmap = s.bitmap
    BY DEF State
  <1> HIDE DEF t
  <1>18. Granted(s, got)
    <2>1. Typed(s) /\ Typed(got.s) /\ got.s = t
      BY <1>10, <1>12 DEF Sound, PagesOK
    <2>2. CASE k # 0
      <3>1. ZeroKept(s, t) /\ got.at.page # 0
        BY <1>10, <1>16, <1>17, <2>2 DEF ZeroKept
      <3> QED
        BY <2>1, <3>1, GrantKept
    <2>3. CASE k = 0
      <3> SUFFICES ASSUME NEW i \in Nat, Bound(s, i)
                   PROVE  Bound(t, i) /\ Bound(t, i + 1)
        BY <2>1 DEF Granted
      <3>1. Cardinality(D[0].bits) = Cardinality(d[0].bits) + 1 /\ Cardinality(d[0].bits) \in Nat
        <4>1. IsFiniteSet(d[0].bits) /\ Cardinality(d[0].bits) \in Nat
          BY <1>4, <1>15, BitsFinite
        <4> QED
          BY <1>14, <1>16, <2>3, <4>1, FS_AddElement
      <3>2. D[0].type = "big"
        BY <1>2, <1>16, <2>3
      <3>3. 0 \notin StartPages(D)
        BY <3>2 DEF StartPages
      <3>4. i <= Cardinality(d[0].bits)
        BY <1>2, <2>3 DEF Bound
      <3>5. i + 1 <= Cardinality(D[0].bits) /\ i <= Cardinality(D[0].bits)
        BY <3>1, <3>4
      <3> QED
        BY <1>17, <3>2, <3>3, <3>5 DEF Bound
    <2> QED
      BY <2>2, <2>3
  <1> QED
    BY <1>10, <1>12, <1>13, <1>18 DEF Answered, got, t

\* A request for a chunk leaves the pool sound, and an address it returns lies
\* in a page of the class.
LEMMA AllocChunkSound ==
  ASSUME NEW s, Sound(s), NEW shift \in Classes
  PROVE  Answered(s, AllocChunk(s, shift), shift)
  <1> DEFINE k == s.desc[SlotNode(shift)].next
  <1>1. CASE ~HasChunk(s, shift, k)
    <2>1. shift \in {3, 4, 7} => s.desc[SlotNode(shift)].next = SlotNode(shift)
      BY <1>1, ListedHasRoom
    <2>2. AllocChunk(s, shift) = NewPage(s, shift)
      BY <1>1 DEF AllocChunk
    <2> QED
      BY <2>1, <2>2, NewSound DEF Answered
  <1>2. CASE HasChunk(s, shift, k)
    <2>1. k # SlotNode(shift)
      BY <1>2 DEF HasChunk
    <2>2. shift \in Int /\ 3 <= shift /\ shift <= 10 /\ ExactShift = 5
      BY ClassFacts DEF ExactShift
    <2> HIDE DEF k
    <2>3. CASE shift < ExactShift
      <3>1. shift \in {3, 4} /\ AllocChunk(s, shift) = AllocSmall(s, k, shift)
        BY <1>2, <2>2, <2>3 DEF AllocChunk, k
      <3> QED
        BY <1>2, <2>1, <3>1, AllocSmallSound DEF k
    <2>4. CASE shift = ExactShift
      <3>1. AllocChunk(s, shift) = AllocExact(s, k)
        BY <1>2, <2>2, <2>4 DEF AllocChunk, k
      <3> QED
        BY <2>1, <2>4, <3>1, AllocExactSound DEF k
    <2>5. CASE shift > ExactShift
      <3>1. AllocChunk(s, shift) = AllocBig(s, k, shift)
        BY <1>2, <2>2, <2>5 DEF AllocChunk, k
      <3>2. shift # 6
        BY <1>2, <2>2, <2>5, BigNumbers DEF HasChunk
      <3>3. shift \in {7, 8, 9, 10}
        BY <2>2, <2>5, <3>2
      <3> QED
        BY <1>2, <2>1, <3>1, <3>3, AllocBigSound DEF k
    <2> QED
      BY <2>2, <2>3, <2>4, <2>5
  <1> QED
    BY <1>1, <1>2

\* A run leaves the pool sound too, and is long enough.
LEMMA AllocRunSound ==
  ASSUME NEW s, Sound(s), NEW size \in Nat, size > MaxSize
  PROVE  LET got == AllocRun(s, size) IN
         /\ Sound(got.s) /\ Keeps(s.desc, got.s.desc)
         /\ got.kind = "address" =>
              /\ got.at.page \in StartPages(got.s.desc) /\ got.at.off = 0
              /\ size <= got.s.desc[got.at.page].n * 2048
              /\ got.at.page \notin Given(s.desc)
         /\ Granted(s, got)
  <1> DEFINE k == size \div 2 ^ PageShift + (IF size % PageSize # 0 THEN 1 ELSE 0)
             got == AllocPages(s, k)
             g == got.page
             t == State(CutOff(s.desc, g, k), s.bitmap, s.pfree - k)
  <1>1. k \in Nat \ {0} /\ size <= k * 2048
    <2>1. 2 ^ PageShift = 2048 /\ PageSize = 4096 /\ size > 2048
      BY SMT DEF PageShift, PageSize, MaxSize
    <2>2. size \div 2048 \in Nat /\ size \div 2048 >= 1 /\ size < (size \div 2048) * 2048 + 2048
      BY <2>1
    <2>3. size % 4096 = 0 => size = (size \div 2048) * 2048
      BY <2>1
    <2> QED
      BY <2>1, <2>2, <2>3
  <1>2. AllocRun(s, size) = IF g = Null THEN Failure(s, "null") ELSE Outcome(got.s, "address", g, 0)
    BY DEF AllocRun
  <1>3. CASE g = Null
    BY <1>2, <1>3 DEF Failure, Outcome, Keeps, Granted
  <1>4. CASE g # Null
    <2>1. /\ AllocRun(s, size).s = got.s /\ AllocRun(s, size).kind = "address"
          /\ AllocRun(s, size).at.page = g /\ AllocRun(s, size).at.off = 0
      BY <1>2, <1>4 DEF Outcome
    <2>2. PagesOK(s)
      BY DEF Sound
    <2> HIDE DEF k
    <2>3. g \in FreeStarts(s.desc) /\ k \in 1 .. s.desc[g].n /\ got.s = t
      BY <1>1, <1>4, <2>2, AllocPagesIs
    <2> HIDE DEF got, g
    <2>4. Sound(t) /\ g \in StartPages(t.desc) /\ t.desc[g].n = k
      BY <2>3, TakeSound
    <2>5. Keeps(s.desc, t.desc)
      BY <2>3, TakeKeeps DEF State
    <2>6. /\ g \notin Given(s.desc)
          /\ g = 0 => Bound(t, 1)
          /\ g # 0 => \A m \in Nat : Bound(s, m) /\ (0 \notin Given(s.desc) => m = 0) => Bound(t, m)
      BY <2>3, TakeGrants
    <2> HIDE DEF t
    <2>7. Granted(s, AllocRun(s, size))
      <3> SUFFICES ASSUME NEW m \in Nat, Bound(s, m), 0 \notin Given(s.desc) => m = 0
                   PROVE  Bound(t, IF g = 0 THEN m + 1 ELSE m)
        BY <2>1, <2>3 DEF Granted
      <3>1. CASE g = 0
        <4>1. m = 0 /\ m + 1 = 1
          BY <2>6, <3>1
        <4> QED
          BY <2>6, <3>1, <4>1
      <3>2. CASE g # 0
        BY <2>6, <3>2
      <3> QED
        BY <3>1, <3>2
    <2> QED
      BY <1>1, <2>1, <2>3, <2>4, <2>5, <2>6, <2>7
  <1> QED
    BY <1>3, <1>4

\* Only chunks of small pages begin behind the beginning of a page.
LEMMA ChunkOffset ==
  ASSUME NEW s, NEW shift \in Classes, shift >= ExactShift, AllocChunk(s, shift).kind = "address"
  PROVE  AllocChunk(s, shift).at.off = 0
  <1> DEFINE k == s.desc[SlotNode(shift)].next
  <1>1. NewPage(s, shift).at.off = 0
    <2>1. ~(shift < ExactShift)
      BY ClassFacts DEF ExactShift
    <2> QED
      BY <2>1 DEF NewPage, Failure, Outcome
  <1>2. AllocExact(s, k).at.off = 0
    BY DEF AllocExact, Failure, Outcome
  <1>3. AllocBig(s, k, shift).at.off = 0
    BY DEF AllocBig, Outcome
  <1> QED
    BY <1>1, <1>2, <1>3, ClassFacts DEF AllocChunk, ExactShift

\* The sizes of the chunks.
LEMMA Powers ==
  /\ \A k : k = 3 => 2 ^ k = 8
  /\ \A k : k = 4 => 2 ^ k = 16
  /\ \A k \in 3 .. 10 : 2 ^ k \in Nat /\ 2 ^ k <= 1024
  <1>2. ASSUME NEW k
        PROVE  /\ k = 3 => 2 ^ k = 8
               /\ k = 4 => 2 ^ k = 16
               /\ k = 5 => 2 ^ k = 32
               /\ k = 6 => 2 ^ k = 64
               /\ k = 7 => 2 ^ k = 128
               /\ k = 8 => 2 ^ k = 256
               /\ k = 9 => 2 ^ k = 512
               /\ k = 10 => 2 ^ k = 1024
    <2>3. k = 3 => 2 ^ k = 8
      <3>1. 2 ^ 3 = 8
        BY SMT
      <3> QED
        BY <3>1, Zenon
    <2>4. k = 4 => 2 ^ k = 16
      <3>1. 2 ^ 4 = 16
        BY SMT
      <3> QED
        BY <3>1, Zenon
    <2>5. k = 5 => 2 ^ k = 32
      <3>1. 2 ^ 5 = 32
        BY SMT
      <3> QED
        BY <3>1, Zenon
    <2>6. k = 6 => 2 ^ k = 64
      <3>1. 2 ^ 6 = 64
        BY SMT
      <3> QED
        BY <3>1, Zenon
    <2>7. k = 7 => 2 ^ k = 128
      <3>1. 2 ^ 7 = 128
        BY SMT
      <3> QED
        BY <3>1, Zenon
    <2>8. k = 8 => 2 ^ k = 256
      <3>1. 2 ^ 8 = 256
        BY SMT
      <3> QED
        BY <3>1, Zenon
    <2>9. k = 9 => 2 ^ k = 512
      <3>1. 2 ^ 9 = 512
        BY SMT
      <3> QED
        BY <3>1, Zenon
    <2>10. k = 10 => 2 ^ k = 1024
      <3>1. 2 ^ 10 = 1024
        BY SMT
      <3> QED
        BY <3>1, ZenonT(60)
    <2> QED
      BY <2>3, <2>4, <2>5, <2>6, <2>7, <2>8, <2>9, <2>10
  <1>3. ASSUME NEW k \in 3 .. 10
        PROVE  2 ^ k \in Nat /\ 2 ^ k <= 1024
    <2> DEFINE pow == 2 ^ k
    <2>1. k = 3 \/ k = 4 \/ k = 5 \/ k = 6 \/ k = 7 \/ k = 8 \/ k = 9 \/ k = 10
      OBVIOUS
    <2>2. /\ k = 3 => pow = 8
          /\ k = 4 => pow = 16
          /\ k = 5 => pow = 32
          /\ k = 6 => pow = 64
          /\ k = 7 => pow = 128
          /\ k = 8 => pow = 256
          /\ k = 9 => pow = 512
          /\ k = 10 => pow = 1024
      BY <1>2
    <2> HIDE DEF pow
    <2>3. pow \in Nat /\ pow <= 1024
      BY <2>1, <2>2
    <2> QED
      BY <2>3 DEF pow
  <1> QED
    BY <1>2, <1>3

\* The class of a request is the least one that holds it: chunks of up to 16 bytes
\* are of the classes of small pages, and others hold the request.
LEMMA ShiftIs ==
  ASSUME NEW size \in Nat, size <= MaxSize
  PROVE  /\ Shift(size) \in Classes \union {PageShift}
         /\ size > 16 => Shift(size) >= ExactShift
         /\ Shift(size) \in Classes => size <= 1024
  <1> DEFINE C == {k \in MinShift .. PageShift : 2 ^ k >= size}
  <1>1. 11 \in C
    BY SMT DEF MinShift, PageShift, MaxSize
  <1>2. C \in SUBSET Nat
    BY DEF MinShift, PageShift
  <1>3. Min(C) \in C
    <2> HIDE DEF C
    <2> QED
      BY <1>1, <1>2, MinIs
  <1>4. Shift(size) \in MinShift .. PageShift /\ 2 ^ Shift(size) >= size
    BY <1>3 DEF Shift
  <1> HIDE DEF C
  <1>6. size > 16 => Shift(size) # 3 /\ Shift(size) # 4
    <2> DEFINE pow == 2 ^ Shift(size)
    <2>1. (Shift(size) = 3 => pow = 8) /\ (Shift(size) = 4 => pow = 16)
      BY Powers
    <2>2. pow >= size
      BY <1>4
    <2> HIDE DEF pow
    <2> QED
      BY <2>1, <2>2
  <1>7. Shift(size) \in 3 .. 11
    BY <1>4 DEF MinShift, PageShift
  <1>8. Shift(size) \in 3 .. 10 => size <= 1024
    <2> DEFINE pow == 2 ^ Shift(size)
    <2>2. Shift(size) \in 3 .. 10 => pow <= 1024 /\ pow \in Nat
      BY Powers, ZenonT(60)
    <2>3. pow >= size
      BY <1>4
    <2> HIDE DEF pow
    <2> QED
      BY <2>2, <2>3
  <1> QED
    BY <1>6, <1>7, <1>8 DEF Classes, MinShift, PageShift, ExactShift

\* What hcore_slab_alloc_locked leaves behind and returns: a run that is long
\* enough and was free, or a page of the class of the request.
Offered(s, got, size) ==
  /\ Sound(got.s) /\ Keeps(s.desc, got.s.desc) /\ Granted(s, got)
  /\ got.kind = "address" =>
       IF size > MaxSize
       THEN /\ got.at.page \in StartPages(got.s.desc) /\ got.at.off = 0
            /\ size <= got.s.desc[got.at.page].n * 2048
            /\ got.at.page \notin Given(s.desc)
       ELSE /\ Shift(size) \in Classes /\ InClass(got.s.desc, got.at.page, Shift(size))
            /\ size > 16 => got.at.off = 0

\* hcore_slab_alloc_locked leaves the pool sound, and what it gives is a page
\* of the class of the request, or a run that is long enough for it.
LEMMA AllocSound ==
  ASSUME NEW s, Sound(s), NEW size \in Nat
  PROVE  Offered(s, AllocLocked(s, size), size)
  <1>1. CASE size > MaxSize
    BY <1>1, AllocRunSound DEF AllocLocked, Offered
  <1>2. CASE size <= MaxSize /\ Shift(size) = PageShift
    BY <1>2 DEF AllocLocked, Failure, Outcome, Keeps, Granted, MaxSize, Offered
  <1>3. CASE size <= MaxSize /\ Shift(size) # PageShift
    <2>1. Shift(size) \in Classes
      BY <1>3, ShiftIs
    <2>2. AllocLocked(s, size) = AllocChunk(s, Shift(size)) /\ ~(size > MaxSize)
      BY <1>3 DEF AllocLocked, MaxSize
    <2> QED
      BY <1>3, <2>1, <2>2, AllocChunkSound, ChunkOffset, ShiftIs DEF Answered, Offered
  <1> QED
    BY <1>1, <1>2, <1>3 DEF MaxSize
-----------------------------------------------------------------------------
(* hcore_slab_free_locked: a full page goes back to its slot.               *)

\* Page 0 is put at the head of the slot of its class.
LEMMA RelinkSound ==
  ASSUME NEW s, NEW t, Sound(s), Typed(t), t.pfree = s.pfree,
         NEW shift \in {3, 4, 7}, InClass(s.desc, 0, shift), s.desc[0].next = Null,
         NEW second, second = s.desc[SlotNode(shift)].next,
         t.desc[0].next = second, t.desc[0].prev = SlotNode(shift),
         t.desc[0].type = s.desc[0].type, t.desc[0].n = s.desc[0].n,
         t.desc[0].flag = s.desc[0].flag,
         RoomOK(t, 0, shift),
         \A j \in PageNodes : j # 0 => t.bitmap[j] = s.bitmap[j],
         \A j \in Nodes : j # 0 =>
           /\ SameRest(s.desc, t.desc, j)
           /\ t.desc[j].next = (IF j = SlotNode(shift) THEN 0 ELSE s.desc[j].next)
           /\ t.desc[j].prev = (IF j = second THEN 0 ELSE s.desc[j].prev)
           /\ t.desc[j].type = (IF j = second THEN s.desc[0].type ELSE s.desc[j].type)
  PROVE  Sound(t) /\ Keeps(s.desc, t.desc)
  <1> DEFINE d == s.desc
             e == t.desc
             slot == SlotNode(shift)
  <1>1. shift \in Classes /\ ExactShift = 5
    BY Numbers DEF ExactShift
  <1>2. /\ slot \in Nodes /\ slot \in SlotNodes /\ slot \notin PageNodes /\ slot # FreeHead /\ slot # Null
        /\ slot # 0
    BY <1>1, ClassFacts
  <1>3. 0 \in PageNodes /\ 0 \in Nodes /\ 0 \in SlabPages(d)
    BY <1>1, InClassIsSlab, Bounds
  <1>4. second # slot => /\ InClass(d, second, shift) /\ second \in PageNodes /\ second \in SlabPages(d)
                         /\ second # 0 /\ d[second].next = slot
    <2> SUFFICES ASSUME second # slot
                 PROVE  /\ InClass(d, second, shift) /\ second \in PageNodes /\ second \in SlabPages(d)
                        /\ second # 0 /\ d[second].next = slot
      OBVIOUS
    <2>1. ClassOK(s, shift)
      BY <1>1 DEF Sound, SlotsOK
    <2>2. InClass(d, second, shift) /\ d[second].next # Null
      BY <2>1 DEF ClassOK, HeadOK
    <2>3. second \in PageNodes /\ second \in SlabPages(d) /\ second # 0
      BY <1>1, <2>2, InClassIsSlab
    <2> QED
      BY <2>1, <2>2, <2>3 DEF ClassOK
  <1>5. second \in Nodes /\ second # 0 /\ second # Null
    BY <1>2, <1>4, Bounds
  <1>6. \A j \in PageNodes : j # 0 /\ j # second => Alike(d, e, j)
    BY <1>2, Bounds DEF Alike
  <1>7. second # slot => /\ SameRest(d, e, second) /\ e[second].next = slot /\ e[second].prev = 0
                         /\ e[second].type = d[second].type
    BY <1>4, <1>5 DEF InClass
  <1>8. e[slot].next = 0 /\ \A j \in SlotNodes : j # slot => e[j].next = d[j].next
    BY <1>2, SlotBounds
  <1>9. e[FreeHead].next = d[FreeHead].next
    BY <1>2, Bounds
  <1>10. /\ e[0].type = d[0].type /\ e[0].n = d[0].n /\ e[0].flag = d[0].flag
         /\ e[0].next = second /\ e[0].prev = slot
    OBVIOUS
  <1>11. PagesOK(s) /\ SlotsOK(s) /\ ClassOK(s, shift) /\ InClass(d, 0, shift)
    BY <1>1 DEF Sound, SlotsOK
  <1> HIDE DEF d, e, slot
  <1>12. PagesOK(t) /\ Keeps(d, e)
    <2>1. \A j \in PageNodes : \/ Alike(d, e, j)
                               \/ j \in SlabPages(d) /\ e[j].n = d[j].n /\ e[j].flag = d[j].flag
                                  /\ e[j].type = d[j].type
      <3> SUFFICES ASSUME NEW j \in PageNodes, ~Alike(d, e, j)
                   PROVE  j \in SlabPages(d) /\ e[j].n = d[j].n /\ e[j].flag = d[j].flag
                                  /\ e[j].type = d[j].type
        OBVIOUS
      <3>1. j = 0 \/ (j = second /\ second # slot)
        BY <1>2, <1>6
      <3> QED
        BY <1>3, <1>4, <1>7, <1>10, <3>1 DEF SameRest
    <2> QED
      BY <1>9, <1>11, <2>1, PagesUntouched DEF d, e
  <1>13. \A j \in PageNodes : InClass(e, j, shift) <=> InClass(d, j, shift)
    <2>1. ASSUME NEW j \in PageNodes
          PROVE  InClass(e, j, shift) <=> InClass(d, j, shift)
      <3>1. CASE j = 0
        BY <1>10, <3>1 DEF InClass
      <3>2. CASE j = second
        BY <1>2, <1>7, <3>2 DEF InClass, SameRest
      <3>3. CASE j # 0 /\ j # second
        BY <1>6, <3>3 DEF InClass, Alike, SameRest
      <3> QED
        BY <3>1, <3>2, <3>3
    <2> QED
      BY <2>1
  <1>14. HeadOK(e, shift)
    <2>1. InClass(e, 0, shift)
      BY <1>3, <1>11, <1>13
    <2> QED
      BY <1>5, <1>8, <1>10, <2>1 DEF HeadOK, slot
  <1>15. ZeroOK(e, shift)
    <2>1. second # slot => InClass(e, second, shift)
      BY <1>4, <1>13
    <2> QED
      BY <1>5, <1>7, <1>8, <1>10, <2>1 DEF ZeroOK, slot
  <1>16. ASSUME NEW j \in PageNodes, InClass(e, j, shift)
         PROVE  /\ j # 0 => e[j].next \in {slot, Null}
                /\ RoomOK(t, j, shift)
    <2>1. shift \in {3, 4, 7}
      OBVIOUS
    <2>2. CASE j = 0
      BY <2>2
    <2>3. CASE j # 0
      <3>1. InClass(d, j, shift)
        BY <1>13, <1>16
      <3>2. d[j].next \in {slot, Null} /\ RoomOK(s, j, shift)
        BY <1>11, <2>3, <3>1 DEF ClassOK, d, slot
      <3>3. SameRest(d, e, j) /\ e[j].next = d[j].next /\ t.bitmap[j] = s.bitmap[j]
        <4>1. t.bitmap[j] = s.bitmap[j]
          BY <2>3
        <4>2. CASE j = second
          BY <1>2, <1>4, <1>7, <4>1, <4>2
        <4>3. CASE j # second
          BY <1>6, <2>3, <4>1, <4>3 DEF Alike
        <4> QED
          BY <4>2, <4>3
      <3>4. RoomOK(t, j, shift)
        BY <1>1, <2>1, <3>2, <3>3 DEF RoomOK, SameRest, d, e
      <3> QED
        BY <3>2, <3>3, <3>4
    <2> QED
      BY <2>2, <2>3
  <1>17. ClassOK(t, shift)
    BY <1>14, <1>15, <1>16 DEF ClassOK, e, slot
  <1>18. SlotsOK(t)
    <2>1. \A j \in PageNodes :
             \/ InClass(e, j, shift) /\ InClass(d, j, shift)
             \/ Alike(d, e, j) /\ t.bitmap[j] = s.bitmap[j]
      <3> SUFFICES ASSUME NEW j \in PageNodes, ~InClass(d, j, shift)
                   PROVE  Alike(d, e, j) /\ t.bitmap[j] = s.bitmap[j]
        BY <1>13
      <3>1. j # 0 /\ j # second
        BY <1>2, <1>4, <1>11
      <3> QED
        BY <1>6, <3>1
    <2> QED
      BY <1>1, <1>8, <1>11, <1>17, <2>1, OneClassChanged DEF d, e, slot
  <1> QED
    BY <1>12, <1>18 DEF Sound, d, e

\* What hcore_slab_free_locked leaves in each descriptor when it puts page 0 back at
\* the head of its slot.
LEMMA RelinkedFields ==
  ASSUME NEW d \in Descs, NEW shift \in Classes, d[SlotNode(shift)].next \in Nodes \ {0}
  PROVE  LET e == Relinked(d, 0, shift)
             slot == SlotNode(shift)
             second == d[slot].next
         IN /\ e \in Descs
            /\ e[0].next = second /\ e[0].prev = slot /\ e[0].type = d[0].type /\ SameRest(d, e, 0)
            /\ \A j \in Nodes : j # 0 =>
                 /\ SameRest(d, e, j)
                 /\ e[j].next = (IF j = slot THEN 0 ELSE d[j].next)
                 /\ e[j].prev = (IF j = second THEN 0 ELSE d[j].prev)
                 /\ e[j].type = (IF j = second THEN d[0].type ELSE d[j].type)
  <1> DEFINE slot == SlotNode(shift)
             second == d[slot].next
             ty == d[0].type
             d1 == PutNext(d, 0, second)
             d2 == PutPrev(d1, 0, slot)
             d3 == PutNext(d2, slot, 0)
             d4 == PutPrev(d3, second, 0)
             d5 == PutType(d4, second, ty)
  <1>1. Relinked(d, 0, shift) = d5
    BY DEF Relinked, PutNext, PutPrev, PutType
  <1>2. /\ 0 \in Nodes /\ slot \in Nodes /\ slot # 0 /\ second \in Nodes /\ second # 0
        /\ 0 \in Nodes \union {Null} /\ slot \in Nodes \union {Null} /\ second \in Nodes \union {Null}
    BY Bounds, ClassFacts
  <1>3. ty \in Types
    BY <1>2, Fields
  <1> HIDE DEF slot, second, ty
  <1>4. /\ d1 \in Descs
        /\ \A j \in Nodes : /\ SameRest(d, d1, j) /\ d1[j].next = (IF j = 0 THEN second ELSE d[j].next)
                            /\ d1[j].prev = d[j].prev /\ d1[j].type = d[j].type
    BY <1>2, PutNextIs
  <1> HIDE DEF d1
  <1>5. /\ d2 \in Descs
        /\ \A j \in Nodes : /\ SameRest(d1, d2, j) /\ d2[j].prev = (IF j = 0 THEN slot ELSE d1[j].prev)
                            /\ d2[j].next = d1[j].next /\ d2[j].type = d1[j].type
    BY <1>2, <1>4, PutPrevIs
  <1> HIDE DEF d2
  <1>6. /\ d3 \in Descs
        /\ \A j \in Nodes : /\ SameRest(d2, d3, j) /\ d3[j].next = (IF j = slot THEN 0 ELSE d2[j].next)
                            /\ d3[j].prev = d2[j].prev /\ d3[j].type = d2[j].type
    BY <1>2, <1>5, PutNextIs
  <1> HIDE DEF d3
  <1>7. /\ d4 \in Descs
        /\ \A j \in Nodes : /\ SameRest(d3, d4, j) /\ d4[j].prev = (IF j = second THEN 0 ELSE d3[j].prev)
                            /\ d4[j].next = d3[j].next /\ d4[j].type = d3[j].type
    BY <1>2, <1>6, PutPrevIs
  <1> HIDE DEF d4
  <1>8. /\ d5 \in Descs
        /\ \A j \in Nodes : /\ SameRest(d4, d5, j) /\ d5[j].type = (IF j = second THEN ty ELSE d4[j].type)
                            /\ d5[j].next = d4[j].next /\ d5[j].prev = d4[j].prev
    BY <1>3, <1>7, PutTypeIs
  <1> HIDE DEF d5
  <1>9. \A j \in Nodes : SameRest(d, d5, j)
    BY <1>4, <1>5, <1>6, <1>7, <1>8 DEF SameRest
  <1>10. d5[0].next = second /\ d5[0].prev = slot /\ d5[0].type = ty
    BY <1>2, <1>4, <1>5, <1>6, <1>7, <1>8 DEF ty
  <1>11. \A j \in Nodes : j # 0 =>
           /\ d5[j].next = (IF j = slot THEN 0 ELSE d[j].next)
           /\ d5[j].prev = (IF j = second THEN 0 ELSE d[j].prev)
           /\ d5[j].type = (IF j = second THEN ty ELSE d[j].type)
    BY <1>2, <1>4, <1>5, <1>6, <1>7, <1>8
  <1> QED
    BY <1>1, <1>2, <1>8, <1>9, <1>10, <1>11 DEF slot, second, ty
-----------------------------------------------------------------------------
(* hcore_slab_free_pages.  Only the address of page 0 finds its descriptor,  *)
(* so that the k pages that are freed are the first ones.                    *)

\* The length of a run, changed in one place.
WithN(r, x) == [r EXCEPT !.n = x]
PutN(d, a, x) == [d EXCEPT ![a].n = x]

\* A descriptor with another length is one still.
LEMMA WithNIs ==
  ASSUME NEW r \in Descriptor, NEW x \in 0 .. Pages
  PROVE  /\ WithN(r, x) \in Descriptor /\ WithN(r, x).n = x
         /\ WithN(r, x).next = r.next /\ WithN(r, x).prev = r.prev /\ WithN(r, x).type = r.type
         /\ WithN(r, x).bits = r.bits /\ WithN(r, x).flag = r.flag
  <1> DEFINE N == 0 .. Pages \union 0 .. PageShift
             B == SUBSET (0 .. WordBits - 1)
             L == Nodes \union {Null}
  <1>1. Descriptor = [n : N, flag : {"none", "start", "busy"}, bits : B,
                      prev : L, type : Types, next : L]
    BY DEF Descriptor
  <1>2. x \in N
    OBVIOUS
  <1> HIDE DEF N, B, L
  <1> QED
    BY <1>1, <1>2 DEF WithN

\* An assignment of the length changes the length of one node.
LEMMA PutNIs ==
  ASSUME NEW d \in Descs, NEW a \in Nodes, NEW x \in 0 .. Pages
  PROVE  /\ PutN(d, a, x) \in Descs
         /\ \A j \in Nodes : /\ PutN(d, a, x)[j].n = (IF j = a THEN x ELSE d[j].n)
                             /\ PutN(d, a, x)[j].flag = d[j].flag
                             /\ PutN(d, a, x)[j].bits = d[j].bits
                             /\ PutN(d, a, x)[j].next = d[j].next
                             /\ PutN(d, a, x)[j].prev = d[j].prev
                             /\ PutN(d, a, x)[j].type = d[j].type
  <1>1. d[a] \in Descriptor
    BY Fields
  <1>2. PutN(d, a, x) = Put(d, a, WithN(d[a], x))
    BY DEF PutN, Put, WithN
  <1>3. /\ WithN(d[a], x) \in Descriptor /\ WithN(d[a], x).n = x
        /\ WithN(d[a], x).next = d[a].next /\ WithN(d[a], x).prev = d[a].prev
        /\ WithN(d[a], x).type = d[a].type /\ WithN(d[a], x).flag = d[a].flag
        /\ WithN(d[a], x).bits = d[a].bits
    BY <1>1, WithNIs
  <1> HIDE DEF PutN
  <1>4. /\ PutN(d, a, x) \in Descs /\ PutN(d, a, x)[a] = WithN(d[a], x)
        /\ \A j \in Nodes : j # a => PutN(d, a, x)[j] = d[j]
    BY <1>2, <1>3, PutIs
  <1> QED
    BY <1>3, <1>4

\* The descriptors after the first assignments of hcore_slab_free_pages to page 0.
Emptied(d, k) ==
  [j \in Nodes |->
     IF j = 0 THEN [d[j] EXCEPT !.n = k, !.flag = "none", !.bits = {}]
     ELSE IF j \in 1 .. k - 1 THEN Blank ELSE d[j]]
Cleared(r, k) == [r EXCEPT !.n = k, !.flag = "none", !.bits = {}]

\* The first page of a freed run is one of a run that is not in use.
LEMMA ClearedIs ==
  ASSUME NEW r \in Descriptor, NEW k \in 1 .. Pages
  PROVE  /\ Cleared(r, k) \in Descriptor /\ Cleared(r, k).n = k /\ Cleared(r, k).flag = "none"
         /\ Cleared(r, k).next = r.next /\ Cleared(r, k).prev = r.prev /\ Cleared(r, k).type = r.type
  <1> DEFINE N == 0 .. Pages \union 0 .. PageShift
             B == SUBSET (0 .. WordBits - 1)
             L == Nodes \union {Null}
  <1>1. Descriptor = [n : N, flag : {"none", "start", "busy"}, bits : B,
                      prev : L, type : Types, next : L]
    BY DEF Descriptor
  <1>2. k \in N /\ {} \in B
    BY Bounds
  <1> HIDE DEF N, B, L
  <1> QED
    BY <1>1, <1>2 DEF Cleared

\* A descriptor that was cleared by hcore_memzero.
LEMMA BlankIs ==
  /\ Blank \in Descriptor /\ Blank.n = 0 /\ Blank.flag = "none" /\ Blank.type = "page"
  /\ Blank.next = Null /\ Blank.prev = Null
  <1> DEFINE N == 0 .. Pages \union 0 .. PageShift
             B == SUBSET (0 .. WordBits - 1)
             L == Nodes \union {Null}
  <1>1. Descriptor = [n : N, flag : {"none", "start", "busy"}, bits : B,
                      prev : L, type : Types, next : L]
    BY DEF Descriptor
  <1>2. 0 \in N /\ {} \in B /\ Null \in L /\ "page" \in Types
    BY Bounds DEF Types
  <1> HIDE DEF N, B, L
  <1> QED
    BY <1>1, <1>2 DEF Blank

\* What the first assignments of hcore_slab_free_pages leave in each descriptor.
LEMMA EmptiedFields ==
  ASSUME NEW d \in Descs, NEW k \in 1 .. Pages
  PROVE  LET m == Emptied(d, k) IN
         /\ m \in Descs
         /\ m[0].n = k /\ m[0].flag = "none"
         /\ m[0].next = d[0].next /\ m[0].prev = d[0].prev /\ m[0].type = d[0].type
         /\ \A j \in Nodes : 1 <= j /\ j < k => m[j] = Blank
         /\ \A j \in Nodes : j < 0 \/ j >= k => m[j] = d[j]
  <1> DEFINE m == Emptied(d, k)
  <1>1. 0 \in Nodes /\ k \in Int /\ 1 <= k /\ \A j \in Nodes : j \in Int
    BY Bounds
  <1>2. d[0] \in Descriptor
    BY <1>1 DEF Descs
  <1>3. /\ Cleared(d[0], k) \in Descriptor /\ Cleared(d[0], k).n = k /\ Cleared(d[0], k).flag = "none"
        /\ Cleared(d[0], k).next = d[0].next /\ Cleared(d[0], k).prev = d[0].prev
        /\ Cleared(d[0], k).type = d[0].type
    BY <1>2, ClearedIs
  <1>4. /\ DOMAIN m = Nodes /\ m = [j \in Nodes |-> m[j]]
        /\ \A j \in Nodes : m[j] = IF j = 0 THEN Cleared(d[0], k)
                                   ELSE IF j \in 1 .. k - 1 THEN Blank ELSE d[j]
    BY DEF Emptied, Cleared
  <1> HIDE DEF m
  <1>5. \A j \in Nodes : m[j] \in Descriptor
    <2>1. \A j \in Nodes : d[j] \in Descriptor
      BY DEF Descs
    <2> QED
      BY <1>3, <1>4, <2>1, BlankIs
  <1>6. m \in Descs
    BY <1>4, <1>5 DEF Descs
  <1>7. \A j \in Nodes : 1 <= j /\ j < k => m[j] = Blank
    BY <1>1, <1>4
  <1>8. \A j \in Nodes : j < 0 \/ j >= k => m[j] = d[j]
    BY <1>1, <1>4
  <1>9. m[0] = Cleared(d[0], k)
    BY <1>1, <1>4
  <1> QED
    BY <1>3, <1>6, <1>7, <1>8, <1>9 DEF m

\* The freed run is put at the head of the free list.
Fronted(d, second) ==
  PutNext(PutType(PutPrev(PutNext(PutType(PutPrev(d, 0, FreeHead), 0, "page"), 0, second),
                          second, 0), second, "page"), FreeHead, 0)

\* What the descriptors are after the freed run was put at the front of the free list.
LEMMA FrontedFields ==
  ASSUME NEW d \in Descs, NEW second \in Nodes \ {0}
  PROVE  LET f == Fronted(d, second) IN
         /\ f \in Descs
         /\ f[0].next = second /\ f[0].prev = FreeHead /\ f[0].type = "page" /\ SameRest(d, f, 0)
         /\ \A j \in Nodes : j # 0 =>
              /\ SameRest(d, f, j)
              /\ f[j].next = (IF j = FreeHead THEN 0 ELSE d[j].next)
              /\ f[j].prev = (IF j = second THEN 0 ELSE d[j].prev)
              /\ f[j].type = (IF j = second THEN "page" ELSE d[j].type)
  <1> DEFINE d1 == PutPrev(d, 0, FreeHead)
             d2 == PutType(d1, 0, "page")
             d3 == PutNext(d2, 0, second)
             d4 == PutPrev(d3, second, 0)
             d5 == PutType(d4, second, "page")
             d6 == PutNext(d5, FreeHead, 0)
  <1>1. /\ 0 \in Nodes /\ FreeHead \in Nodes /\ FreeHead # 0 /\ second # 0
        /\ 0 \in Nodes \union {Null} /\ FreeHead \in Nodes \union {Null} /\ second \in Nodes \union {Null}
        /\ "page" \in Types
    BY Bounds DEF Types
  <1>2. Fronted(d, second) = d6
    BY DEF Fronted
  <1>3. /\ d1 \in Descs
        /\ \A j \in Nodes : /\ SameRest(d, d1, j) /\ d1[j].prev = (IF j = 0 THEN FreeHead ELSE d[j].prev)
                            /\ d1[j].next = d[j].next /\ d1[j].type = d[j].type
    BY <1>1, PutPrevIs
  <1> HIDE DEF d1
  <1>4. /\ d2 \in Descs
        /\ \A j \in Nodes : /\ SameRest(d1, d2, j) /\ d2[j].type = (IF j = 0 THEN "page" ELSE d1[j].type)
                            /\ d2[j].next = d1[j].next /\ d2[j].prev = d1[j].prev
    BY <1>1, <1>3, PutTypeIs
  <1> HIDE DEF d2
  <1>5. /\ d3 \in Descs
        /\ \A j \in Nodes : /\ SameRest(d2, d3, j) /\ d3[j].next = (IF j = 0 THEN second ELSE d2[j].next)
                            /\ d3[j].prev = d2[j].prev /\ d3[j].type = d2[j].type
    BY <1>1, <1>4, PutNextIs
  <1> HIDE DEF d3
  <1>6. /\ d4 \in Descs
        /\ \A j \in Nodes : /\ SameRest(d3, d4, j) /\ d4[j].prev = (IF j = second THEN 0 ELSE d3[j].prev)
                            /\ d4[j].next = d3[j].next /\ d4[j].type = d3[j].type
    BY <1>1, <1>5, PutPrevIs
  <1> HIDE DEF d4
  <1>7. /\ d5 \in Descs
        /\ \A j \in Nodes : /\ SameRest(d4, d5, j) /\ d5[j].type = (IF j = second THEN "page" ELSE d4[j].type)
                            /\ d5[j].next = d4[j].next /\ d5[j].prev = d4[j].prev
    BY <1>1, <1>6, PutTypeIs
  <1> HIDE DEF d5
  <1>8. /\ d6 \in Descs
        /\ \A j \in Nodes : /\ SameRest(d5, d6, j) /\ d6[j].next = (IF j = FreeHead THEN 0 ELSE d5[j].next)
                            /\ d6[j].prev = d5[j].prev /\ d6[j].type = d5[j].type
    BY <1>1, <1>7, PutNextIs
  <1> HIDE DEF d6
  <1>9. \A j \in Nodes : SameRest(d, d6, j)
    BY <1>3, <1>4, <1>5, <1>6, <1>7, <1>8 DEF SameRest
  <1>10. d6[0].next = second /\ d6[0].prev = FreeHead /\ d6[0].type = "page"
    BY <1>1, <1>3, <1>4, <1>5, <1>6, <1>7, <1>8
  <1>11. \A j \in Nodes : j # 0 =>
           /\ d6[j].next = (IF j = FreeHead THEN 0 ELSE d[j].next)
           /\ d6[j].prev = (IF j = second THEN 0 ELSE d[j].prev)
           /\ d6[j].type = (IF j = second THEN "page" ELSE d[j].type)
    BY <1>1, <1>3, <1>4, <1>5, <1>6, <1>7, <1>8
  <1> QED
    BY <1>1, <1>2, <1>8, <1>9, <1>10, <1>11

\* The steps of hcore_slab_free_pages, for the first k pages.
Alone(d, k) == IF d[0].next # Null THEN Unlink(Emptied(d, k), 0) ELSE Emptied(d, k)
Swallowed(a, k) == IF k < Pages /\ a[k].type = "page" /\ a[k].next # Null
                   THEN Swallow(a, k, 0) ELSE a
More(a, k) == IF k < Pages /\ a[k].type = "page" /\ a[k].next # Null THEN a[k].n ELSE 0
Ended(b, rest) == IF rest > 0 THEN PutType(PutPrev(b, rest, 0), rest, "page") ELSE b
FreedOf(d, k) ==
  LET a == Alone(d, k)
      x == Ended(Swallowed(a, k), k - 1 + More(a, k))
  IN Fronted(x, x[FreeHead].next)

\* The run behind the freed one is swallowed when it is free.
LEMMA JoinNextIs ==
  ASSUME NEW a, NEW k, 0 + a[0].n = k
  PROVE  /\ JoinNext(a, 0).d = Swallowed(a, k)
         /\ JoinNext(a, 0).more = More(a, k) /\ JoinNext(a, 0).page = 0
  <1>1. CASE k < Pages /\ a[k].type = "page" /\ a[k].next # Null
    <2>1. JoinNext(a, 0) = [d |-> Swallow(a, k, 0), page |-> 0, more |-> a[k].n]
      BY <1>1 DEF JoinNext
    <2> QED
      BY <1>1, <2>1 DEF Swallowed, More
  <1>2. CASE ~(k < Pages /\ a[k].type = "page" /\ a[k].next # Null)
    <2>1. JoinNext(a, 0) = [d |-> a, page |-> 0, more |-> 0]
      BY <1>2 DEF JoinNext
    <2> QED
      BY <1>2, <2>1 DEF Swallowed, More
  <1> QED
    BY <1>1, <1>2

\* JoinPrev, in a form that the provers can expand alone.
Before(d, page) ==
  LET near == page - 1
      join == IF d[near].n = 0 /\ d[near].flag = "none" THEN d[near].prev ELSE near
  IN
  IF page > 0 /\ d[near].type = "page" /\ d[join].next # Null
  THEN [d |-> Swallow(d, join, join), page |-> join, more |-> d[join].n]
  ELSE [d |-> d, page |-> page, more |-> 0]

\* No run lies before page 0.
LEMMA BeforeIs ==
  ASSUME NEW d, NEW page, ~(page > 0)
  PROVE  Before(d, page) = [d |-> d, page |-> page, more |-> 0]
  BY DEF Before

\* Page 0 is the only one that is freed, and has nothing to join before it.
LEMMA JoinPrevIs ==
  ASSUME NEW d
  PROVE  JoinPrev(d, 0).d = d /\ JoinPrev(d, 0).page = 0 /\ JoinPrev(d, 0).more = 0
  <1>1. ASSUME NEW page
        PROVE  Before(d, page) = JoinPrev(d, page)
    BY DEF Before, JoinPrev
  <1>2. Before(d, 0) = [d |-> d, page |-> 0, more |-> 0]
    <2>1. ~(0 > 0)
      OBVIOUS
    <2> QED
      BY <2>1, BeforeIs
  <1> QED
    BY <1>1, <1>2

\* The freed run from page 0 on is put in front of the free list.
LEMMA PutFirstIs ==
  ASSUME NEW d, NEW rest, 0 + rest = rest
  PROVE  PutFirst(d, 0, rest) = Fronted(Ended(d, rest), Ended(d, rest)[FreeHead].next)
  <1> DEFINE x == Ended(d, rest)
             p == IF rest > 0 THEN [d EXCEPT ![0 + rest].prev = 0, ![0 + rest].type = "page"]
                  ELSE d
             second == p[FreeHead].next
  <1>1. PutFirst(d, 0, rest) =
          [p EXCEPT ![0].prev = FreeHead, ![0].type = "page", ![0].next = second,
                    ![second].prev = 0, ![second].type = "page", ![FreeHead].next = 0]
    BY Zenon DEF PutFirst
  <1>2. p = x
    BY DEF Ended, PutPrev, PutType
  <1> HIDE DEF p, x
  <1>3. [p EXCEPT ![0].prev = FreeHead, ![0].type = "page", ![0].next = second,
                  ![second].prev = 0, ![second].type = "page", ![FreeHead].next = 0]
          = Fronted(p, second)
    BY DEF Fronted, PutPrev, PutType, PutNext
  <1>4. second = x[FreeHead].next
    BY <1>2
  <1> HIDE DEF second
  <1> QED
    BY <1>1, <1>2, <1>3, <1>4, Zenon DEF x

\* hcore_slab_free_pages of page 0, assignment by assignment.
LEMMA PagesFreedIs ==
  ASSUME NEW s, s.desc \in Descs, NEW k \in 1 .. Pages, Alone(s.desc, k)[0].n = k,
         More(Alone(s.desc, k), k) \in Nat
  PROVE  PagesFreed(s, 0, k) = WithDesc(s, FreedOf(s.desc, k))
  <1> DEFINE d == s.desc
             E == [j \in Nodes |->
                     IF j = 0 THEN [s.desc[j] EXCEPT !.n = k, !.flag = "none", !.bits = {}]
                     ELSE IF j \in 0 + 1 .. 0 + k - 1 THEN Blank ELSE s.desc[j]]
             A == IF s.desc[0].next # Null THEN Unlink(E, 0) ELSE E
             H == JoinNext(A, 0)
             G == JoinPrev(H.d, 0)
             rest == k - 1 + H.more + G.more
  <1>1. PagesFreed(s, 0, k) = [s EXCEPT !.desc = PutFirst(G.d, G.page, rest)]
    BY Zenon DEF PagesFreed
  <1>2. E = Emptied(d, k)
    <2>1. 0 + 1 .. 0 + k - 1 = 1 .. k - 1
      BY Bounds
    <2> QED
      BY <2>1 DEF Emptied
  <1>3. A = Alone(d, k)
    <2> HIDE DEF E
    <2> QED
      BY <1>2 DEF Alone
  <1> HIDE DEF E, A
  <1>4. A[0].n = k /\ k \in Int /\ 0 + k = k
    BY <1>3, Bounds
  <1>5. /\ H.d = Swallowed(A, k) /\ H.more = More(A, k) /\ H.page = 0
    <2>1. 0 + A[0].n = k
      BY <1>4
    <2> QED
      BY <2>1, JoinNextIs
  <1> HIDE DEF H
  <1>6. G.d = H.d /\ G.page = 0 /\ G.more = 0
    BY JoinPrevIs
  <1> HIDE DEF G
  <1>7. rest = k - 1 + More(A, k) /\ 0 + rest = rest
    <2>1. More(A, k) \in Nat
      BY <1>3
    <2> QED
      BY <1>4, <1>5, <1>6, <2>1
  <1> HIDE DEF rest
  <1>8. PutFirst(G.d, 0, rest) = FreedOf(d, k)
    <2>1. PutFirst(G.d, 0, rest) = Fronted(Ended(G.d, rest), Ended(G.d, rest)[FreeHead].next)
      BY <1>7, PutFirstIs
    <2>2. Ended(G.d, rest) = Ended(Swallowed(A, k), k - 1 + More(A, k))
      BY <1>5, <1>6, <1>7
    <2> QED
      BY <1>3, <2>1, <2>2 DEF FreedOf
  <1> QED
    BY <1>1, <1>6, <1>8 DEF WithDesc

\* The pages that hcore_slab_free_pages is called for.
Freeable(s, k) ==
  \/ 0 \in StartPages(s.desc) /\ k = s.desc[0].n
  \/ k = 1 /\ s.desc[0].next # Null /\ \E shift \in Classes : InClass(s.desc, 0, shift)

Joined(d, k) == k \in FreeStarts(d)
Second(d, k) == IF Joined(d, k) THEN d[k].next ELSE d[FreeHead].next
LastPage(d, k) == IF Joined(d, k) THEN k - 1 + d[k].n ELSE k - 1

\* The pages from 0 on that hcore_slab_free_pages is called for: a run in use or a
\* slab page that is alone in its list or in none.
LEMMA FreeableFacts ==
  ASSUME NEW s, Sound(s), NEW k, Freeable(s, k)
  PROVE  LET d == s.desc IN
         /\ d \in Descs /\ Layout(d) /\ Linked(d)
         /\ 0 \in Given(d) /\ 0 \in Heads(d) /\ 0 \notin FreeStarts(d)
         /\ k \in 1 .. Pages /\ Extent(d, 0) = k
         /\ \A j \in Heads(d) : j # 0 => j >= k
         /\ \A j \in Nodes : 1 <= j /\ j < k => d[j].type = "page" /\ j \notin Heads(d)
         /\ Joined(d, k) => d[k].prev = FreeHead /\ d[FreeHead].next = k /\ k + d[k].n <= Pages /\ d[k].n >= 1
         /\ Second(d, k) \in FreeStarts(d) \union {FreeHead}
         /\ Second(d, k) # 0 /\ Second(d, k) # k
         /\ LastPage(d, k) \in PageNodes /\ LastPage(d, k) >= k - 1
         /\ LastPage(d, k) \notin Heads(d) \/ LastPage(d, k) = 0 \/ (Joined(d, k) /\ LastPage(d, k) = k)
         /\ d[0].next # Null => d[0].prev \in SlotNodes /\ d[0].next # 0 /\ k = 1 /\ 0 \in SlabPages(d)
                                /\ (d[0].next = d[0].prev \/ (d[0].next \in SlabPages(d) /\ d[d[0].next].type = d[0].type))
  <1> DEFINE d == s.desc
             Zero ==
               /\ 0 \in Given(d) /\ 0 \in Heads(d) /\ 0 \notin FreeStarts(d)
               /\ k \in 1 .. Pages /\ Extent(d, 0) = k
               /\ d[0].next # Null => d[0].prev \in SlotNodes /\ d[0].next # 0 /\ k = 1 /\ 0 \in SlabPages(d)
                                      /\ (d[0].next = d[0].prev \/ (d[0].next \in SlabPages(d) /\ d[d[0].next].type = d[0].type))
  <1>1. d \in Descs /\ Layout(d) /\ Linked(d) /\ SlotsOK(s)
    BY StateIs DEF Sound, PagesOK
  <1>2. 0 \in PageNodes /\ 0 \in Nodes /\ Pages \in Int
    BY Bounds
  <1>3. ASSUME 0 \in StartPages(d), k = d[0].n
        PROVE  Zero
    <2>1. 0 \in Given(d) /\ 0 \notin FreeStarts(d) /\ 0 \in Heads(d)
      BY <1>1, <1>3 DEF Given, Layout, StartPages, FreeStarts, Heads
    <2>2. Extent(d, 0) = k /\ k >= 1 /\ d[0].next = Null
      BY <1>1, <1>3 DEF Extent, StartPages, Layout
    <2>3. 0 + Extent(d, 0) <= Pages
      BY <1>1, <2>1 DEF Layout
    <2>4. d[0].n \in 0 .. 11
      BY <1>1, <1>2, Fields
    <2>5. k \in 1 .. Pages
      BY <1>2, <1>3, <2>2, <2>3, <2>4
    <2> QED
      BY <2>1, <2>2, <2>5
  <1>4. ASSUME k = 1, d[0].next # Null, \E shift \in Classes : InClass(d, 0, shift)
        PROVE  Zero
    <2>1. PICK shift \in Classes : InClass(d, 0, shift)
      BY <1>4
    <2>2. 0 \in SlabPages(d)
      BY <2>1, InClassIsSlab
    <2>3. 0 \in Given(d) /\ 0 \in Heads(d) /\ 0 \notin FreeStarts(d) /\ Extent(d, 0) = 1
      BY <2>2 DEF Given, SlabPages, FreeStarts, Extent, Heads
    <2>4. ZeroOK(d, shift)
      BY <1>1 DEF SlotsOK, ClassOK
    <2> DEFINE slot == SlotNode(shift)
    <2>5. d[0].prev = slot /\ (d[0].next # slot => d[0].next # 0 /\ InClass(d, d[0].next, shift))
      BY <1>4, <2>1, <2>4 DEF ZeroOK
    <2>6. slot \in SlotNodes /\ slot # 0
      BY <1>2, ClassFacts
    <2>7. d[0].next # slot => d[0].next \in SlabPages(d) /\ d[d[0].next].type = d[0].type
      BY <2>1, <2>5, InClassIsSlab DEF InClass
    <2> HIDE DEF slot
    <2>8. d[0].next # 0 /\ (d[0].next = d[0].prev \/ (d[0].next \in SlabPages(d) /\ d[d[0].next].type = d[0].type))
      BY <2>5, <2>6, <2>7
    <2>9. k \in 1 .. Pages
      BY <1>4, Bounds
    <2> QED
      BY <1>4, <2>2, <2>3, <2>5, <2>6, <2>8, <2>9
  <1>5. /\ 0 \in Given(d) /\ 0 \in Heads(d) /\ 0 \notin FreeStarts(d)
        /\ k \in 1 .. Pages /\ Extent(d, 0) = k
        /\ d[0].next # Null => d[0].prev \in SlotNodes /\ d[0].next # 0 /\ k = 1 /\ 0 \in SlabPages(d)
                               /\ (d[0].next = d[0].prev \/ (d[0].next \in SlabPages(d) /\ d[d[0].next].type = d[0].type))
    BY <1>3, <1>4 DEF Freeable
  <1> HIDE DEF d
  <1>6. k \in Int /\ 1 <= k /\ k <= Pages
    BY <1>2, <1>5
  <1>7. \A j \in Heads(d) : j \in PageNodes /\ j \in Int /\ 0 <= j
    BY Bounds DEF Heads, FreeStarts, StartPages, SlabPages
  <1>8. \A j \in Heads(d) : j # 0 => j >= k
    <2> SUFFICES ASSUME NEW j \in Heads(d), j # 0 PROVE j >= k
      OBVIOUS
    <2>1. 0 < j
      BY <1>7
    <2>2. 0 + Extent(d, 0) <= j
      BY <1>1, <1>5, <2>1 DEF Layout
    <2> QED
      BY <1>5, <1>6, <1>7, <2>2
  <1>9. ASSUME NEW j \in Nodes, 1 <= j, j < k
        PROVE  d[j].type = "page" /\ j \notin Heads(d)
    <2>1. j \in PageNodes /\ j # 0 /\ ~(j >= k)
      BY <1>2, <1>6, <1>9, Bounds
    <2> QED
      BY <1>8, <2>1 DEF Heads, SlabPages
  <1>10. Joined(d, k) => /\ d[k].prev = FreeHead /\ d[FreeHead].next = k
                         /\ k + d[k].n <= Pages /\ d[k].n >= 1 /\ d[k].n \in Int
    <2> SUFFICES ASSUME Joined(d, k)
                 PROVE  /\ d[k].prev = FreeHead /\ d[FreeHead].next = k
                        /\ k + d[k].n <= Pages /\ d[k].n >= 1 /\ d[k].n \in Int
      OBVIOUS
    <2>1. k \in FreeStarts(d) /\ k \in PageNodes /\ k \in Heads(d) /\ Extent(d, k) = d[k].n
      BY DEF Joined, FreeStarts, Heads, Extent
    <2>2. /\ d[k].prev \in FreeStarts(d) \union {FreeHead} /\ d[d[k].prev].next = k
          /\ d[k].prev < k
      BY <1>1, <2>1, RunFacts
    <2>3. d[k].prev \notin FreeStarts(d)
      <3> SUFFICES ASSUME d[k].prev \in FreeStarts(d) PROVE FALSE
        OBVIOUS
      <3>1. d[k].prev \in Heads(d) /\ d[k].prev # 0
        BY <1>5 DEF Heads
      <3>2. d[k].prev >= k /\ d[k].prev \in Int
        BY <1>7, <1>8, <3>1
      <3> QED
        BY <1>6, <2>2, <3>2
    <2>4. k + d[k].n <= Pages /\ d[k].n >= 1
      BY <1>1, <1>6, <2>1 DEF Layout
    <2>5. d[k].n \in 0 .. 11
      BY <1>1, <2>1, Bounds, Fields
    <2> QED
      BY <2>2, <2>3, <2>4, <2>5
  <1>11. /\ Second(d, k) \in FreeStarts(d) \union {FreeHead}
         /\ Second(d, k) # 0 /\ Second(d, k) # k
    <2>1. CASE Joined(d, k)
      <3>1. k \in FreeStarts(d)
        BY <2>1 DEF Joined
      <3>2. d[k].next \in FreeStarts(d) \union {FreeHead} /\ d[k].next # k
        BY <1>1, <3>1, RunFacts
      <3> QED
        BY <1>5, <2>1, <3>2, Bounds DEF Second
    <2>2. CASE ~Joined(d, k)
      <3>1. d[FreeHead].next \in FreeStarts(d) \union {FreeHead}
        BY <1>1 DEF Linked
      <3>2. FreeHead # k /\ FreeHead # 0
        BY <1>6, Numbers
      <3> QED
        BY <1>5, <2>2, <3>1, <3>2 DEF Second, Joined
    <2> QED
      BY <2>1, <2>2
  <1>12. /\ LastPage(d, k) \in PageNodes /\ LastPage(d, k) >= k - 1
         /\ LastPage(d, k) \notin Heads(d) \/ LastPage(d, k) = 0 \/ (Joined(d, k) /\ LastPage(d, k) = k)
    <2>1. CASE Joined(d, k)
      <3> DEFINE last == k - 1 + d[k].n
      <3>1. /\ last \in Int /\ last >= k /\ last < Pages /\ last < k + d[k].n
        BY <1>2, <1>6, <1>10, <2>1
      <3>2. last \in PageNodes
        BY <1>6, <3>1, Bounds
      <3>3. last # k => last \notin Heads(d)
        <4>1. k \in FreeStarts(d) /\ last \in Nodes
          BY <2>1, <3>2, Bounds DEF Joined
        <4>2. last # k => k < last
          BY <1>6, <3>1
        <4> HIDE DEF last
        <4> QED
          BY <1>1, <3>1, <4>1, <4>2, RunFacts
      <3>4. LastPage(d, k) = last
        BY <2>1 DEF LastPage
      <3> HIDE DEF last
      <3> QED
        BY <1>6, <2>1, <3>1, <3>2, <3>3, <3>4
    <2>2. CASE ~Joined(d, k)
      <3>1. LastPage(d, k) = k - 1
        BY <2>2 DEF LastPage
      <3>2. k - 1 \in PageNodes /\ k - 1 \in Nodes
        BY <1>2, <1>6, Bounds
      <3>3. k - 1 # 0 => k - 1 \notin Heads(d)
        BY <1>6, <1>9, <3>2
      <3> QED
        BY <1>6, <3>1, <3>2, <3>3
    <2> QED
      BY <2>1, <2>2
  <1> QED
    BY <1>1, <1>5, <1>8, <1>9, <1>10, <1>11, <1>12 DEF d

\* The freed pages, without their neighbours in a slot.
LEMMA AloneFields ==
  ASSUME NEW s, Sound(s), NEW k, Freeable(s, k)
  PROVE  LET d == s.desc
             a == Alone(d, k)
             listed == d[0].next # Null
         IN /\ a \in Descs
            /\ a[0].n = k /\ a[0].flag = "none"
            /\ \A j \in Nodes : 1 <= j /\ j < k =>
                 a[j].type = "page" /\ a[j].next = Null /\ a[j].flag = "none"
            /\ \A j \in Nodes : j < 0 \/ j >= k =>
                 /\ SameRest(d, a, j)
                 /\ a[j].next = (IF listed /\ j = d[0].prev THEN d[0].next ELSE d[j].next)
                 /\ a[j].prev = (IF listed /\ j = d[0].next THEN d[0].prev ELSE d[j].prev)
                 /\ j \in PageNodes => a[j].type = d[j].type
  <1> DEFINE d == s.desc
             m == Emptied(d, k)
             a == Alone(d, k)
             listed == d[0].next # Null
  <1>1. /\ d \in Descs /\ k \in 1 .. Pages
        /\ listed => d[0].prev \in SlotNodes /\ d[0].next # 0 /\ k = 1 /\ 0 \in SlabPages(d)
                     /\ (d[0].next = d[0].prev \/ (d[0].next \in SlabPages(d) /\ d[d[0].next].type = d[0].type))
    BY FreeableFacts
  <1>2. /\ m \in Descs
        /\ m[0].n = k /\ m[0].flag = "none"
        /\ m[0].next = d[0].next /\ m[0].prev = d[0].prev /\ m[0].type = d[0].type
        /\ \A j \in Nodes : 1 <= j /\ j < k => m[j] = Blank
        /\ \A j \in Nodes : j < 0 \/ j >= k => m[j] = d[j]
    BY <1>1, EmptiedFields
  <1>3. 0 \in Nodes /\ k \in Int /\ 1 <= k /\ \A j \in Nodes : j \in Int
    BY <1>1, Bounds
  <1> HIDE DEF m
  <1>4. /\ a \in Descs
        /\ \A j \in Nodes :
             /\ SameRest(m, a, j)
             /\ a[j].next = (IF listed /\ j = d[0].prev THEN d[0].next ELSE m[j].next)
             /\ a[j].prev = (IF listed /\ j = d[0].next THEN d[0].prev ELSE m[j].prev)
             /\ a[j].type = (IF listed /\ j = d[0].next THEN d[0].type ELSE m[j].type)
    <2>1. CASE listed
      <3>1. a = Unlink(m, 0)
        BY <2>1 DEF Alone, m
      <3> HIDE DEF a
      <3>2. /\ a \in Descs
            /\ \A j \in Nodes :
              /\ SameRest(m, a, j)
              /\ a[j].next = (IF j = m[0].prev THEN m[0].next ELSE m[j].next)
              /\ a[j].prev = (IF j = m[0].next THEN m[0].prev ELSE m[j].prev)
              /\ a[j].type = (IF j = m[0].next THEN m[0].type ELSE m[j].type)
        BY <1>2, <1>3, <3>1, UnlinkFields
      <3> HIDE DEF d, listed
      <3> QED
        BY <1>2, <2>1, <3>2
    <2>2. CASE ~listed
      <3>1. a = m
        BY <2>2 DEF Alone, m
      <3> HIDE DEF a
      <3> QED
        BY <1>2, <2>2, <3>1 DEF SameRest
    <2> QED
      BY <2>1, <2>2
  <1> HIDE DEF a, d, listed
  <1>5. a[0].n = k /\ a[0].flag = "none"
    BY <1>2, <1>3, <1>4 DEF SameRest
  <1>6. ASSUME NEW j \in Nodes, 1 <= j, j < k
        PROVE  a[j].type = "page" /\ a[j].next = Null /\ a[j].flag = "none"
    <2>1. ~listed
      BY <1>1, <1>3, <1>6
    <2>2. m[j] = Blank
      BY <1>2, <1>6
    <2> QED
      BY <1>4, <2>1, <2>2, BlankIs DEF SameRest
  <1>7. ASSUME NEW j \in Nodes, j < 0 \/ j >= k
        PROVE  /\ SameRest(d, a, j)
               /\ a[j].next = (IF listed /\ j = d[0].prev THEN d[0].next ELSE d[j].next)
               /\ a[j].prev = (IF listed /\ j = d[0].next THEN d[0].prev ELSE d[j].prev)
               /\ j \in PageNodes => a[j].type = d[j].type
    <2>1. m[j] = d[j]
      BY <1>2, <1>7
    <2>2. /\ SameRest(d, a, j)
          /\ a[j].next = (IF listed /\ j = d[0].prev THEN d[0].next ELSE d[j].next)
          /\ a[j].prev = (IF listed /\ j = d[0].next THEN d[0].prev ELSE d[j].prev)
      BY <1>4, <2>1 DEF SameRest
    <2>3. ASSUME j \in PageNodes
          PROVE  a[j].type = d[j].type
      <3>1. CASE listed /\ j = d[0].next
        <4>1. d[j].type = d[0].type
          BY <1>1, <2>3, <3>1, SlotBounds
        <4> QED
          BY <1>4, <3>1, <4>1
      <3>2. CASE ~(listed /\ j = d[0].next)
        BY <1>4, <2>1, <3>2
      <3> QED
        BY <3>1, <3>2
    <2> QED
      BY <2>2, <2>3
  <1> QED
    BY <1>4, <1>5, <1>6, <1>7 DEF a, d, listed

\* The free run behind them leaves the free list.
LEMMA SwallowedFields ==
  ASSUME NEW s, Sound(s), NEW k, Freeable(s, k)
  PROVE  LET d == s.desc
             b == Swallowed(Alone(d, k), k)
             listed == d[0].next # Null
         IN /\ b \in Descs /\ k - 1 + More(Alone(d, k), k) = LastPage(d, k)
            /\ Alone(d, k)[0].n = k /\ More(Alone(d, k), k) \in Nat
            /\ b[0].n = (IF Joined(d, k) THEN 0 ELSE k) /\ b[0].flag = "none"
            /\ b[FreeHead].next = Second(d, k)
            /\ Joined(d, k) => b[k].type = "page" /\ b[k].next = Null /\ b[k].flag = "none"
            /\ \A j \in Nodes : 1 <= j /\ j < k =>
                 b[j].type = "page" /\ b[j].next = Null /\ b[j].flag = "none"
            /\ \A j \in Nodes : (j < 0 \/ j >= k) /\ j # FreeHead /\ ~(Joined(d, k) /\ j = k) =>
                 /\ SameRest(d, b, j)
                 /\ b[j].next = (IF listed /\ j = d[0].prev THEN d[0].next ELSE d[j].next)
                 /\ j # Second(d, k) =>
                      b[j].prev = (IF listed /\ j = d[0].next THEN d[0].prev ELSE d[j].prev)
                 /\ j \in PageNodes => b[j].type = d[j].type
  <1> DEFINE d == s.desc
             a == Alone(d, k)
             b == Swallowed(a, k)
             listed == d[0].next # Null
             second == Second(d, k)
  <1>1. /\ d \in Descs /\ Layout(d) /\ k \in 1 .. Pages
        /\ Joined(d, k) => d[k].prev = FreeHead
        /\ second \in FreeStarts(d) \union {FreeHead} /\ second # 0 /\ second # k
        /\ LastPage(d, k) \in PageNodes /\ LastPage(d, k) >= k - 1
        /\ listed => d[0].prev \in SlotNodes /\ d[0].next # 0 /\ k = 1 /\ 0 \in SlabPages(d)
                     /\ (d[0].next = d[0].prev \/ d[0].next \in SlabPages(d))
    BY FreeableFacts
  <1>2. /\ a \in Descs
        /\ a[0].n = k /\ a[0].flag = "none"
        /\ \A j \in Nodes : 1 <= j /\ j < k =>
             a[j].type = "page" /\ a[j].next = Null /\ a[j].flag = "none"
        /\ \A j \in Nodes : j < 0 \/ j >= k =>
             /\ SameRest(d, a, j)
             /\ a[j].next = (IF listed /\ j = d[0].prev THEN d[0].next ELSE d[j].next)
             /\ a[j].prev = (IF listed /\ j = d[0].next THEN d[0].prev ELSE d[j].prev)
             /\ j \in PageNodes => a[j].type = d[j].type
    BY AloneFields
  <1>3. /\ 0 \in Nodes /\ k \in Int /\ 1 <= k /\ k <= Pages /\ Pages \in Int /\ \A j \in Nodes : j \in Int
        /\ FreeHead \in Nodes /\ FreeHead < 0 /\ FreeHead # 0 /\ FreeHead # k /\ FreeHead \notin PageNodes
    BY <1>1, Numbers, Bounds
  <1>4. k < Pages => k \in PageNodes /\ k \in Nodes
    BY <1>3, Bounds
  <1>5. /\ FreeStarts(d) \subseteq PageNodes /\ SlabPages(d) \subseteq PageNodes
        /\ \A j \in FreeStarts(d) : d[j].type = "page" /\ d[j].flag = "none"
        /\ \A j \in SlabPages(d) : d[j].type # "page"
    BY <1>1 DEF FreeStarts, SlabPages, Layout
  <1> HIDE DEF a, b, d, listed, second
  <1>6. (k < Pages /\ a[k].type = "page" /\ a[k].next # Null) <=> Joined(d, k)
    <2>1. CASE k < Pages
      <3>1. k # d[0].prev \/ ~listed
        BY <1>1, <1>4, <2>1, SlotBounds
      <3>2. a[k].type = d[k].type /\ a[k].next = d[k].next
        BY <1>2, <1>3, <1>4, <2>1, <3>1
      <3> QED
        BY <1>4, <2>1, <3>2 DEF Joined, FreeStarts
    <2>2. CASE ~(k < Pages)
      <3>1. k \notin PageNodes
        BY <1>3, <2>2, Bounds
      <3> QED
        BY <1>5, <2>2, <3>1 DEF Joined
    <2> QED
      BY <2>1, <2>2
  <1>7. CASE Joined(d, k)
    <2>1. /\ b = Swallow(a, k, 0) /\ More(a, k) = a[k].n
      BY <1>6, <1>7 DEF Swallowed, More, b
    <2>2. k \in FreeStarts(d) /\ k \in PageNodes /\ k \in Nodes
      BY <1>5, <1>7, Bounds DEF Joined
    <2>3. a[k].n = d[k].n /\ a[k].flag = "none" /\ a[k].next = second /\ a[k].prev = FreeHead
      <3>1. SameRest(d, a, k) /\ d[k].flag = "none"
        BY <1>2, <1>3, <1>5, <2>2
      <3>2. listed => k # d[0].prev /\ k # d[0].next
        BY <1>1, <1>5, <2>2, SlotBounds
      <3>3. a[k].next = d[k].next /\ a[k].prev = d[k].prev
        BY <1>2, <1>3, <2>2, <3>2
      <3>4. second = d[k].next
        BY <1>7 DEF Second, second
      <3> QED
        BY <1>1, <1>7, <3>1, <3>3, <3>4 DEF SameRest
    <2> DEFINE r == RemoveFull(a, k, "page")
    <2>4. "page" \in Types /\ 0 \in 0 .. Pages
      BY Bounds DEF Types
    <2>5. /\ r \in Descs
          /\ r[k].next = Null /\ r[k].prev = Null /\ r[k].type = "page" /\ SameRest(a, r, k)
          /\ \A j \in Nodes : j # k =>
               /\ SameRest(a, r, j)
               /\ r[j].next = (IF j = FreeHead THEN second ELSE a[j].next)
               /\ r[j].prev = (IF j = second THEN FreeHead ELSE a[j].prev)
               /\ r[j].type = (IF j = second THEN a[k].type ELSE a[j].type)
      BY <1>2, <2>2, <2>3, <2>4, RemoveFullFields
    <2>6. b = PutN(r, 0, 0)
      BY <2>1 DEF Swallow, PutN
    <2> HIDE DEF r
    <2>20. 0 \in Nodes /\ r \in Descs /\ 0 \in 0 .. Pages
      BY <1>3, <2>4, <2>5
    <2>21. /\ PutN(r, 0, 0) \in Descs
           /\ \A j \in Nodes : /\ PutN(r, 0, 0)[j].n = (IF j = 0 THEN 0 ELSE r[j].n)
                               /\ PutN(r, 0, 0)[j].flag = r[j].flag
                               /\ PutN(r, 0, 0)[j].bits = r[j].bits
                               /\ PutN(r, 0, 0)[j].next = r[j].next
                               /\ PutN(r, 0, 0)[j].prev = r[j].prev
                               /\ PutN(r, 0, 0)[j].type = r[j].type
      BY <2>20, PutNIs
    <2>7. /\ b \in Descs
          /\ \A j \in Nodes : /\ b[j].n = (IF j = 0 THEN 0 ELSE r[j].n)
                              /\ b[j].flag = r[j].flag /\ b[j].bits = r[j].bits
                              /\ b[j].next = r[j].next /\ b[j].prev = r[j].prev /\ b[j].type = r[j].type
      BY <2>6, <2>21
    <2>8. a[k].type = "page"
      BY <1>6, <1>7
    <2>9. b[0].n = 0 /\ b[0].flag = "none" /\ b[FreeHead].next = second
      BY <1>2, <1>3, <2>5, <2>7 DEF SameRest
    <2>10. b[k].type = "page" /\ b[k].next = Null /\ b[k].flag = "none"
      BY <2>2, <2>3, <2>5, <2>7 DEF SameRest
    <2>11. ASSUME NEW j \in Nodes, 1 <= j, j < k
           PROVE  b[j].type = "page" /\ b[j].next = Null /\ b[j].flag = "none"
      <3>1. j # FreeHead /\ j # k
        BY <1>3, <2>11
      <3> QED
        BY <1>2, <2>5, <2>7, <2>8, <2>11, <3>1 DEF SameRest
    <2>12. ASSUME NEW j \in Nodes, j < 0 \/ j >= k, j # FreeHead, j # k
           PROVE  /\ SameRest(d, b, j)
                  /\ b[j].next = (IF listed /\ j = d[0].prev THEN d[0].next ELSE d[j].next)
                  /\ j # second => b[j].prev = (IF listed /\ j = d[0].next THEN d[0].prev ELSE d[j].prev)
                  /\ j \in PageNodes => b[j].type = d[j].type
      <3>1. j # 0
        BY <1>3, <2>12
      <3>2. SameRest(d, b, j)
        BY <1>2, <2>5, <2>7, <2>12, <3>1 DEF SameRest
      <3>3. /\ b[j].next = (IF listed /\ j = d[0].prev THEN d[0].next ELSE d[j].next)
            /\ j # second => b[j].prev = (IF listed /\ j = d[0].next THEN d[0].prev ELSE d[j].prev)
        BY <1>2, <2>5, <2>7, <2>12
      <3>4. j \in PageNodes => b[j].type = d[j].type
        <4>1. j = second /\ j \in PageNodes => d[j].type = "page"
          BY <1>1, <1>3, <1>5
        <4> QED
          BY <1>2, <2>5, <2>7, <2>8, <2>12, <4>1
      <3> QED
        BY <3>2, <3>3, <3>4
    <2>13. k - 1 + More(a, k) = LastPage(d, k) /\ More(a, k) \in Nat
      <3>1. d[k].n \in 0 .. 11
        BY <1>1, <2>2, Fields
      <3> QED
        BY <1>7, <2>1, <2>3, <3>1 DEF LastPage
    <2> QED
      BY <1>2, <1>7, <2>7, <2>9, <2>10, <2>11, <2>12, <2>13 DEF a, b, d, listed, second
  <1>8. CASE ~Joined(d, k)
    <2>1. b = a /\ More(a, k) = 0
      BY <1>6, <1>8 DEF Swallowed, More, b
    <2>2. b[FreeHead].next = second
      <3>1. listed => FreeHead # d[0].prev
        BY <1>1, SlotBounds
      <3>2. a[FreeHead].next = d[FreeHead].next
        BY <1>2, <1>3, <3>1
      <3>3. second = d[FreeHead].next
        BY <1>8 DEF Second, second
      <3> QED
        BY <2>1, <3>2, <3>3
    <2>3. k - 1 + More(a, k) = LastPage(d, k) /\ More(a, k) \in Nat
      BY <1>3, <1>8, <2>1 DEF LastPage
    <2>4. /\ b \in Descs
          /\ b[0].n = k /\ b[0].flag = "none"
          /\ \A j \in Nodes : 1 <= j /\ j < k =>
               b[j].type = "page" /\ b[j].next = Null /\ b[j].flag = "none"
          /\ \A j \in Nodes : j < 0 \/ j >= k =>
               /\ SameRest(d, b, j)
               /\ b[j].next = (IF listed /\ j = d[0].prev THEN d[0].next ELSE d[j].next)
               /\ b[j].prev = (IF listed /\ j = d[0].next THEN d[0].prev ELSE d[j].prev)
               /\ j \in PageNodes => b[j].type = d[j].type
      BY <1>2, <2>1
    <2> QED
      BY <1>2, <1>8, <2>2, <2>3, <2>4 DEF a, b, d, listed, second
  <1> QED
    BY <1>7, <1>8

\* What hcore_slab_free_pages leaves of a descriptor that is none of the freed ones.
Untouched(d, f, k, j) ==
  /\ SameRest(d, f, j)
  /\ f[j].next = (IF d[0].next # Null /\ j = d[0].prev THEN d[0].next ELSE d[j].next)
  /\ j \in PageNodes => f[j].type = d[j].type
  /\ j \in Heads(d) /\ j # Second(d, k) =>
       f[j].prev = (IF d[0].next # Null /\ j = d[0].next THEN d[0].prev ELSE d[j].prev)

\* The freed run, as long as it is with its neighbour behind it, heads the free list.
LEMMA FreedFields ==
  ASSUME NEW s, Sound(s), NEW k, Freeable(s, k)
  PROVE  LET d == s.desc
             f == FreedOf(d, k)
         IN /\ f \in Descs /\ PagesFreed(s, 0, k) = WithDesc(s, f)
            /\ f[0].n = (IF Joined(d, k) THEN 0 ELSE k) /\ f[0].flag = "none" /\ f[0].type = "page"
            /\ f[0].prev = FreeHead /\ f[0].next = Second(d, k)
            /\ f[FreeHead].next = 0
            /\ Second(d, k) # FreeHead => f[Second(d, k)].prev = 0
            /\ Joined(d, k) => f[k].type = "page" /\ f[k].next = Null /\ f[k].flag = "none"
            /\ \A j \in Nodes : 1 <= j /\ j < k =>
                 f[j].type = "page" /\ f[j].next = Null /\ f[j].flag = "none"
            /\ \A j \in Nodes : (j < 0 \/ j >= k) /\ j # FreeHead /\ ~(Joined(d, k) /\ j = k) =>
                 Untouched(d, f, k, j)
  <1> DEFINE d == s.desc
             a == Alone(d, k)
             b == Swallowed(a, k)
             last == LastPage(d, k)
             x == Ended(b, last)
             second == Second(d, k)
             f == FreedOf(d, k)
             listed == d[0].next # Null
  <1>1. /\ d \in Descs /\ Layout(d) /\ k \in 1 .. Pages
        /\ second \in FreeStarts(d) \union {FreeHead} /\ second # 0 /\ second # k
        /\ last \in PageNodes /\ last >= k - 1
        /\ last \notin Heads(d) \/ last = 0 \/ (Joined(d, k) /\ last = k)
    BY FreeableFacts
  <1>2. /\ b \in Descs /\ k - 1 + More(a, k) = last
        /\ a[0].n = k /\ More(a, k) \in Nat
        /\ b[0].n = (IF Joined(d, k) THEN 0 ELSE k) /\ b[0].flag = "none"
        /\ b[FreeHead].next = second
        /\ Joined(d, k) => b[k].type = "page" /\ b[k].next = Null /\ b[k].flag = "none"
        /\ \A j \in Nodes : 1 <= j /\ j < k =>
             b[j].type = "page" /\ b[j].next = Null /\ b[j].flag = "none"
        /\ \A j \in Nodes : (j < 0 \/ j >= k) /\ j # FreeHead /\ ~(Joined(d, k) /\ j = k) =>
             /\ SameRest(d, b, j)
             /\ b[j].next = (IF listed /\ j = d[0].prev THEN d[0].next ELSE d[j].next)
             /\ j # second =>
                  b[j].prev = (IF listed /\ j = d[0].next THEN d[0].prev ELSE d[j].prev)
             /\ j \in PageNodes => b[j].type = d[j].type
    BY SwallowedFields
  <1>3. /\ 0 \in Nodes /\ k \in Int /\ 1 <= k /\ \A j \in Nodes : j \in Int
        /\ FreeHead \in Nodes /\ FreeHead < 0 /\ FreeHead # 0 /\ FreeHead # k /\ FreeHead \notin PageNodes
        /\ last \in Nodes /\ last \in Int /\ last >= 0 /\ last # FreeHead
    <2>1. k \in Int /\ 1 <= k /\ FreeHead = -9
      BY <1>1, Numbers
    <2> HIDE DEF last
    <2>2. last \in Nodes /\ last \in Int /\ last >= 0 /\ last # FreeHead
      BY <1>1, Bounds
    <2> QED
      BY <2>1, <2>2, Bounds
  <1>4. FreeStarts(d) \subseteq PageNodes /\ \A j \in FreeStarts(d) : d[j].type = "page"
    BY DEF FreeStarts
  <1>5. f = Fronted(x, x[FreeHead].next) /\ PagesFreed(s, 0, k) = WithDesc(s, f)
    BY <1>1, <1>2, PagesFreedIs DEF FreedOf
  <1> HIDE DEF a, b, x, f, last, second, listed
  <1>6. /\ x \in Descs
        /\ \A j \in Nodes :
             /\ SameRest(b, x, j) /\ x[j].next = b[j].next
             /\ j # last \/ last = 0 => x[j].prev = b[j].prev /\ x[j].type = b[j].type
             /\ j = last /\ last # 0 => x[j].type = "page"
    <2>1. CASE last > 0
      <3> DEFINE y == PutPrev(b, last, 0)
                 z == PutType(y, last, "page")
      <3>1. x = z
        BY <2>1 DEF x, Ended
      <3>2. 0 \in Nodes \union {Null} /\ "page" \in Types
        BY <1>3 DEF Types
      <3>3. y \in Descs /\ \A j \in Nodes : /\ SameRest(b, y, j)
                              /\ y[j].prev = (IF j = last THEN 0 ELSE b[j].prev)
                              /\ y[j].next = b[j].next /\ y[j].type = b[j].type
        BY <1>2, <3>2, PutPrevIs
      <3> HIDE DEF y
      <3>4. z \in Descs /\ \A j \in Nodes : /\ SameRest(y, z, j)
                              /\ z[j].type = (IF j = last THEN "page" ELSE y[j].type)
                              /\ z[j].next = y[j].next /\ z[j].prev = y[j].prev
        BY <3>2, <3>3, PutTypeIs
      <3> HIDE DEF z
      <3> QED
        BY <2>1, <3>1, <3>3, <3>4 DEF SameRest
    <2>2. CASE ~(last > 0)
      <3>1. x = b /\ last = 0
        BY <1>3, <2>2 DEF x, Ended
      <3> QED
        BY <1>2, <3>1 DEF SameRest
    <2> QED
      BY <2>1, <2>2
  <1>7. x[FreeHead].next = second /\ second \in Nodes \ {0}
    BY <1>1, <1>2, <1>3, <1>4, <1>6, Bounds
  <1>8. /\ f \in Descs
        /\ f[0].next = second /\ f[0].prev = FreeHead /\ f[0].type = "page" /\ SameRest(x, f, 0)
        /\ \A j \in Nodes : j # 0 =>
             /\ SameRest(x, f, j)
             /\ f[j].next = (IF j = FreeHead THEN 0 ELSE x[j].next)
             /\ f[j].prev = (IF j = second THEN 0 ELSE x[j].prev)
             /\ f[j].type = (IF j = second THEN "page" ELSE x[j].type)
    <2>1. f = Fronted(x, second)
      BY <1>5, <1>7
    <2> QED
      BY <1>6, <1>7, <2>1, FrontedFields
  <1>9. f[0].n = (IF Joined(d, k) THEN 0 ELSE k) /\ f[0].flag = "none" /\ f[FreeHead].next = 0
    BY <1>2, <1>3, <1>6, <1>8 DEF SameRest
  <1>10. second # FreeHead => f[second].prev = 0
    BY <1>7, <1>8
  <1>11. Joined(d, k) => f[k].type = "page" /\ f[k].next = Null /\ f[k].flag = "none"
    <2> SUFFICES ASSUME Joined(d, k) PROVE f[k].type = "page" /\ f[k].next = Null /\ f[k].flag = "none"
      OBVIOUS
    <2>1. k \in Nodes /\ k # 0
      BY <1>3, <1>4, Bounds DEF Joined
    <2>2. x[k].type = "page" /\ x[k].next = Null /\ x[k].flag = "none"
      BY <1>2, <1>6, <2>1 DEF SameRest
    <2> QED
      BY <1>3, <1>8, <2>1, <2>2 DEF SameRest
  <1>12. ASSUME NEW j \in Nodes, 1 <= j, j < k
         PROVE  f[j].type = "page" /\ f[j].next = Null /\ f[j].flag = "none"
    <2>1. j # 0 /\ j # FreeHead
      BY <1>3, <1>12
    <2>2. x[j].type = "page" /\ x[j].next = Null /\ x[j].flag = "none"
      BY <1>2, <1>6, <1>12 DEF SameRest
    <2> QED
      BY <1>8, <2>1, <2>2 DEF SameRest
  <1>13. ASSUME NEW j \in Nodes, j < 0 \/ j >= k, j # FreeHead, ~(Joined(d, k) /\ j = k)
         PROVE  Untouched(d, f, k, j)
    <2>1. j # 0
      BY <1>3, <1>13
    <2>2. /\ SameRest(d, b, j)
          /\ b[j].next = (IF listed /\ j = d[0].prev THEN d[0].next ELSE d[j].next)
          /\ j # second =>
               b[j].prev = (IF listed /\ j = d[0].next THEN d[0].prev ELSE d[j].prev)
          /\ j \in PageNodes => b[j].type = d[j].type
      BY <1>2, <1>13
    <2>3. SameRest(d, f, j) /\ f[j].next = b[j].next
      BY <1>6, <1>8, <1>13, <2>1, <2>2 DEF SameRest
    <2>4. ASSUME j \in PageNodes
          PROVE  f[j].type = d[j].type
      <3>1. j = second => d[j].type = "page"
        BY <1>1, <1>4, <2>4, <1>3
      <3>2. j = last /\ last # 0 => d[j].type = "page"
        BY <1>1, <1>13, <2>4 DEF Heads, SlabPages
      <3> QED
        BY <1>6, <1>8, <2>1, <2>2, <2>4, <3>1, <3>2
    <2>5. ASSUME j \in Heads(d), j # second
          PROVE  f[j].prev = (IF listed /\ j = d[0].next THEN d[0].prev ELSE d[j].prev)
      <3>1. j # last \/ last = 0
        BY <1>1, <1>13, <2>5
      <3> QED
        BY <1>6, <1>8, <2>1, <2>2, <2>5, <3>1
    <2> QED
      BY <2>2, <2>3, <2>4, <2>5 DEF Untouched, second, listed
  <1> QED
    BY <1>5, <1>8, <1>9, <1>10, <1>11, <1>12, <1>13 DEF d, f, second

\* Page 0 becomes the first free run, and swallows the one behind its pages.
LEMMA FreedHeads ==
  ASSUME NEW s, Sound(s), NEW k, Freeable(s, k)
  PROVE  LET d == s.desc
             f == FreedOf(d, k)
         IN \A j \in PageNodes :
              /\ j \in FreeStarts(f) <=> (j \in FreeStarts(d) /\ j # k) \/ j = 0
              /\ j \in StartPages(f) <=> j \in StartPages(d) /\ j # 0
              /\ j \in SlabPages(f) <=> j \in SlabPages(d) /\ j # 0
              /\ j # 0 /\ j \in Given(d) => Untouched(d, f, k, j) /\ f[j].next = d[j].next
              /\ j # k /\ j \in FreeStarts(d) => Untouched(d, f, k, j) /\ f[j].next = d[j].next
  <1> DEFINE d == s.desc
             f == FreedOf(d, k)
  <1>1. /\ Joined(d, k) => f[k].type = "page" /\ f[k].next = Null /\ f[k].flag = "none"
        /\ f[0].flag = "none" /\ f[0].type = "page" /\ f[0].next = Second(d, k)
        /\ \A j \in Nodes : 1 <= j /\ j < k =>
             f[j].type = "page" /\ f[j].next = Null /\ f[j].flag = "none"
        /\ \A j \in Nodes : (j < 0 \/ j >= k) /\ j # FreeHead /\ ~(Joined(d, k) /\ j = k) =>
             Untouched(d, f, k, j)
    BY FreedFields
  <1>2. /\ d \in Descs /\ Layout(d) /\ 0 \notin FreeStarts(d)
        /\ k \in 1 .. Pages
        /\ \A j \in Heads(d) : j # 0 => j >= k
        /\ \A j \in Nodes : 1 <= j /\ j < k => d[j].type = "page" /\ j \notin Heads(d)
        /\ Second(d, k) \in FreeStarts(d) \union {FreeHead}
        /\ d[0].next # Null => d[0].prev \in SlotNodes
    BY FreeableFacts
  <1>3. /\ 0 \in Nodes /\ k \in Int /\ 1 <= k /\ 0 \in PageNodes
        /\ Second(d, k) # Null
    BY <1>2, Bounds DEF FreeStarts
  <1>4. Heads(d) = FreeStarts(d) \union Given(d)
    BY DEF Heads, Given
  <1> HIDE DEF d, f
  <1> SUFFICES ASSUME NEW j \in PageNodes
               PROVE  /\ j \in FreeStarts(f) <=> (j \in FreeStarts(d) /\ j # k) \/ j = 0
                      /\ j \in StartPages(f) <=> j \in StartPages(d) /\ j # 0
                      /\ j \in SlabPages(f) <=> j \in SlabPages(d) /\ j # 0
                      /\ j # 0 /\ j \in Given(d) => Untouched(d, f, k, j) /\ f[j].next = d[j].next
                      /\ j # k /\ j \in FreeStarts(d) => Untouched(d, f, k, j) /\ f[j].next = d[j].next
    BY DEF d, f
  <1>5. j \in Nodes /\ j \in Int /\ j # FreeHead /\ j >= 0
    BY Bounds
  <1>6. CASE j = 0
    BY <1>1, <1>2, <1>3, <1>6 DEF FreeStarts, StartPages, SlabPages
  <1>7. CASE 1 <= j /\ j < k
    <2>1. j \notin Heads(d)
      BY <1>2, <1>5, <1>7
    <2>2. f[j].type = "page" /\ f[j].next = Null /\ f[j].flag = "none"
      BY <1>1, <1>5, <1>7
    <2>3. j # 0
      BY <1>7
    <2> QED
      BY <1>4, <2>1, <2>2, <2>3 DEF FreeStarts, StartPages, SlabPages, Given
  <1>8. CASE Joined(d, k) /\ j = k
    <2>1. j \in FreeStarts(d) /\ d[j].type = "page" /\ d[j].flag = "none"
      BY <1>2, <1>8 DEF Joined, Layout, FreeStarts
    <2>2. f[j].type = "page" /\ f[j].next = Null /\ f[j].flag = "none"
      BY <1>1, <1>8
    <2>3. j # 0
      BY <1>3, <1>8
    <2> QED
      BY <1>8, <2>1, <2>2, <2>3 DEF FreeStarts, StartPages, SlabPages, Given
  <1>9. CASE j >= k /\ ~(Joined(d, k) /\ j = k)
    <2>1. Untouched(d, f, k, j) /\ j # 0
      BY <1>1, <1>3, <1>5, <1>9
    <2>2. d[0].next # Null => j # d[0].prev
      BY <1>2, SlotBounds
    <2>3. /\ f[j].next = d[j].next /\ f[j].type = d[j].type /\ f[j].flag = d[j].flag
      BY <2>1, <2>2 DEF Untouched, SameRest
    <2>4. j \in FreeStarts(d) => j # k
      BY <1>9 DEF Joined
    <2> QED
      BY <2>1, <2>3, <2>4 DEF FreeStarts, StartPages, SlabPages
  <1> QED
    BY <1>3, <1>5, <1>6, <1>7, <1>8, <1>9

\* hcore_slab_free_pages keeps the runs apart and inside the pool.
LEMMA FreedLayout ==
  ASSUME NEW s, Sound(s), NEW k, Freeable(s, k)
  PROVE  Layout(FreedOf(s.desc, k))
  <1> DEFINE d == s.desc
             f == FreedOf(d, k)
  <1>1. /\ f \in Descs /\ f[0].n \in {0, k} /\ f[0].flag = "none" /\ f[0].type = "page"
    BY FreedFields
  <1>2. /\ d \in Descs /\ Layout(d) /\ 0 \notin FreeStarts(d) /\ k \in 1 .. Pages
        /\ \A j \in Heads(d) : j # 0 => j >= k
    BY FreeableFacts
  <1>3. \A j \in PageNodes :
          /\ j \in FreeStarts(f) <=> (j \in FreeStarts(d) /\ j # k) \/ j = 0
          /\ j \in StartPages(f) <=> j \in StartPages(d) /\ j # 0
          /\ j \in SlabPages(f) <=> j \in SlabPages(d) /\ j # 0
          /\ j # 0 /\ j \in Given(d) => Untouched(d, f, k, j) /\ f[j].next = d[j].next
          /\ j # k /\ j \in FreeStarts(d) => Untouched(d, f, k, j) /\ f[j].next = d[j].next
    BY FreedHeads
  <1>4. /\ 0 \in PageNodes /\ k \in Int /\ 1 <= k /\ k <= Pages /\ Pages \in Int
        /\ \A g : FreeStarts(g) \subseteq PageNodes /\ Given(g) \subseteq PageNodes
                  /\ StartPages(g) \subseteq PageNodes /\ SlabPages(g) \subseteq PageNodes
                  /\ Heads(g) = FreeStarts(g) \union Given(g) /\ Given(g) = StartPages(g) \union SlabPages(g)
    BY <1>2, Bounds DEF FreeStarts, Given, StartPages, SlabPages, Heads
  <1> HIDE DEF d, f
  <1>5. ASSUME NEW j \in Heads(f), j # 0
        PROVE  j \in Heads(d) /\ Extent(f, j) = Extent(d, j) /\ j >= k
    <2>1. j \in PageNodes /\ j \in Heads(d) /\ Untouched(d, f, k, j)
      BY <1>3, <1>4, <1>5
    <2> QED
      BY <1>2, <1>5, <2>1 DEF Untouched, SameRest, Extent
  <1>6. Extent(f, 0) \in {0, k}
    BY <1>1 DEF Extent
  <1>7. \A j \in FreeStarts(f) : f[j].flag = "none"
    <2> SUFFICES ASSUME NEW j \in FreeStarts(f), j # 0 PROVE f[j].flag = "none"
      BY <1>1
    <2>1. j \in FreeStarts(d) /\ Untouched(d, f, k, j)
      BY <1>3, <1>4
    <2> QED
      BY <1>2, <2>1 DEF Layout, Untouched, SameRest
  <1>8. \A j \in StartPages(f) : f[j].next = Null /\ f[j].n >= 1
    <2> SUFFICES ASSUME NEW j \in StartPages(f) PROVE f[j].next = Null /\ f[j].n >= 1
      OBVIOUS
    <2>1. j \in StartPages(d) /\ Untouched(d, f, k, j) /\ f[j].next = d[j].next
      BY <1>3, <1>4
    <2> QED
      BY <1>2, <2>1 DEF Layout, Untouched, SameRest
  <1>9. \A j \in Heads(f) : j + Extent(f, j) <= Pages /\ (j # 0 => Extent(f, j) >= 1)
    <2> SUFFICES ASSUME NEW j \in Heads(f)
                 PROVE  j + Extent(f, j) <= Pages /\ (j # 0 => Extent(f, j) >= 1)
      OBVIOUS
    <2>1. CASE j = 0
      BY <1>4, <1>6, <2>1
    <2>2. CASE j # 0
      BY <1>2, <1>5, <2>2 DEF Layout
    <2> QED
      BY <2>1, <2>2
  <1>10. \A j, l \in Heads(f) : j < l => j + Extent(f, j) <= l
    <2> SUFFICES ASSUME NEW j \in Heads(f), NEW l \in Heads(f), j < l
                 PROVE  j + Extent(f, j) <= l
      OBVIOUS
    <2>1. l \in PageNodes /\ j \in PageNodes /\ l # 0
      BY <1>4, Bounds
    <2>2. l \in Heads(d) /\ l >= k /\ l \in Int
      BY <1>5, <2>1, Bounds
    <2>3. CASE j = 0
      BY <1>4, <1>6, <2>2, <2>3
    <2>4. CASE j # 0
      BY <1>2, <1>5, <2>2, <2>4 DEF Layout
    <2> QED
      BY <2>3, <2>4
  <1> QED
    BY <1>7, <1>8, <1>9, <1>10 DEF Layout, d, f

\* hcore_slab_free_pages keeps the free list linked alike in both directions and in
\* the order of the pages.
LEMMA FreedLinked ==
  ASSUME NEW s, Sound(s), NEW k, Freeable(s, k)
  PROVE  Linked(FreedOf(s.desc, k))
  <1> DEFINE d == s.desc
             f == FreedOf(d, k)
             F == FreeStarts(d)
             second == Second(d, k)
  <1>1. /\ f[0].prev = FreeHead /\ f[0].next = second /\ f[FreeHead].next = 0
        /\ second # FreeHead => f[second].prev = 0
    BY FreedFields
  <1>2. /\ Linked(d) /\ 0 \notin F
        /\ Joined(d, k) => d[k].prev = FreeHead /\ d[FreeHead].next = k
        /\ second \in F \union {FreeHead} /\ second # 0 /\ second # k
        /\ d[0].next # Null => d[0].prev \in SlotNodes
                               /\ (d[0].next = d[0].prev \/ d[0].next \in SlabPages(d))
    BY FreeableFacts
  <1>3. \A j \in PageNodes :
          /\ j \in FreeStarts(f) <=> (j \in F /\ j # k) \/ j = 0
          /\ j # k /\ j \in F => Untouched(d, f, k, j) /\ f[j].next = d[j].next
    BY FreedHeads
  <1>4. /\ 0 \in PageNodes /\ FreeHead < 0 /\ F \subseteq PageNodes /\ FreeStarts(f) \subseteq PageNodes
        /\ FreeHead \notin PageNodes /\ FreeHead # 0
        /\ \A j \in F : j # 0 /\ j > 0 /\ j # FreeHead
        /\ \A j \in F : j \in Heads(d) /\ j \notin SlabPages(d) /\ j \notin SlotNodes
    <2>1. FreeHead < 0 /\ 0 \in PageNodes /\ FreeHead \notin PageNodes /\ FreeHead # 0
      BY Numbers, Bounds
    <2>2. F \subseteq PageNodes /\ FreeStarts(f) \subseteq PageNodes
      BY DEF FreeStarts
    <2>3. \A j \in F : j \in Heads(d) /\ j \notin SlabPages(d)
      BY DEF FreeStarts, Heads, SlabPages
    <2> HIDE DEF F, f
    <2>4. ASSUME NEW j \in F
          PROVE  j # 0 /\ j > 0 /\ j # FreeHead /\ j \notin SlotNodes
      <3>1. j \in PageNodes /\ j # 0
        BY <1>2, <2>2, <2>4
      <3> QED
        BY <2>1, <3>1, Bounds, SlotBounds
    <2> QED
      BY <2>1, <2>2, <2>3, <2>4
  <1>5. /\ Joined(d, k) => k \in F /\ second = d[k].next
        /\ ~Joined(d, k) => k \notin F /\ second = d[FreeHead].next
    BY DEF Joined, Second
  <1>6. /\ \A j \in F \union {FreeHead} :
             d[j].next # FreeHead => d[j].next \in F /\ d[j].next > j /\ d[d[j].next].prev = j
        /\ \A j \in F : d[j].prev \in F \union {FreeHead} /\ d[d[j].prev].next = j
    BY <1>2 DEF Linked
  <1> HIDE DEF d, f, F, second
  <1>7. ASSUME NEW j \in F, j # k
        PROVE  /\ j \in FreeStarts(f) /\ f[j].next = d[j].next
               /\ j # second => f[j].prev = d[j].prev
    <2>1. Untouched(d, f, k, j) /\ f[j].next = d[j].next /\ j \in FreeStarts(f)
      BY <1>3, <1>4, <1>7
    <2>2. ~(d[0].next # Null /\ j = d[0].next)
      BY <1>2, <1>4
    <2>3. j # second => f[j].prev = d[j].prev
      BY <1>4, <2>1, <2>2 DEF Untouched, second
    <2> QED
      BY <2>1, <2>3
  <1>8. \A j \in FreeStarts(f) : j = 0 \/ (j \in F /\ j # k)
    BY <1>3, <1>4
  <1>9. 0 \in FreeStarts(f)
    BY <1>3, <1>4
  <1>10. ASSUME NEW j \in FreeStarts(f) \union {FreeHead}, f[j].next # FreeHead
         PROVE  /\ f[j].next \in FreeStarts(f) /\ f[j].next > j /\ f[f[j].next].prev = j
    <2>1. CASE j = FreeHead
      BY <1>1, <1>4, <1>9, <2>1
    <2>2. CASE j = 0
      BY <1>1, <1>2, <1>4, <1>7, <1>10, <2>2
    <2>3. CASE j \in F /\ j # k
      <3>1. f[j].next = d[j].next
        BY <1>7, <2>3
      <3> DEFINE t == d[j].next
      <3>2. t \in F /\ t > j /\ d[t].prev = j
        BY <1>6, <1>10, <2>3, <3>1
      <3> HIDE DEF t
      <3>3. t # k
        BY <1>2, <1>4, <1>5, <2>3, <3>2
      <3>4. t # second
        BY <1>2, <1>4, <1>5, <1>6, <2>3, <3>2
      <3> QED
        BY <1>7, <3>1, <3>2, <3>3, <3>4 DEF t
    <2> QED
      BY <1>8, <2>1, <2>2, <2>3
  <1>11. ASSUME NEW j \in FreeStarts(f)
         PROVE  /\ f[j].prev \in FreeStarts(f) \union {FreeHead} /\ f[f[j].prev].next = j
    <2>1. CASE j = 0
      BY <1>1, <2>1
    <2>2. CASE j \in F /\ j # k /\ j = second
      BY <1>1, <1>4, <1>9, <2>2
    <2>3. CASE j \in F /\ j # k /\ j # second
      <3> DEFINE p == d[j].prev
      <3>1. f[j].prev = p
        BY <1>7, <2>3
      <3>2. p \in F \union {FreeHead} /\ d[p].next = j
        BY <1>6, <2>3
      <3> HIDE DEF p
      <3>3. p # FreeHead
        BY <1>2, <1>5, <2>3, <3>2
      <3>4. p # k
        BY <1>5, <2>3, <3>2, <3>3
      <3> QED
        BY <1>7, <3>1, <3>2, <3>3, <3>4
    <2> QED
      BY <1>8, <2>1, <2>2, <2>3
  <1> QED
    BY <1>10, <1>11 DEF Linked, d, f

\* As many pages are given away less.
LEMMA FreedTaken ==
  ASSUME NEW s, Sound(s), NEW k, Freeable(s, k)
  PROVE  Cardinality(TakenPages(s.desc)) = Cardinality(TakenPages(FreedOf(s.desc, k))) + k
  <1> DEFINE d == s.desc
             f == FreedOf(d, k)
             T == TakenPages(d)
             U == TakenPages(f)
             new == 0 .. k - 1
  <1>1. f \in Descs
    BY FreedFields
  <1>2. /\ d \in Descs /\ 0 \in Given(d) /\ Extent(d, 0) = k /\ k \in 1 .. Pages
        /\ \A j \in Heads(d) : j # 0 => j >= k
    BY FreeableFacts
  <1>3. \A j \in PageNodes :
          /\ j \in StartPages(f) <=> j \in StartPages(d) /\ j # 0
          /\ j \in SlabPages(f) <=> j \in SlabPages(d) /\ j # 0
          /\ j # 0 /\ j \in Given(d) => Untouched(d, f, k, j) /\ f[j].next = d[j].next
    BY FreedHeads
  <1>4. /\ \A g : Given(g) \subseteq PageNodes /\ Given(g) = StartPages(g) \union SlabPages(g)
        /\ Given(d) \subseteq Heads(d)
    BY DEF Given, StartPages, SlabPages, Heads
  <1>5. k \in Int /\ 1 <= k /\ 0 \in PageNodes
    BY <1>2, Bounds
  <1>6. Layout(f)
    BY FreedLayout
  <1>7. Layout(d)
    BY FreeableFacts
  <1> HIDE DEF d, f
  <1>8. Given(f) = Given(d) \ {0}
    BY <1>3, <1>4
  <1>9. \A j \in Given(f) : Part(f, j) = Part(d, j)
    <2> SUFFICES ASSUME NEW j \in Given(f) PROVE Part(f, j) = Part(d, j)
      OBVIOUS
    <2>1. Untouched(d, f, k, j)
      BY <1>3, <1>4, <1>8
    <2>2. j \in PageNodes
      BY <1>4
    <2> QED
      BY <2>1, <2>2 DEF Part, Extent, Untouched, SameRest
  <1>10. Part(d, 0) = new
    BY <1>2, <1>5 DEF Part
  <1>11. T = UNION {Part(d, j) : j \in Given(d)} /\ U = UNION {Part(f, j) : j \in Given(f)}
    BY <1>1, <1>2, TakenIs
  <1>12. T = U \union new
    <2> HIDE DEF T, U, new
    <2> QED
      BY <1>2, <1>8, <1>9, <1>10, <1>11
  <1>13. U \intersect new = {}
    <2> SUFFICES ASSUME NEW t \in U, t \in new PROVE FALSE
      OBVIOUS
    <2>1. PICK j \in Given(f) : t \in Part(f, j)
      BY <1>11
    <2>2. j \in Heads(d) /\ j # 0 /\ j \in PageNodes /\ t \in Part(d, j)
      BY <1>4, <1>8, <1>9, <2>1
    <2>3. j >= k /\ j \in Int /\ j \in Nodes
      BY <1>2, <2>2, Bounds
    <2>4. Extent(d, j) \in Int
      <3>1. d[j].n \in 0 .. 11
        BY <1>2, <2>3, Fields
      <3> QED
        BY <3>1 DEF Extent
    <2>5. t >= j /\ t \in Int
      BY <2>2, <2>3, <2>4 DEF Part
    <2> QED
      BY <1>5, <2>3, <2>5
  <1>14. IsFiniteSet(new) /\ Cardinality(new) = k
    <2>1. 0 \in Int /\ k - 1 \in Int /\ ~(0 > k - 1) /\ (k - 1) - 0 + 1 = k
      BY <1>5
    <2>2. \A b \in Int : IsFiniteSet(0 .. b) /\ Cardinality(0 .. b) = (IF 0 > b THEN 0 ELSE b - 0 + 1)
      BY FS_Interval
    <2>3. IsFiniteSet(0 .. k - 1) /\ Cardinality(0 .. k - 1) = (IF 0 > k - 1 THEN 0 ELSE (k - 1) - 0 + 1)
      BY <2>1, <2>2
    <2> QED
      BY <2>1, <2>3
  <1>15. IsFiniteSet(U) /\ Cardinality(U) \in Int
    BY <1>1, <1>6, TakenInside
  <1> HIDE DEF new, U, T
  <1>16. Cardinality(U \union new) = Cardinality(U) + Cardinality(new) - Cardinality(U \intersect new)
    BY <1>14, <1>15, FS_Union
  <1>17. Cardinality(U \intersect new) = 0
    BY <1>13, FS_EmptySet
  <1> QED
    BY <1>5, <1>12, <1>14, <1>15, <1>16, <1>17 DEF T, U, d, f

\* Every page but the first is what it was.
Stays(d, e) ==
  \A j \in PageNodes : j # 0 =>
    /\ \A c \in Classes : InClass(d, j, c) => InClass(e, j, c)
    /\ j \in StartPages(d) => j \in StartPages(e) /\ e[j].n = d[j].n

\* The pool stays sound when pages are given back, and what else is given away still is.
LEMMA FreeSound ==
  ASSUME NEW s, Sound(s), NEW k, Freeable(s, k)
  PROVE  LET t == FreePages(s, 0, k) IN
         Sound(t) /\ Stays(s.desc, t.desc) /\ t.desc[0].type = "page" /\ 0 \notin StartPages(t.desc)
  <1> DEFINE d == s.desc
             f == FreedOf(d, k)
             t == FreePages(s, 0, k)
             second == Second(d, k)
  <1>1. /\ f \in Descs /\ PagesFreed(s, 0, k) = WithDesc(s, f)
        /\ f[0].flag = "none" /\ f[0].type = "page"
        /\ \A j \in Nodes : (j < 0 \/ j >= k) /\ j # FreeHead /\ ~(Joined(d, k) /\ j = k) =>
             Untouched(d, f, k, j)
    BY FreedFields
  <1>2. /\ d \in Descs /\ k \in 1 .. Pages
        /\ second \in FreeStarts(d) \union {FreeHead}
        /\ \A j \in Heads(d) : j # 0 => j >= k
        /\ \A j \in Nodes : 1 <= j /\ j < k => d[j].type = "page" /\ j \notin Heads(d)
        /\ d[0].next # Null => d[0].prev \in SlotNodes /\ d[0].next # 0 /\ k = 1 /\ 0 \in SlabPages(d)
                               /\ (d[0].next = d[0].prev \/ d[0].next \in SlabPages(d))
    BY FreeableFacts
  <1>3. \A j \in PageNodes :
          /\ j \in StartPages(f) <=> j \in StartPages(d) /\ j # 0
          /\ j \in SlabPages(f) <=> j \in SlabPages(d) /\ j # 0
          /\ j # 0 /\ j \in Given(d) => Untouched(d, f, k, j) /\ f[j].next = d[j].next
    BY FreedHeads
  <1>4. s = State(d, s.bitmap, s.pfree) /\ s.bitmap \in [PageNodes -> SUBSET Nat] /\ SlotsOK(s)
        /\ s.pfree = Pages - Cardinality(TakenPages(d))
    BY StateIs DEF Sound, PagesOK, Counted
  <1>5. t = State(f, s.bitmap, s.pfree + k)
    <2>1. WithDesc(s, f) = State(f, s.bitmap, s.pfree)
      BY <1>4, OneSet
    <2>2. t = WithPfree(WithDesc(s, f), WithDesc(s, f).pfree + k)
      BY <1>1 DEF FreePages, WithPfree
    <2>3. State(f, s.bitmap, s.pfree).pfree = s.pfree
      BY DEF State
    <2>4. WithPfree(State(f, s.bitmap, s.pfree), s.pfree + k) = State(f, s.bitmap, s.pfree + k)
      BY OneSet
    <2> QED
      BY <2>1, <2>2, <2>3, <2>4
  <1> HIDE DEF t, f
  <1>6. t.desc = f /\ t.bitmap = s.bitmap /\ t.pfree = s.pfree + k /\ Typed(t)
    BY <1>1, <1>4, <1>5, TypedState
  <1>7. PagesOK(t)
    <2>1. Layout(f) /\ Linked(f) /\ Cardinality(TakenPages(d)) = Cardinality(TakenPages(f)) + k
      BY FreedLayout, FreedLinked, FreedTaken DEF f
    <2>2. Cardinality(TakenPages(f)) \in Int /\ k \in Int /\ Pages \in Int
      BY <1>1, <1>2, <2>1, TakenInside, Bounds
    <2> QED
      BY <1>4, <1>6, <2>1, <2>2 DEF PagesOK, Counted
  <1>8. /\ 0 \in PageNodes /\ k \in Int /\ 1 <= k
        /\ \A g : SlabPages(g) \subseteq Given(g) /\ StartPages(g) \subseteq Given(g)
        /\ Given(d) \subseteq Heads(d) /\ Given(d) \subseteq PageNodes
        /\ \A j \in SlabPages(d) : j \notin FreeStarts(d)
    BY <1>2, Bounds DEF Given, StartPages, SlabPages, Heads, FreeStarts
  <1>9. ASSUME NEW j \in SlotNodes
        PROVE  f[j].next = (IF d[0].next # Null /\ j = d[0].prev THEN d[0].next ELSE d[j].next)
    <2>1. j \in Nodes /\ j < 0 /\ j # FreeHead /\ j \in Int /\ j # k
      BY <1>8, SlotBounds
    <2> QED
      BY <1>1, <2>1 DEF Untouched
  <1>10. ASSUME NEW j \in SlabPages(d), j # 0
         PROVE  /\ SameRest(d, f, j) /\ f[j].next = d[j].next /\ f[j].type = d[j].type
                /\ f[j].prev = (IF d[0].next # Null /\ j = d[0].next THEN d[0].prev ELSE d[j].prev)
    <2>1. j \in PageNodes /\ j \in Heads(d) /\ Untouched(d, f, k, j) /\ f[j].next = d[j].next
      BY <1>3, <1>8, <1>10
    <2>2. j # second
      BY <1>2, <1>8, <2>1, Bounds
    <2> QED
      BY <2>1, <2>2 DEF Untouched, second
  <1>11. SlotsOK(t)
    <2>1. CASE 0 \in StartPages(d) /\ k = d[0].n
      <3>1. d[0].next = Null /\ 0 \notin SlabPages(d)
        BY <1>2, <2>1 DEF StartPages, SlabPages
      <3>2. \A j \in SlotNodes : f[j].next = d[j].next
        BY <1>9, <3>1
      <3>3. \A j \in PageNodes : j \in SlabPages(f) <=> j \in SlabPages(d)
        BY <1>3, <3>1
      <3>4. \A j \in SlabPages(d) : Alike(d, f, j)
        BY <1>10, <3>1 DEF Alike
      <3> QED
        BY <1>4, <1>6, <3>2, <3>3, <3>4, SlotsKept
    <2>2. CASE k = 1 /\ d[0].next # Null /\ \E shift \in Classes : InClass(d, 0, shift)
      <3>1. PICK shift \in Classes : InClass(d, 0, shift)
        BY <2>2
      <3> DEFINE slot == SlotNode(shift)
                 q == d[0].next
      <3>2. ClassOK(s, shift)
        BY <1>4 DEF SlotsOK
      <3>3. /\ d[0].prev = slot
            /\ q # slot => /\ q # 0 /\ InClass(d, q, shift)
                           /\ d[slot].next = 0 /\ d[q].prev = 0 /\ d[q].next = slot
        BY <2>2, <3>1, <3>2 DEF ClassOK, ZeroOK
      <3>4. slot \in SlotNodes /\ slot \notin PageNodes /\ slot # Null
        BY ClassFacts
      <3>5. f[slot].next = q /\ \A j \in SlotNodes : j # slot => f[j].next = d[j].next
        BY <1>9, <2>2, <3>3, <3>4
      <3>6. \A j \in PageNodes : InClass(f, j, shift) <=> InClass(d, j, shift) /\ j # 0
        <4> SUFFICES ASSUME NEW j \in PageNodes
                     PROVE  InClass(f, j, shift) <=> InClass(d, j, shift) /\ j # 0
          OBVIOUS
        <4>1. CASE j = 0
          <5>1. ~InClass(f, 0, shift)
            BY <1>1 DEF InClass, TypeOf
          <5> QED
            BY <4>1, <5>1
        <4>2. CASE j # 0 /\ j \in SlabPages(d)
          BY <1>10, <4>2 DEF InClass, SameRest
        <4>3. CASE j # 0 /\ j \notin SlabPages(d)
          <5>1. j \notin SlabPages(f)
            BY <1>3, <4>3
          <5> QED
            BY <4>3, <5>1, InClassIsSlab
        <4> QED
          BY <4>1, <4>2, <4>3
      <3>7. q # slot => /\ InClass(f, q, shift) /\ f[q].prev = slot /\ f[q].next = slot /\ q \in PageNodes
        <4> SUFFICES ASSUME q # slot
                     PROVE  /\ InClass(f, q, shift) /\ f[q].prev = slot /\ f[q].next = slot
                            /\ q \in PageNodes
          OBVIOUS
        <4>1. q \in SlabPages(d) /\ q \in PageNodes /\ q # 0
          BY <3>3, InClassIsSlab
        <4> QED
          BY <1>10, <2>2, <3>3, <3>6, <4>1
      <3> HIDE DEF slot, q
      <3>8. HeadOK(f, shift)
        BY <3>4, <3>5, <3>7 DEF HeadOK, slot
      <3>9. ZeroOK(f, shift)
        <4>1. ~InClass(f, 0, shift)
          BY <1>8, <3>6
        <4> QED
          BY <4>1 DEF ZeroOK
      <3>10. ASSUME NEW j \in PageNodes, InClass(f, j, shift)
             PROVE  /\ j # 0 => f[j].next \in {slot, Null}
                    /\ RoomOK(t, j, shift)
        <4>1. j \in SlabPages(d) /\ j # 0 /\ InClass(d, j, shift)
          BY <3>6, <3>10, InClassIsSlab
        <4>2. d[j].next \in {slot, Null} /\ RoomOK(s, j, shift)
          BY <3>2, <4>1 DEF ClassOK, slot
        <4>3. SameRest(d, f, j) /\ f[j].next = d[j].next
          BY <1>10, <4>1
        <4>4. shift \notin {3, 4, 7} => f[j].prev = slot
          <5>1. ASSUME shift \notin {3, 4, 7}
                PROVE  f[j].prev = slot
            <6>1. d[j].prev = slot
              BY <4>2, <5>1 DEF RoomOK, slot
            <6> QED
              BY <1>10, <3>3, <4>1, <6>1
          <5> QED
            BY <5>1
        <4>5. t.bitmap[j] = s.bitmap[j]
          BY <1>6
        <4>6. RoomOK(t, j, shift)
          BY <1>6, <4>2, <4>3, <4>4, <4>5 DEF RoomOK, SameRest, slot
        <4> QED
          BY <4>2, <4>3, <4>6
      <3>11. ClassOK(t, shift)
        BY <1>6, <3>8, <3>9, <3>10 DEF ClassOK, slot
      <3>12. \A j \in PageNodes :
               \/ InClass(t.desc, j, shift) /\ (InClass(s.desc, j, shift) \/ j \notin SlabPages(s.desc))
               \/ j \notin SlabPages(t.desc) /\ (InClass(s.desc, j, shift) \/ j \notin SlabPages(s.desc))
               \/ Alike(s.desc, t.desc, j) /\ t.bitmap[j] = s.bitmap[j]
        <4> SUFFICES ASSUME NEW j \in PageNodes,
                            ~(InClass(f, j, shift) /\ InClass(d, j, shift)),
                            ~(j \notin SlabPages(f) /\ (InClass(d, j, shift) \/ j \notin SlabPages(d)))
                     PROVE  Alike(d, f, j)
          BY <1>6
        <4>1. j # 0
          BY <1>3, <3>1, <1>8
        <4>2. j \in SlabPages(d)
          BY <1>3
        <4>3. ~InClass(d, j, shift)
          BY <3>6, <4>1
        <4>4. j # q
          BY <3>3, <3>4, <4>3
        <4> QED
          BY <1>10, <4>1, <4>2, <4>4 DEF Alike, q
      <3> QED
        BY <1>4, <1>6, <3>5, <3>11, <3>12, OneClassChanged DEF slot
    <2> QED
      BY <2>1, <2>2 DEF Freeable
  <1>12. ASSUME NEW j \in PageNodes, j # 0
         PROVE  /\ \A c \in Classes : InClass(d, j, c) => InClass(f, j, c)
                /\ j \in StartPages(d) => j \in StartPages(f) /\ f[j].n = d[j].n
    <2>1. \A c \in Classes : InClass(d, j, c) => InClass(f, j, c)
      BY <1>10, <1>12, InClassIsSlab DEF InClass, SameRest
    <2>2. j \in StartPages(d) => j \in StartPages(f) /\ f[j].n = d[j].n
      BY <1>3, <1>8, <1>12 DEF Untouched, SameRest
    <2> QED
      BY <2>1, <2>2
  <1>13. t.desc[0].type = "page" /\ 0 \notin StartPages(t.desc)
    BY <1>1, <1>6 DEF StartPages
  <1> QED
    BY <1>6, <1>7, <1>11, <1>12, <1>13 DEF Sound, Stays, t, d
-----------------------------------------------------------------------------
(* hcore_slab_free_locked.                                                  *)

\* One of the m allocations in page 0 is freed.
Returned(s, t) ==
  /\ Sound(t) /\ Stays(s.desc, t.desc)
  /\ \A m \in Nat \ {0} : Bound(s, m) => Bound(t, m - 1) /\ (m = 1 \/ Keeps(s.desc, t.desc))

\* The last allocation in page 0 is freed, and its pages with it.
LEMMA ReturnedFreed ==
  ASSUME NEW s, NEW back, Sound(back), Keeps(s.desc, back.desc), NEW k, Freeable(back, k),
         \A m \in Nat \ {0} : Bound(s, m) => m = 1
  PROVE  Returned(s, FreePages(back, 0, k))
  <1> DEFINE t == FreePages(back, 0, k)
  <1>1. Sound(t) /\ Stays(back.desc, t.desc) /\ t.desc[0].type = "page" /\ 0 \notin StartPages(t.desc)
    BY FreeSound
  <1> HIDE DEF t
  <1>2. Stays(s.desc, t.desc)
    BY <1>1 DEF Stays, Keeps
  <1>3. \A m : Bound(t, m)
    BY <1>1 DEF Bound
  <1> QED
    BY <1>1, <1>2, <1>3 DEF Returned, t

\* An allocation in page 0 is freed, and others in it are in use.
LEMMA ReturnedBack ==
  ASSUME NEW s, NEW back, Sound(back), Keeps(s.desc, back.desc),
         \A m \in Nat \ {0} : Bound(s, m) => Bound(back, m - 1)
  PROVE  Returned(s, back)
  BY DEF Returned, Stays, Keeps

\* What does not change is kept.
LEMMA KeepsSelf ==
  ASSUME NEW d
  PROVE  Keeps(d, d)
  BY DEF Keeps

\* Nothing is done.
LEMMA ReturnedNot ==
  ASSUME NEW s, Sound(s), IsFiniteSet(s.desc[0].bits)
  PROVE  Returned(s, s)
  <1>1. ASSUME NEW m \in Nat \ {0}, Bound(s, m)
        PROVE  Bound(s, m - 1)
    <2>1. Cardinality(s.desc[0].bits) \in Int
      BY FS_CardinalityType
    <2> QED
      BY <1>1, <2>1 DEF Bound
  <1> QED
    BY <1>1, KeepsSelf, ReturnedBack

\* The class of page 0, when it is a slab page.
LEMMA ZeroClass ==
  ASSUME NEW s, Sound(s), s.desc[0].type # "page"
  PROVE  \E shift \in Classes : InClass(s.desc, 0, shift) /\ RoomOK(s, 0, shift) /\ ClassOK(s, shift)
  <1>1. 0 \in PageNodes
    BY Bounds
  <1>2. 0 \in SlabPages(s.desc)
    BY <1>1 DEF SlabPages
  <1> QED
    BY <1>1, <1>2 DEF Sound, SlotsOK, ClassOK

\* Page 0 back in the list of its class is still sound.
LEMMA BackSound ==
  ASSUME NEW s, Sound(s), NEW shift \in {3, 4, 7}, InClass(s.desc, 0, shift), s.desc[0].next = Null,
         NEW t, Typed(t), t.pfree = s.pfree,
         \A j \in PageNodes : j # 0 => t.bitmap[j] = s.bitmap[j],
         RoomOK(t, 0, shift),
         NEW e, e = Relinked(s.desc, 0, shift),
         Marked(e, t.desc, 0), \A j \in Nodes : j # 0 => Alike(e, t.desc, j)
  PROVE  Sound(t) /\ Keeps(s.desc, t.desc) /\ t.desc[0].next # Null
  <1> DEFINE d == s.desc
             slot == SlotNode(shift)
             second == d[slot].next
  <1>1. d \in Descs /\ SlotsOK(s)
    BY StateIs DEF Sound, PagesOK
  <1>2. shift \in Classes
    BY Numbers
  <1>3. slot \in Nodes /\ slot # Null /\ slot \notin PageNodes /\ 0 \in PageNodes /\ slot # 0
    BY <1>2, ClassFacts, Bounds
  <1>4. HeadOK(d, shift)
    BY <1>1, <1>2 DEF SlotsOK, ClassOK
  <1>5. second \in Nodes /\ second # 0
    <2>1. CASE second = slot
      BY <1>3, <2>1
    <2>2. CASE second # slot
      <3>1. InClass(d, second, shift) /\ d[second].next # Null
        BY <1>4, <2>2 DEF HeadOK
      <3> QED
        BY <3>1, Bounds DEF InClass
    <2> QED
      BY <2>1, <2>2
  <1>6. /\ e[0].next = second /\ e[0].prev = slot /\ e[0].type = d[0].type /\ SameRest(d, e, 0)
        /\ \A j \in Nodes : j # 0 =>
             /\ SameRest(d, e, j)
             /\ e[j].next = (IF j = slot THEN 0 ELSE d[j].next)
             /\ e[j].prev = (IF j = second THEN 0 ELSE d[j].prev)
             /\ e[j].type = (IF j = second THEN d[0].type ELSE d[j].type)
    BY <1>1, <1>2, <1>5, RelinkedFields
  <1> HIDE DEF d, slot, second
  <1>7. /\ t.desc[0].next = second /\ t.desc[0].prev = slot /\ t.desc[0].type = d[0].type
        /\ t.desc[0].n = d[0].n /\ t.desc[0].flag = d[0].flag
    BY <1>6 DEF Marked, SameRest
  <1>8. \A j \in Nodes : j # 0 =>
           /\ SameRest(d, t.desc, j)
           /\ t.desc[j].next = (IF j = slot THEN 0 ELSE d[j].next)
           /\ t.desc[j].prev = (IF j = second THEN 0 ELSE d[j].prev)
           /\ t.desc[j].type = (IF j = second THEN d[0].type ELSE d[j].type)
    BY <1>6 DEF Alike, SameRest
  <1>9. t.desc[0].next # Null
    BY <1>5, <1>7, Bounds
  <1> QED
    BY <1>7, <1>8, <1>9, RelinkSound DEF d, slot, second

\* The class of a page can be read from its type and its number.
LEMMA ClassNumber ==
  ASSUME NEW d, NEW k, NEW shift \in Classes, InClass(d, k, shift)
  PROVE  /\ d[k].type = "small" <=> shift \in {3, 4}
         /\ d[k].type = "small" => d[k].n = shift
         /\ d[k].type = "exact" <=> shift = 5
         /\ d[k].type = "big" <=> shift \in {6, 7, 8, 9, 10}
         /\ d[k].type = "big" => d[k].n = shift
  <1>1. shift \in Int /\ 3 <= shift /\ shift <= 10 /\ ExactShift = 5
    BY ClassFacts DEF ExactShift
  <1> QED
    BY <1>1 DEF InClass, TypeOf, Number

\* A small page is never given back: the bit behind its own is never cleared.
LEMMA FreeSmallSound ==
  ASSUME NEW s, Sound(s), s.desc[0].type = "small"
  PROVE  Returned(s, FreeSmall(s))
  <1> DEFINE d == s.desc
             left == s.bitmap[0] \ {0}
             b == [s.bitmap EXCEPT ![0] = left]
             n == d[0].n
             e == IF d[0].next = Null THEN Relinked(d, 0, n) ELSE d
             back == State(e, b, s.pfree)
  <1>1. /\ s = State(d, s.bitmap, s.pfree) /\ d \in Descs /\ s.bitmap \in [PageNodes -> SUBSET Nat]
    BY StateIs DEF Sound, PagesOK
  <1>2. PICK shift \in Classes : InClass(d, 0, shift) /\ RoomOK(s, 0, shift) /\ ClassOK(s, shift)
    BY ZeroClass
  <1>3. shift \in {3, 4} /\ n = shift
    BY <1>2, ClassNumber
  <1>4. 0 \in PageNodes /\ 0 \in Nodes
    BY Bounds
  <1>5. IsFiniteSet(d[0].bits)
    BY <1>1, <1>4, BitsFinite
  <1>6. CASE 0 \notin s.bitmap[0]
    <2>1. FreeSmall(s) = s
      BY <1>6 DEF FreeSmall
    <2> QED
      BY <1>5, <2>1, ReturnedNot
  <1>7. CASE 0 \in s.bitmap[0]
    <2>1. b \in [PageNodes -> SUBSET Nat] /\ b[0] = left /\ \A j \in PageNodes : j # 0 => b[j] = s.bitmap[j]
      BY <1>1, <1>4
    <2>2. FreeSmall(s) = IF \E x \in left : x >= Own(n) THEN back ELSE FreePages(back, 0, 1)
      <3> DEFINE g == [s EXCEPT !.desc = IF @[0].next = Null THEN Relinked(@, 0, n) ELSE @,
                                !.bitmap[0] = left]
                 bb == s.bitmap
                 cc == s.pfree
                 lt == left
      <3>1. FreeSmall(s) = IF \E x \in left : x >= Own(n) THEN g ELSE FreePages(g, 0, 1)
        BY <1>7 DEF FreeSmall, Own
      <3>2. g = back
        <4>1. s = [desc |-> d, bitmap |-> bb, pfree |-> cc]
          BY <1>1 DEF State
        <4>2. g = [s EXCEPT !.desc = e, !.bitmap = b]
          OBVIOUS
        <4> HIDE DEF d, bb, cc, e, b, g
        <4>3. g = [desc |-> e, bitmap |-> b, pfree |-> cc]
          BY <4>1, <4>2
        <4> QED
          BY <4>3 DEF State, cc
      <3> HIDE DEF g, back
      <3> QED
        BY <3>1, <3>2
    <2>3. SmallBits(shift) \in {0 .. 511, 0 .. 255} /\ Own(shift) \in {8, 2}
      <3>1. SmallBits(3) = 0 .. 511 /\ Own(3) = 8 /\ SmallBits(4) = 0 .. 255 /\ Own(4) = 2
        BY BitNumbers DEF Own
      <3>2. shift = 3 \/ shift = 4
        BY <1>3
      <3> HIDE DEF d, left, b, n, e, back
      <3> QED
        BY <3>1, <3>2
    <2>4. ~(SmallBits(shift) \subseteq b[0])
      <3>1. 0 \in SmallBits(shift) /\ 0 \notin left
        BY <2>3
      <3> QED
        BY <2>1, <3>1
    <2>5. e \in Descs /\ (d[0].next # Null => e = d) /\ (d[0].next = Null => e = Relinked(d, 0, shift))
      <3>1. CASE d[0].next # Null
        BY <1>1, <3>1
      <3>2. CASE d[0].next = Null
        <4>1. d[SlotNode(shift)].next \in Nodes \ {0}
          <5>1. HeadOK(d, shift) /\ SlotNode(shift) \in Nodes /\ SlotNode(shift) # 0
            BY <1>2, <1>4, ClassFacts DEF ClassOK
          <5>2. CASE d[SlotNode(shift)].next = SlotNode(shift)
            BY <5>1, <5>2
          <5>3. CASE d[SlotNode(shift)].next # SlotNode(shift)
            BY <3>2, <5>1, <5>3, Bounds DEF HeadOK, InClass
          <5> QED
            BY <5>2, <5>3
        <4> QED
          BY <1>1, <1>3, <3>2, <4>1, RelinkedFields
      <3> QED
        BY <3>1, <3>2
    <2> HIDE DEF e, b, left
    <2>6. Typed(back) /\ back.desc = e /\ back.bitmap = b /\ back.pfree = s.pfree
      BY <2>1, <2>5, TypedState
    <2> HIDE DEF back
    <2>7. RoomOK(back, 0, shift)
      BY <1>3, <2>4, <2>6 DEF RoomOK, ExactShift
    <2>8. Sound(back) /\ Keeps(d, e) /\ e[0].next # Null
      <3>1. CASE d[0].next # Null
        <4>1. Marked(d, e, 0) /\ \A j \in Nodes : j # 0 => Alike(d, e, j)
          BY <2>5, <3>1 DEF Marked, Alike, SameRest
        <4> QED
          BY <1>2, <1>4, <2>1, <2>5, <2>6, <2>7, <3>1, <4>1, MarkSound
      <3>2. CASE d[0].next = Null
        <4>1. Marked(e, back.desc, 0) /\ \A j \in Nodes : j # 0 => Alike(e, back.desc, j)
          BY <2>6 DEF Marked, Alike, SameRest
        <4>2. shift \in {3, 4, 7}
          BY <1>3
        <4>3. Sound(back) /\ Keeps(s.desc, back.desc) /\ back.desc[0].next # Null
          BY <1>2, <2>1, <2>5, <2>6, <2>7, <3>2, <4>1, <4>2, BackSound
        <4> QED
          BY <2>6, <4>3
      <3> QED
        BY <3>1, <3>2
    <2>9. CASE \E x \in left : x >= Own(n)
      <3>1. ASSUME NEW m \in Nat \ {0}, Bound(s, m)
            PROVE  Bound(back, m - 1)
        <4>1. InClass(e, 0, shift)
          BY <1>2, <1>4, <2>8 DEF Keeps
        <4>2. e[0].type = "small" /\ e[0].n = shift
          BY <1>3, <4>1, ClassNumber
        <4>3. Own(shift) \in b[0]
          BY <1>3, <2>1, <2>3, <3>1 DEF Bound, left
        <4> QED
          BY <2>6, <4>2, <4>3 DEF Bound, StartPages
      <3> QED
        BY <2>2, <2>6, <2>8, <2>9, <3>1, ReturnedBack
    <2>10. CASE ~(\E x \in left : x >= Own(n))
      <3>1. ASSUME NEW m \in Nat \ {0}, Bound(s, m)
            PROVE  FALSE
        <4>1. Own(n) \in left /\ Own(n) >= Own(n)
          BY <1>3, <2>3, <3>1 DEF Bound, left
        <4> QED
          BY <2>10, <4>1
      <3>2. InClass(e, 0, shift)
        BY <1>2, <1>4, <2>8 DEF Keeps
      <3>3. Freeable(back, 1)
        BY <2>6, <2>8, <3>2 DEF Freeable
      <3> QED
        BY <2>2, <2>6, <2>8, <2>10, <3>1, <3>3, ReturnedFreed
    <2> QED
      BY <2>9, <2>10
  <1> QED
    BY <1>6, <1>7

\* The last chunk of an exact page, or of a big page, gives the page back.
LEMMA FreeInWordSound ==
  ASSUME NEW s, Sound(s), NEW shift \in Classes, InClass(s.desc, 0, shift),
         s.desc[0].type \in {"exact", "big"}, NEW removed \in BOOLEAN,
         removed <=> shift = 7 /\ s.desc[0].next = Null
  PROVE  Returned(s, FreeInWord(s, shift, removed))
  <1> DEFINE d == s.desc
             left == d[0].bits \ {0}
             e == IF removed THEN Relinked(d, 0, shift) ELSE d
             x == PutBits(e, 0, left)
             back == State(x, s.bitmap, s.pfree)
  <1>1. /\ s = State(d, s.bitmap, s.pfree) /\ d \in Descs /\ s.bitmap \in [PageNodes -> SUBSET Nat]
    BY StateIs DEF Sound, PagesOK
  <1>2. ClassOK(s, shift) /\ 0 \in PageNodes /\ 0 \in Nodes
    BY Bounds DEF Sound, SlotsOK
  <1>3. RoomOK(s, 0, shift) /\ shift \notin {3, 4} /\ shift \in Int /\ ExactShift = 5
    BY <1>2, ClassNumber, ClassFacts DEF ClassOK, ExactShift
  <1>4. IsFiniteSet(d[0].bits) /\ d[0].bits \in SUBSET (0 .. WordBits - 1)
    BY <1>1, <1>2, BitsFinite, Fields
  <1>5. CASE 0 \notin d[0].bits
    <2>1. FreeInWord(s, shift, removed) = s
      BY <1>5 DEF FreeInWord
    <2> QED
      BY <1>4, <2>1, ReturnedNot
  <1>6. CASE 0 \in d[0].bits
    <2>1. FreeInWord(s, shift, removed) = IF left # {} THEN back ELSE FreePages(back, 0, 1)
      <3> DEFINE g == [s EXCEPT !.desc = [e EXCEPT ![0].bits = left]]
      <3>1. FreeInWord(s, shift, removed) = IF left # {} THEN g ELSE FreePages(g, 0, 1)
        BY <1>6 DEF FreeInWord
      <3>2. g = WithDesc(s, x)
        BY DEF WithDesc, PutBits
      <3>3. WithDesc(s, x) = back
        BY <1>1, OneSet
      <3> HIDE DEF g, back
      <3> QED
        BY <3>1, <3>2, <3>3
    <2>2. e \in Descs /\ (~removed => e = d) /\ (removed => e = Relinked(d, 0, shift))
      <3>1. CASE ~removed
        BY <1>1, <3>1
      <3>2. CASE removed
        <4>1. d[SlotNode(shift)].next \in Nodes \ {0}
          <5>1. HeadOK(d, shift) /\ SlotNode(shift) \in Nodes /\ SlotNode(shift) # 0
            BY <1>2, ClassFacts DEF ClassOK
          <5>2. CASE d[SlotNode(shift)].next = SlotNode(shift)
            BY <5>1, <5>2
          <5>3. CASE d[SlotNode(shift)].next # SlotNode(shift)
            BY <3>2, <5>1, <5>3, Bounds DEF HeadOK, InClass
          <5> QED
            BY <5>2, <5>3
        <4> QED
          BY <1>1, <3>2, <4>1, RelinkedFields
      <3> QED
        BY <3>1, <3>2
    <2>3. left \in SUBSET (0 .. WordBits - 1)
      BY <1>4
    <2> HIDE DEF e, left
    <2>4. /\ x \in Descs /\ x[0].bits = left /\ Marked(e, x, 0)
          /\ \A j \in Nodes : j # 0 => Alike(e, x, j)
      BY <1>2, <2>2, <2>3, PutBitsIs
    <2> HIDE DEF x
    <2>5. Typed(back) /\ back.desc = x /\ back.bitmap = s.bitmap /\ back.pfree = s.pfree
      BY <1>1, <2>4, TypedState
    <2> HIDE DEF back
    <2>6. ~removed => x[0].next = d[0].next /\ x[0].prev = d[0].prev
      BY <2>2, <2>4 DEF Marked
    <2>7. RoomOK(back, 0, shift)
      <3>1. shift = 7 => left \subseteq {0, 1} /\ left # {0, 1}
        BY <1>3 DEF RoomOK, left
      <3>2. shift = 5 => left \subseteq {0}
        BY <1>3 DEF RoomOK, left
      <3>3. shift \notin {3, 4, 7} => x[0].next = SlotNode(shift) /\ x[0].prev = SlotNode(shift)
        BY <1>3, <2>6 DEF RoomOK
      <3> QED
        BY <1>3, <2>4, <2>5, <3>1, <3>2, <3>3 DEF RoomOK
    <2>8. Sound(back) /\ Keeps(d, x) /\ x[0].next # Null
      <3>1. CASE ~removed
        <4>1. Marked(d, x, 0) /\ \A j \in Nodes : j # 0 => Alike(d, x, j)
          BY <2>2, <2>4, <3>1
        <4>2. x[0].next # Null
          <5>1. shift # 7 => x[0].next = SlotNode(shift)
            BY <1>3, <2>6, <3>1 DEF RoomOK
          <5> QED
            BY <2>6, <3>1, <5>1, ClassFacts
        <4>3. Sound(back) /\ Keeps(s.desc, back.desc)
          BY <1>2, <2>5, <2>7, <4>1, MarkSound
        <4> QED
          BY <2>5, <4>2, <4>3
      <3>2. CASE removed
        <4>1. shift \in {3, 4, 7} /\ d[0].next = Null
          BY <3>2
        <4>2. Sound(back) /\ Keeps(s.desc, back.desc) /\ back.desc[0].next # Null
          BY <2>2, <2>4, <2>5, <2>7, <3>2, <4>1, BackSound
        <4> QED
          BY <2>5, <4>2
      <3> QED
        BY <3>1, <3>2
    <2>9. InClass(x, 0, shift)
      BY <1>2, <2>8 DEF Keeps
    <2>10. Cardinality(left) = Cardinality(d[0].bits) - 1 /\ Cardinality(d[0].bits) \in Nat
      BY <1>4, <1>6, FS_RemoveElement, FS_CardinalityType DEF left
    <2>11. CASE left # {}
      <3>1. ASSUME NEW m \in Nat \ {0}, Bound(s, m)
            PROVE  Bound(back, m - 1)
        <4>1. m <= Cardinality(d[0].bits)
          BY <3>1 DEF Bound
        <4>2. m - 1 <= Cardinality(x[0].bits)
          BY <2>4, <2>10, <4>1
        <4>3. x[0].type # "small" /\ x[0].type # "page"
          BY <1>3, <2>9, ClassNumber DEF InClass, TypeOf
        <4> QED
          BY <2>5, <4>2, <4>3 DEF Bound, StartPages
      <3> QED
        BY <2>1, <2>5, <2>8, <2>11, <3>1, ReturnedBack
    <2>12. CASE left = {}
      <3>1. ASSUME NEW m \in Nat \ {0}, Bound(s, m)
            PROVE  m = 1
        <4>1. m <= Cardinality(d[0].bits)
          BY <3>1 DEF Bound
        <4>2. Cardinality(left) = 0
          BY <2>12, FS_EmptySet
        <4> QED
          BY <2>10, <4>1, <4>2
      <3>2. Freeable(back, 1)
        BY <2>5, <2>8, <2>9 DEF Freeable
      <3> QED
        BY <2>1, <2>5, <2>8, <2>12, <3>1, <3>2, ReturnedFreed
    <2> QED
      BY <2>11, <2>12
  <1> QED
    BY <1>5, <1>6

\* hcore_slab_free_locked, of an address in page 0.
LEMMA FreeLockedSound ==
  ASSUME NEW s, Sound(s), NEW at
  PROVE  Returned(s, FreeLocked(s, at))
  <1> DEFINE d == s.desc
             got == FreeLocked(s, at)
  <1>1. d \in Descs /\ 0 \in Nodes /\ 0 \in PageNodes
    BY StateIs, Bounds DEF Sound, PagesOK
  <1>2. IsFiniteSet(d[0].bits) /\ d[0].type \in {"page", "big", "exact", "small"}
    BY <1>1, BitsFinite, Fields DEF Types
  <1>3. CASE at.off > 0
    BY <1>2, <1>3, ReturnedNot DEF FreeLocked
  <1>4. CASE ~(at.off > 0) /\ d[0].type = "small"
    <2>1. got = FreeSmall(s)
      BY <1>4 DEF FreeLocked
    <2> QED
      BY <1>4, <2>1, FreeSmallSound
  <1>5. CASE ~(at.off > 0) /\ d[0].type \in {"exact", "big"}
    <2>1. PICK shift \in Classes : InClass(d, 0, shift) /\ RoomOK(s, 0, shift)
      BY <1>5, ZeroClass
    <2>2. CASE d[0].type = "exact"
      <3>1. shift = 5 /\ ExactShift = 5
        BY <2>1, <2>2, ClassNumber DEF ExactShift
      <3>2. d[0].bits # 0 .. WordBits - 1
        BY <2>1, <3>1 DEF RoomOK, WordBits
      <3> DEFINE removed == d[0].bits = 0 .. WordBits - 1
      <3>3. got = FreeInWord(s, 5, removed)
        BY <1>5, <2>2, <3>1 DEF FreeLocked
      <3>4. removed \in BOOLEAN /\ (removed <=> shift = 7 /\ d[0].next = Null)
        BY <3>1, <3>2
      <3> HIDE DEF removed, got
      <3> QED
        BY <2>1, <2>2, <3>1, <3>3, <3>4, FreeInWordSound DEF got
    <2>3. CASE d[0].type = "big"
      <3>1. d[0].n = shift /\ shift \in {6, 7, 8, 9, 10}
        BY <2>1, <2>3, ClassNumber
      <3>2. d[0].next = Null => shift = 7
        BY <2>1, <3>1, ClassFacts DEF RoomOK
      <3> DEFINE removed == d[0].next = Null
      <3>3. got = FreeInWord(s, shift, removed)
        BY <1>5, <2>3, <3>1 DEF FreeLocked
      <3>4. removed \in BOOLEAN /\ (removed <=> shift = 7 /\ d[0].next = Null)
        BY <3>2
      <3> HIDE DEF removed, got
      <3> QED
        BY <2>1, <2>3, <3>3, <3>4, FreeInWordSound DEF got
    <2> QED
      BY <1>5, <2>2, <2>3
  <1>6. CASE ~(at.off > 0) /\ d[0].type = "page"
    <2>1. got = IF d[0].flag = "start" THEN FreePages(s, 0, d[0].n) ELSE s
      BY <1>6 DEF FreeLocked
    <2>2. CASE d[0].flag = "start"
      <3>1. 0 \in StartPages(d)
        BY <1>1, <1>6, <2>2 DEF StartPages
      <3>2. Freeable(s, d[0].n)
        BY <3>1 DEF Freeable
      <3>3. \A m \in Nat \ {0} : Bound(s, m) => m = 1
        BY <3>1 DEF Bound
      <3> QED
        BY <2>1, <2>2, <3>2, <3>3, KeepsSelf, ReturnedFreed
    <2>3. CASE d[0].flag # "start"
      BY <1>2, <2>1, <2>3, ReturnedNot
    <2> QED
      BY <2>2, <2>3
  <1> QED
    BY <1>2, <1>3, <1>4, <1>5, <1>6
-----------------------------------------------------------------------------
(* The pool is sound in every state.                                        *)

\* hcore_slab_init leaves one free run of all pages and empty slots.
LEMMA InitFields ==
  ASSUME Init
  PROVE  /\ desc \in Descs
         /\ desc[FreeHead].next = 0
         /\ \A k \in SlotNodes : desc[k].next = k
         /\ desc[0].n = Pages /\ desc[0].next = FreeHead /\ desc[0].prev = FreeHead
         /\ desc[0].type = "page" /\ desc[0].flag = "none"
         /\ \A k \in PageNodes : k # 0 => desc[k] = Blank
  <1>1. desc = [k \in Nodes |->
                 CASE k = FreeHead -> [Blank EXCEPT !.next = 0]
                   [] k \in SlotNodes -> [Blank EXCEPT !.next = k]
                   [] k = 0 -> [Blank EXCEPT !.n = Pages, !.next = FreeHead, !.prev = FreeHead]
                   [] OTHER -> Blank]
    BY DEF Init
  <1>2. /\ 0 \in Nodes /\ 0 \in PageNodes /\ FreeHead \in Nodes /\ FreeHead # 0 /\ 0 \notin SlotNodes
        /\ \A k \in PageNodes : k \in Nodes /\ k \notin SlotNodes /\ k # FreeHead
        /\ \A k \in SlotNodes : k \in Nodes /\ k # FreeHead
    BY Bounds, SlotBounds
  <1> DEFINE first == WithN(WithNext(WithPrev(Blank, FreeHead), FreeHead), Pages)
  <1>3. first = [Blank EXCEPT !.n = Pages, !.next = FreeHead, !.prev = FreeHead]
    BY DEF WithN, WithNext, WithPrev, Blank
  <1>4. /\ first \in Descriptor /\ first.n = Pages /\ first.next = FreeHead /\ first.prev = FreeHead
        /\ first.type = "page" /\ first.flag = "none"
    <2> DEFINE r1 == WithPrev(Blank, FreeHead)
               r2 == WithNext(r1, FreeHead)
    <2>1. FreeHead \in Nodes \union {Null} /\ Pages \in 0 .. Pages
      BY <1>2, Bounds
    <2>2. r1 \in Descriptor /\ r1.prev = FreeHead /\ r1.type = "page" /\ r1.flag = "none"
      BY <2>1, BlankIs, WithPrevIs
    <2> HIDE DEF r1
    <2>3. /\ r2 \in Descriptor /\ r2.next = FreeHead /\ r2.prev = FreeHead
          /\ r2.type = "page" /\ r2.flag = "none"
      BY <2>1, <2>2, WithNextIs
    <2> HIDE DEF r2
    <2>4. WithN(r2, Pages) \in Descriptor /\ WithN(r2, Pages).n = Pages
          /\ WithN(r2, Pages).next = r2.next /\ WithN(r2, Pages).prev = r2.prev
          /\ WithN(r2, Pages).type = r2.type /\ WithN(r2, Pages).flag = r2.flag
      BY <2>1, <2>3, WithNIs
    <2> QED
      BY <2>3, <2>4 DEF r1, r2
  <1> HIDE DEF first
  <1>5. desc[FreeHead] = WithNext(Blank, 0)
    BY <1>1, <1>2 DEF WithNext
  <1>6. \A k \in SlotNodes : desc[k] = WithNext(Blank, k)
    BY <1>1, <1>2 DEF WithNext
  <1>7. desc[0] = first
    BY <1>1, <1>2, <1>3
  <1>8. \A k \in PageNodes : k # 0 => desc[k] = Blank
    BY <1>1, <1>2
  <1>9. \A k \in Nodes : WithNext(Blank, k) \in Descriptor /\ WithNext(Blank, k).next = k
    BY BlankIs, WithNextIs
  <1>10. desc \in Descs
    <2>1. Nodes = PageNodes \union SlotNodes \union {FreeHead}
      BY DEF Nodes
    <2>2. \A k \in Nodes : desc[k] \in Descriptor
      BY <1>2, <1>4, <1>5, <1>6, <1>7, <1>8, <1>9, <2>1, BlankIs
    <2>3. desc = [k \in Nodes |-> desc[k]]
      BY <1>1
    <2> QED
      BY <2>2, <2>3 DEF Descs
  <1> QED
    BY <1>2, <1>4, <1>5, <1>6, <1>7, <1>8, <1>9, <1>10

\* hcore_slab_init leaves a sound pool.
LEMMA InitSound == Init => Sound(Now)
  <1> SUFFICES ASSUME Init PROVE Sound(Now)
    OBVIOUS
  <1>1. /\ desc \in Descs
        /\ desc[FreeHead].next = 0
        /\ \A k \in SlotNodes : desc[k].next = k
        /\ desc[0].n = Pages /\ desc[0].next = FreeHead /\ desc[0].prev = FreeHead
        /\ desc[0].type = "page" /\ desc[0].flag = "none"
        /\ \A k \in PageNodes : k # 0 => desc[k] = Blank
    BY InitFields
  <1>2. bitmap = [k \in PageNodes |-> {}] /\ pfree = Pages
    BY DEF Init
  <1>3. Now.desc = desc /\ Now.bitmap = bitmap /\ Now.pfree = pfree
    BY DEF Now
  <1>4. /\ 0 \in PageNodes /\ FreeHead \notin PageNodes /\ FreeHead # Null /\ Pages \in Int /\ 1 <= Pages
        /\ FreeHead < 0
    BY Numbers, Bounds
  <1>5. Typed(Now)
    <2>1. bitmap \in [PageNodes -> SUBSET Nat]
      BY <1>2
    <2> QED
      BY <1>1, <1>3, <2>1 DEF Typed, Descs, Now
  <1>6. /\ FreeStarts(desc) = {0} /\ StartPages(desc) = {} /\ SlabPages(desc) = {}
    BY <1>1, <1>4, BlankIs DEF FreeStarts, StartPages, SlabPages
  <1>7. Layout(desc)
    <2>1. Heads(desc) = {0} /\ Extent(desc, 0) = Pages
      BY <1>1, <1>6 DEF Heads, Extent
    <2> QED
      BY <1>1, <1>4, <1>6, <2>1 DEF Layout
  <1>8. Linked(desc)
    BY <1>1, <1>4, <1>6 DEF Linked
  <1>9. Counted(Now)
    <2>1. TakenPages(desc) = {}
      BY <1>6 DEF TakenPages
    <2> QED
      BY <1>2, <1>3, <1>4, <2>1, FS_EmptySet DEF Counted
  <1>10. SlotsOK(Now)
    <2>1. ASSUME NEW shift \in Classes
          PROVE  ClassOK(Now, shift)
      <3>1. \A k : ~InClass(desc, k, shift)
        BY <1>6, InClassIsSlab
      <3>2. desc[SlotNode(shift)].next = SlotNode(shift)
        BY <1>1, ClassFacts
      <3> QED
        BY <1>3, <3>1, <3>2 DEF ClassOK, HeadOK, ZeroOK
    <2> QED
      BY <1>3, <1>6, <2>1 DEF SlotsOK
  <1> QED
    BY <1>3, <1>5, <1>7, <1>8, <1>9, <1>10 DEF Sound, PagesOK

\* The memzero of hcore_shpool_calloc only clears bits.
LEMMA ClearSound ==
  ASSUME NEW s, NEW t, Sound(s), Typed(t), t.desc = s.desc, t.pfree = s.pfree,
         \A j \in PageNodes : t.bitmap[j] \subseteq s.bitmap[j]
  PROVE  Sound(t)
  <1>1. PagesOK(t)
    BY DEF Sound, PagesOK, Counted
  <1>2. ASSUME NEW shift \in Classes
        PROVE  ClassOK(t, shift)
    <2>1. ClassOK(s, shift)
      BY DEF Sound, SlotsOK
    <2>2. ASSUME NEW k \in PageNodes, RoomOK(s, k, shift)
          PROVE  RoomOK(t, k, shift)
      <3>1. t.bitmap[k] \subseteq s.bitmap[k]
        OBVIOUS
      <3>2. ~ SmallBits(shift) \subseteq s.bitmap[k] => ~ SmallBits(shift) \subseteq t.bitmap[k]
        BY <3>1
      <3> QED
        BY <2>2, <3>2 DEF RoomOK
    <2> QED
      BY <2>1, <2>2 DEF ClassOK
  <1>3. SlotsOK(t)
    BY <1>2 DEF Sound, SlotsOK
  <1> QED
    BY <1>1, <1>3 DEF Sound

\* The state that a call computed is the state of the pool.
LEMMA BecomeIs ==
  ASSUME NEW s, Typed(s), Become(s)
  PROVE  Now' = s
  BY DEF Become, Now, Typed

\* Every step keeps the pool sound: requests, frees, the clearing of a chunk by
\* hcore_shpool_calloc, and the death of a process in the section.
LEMMA NextSound == Sound(Now) /\ [Next]_vars => Sound(Now)'
  <1> SUFFICES ASSUME Sound(Now), [Next]_vars PROVE Sound(Now')
    BY DEF Sound, PagesOK, SlotsOK, Typed, Counted, ClassOK, RoomOK
  <1>1. CASE UNCHANGED slabVars
    <2>1. Now' = Now
      BY <1>1 DEF slabVars, Now
    <2> QED
      BY <2>1
  <1>2. ASSUME NEW p \in Procs, NEW size \in Sizes, NEW zero \in BOOLEAN, Alloc(p, size, zero)
        PROVE  Sound(Now')
    <2>1. size \in Nat
      BY PoolAssumption
    <2> DEFINE got == AllocLocked(Now, size)
    <2>2. Sound(got.s)
      BY <2>1, AllocSound DEF Offered
    <2>3. Become(got.s)
      BY <1>2 DEF Alloc
    <2> HIDE DEF got
    <2> QED
      BY <2>2, <2>3, BecomeIs DEF Sound, PagesOK
  <1>3. ASSUME NEW p \in Procs, NEW a \in live, Free(p, a)
        PROVE  Sound(Now')
    <2>1. CASE FreeFaults(a)
      BY <1>1, <1>3, <2>1 DEF Free
    <2>2. CASE ~FreeFaults(a)
      <3>1. Become(FreeLocked(Now, a))
        BY <1>3, <2>2 DEF Free
      <3>2. Sound(FreeLocked(Now, a))
        BY FreeLockedSound DEF Returned
      <3> QED
        BY <3>1, <3>2, BecomeIs DEF Sound, PagesOK
    <2> QED
      BY <2>1, <2>2
  <1>4. ASSUME NEW p \in Procs, Clear(p)
        PROVE  Sound(Now')
    <2>1. PICK a \in clear[p] :
            bitmap' = IF desc[a.page].type = "small"
                      THEN [bitmap EXCEPT ![a.page] = @ \ (8 * a.off .. 8 * (a.off + a.size) - 1)]
                      ELSE bitmap
      BY <1>4 DEF Clear
    <2>2. desc' = desc /\ pfree' = pfree
      BY <1>4 DEF Clear
    <2>3. bitmap \in [PageNodes -> SUBSET Nat]
      BY StateIs DEF Sound, PagesOK, Now
    <2>4. bitmap' \in [PageNodes -> SUBSET Nat] /\ \A j \in PageNodes : bitmap'[j] \subseteq bitmap[j]
      <3> DEFINE gone == 8 * a.off .. 8 * (a.off + a.size) - 1
      <3>1. bitmap' = bitmap \/ bitmap' = [bitmap EXCEPT ![a.page] = bitmap[a.page] \ gone]
        BY <2>1
      <3> HIDE DEF gone
      <3> QED
        BY <2>3, <3>1
    <2>5. Now'.desc = Now.desc /\ Now'.pfree = Now.pfree /\ Now'.bitmap = bitmap' /\ Now.bitmap = bitmap
      BY <2>2 DEF Now
    <2>6. Now' = [desc |-> Now'.desc, bitmap |-> Now'.bitmap, pfree |-> Now'.pfree]
      BY DEF Now
    <2>7. Typed(Now')
      BY <2>4, <2>5, <2>6 DEF Sound, PagesOK, Typed
    <2> HIDE DEF Now
    <2> QED
      BY <2>4, <2>5, <2>7, ClearSound
  <1>5. ASSUME NEW p \in Procs, Lock(p) \/ Unlock(p) \/ Die(p) \/ Revoke(p)
        PROVE  UNCHANGED slabVars
    BY <1>5 DEF Lock, Unlock, Die, Revoke
  <1>6. CASE UNCHANGED vars
    BY <1>1, <1>6 DEF vars, slabVars
  <1>7. CASE Next
    <2>1. PICK p \in Procs : Lock(p) \/ Work(p) \/ Unlock(p) \/ Clear(p) \/ Die(p) \/ Revoke(p)
      BY <1>7 DEF Next
    <2>2. CASE Work(p)
      BY <1>2, <1>3, <2>2, PoolAssumption DEF Work
    <2> QED
      BY <1>1, <1>4, <1>5, <2>1, <2>2
  <1> QED
    BY <1>6, <1>7

\* The state of the pool is sound, through all requests and frees.
THEOREM AlwaysSound == Spec => []Sound(Now)
  BY InitSound, NextSound, PTL DEF Spec
-----------------------------------------------------------------------------
(* What the runs check follows from soundness.                              *)

\* A sound pool has a sound free list.
LEMMA FreeListSound == Sound(Now) => FreePagesSound
  <1> SUFFICES ASSUME Sound(Now) PROVE FreePagesSound
    OBVIOUS
  <1>1. /\ Layout(desc) /\ Linked(desc) /\ desc \in Descs
        /\ pfree = Pages - Cardinality(TakenPages(desc))
    BY DEF Sound, PagesOK, Typed, Counted, Now, Descs
  <1> DEFINE free == FreeRuns(desc)
             given == TakenPages(desc)
  <1>2. free \subseteq FreeStarts(desc) /\ FreeRun(desc)[Pages] = FreeHead
    BY <1>1, FreeWalk DEF FreeRuns
  <1> HIDE DEF free
  <1>3. \A k \in free \union {FreeHead} : desc[k].next # FreeHead => desc[desc[k].next].prev = k
    BY <1>1, <1>2 DEF Linked
  <1>4. ASSUME NEW k \in free
        PROVE  /\ desc[desc[k].prev].next = k
               /\ desc[k].type = "page" /\ desc[k].flag = "none"
               /\ Run(desc, k) \union {k} \subseteq PageNodes \ given
    <2>1. k \in FreeStarts(desc)
      BY <1>2
    <2>2. /\ k \in PageNodes /\ desc[k].type = "page" /\ desc[k].flag = "none"
          /\ k + desc[k].n <= Pages /\ desc[desc[k].prev].next = k
      BY <1>1, <2>1, RunFacts
    <2>3. desc[k].n \in 0 .. 11 /\ k \in Int /\ 0 <= k /\ Pages \in Int
      BY <1>1, <2>2, Fields, Bounds
    <2>4. \A t \in Run(desc, k) : t \in Int /\ 0 <= t /\ t < Pages
      BY <2>2, <2>3 DEF Run
    <2>5. \A t \in Run(desc, k) \union {k} : t \in PageNodes
      BY <2>2, <2>4, Bounds
    <2>6. \A t \in Run(desc, k) \union {k} : t \notin given
      BY <1>1, <2>1, FreeNotTaken
    <2> HIDE DEF given
    <2> QED
      BY <2>2, <2>5, <2>6
  <1>5. ASSUME NEW j \in free, NEW k \in free, j # k
        PROVE  k \notin Run(desc, j)
    <2>1. j \in Heads(desc) /\ k \in Heads(desc) /\ Extent(desc, j) = desc[j].n
      BY <1>2 DEF Heads, Extent, FreeStarts
    <2>2. j \in Int /\ k \in Int /\ desc[j].n \in 0 .. 11
      BY <1>1, <1>2, Fields, Bounds DEF FreeStarts
    <2>3. j < k => j + desc[j].n <= k
      <3>1. \A a, b \in Heads(desc) : a < b => a + Extent(desc, a) <= b
        BY <1>1 DEF Layout
      <3> QED
        BY <2>1, <3>1
    <2> QED
      BY <1>5, <2>2, <2>3 DEF Run
  <1> QED
    BY <1>1, <1>2, <1>3, <1>4, <1>5 DEF FreePagesSound, free

\* A page of a class that its slot leads to: the list of the slot is the page
\* alone, or page 0 in front of another one.
LEMMA SlotList ==
  ASSUME NEW s, Sound(s), NEW shift \in Classes,
         LET d == s.desc IN d[SlotNode(shift)].next # SlotNode(shift)
  PROVE  LET d == s.desc
             slot == SlotNode(shift)
             k == d[slot].next
             q == d[k].next
         IN /\ InClass(d, k, shift) /\ d[d[k].prev].next = k
            /\ q # slot => /\ k = 0 /\ InClass(d, q, shift) /\ q # 0
                           /\ d[d[q].prev].next = q /\ d[q].next = slot
  <1> DEFINE d == s.desc
             slot == SlotNode(shift)
             k == d[slot].next
             q == d[k].next
  <1>1. HeadOK(d, shift) /\ ZeroOK(d, shift)
        /\ \A j \in PageNodes : InClass(d, j, shift) => (j # 0 => d[j].next \in {slot, Null})
    BY DEF Sound, SlotsOK, ClassOK
  <1>2. InClass(d, k, shift) /\ d[k].prev = slot /\ d[k].next # Null
    BY <1>1 DEF HeadOK
  <1>3. k \in PageNodes
    BY <1>2 DEF InClass
  <1>4. d[d[k].prev].next = k
    BY <1>2
  <1>5. q # slot => k = 0
    BY <1>1, <1>2, <1>3
  <1>6. ASSUME q # slot
        PROVE  /\ InClass(d, q, shift) /\ q # 0
               /\ d[d[q].prev].next = q /\ d[q].next = slot
    <2>1. k = 0
      BY <1>5, <1>6
    <2>2. InClass(d, 0, shift) /\ d[0].next # Null /\ d[0].next # slot
      BY <1>2, <1>6, <2>1
    <2>3. d[0].next # 0 /\ InClass(d, d[0].next, shift)
          /\ d[d[0].next].prev = 0 /\ d[d[0].next].next = slot
      BY <1>1, <2>2 DEF ZeroOK
    <2> QED
      BY <2>1, <2>3
  <1> QED
    BY <1>2, <1>4, <1>5, <1>6

\* The slots of a sound pool are sound.
LEMMA SoundSlots == Sound(Now) => SlotsSound
  <1> SUFFICES ASSUME Sound(Now), NEW shift \in Classes
               PROVE  LET slot == SlotNode(shift)
                          at == Walk(desc, slot)
                      IN /\ at[Pages] = slot
                         /\ \A i \in 0 .. Pages :
                              at[i] # slot => /\ at[i] \in SlabPages(desc)
                                              /\ desc[at[i]].n = (IF shift = ExactShift THEN 0 ELSE shift)
                                              /\ desc[desc[at[i]].prev].next = at[i]
    BY DEF SlotsSound, Classes
  <1> DEFINE slot == SlotNode(shift)
             at == Walk(desc, slot)
             k == desc[slot].next
             q == desc[k].next
             Good(j) == j # slot => /\ j \in SlabPages(desc)
                                    /\ desc[j].n = (IF shift = ExactShift THEN 0 ELSE shift)
                                    /\ desc[desc[j].prev].next = j
  <1>1. /\ at[0] = k
        /\ \A i \in 1 .. Pages : at[i] = NextOf(desc, slot, at[i - 1])
    BY WalkFollows
  <1>2. Pages \in Int /\ 1 <= Pages /\ slot \notin PageNodes /\ slot # Null /\ Null \notin PageNodes
    BY Bounds, ClassFacts
  <1>3. ASSUME NEW j, InClass(desc, j, shift), desc[desc[j].prev].next = j
        PROVE  Good(j)
    <2>1. j \in SlabPages(desc)
      BY <1>3, InClassIsSlab
    <2>2. desc[j].n = (IF shift = ExactShift THEN 0 ELSE shift)
      <3>1. desc[j].n = Number(shift)
        BY <1>3, ZenonT(40) DEF InClass
      <3> QED
        BY <3>1, Zenon DEF Number
    <2> HIDE DEF slot, at, k, q
    <2> QED
      BY <1>3, <2>1, <2>2
  <1>4. k # slot => /\ InClass(desc, k, shift) /\ desc[desc[k].prev].next = k
                    /\ q # slot => /\ k = 0 /\ InClass(desc, q, shift) /\ q # 0
                                   /\ desc[desc[q].prev].next = q /\ desc[q].next = slot
    <2>1. Now.desc = desc
      BY DEF Now
    <2> QED
      BY <2>1, SlotList
  <1>5. \A i \in 1 .. Pages : at[i - 1] = slot => at[i] = slot
    BY <1>1 DEF NextOf
  <1> HIDE DEF at, Good
  <1>6. at[1] = slot \/ (at[1] = q /\ k # slot /\ q # slot)
    <2>1. 1 \in 1 .. Pages /\ 1 - 1 = 0
      BY <1>2
    <2>2. at[1] = NextOf(desc, slot, at[0])
      BY <1>1, <2>1
    <2>3. k = slot \/ k \in PageNodes
      BY <1>4 DEF InClass
    <2> QED
      BY <1>1, <1>2, <2>2, <2>3 DEF NextOf
  <1>7. Good(at[0]) /\ Good(at[1])
    <2>1. Good(slot)
      BY DEF Good
    <2>2. k # slot => Good(k) /\ (q # slot => Good(q))
      BY <1>3, <1>4
    <2> QED
      BY <1>1, <1>6, <2>1, <2>2
  <1>8. Pages >= 2 => at[2] = slot
    <2>1. CASE at[1] = slot
      <3>1. Pages >= 2 => 2 \in 1 .. Pages /\ 2 - 1 = 1
        BY <1>2
      <3> QED
        BY <1>5, <2>1, <3>1
    <2>2. CASE at[1] = q /\ k # slot /\ q # slot
      <3>1. q \in PageNodes /\ desc[q].next = slot
        BY <1>4, <2>2 DEF InClass
      <3>2. q # Null
        BY <1>2, <3>1
      <3>3. Pages >= 2 => 2 \in 1 .. Pages /\ 2 - 1 = 1
        BY <1>2
      <3>4. NextOf(desc, slot, q) = slot
        BY <2>2, <3>1, <3>2 DEF NextOf
      <3> QED
        BY <1>1, <2>2, <3>3, <3>4
    <2> QED
      BY <1>6, <2>1, <2>2
  <1>9. Pages = 1 => at[1] = slot
    <2>1. CASE q # slot /\ k # slot
      <3>1. q \in PageNodes /\ q # 0
        BY <1>4, <2>1 DEF InClass
      <3> QED
        BY <3>1, Bounds
    <2> QED
      BY <1>6, <2>1
  <1>10. \A i \in Nat : 2 <= i /\ i <= Pages => at[i] = slot
    <2> DEFINE T == {i \in Nat : 2 <= i /\ i <= Pages => at[i] = slot}
    <2>1. 0 \in T
      OBVIOUS
    <2>2. ASSUME NEW i \in Nat, i \in T
          PROVE  i + 1 \in T
      <3>1. CASE 2 <= i /\ i + 1 <= Pages
        <4>1. i + 1 \in 1 .. Pages /\ (i + 1) - 1 = i /\ at[i] = slot
          BY <1>2, <2>2, <3>1
        <4> QED
          BY <1>5, <4>1
      <3>2. CASE i = 1
        BY <1>2, <1>8, <3>2
      <3>3. 2 <= i + 1 => i = 1 \/ 2 <= i
        OBVIOUS
      <3> QED
        BY <3>1, <3>2, <3>3
    <2> HIDE DEF T
    <2>3. Nat \subseteq T
      BY <2>1, <2>2, Induction
    <2> QED
      BY <2>3 DEF T
  <1>11. at[Pages] = slot
    BY <1>2, <1>9, <1>10
  <1>12. \A i \in 0 .. Pages : Good(at[i])
    <2>1. \A i \in 0 .. Pages : i = 0 \/ i = 1 \/ (i \in Nat /\ 2 <= i /\ i <= Pages)
      BY <1>2
    <2>2. Good(slot)
      BY DEF Good
    <2> QED
      BY <1>7, <1>10, <2>1, <2>2
  <1> QED
    BY <1>11, <1>12 DEF at, Good

\* The free list of the pool is sound in every state: this is what keeps
\* hcore_slab_alloc_pages from giving a page away twice.
THEOREM FreeListAlwaysSound == Spec => []FreePagesSound
  BY AlwaysSound, FreeListSound, PTL

\* The slots lead to pages of their class in every state.
THEOREM SlotsAlwaysSound == Spec => []SlotsSound
  BY AlwaysSound, SoundSlots, PTL
-----------------------------------------------------------------------------
(* What clients hold is taken in the pool.                                  *)

\* An allocation lies in a run that is long enough, or in a page of its class.
Held(d, a) ==
  IF IsRun(a) THEN a.page \in StartPages(d) /\ a.off = 0 /\ a.size <= d[a.page].n * 2048
  ELSE Shift(a.size) \in Classes /\ InClass(d, a.page, Shift(a.size))

InZero(L) == {a \in L : a.page = 0}

\* The allocations L are held, the bits in use keep page 0 for those in it, a run
\* has one owner, and what C says is still to be cleared is in use.
HeldOK(s, L, C) ==
  /\ IsFiniteSet(L)
  /\ \A a \in L : a.size \in Sizes /\ Held(s.desc, a) /\ (a.size > 16 => a.off = 0)
  /\ Bound(s, Cardinality(InZero(L)))
  /\ \A a, b \in L : IsRun(a) /\ a.page = b.page => a = b
  /\ C \in [Procs -> SUBSET L]
  /\ \A p \in Procs : \A a \in C[p] : a.size \in Zeroed

\* An allocation that is held lies in a page that was given away.
LEMMA HeldIsGiven ==
  ASSUME NEW d, NEW a, Held(d, a)
  PROVE  /\ a.page \in PageNodes /\ a.page \in Given(d)
         /\ IsRun(a) <=> a.page \in StartPages(d)
         /\ IsRun(a) => d[a.page].type = "page"
  <1>1. CASE IsRun(a)
    BY <1>1 DEF Held, Given, StartPages
  <1>2. CASE ~IsRun(a)
    <2>1. Shift(a.size) \in Classes /\ InClass(d, a.page, Shift(a.size))
      BY <1>2 DEF Held
    <2>2. a.page \in SlabPages(d) /\ a.page \in PageNodes
      BY <2>1, InClassIsSlab
    <2> QED
      BY <1>2, <2>2 DEF Given, SlabPages, StartPages
  <1> QED
    BY <1>1, <1>2

\* What is held stays so when its page keeps its class or its length.
LEMMA HeldKept ==
  ASSUME NEW d, NEW e, NEW a, Held(d, a), Keeps(d, e)
  PROVE  Held(e, a)
  BY HeldIsGiven DEF Held, Keeps

\* The same of pages other than page 0.
LEMMA HeldStays ==
  ASSUME NEW d, NEW e, NEW a, Held(d, a), a.page # 0, Stays(d, e)
  PROVE  Held(e, a)
  BY HeldIsGiven DEF Held, Stays

\* The allocations in page 0 are finitely many.
LEMMA ZeroFinite ==
  ASSUME NEW L, IsFiniteSet(L)
  PROVE  IsFiniteSet(InZero(L)) /\ Cardinality(InZero(L)) \in Nat
  BY FS_Subset, FS_CardinalityType DEF InZero

\* A bound holds of fewer allocations too.
LEMMA BoundLess ==
  ASSUME NEW s, Typed(s), NEW m \in Nat, NEW k \in Nat, k <= m, Bound(s, m)
  PROVE  Bound(s, k)
  <1>1. s.desc \in Descs /\ 0 \in Nodes
    BY StateIs, Bounds
  <1>2. Cardinality(s.desc[0].bits) \in Nat
    BY <1>1, BitsFinite
  <1> QED
    BY <1>2 DEF Bound

\* hcore_shpool_alloc: what was held still is, and so is the new allocation.
LEMMA HeldAlloc ==
  ASSUME NEW s, Sound(s), NEW L, NEW C, HeldOK(s, L, C), NEW size \in Sizes,
         NEW got, got = AllocLocked(s, size),
         NEW x, x.page = got.at.page, x.off = got.at.off, x.size = size,
         NEW new, new = IF got.kind = "address" THEN {x} ELSE {},
         NEW D \in [Procs -> SUBSET (L \union new)], \A p \in Procs : \A a \in D[p] : a.size \in Zeroed
  PROVE  HeldOK(got.s, L \union new, D)
  <1>1. size \in Nat
    BY PoolAssumption
  <1>2. Offered(s, got, size)
    BY <1>1, AllocSound
  <1>3. Typed(got.s)
    BY <1>2 DEF Offered, Sound, PagesOK
  <1>4. \A a \in L : Held(s.desc, a) /\ Held(got.s.desc, a)
    BY <1>2, HeldKept DEF HeldOK, Offered
  <1>5. got.kind = "address" => Held(got.s.desc, x) /\ (x.size > 16 => x.off = 0)
    BY <1>2 DEF Held, IsRun, Offered
  <1>6. IsFiniteSet(L \union new)
    <2>1. IsFiniteSet(L) /\ IsFiniteSet(L \union {x})
      BY FS_AddElement DEF HeldOK
    <2> QED
      BY <2>1
  <1>7. \A a \in L \union new : a.size \in Sizes /\ Held(got.s.desc, a) /\ (a.size > 16 => a.off = 0)
    BY <1>4, <1>5 DEF HeldOK
  <1>8. ASSUME NEW a \in L \union new, NEW b \in L \union new, IsRun(a), a.page = b.page
        PROVE  a = b
    <2>1. IsRun(b)
      BY <1>7, <1>8, HeldIsGiven
    <2>2. CASE a \in L /\ b \in L
      BY <1>8, <2>2 DEF HeldOK
    <2>3. CASE a \in new /\ b \in new
      BY <2>3
    <2>4. ASSUME NEW y \in L, got.kind = "address", IsRun(x)
          PROVE  y.page # x.page
      <3>1. x.page \notin Given(s.desc)
        BY <1>2, <2>4 DEF IsRun, Offered
      <3>2. y.page \in Given(s.desc)
        BY <1>4, HeldIsGiven
      <3> QED
        BY <3>1, <3>2
    <2> QED
      BY <1>8, <2>1, <2>2, <2>3, <2>4
  <1> DEFINE m == Cardinality(InZero(L))
             n == Cardinality(InZero(L \union new))
  <1>9. Bound(got.s, n)
    <2>1. m \in Nat /\ n \in Nat /\ IsFiniteSet(InZero(L))
      BY <1>6, ZeroFinite DEF HeldOK
    <2>2. Bound(s, m)
      BY DEF HeldOK
    <2>3. 0 \notin Given(s.desc) => m = 0
      <3>1. 0 \notin Given(s.desc) => InZero(L) = {}
        BY <1>4, HeldIsGiven DEF InZero
      <3> QED
        BY <3>1, FS_EmptySet
    <2>4. Bound(got.s, IF got.kind = "address" /\ got.at.page = 0 THEN m + 1 ELSE m)
      BY <1>2, <2>1, <2>2, <2>3 DEF Granted, Offered
    <2>5. CASE got.kind = "address" /\ got.at.page = 0
      <3>1. InZero(L \union new) = InZero(L) \union {x}
        BY <2>5 DEF InZero
      <3>2. n = m \/ n = m + 1
        BY <2>1, <3>1, FS_AddElement, ZenonT(60)
      <3> HIDE DEF m, n
      <3>3. Bound(got.s, m + 1) /\ m + 1 \in Nat /\ n <= m + 1
        BY <2>1, <2>4, <2>5, <3>2
      <3> QED
        BY <1>3, <2>1, <3>3, BoundLess
    <2>6. CASE ~(got.kind = "address" /\ got.at.page = 0)
      <3>1. InZero(L \union new) = InZero(L)
        BY <2>6 DEF InZero
      <3> QED
        BY <2>4, <2>6, <3>1
    <2> QED
      BY <2>5, <2>6
  <1> QED
    BY <1>6, <1>7, <1>8, <1>9 DEF HeldOK

\* hcore_shpool_free of an allocation in page 0: what else is held still is.
LEMMA HeldFree ==
  ASSUME NEW s, NEW t, Typed(s), Returned(s, t), NEW L, NEW C, HeldOK(s, L, C),
         NEW a \in L, a.page = 0, \A p \in Procs : a \notin C[p]
  PROVE  HeldOK(t, L \ {a}, C)
  <1> DEFINE m == Cardinality(InZero(L))
             K == L \ {a}
  <1>1. IsFiniteSet(InZero(L)) /\ m \in Nat /\ IsFiniteSet(K)
    BY ZeroFinite, FS_RemoveElement DEF HeldOK
  <1>2. InZero(K) = InZero(L) \ {a} /\ a \in InZero(L)
    BY DEF InZero
  <1>3. Cardinality(InZero(K)) = m - 1
    BY <1>1, <1>2, FS_RemoveElement
  <1>4. m # 0
    BY <1>1, <1>2, FS_EmptySet
  <1>5. Bound(t, m - 1) /\ (m = 1 \/ Keeps(s.desc, t.desc)) /\ Stays(s.desc, t.desc)
    BY <1>1, <1>4 DEF Returned, HeldOK
  <1>6. ASSUME NEW b \in K
        PROVE  Held(t.desc, b)
    <2>1. Held(s.desc, b)
      BY DEF HeldOK
    <2>2. CASE b.page # 0
      BY <1>5, <2>1, <2>2, HeldStays
    <2>3. CASE b.page = 0
      <3>1. b \in InZero(K)
        BY <2>3 DEF InZero
      <3>2. IsFiniteSet(InZero(K))
        BY <1>1, ZeroFinite
      <3>3. m # 1
        <4>1. Cardinality(InZero(K)) # 0
          BY <3>1, <3>2, FS_EmptySet
        <4> QED
          BY <1>1, <1>3, <4>1
      <3> QED
        BY <1>5, <2>1, <3>3, HeldKept
    <2> QED
      BY <2>2, <2>3
  <1>7. C \in [Procs -> SUBSET K]
    <2>1. C \in [Procs -> SUBSET L]
      BY DEF HeldOK
    <2>2. \A p \in Procs : C[p] \in SUBSET K
      BY <2>1
    <2> HIDE DEF K
    <2> QED
      BY <2>1, <2>2
  <1> QED
    BY <1>1, <1>3, <1>5, <1>6, <1>7 DEF HeldOK

\* hcore_shpool_free of an allocation in another page, which only ends its process.
LEMMA HeldLost ==
  ASSUME NEW s, Typed(s), NEW L, NEW C, HeldOK(s, L, C),
         NEW a \in L, a.page # 0, \A p \in Procs : a \notin C[p]
  PROVE  HeldOK(s, L \ {a}, C)
  <1> DEFINE K == L \ {a}
  <1>1. InZero(K) = InZero(L) /\ IsFiniteSet(K)
    BY FS_RemoveElement DEF InZero, HeldOK
  <1>2. C \in [Procs -> SUBSET K]
    <2>1. C \in [Procs -> SUBSET L]
      BY DEF HeldOK
    <2>2. \A p \in Procs : C[p] \in SUBSET K
      BY <2>1
    <2> HIDE DEF K
    <2> QED
      BY <2>1, <2>2
  <1> QED
    BY <1>1, <1>2 DEF HeldOK

HeldInv == HeldOK(Now, live, clear)

\* The steps that leave the slabs and the allocations alone, and at most forget
\* what was to be cleared.
LEMMA HeldIdle ==
  ASSUME HeldInv, UNCHANGED <<slabVars, live>>,
         clear' = clear \/ \E p \in Procs : clear' = [clear EXCEPT ![p] = {}]
  PROVE  HeldInv'
  <1>1. Now' = Now /\ live' = live
    BY DEF slabVars, Now
  <1>2. clear \in [Procs -> SUBSET live] /\ \A p \in Procs : \A a \in clear[p] : a.size \in Zeroed
    BY DEF HeldInv, HeldOK
  <1>3. clear' \in [Procs -> SUBSET live] /\ \A p \in Procs : clear'[p] \subseteq clear[p]
    BY <1>2
  <1>4. \A p \in Procs : \A a \in clear'[p] : a.size \in Zeroed
    BY <1>2, <1>3
  <1> HIDE DEF Now
  <1>5. HeldOK(Now, live, clear')
    BY <1>3, <1>4 DEF HeldInv, HeldOK
  <1> QED
    BY <1>1, <1>5 DEF HeldInv

\* hcore_shpool_calloc clears the bits of no page when it is asked for more than
\* 16 bytes: its chunks do not lie in small pages.
LEMMA ClearIdle ==
  ASSUME Sound(Now), HeldInv, NEW p \in Procs, Clear(p), \A size \in Zeroed : size > 16
  PROVE  UNCHANGED <<slabVars, live>> /\ clear' = [clear EXCEPT ![p] = {}]
  <1>1. PICK a \in clear[p] :
          bitmap' = IF desc[a.page].type = "small"
                    THEN [bitmap EXCEPT ![a.page] = @ \ (8 * a.off .. 8 * (a.off + a.size) - 1)]
                    ELSE bitmap
    BY DEF Clear
  <1>2. a \in live /\ a.size \in Zeroed /\ a.size > 16 /\ a.size \in Nat
    <2>1. a \in live /\ a.size \in Zeroed
      BY DEF HeldInv, HeldOK
    <2> QED
      BY <2>1, PoolAssumption
  <1>3. Held(desc, a)
    BY <1>2 DEF HeldInv, HeldOK, Now
  <1>4. desc[a.page].type # "small"
    <2>1. CASE IsRun(a)
      BY <1>3, <2>1, HeldIsGiven
    <2>2. CASE ~IsRun(a)
      <3>1. Shift(a.size) \in Classes /\ InClass(desc, a.page, Shift(a.size))
        BY <1>3, <2>2 DEF Held
      <3>2. Shift(a.size) >= ExactShift
        BY <1>2, <2>2, ShiftIs DEF IsRun, MaxSize
      <3>3. TypeOf(Shift(a.size)) # "small"
        BY <3>1, <3>2, ClassFacts DEF TypeOf, ExactShift
      <3> QED
        BY <3>1, <3>3 DEF InClass
    <2> QED
      BY <2>1, <2>2
  <1>5. bitmap' = bitmap
    BY <1>1, <1>4
  <1> QED
    BY <1>5 DEF Clear, slabVars

\* Every step keeps what clients hold taken in the pool.
LEMMA HeldNext ==
  ASSUME Sound(Now), HeldInv, [Next]_vars, \A size \in Zeroed : size > 16
  PROVE  HeldInv'
  <1>1. Typed(Now) /\ HeldOK(Now, live, clear)
    BY DEF Sound, PagesOK, HeldInv
  <1>2. clear \in [Procs -> SUBSET live] /\ \A p \in Procs : \A a \in clear[p] : a.size \in Zeroed
    BY DEF HeldInv, HeldOK
  <1>3. ASSUME NEW p \in Procs, NEW size \in Sizes, NEW zero \in BOOLEAN, Alloc(p, size, zero),
               zero => size \in Zeroed
        PROVE  HeldInv'
    <2> DEFINE got == AllocLocked(Now, size)
               x == Allocation(got.at, size)
               new == IF got.kind = "address" THEN {x} ELSE {}
    <2>1. /\ Become(got.s) /\ live' = live \union new
          /\ clear' = [clear EXCEPT ![p] = IF zero THEN new ELSE {}]
      BY <1>3 DEF Alloc
    <2>2. x.page = got.at.page /\ x.off = got.at.off /\ x.size = size
      BY DEF Allocation
    <2>3. \A a \in new : a.size = size
      BY <2>2
    <2>4. Typed(got.s)
      <3>1. size \in Nat
        BY PoolAssumption
      <3> QED
        BY <3>1, AllocSound DEF Offered, Sound, PagesOK
    <2> DEFINE mine == IF zero THEN new ELSE {}
    <2>5. mine \subseteq new /\ \A a \in mine : a.size \in Zeroed
      BY <1>3, <2>3
    <2> HIDE DEF mine
    <2>6. clear' = [clear EXCEPT ![p] = mine]
      BY <2>1 DEF mine
    <2> HIDE DEF new
    <2>7. /\ clear' \in [Procs -> SUBSET (live \union new)]
          /\ \A q \in Procs : \A a \in clear'[q] : a.size \in Zeroed
      <3>1. \A q \in Procs : clear'[q] = IF q = p THEN mine ELSE clear[q]
        BY <1>2, <2>6
      <3>2. clear' \in [Procs -> SUBSET (live \union new)]
        BY <1>2, <2>5, <2>6
      <3> QED
        BY <1>2, <2>5, <3>1, <3>2
    <2>8. new = IF got.kind = "address" THEN {x} ELSE {}
      BY DEF new
    <2> HIDE DEF got, x
    <2>9. HeldOK(got.s, live \union new, clear')
      BY <1>1, <2>2, <2>7, <2>8, HeldAlloc DEF got
    <2>10. Now' = got.s
      BY <2>1, <2>4, BecomeIs
    <2> QED
      BY <2>1, <2>9, <2>10 DEF HeldInv
  <1>4. ASSUME NEW p \in Procs, NEW a \in live, Free(p, a)
        PROVE  HeldInv'
    <2>1. live' = live \ {a} /\ clear' = clear /\ \A q \in Procs : a \notin clear[q]
      BY <1>4 DEF Free
    <2>2. Held(desc, a)
      BY <1>1 DEF HeldOK, Now
    <2>3. a.page \in PageNodes
      BY <2>2, HeldIsGiven
    <2>4. CASE FreeFaults(a)
      <3>1. Now' = Now
        BY <1>4, <2>4 DEF Free, slabVars, Now
      <3>2. a.page # 0
        BY <2>4 DEF FreeFaults
      <3>3. HeldOK(Now, live \ {a}, clear)
        BY <1>1, <2>1, <3>2, HeldLost
      <3> QED
        BY <2>1, <3>1, <3>3 DEF HeldInv
    <2>5. CASE ~FreeFaults(a)
      <3>1. a.page = 0
        BY <2>3, <2>5, Bounds DEF FreeFaults
      <3>2. Become(FreeLocked(Now, a))
        BY <1>4, <2>5 DEF Free
      <3>3. Returned(Now, FreeLocked(Now, a))
        BY FreeLockedSound
      <3>4. Now' = FreeLocked(Now, a)
        BY <3>2, <3>3, BecomeIs DEF Returned, Sound, PagesOK
      <3>5. HeldOK(FreeLocked(Now, a), live \ {a}, clear)
        BY <1>1, <2>1, <3>1, <3>3, HeldFree
      <3> QED
        BY <2>1, <3>4, <3>5 DEF HeldInv
    <2> QED
      BY <2>4, <2>5
  <1>5. ASSUME NEW p \in Procs, Clear(p)
        PROVE  HeldInv'
    BY <1>5, ClearIdle, HeldIdle
  <1>6. ASSUME NEW p \in Procs, Lock(p) \/ Unlock(p) \/ Die(p) \/ Revoke(p)
        PROVE  HeldInv'
    <2>1. UNCHANGED <<slabVars, live>> /\ (clear' = clear \/ clear' = [clear EXCEPT ![p] = {}])
      BY <1>6 DEF Lock, Unlock, Die, Revoke
    <2> QED
      BY <2>1, HeldIdle
  <1>7. CASE UNCHANGED vars
    <2>1. UNCHANGED <<slabVars, live>> /\ clear' = clear
      BY <1>7 DEF vars, slabVars
    <2> QED
      BY <2>1, HeldIdle
  <1>8. CASE Next
    <2>1. PICK p \in Procs : Lock(p) \/ Work(p) \/ Unlock(p) \/ Clear(p) \/ Die(p) \/ Revoke(p)
      BY <1>8 DEF Next
    <2>2. CASE Work(p)
      BY <1>3, <1>4, <2>2, PoolAssumption DEF Work
    <2> QED
      BY <1>5, <1>6, <2>1, <2>2
  <1> QED
    BY <1>7, <1>8

\* A new pool holds nothing.
LEMMA HeldInit == Init => HeldInv
  <1> SUFFICES ASSUME Init PROVE HeldInv
    OBVIOUS
  <1>1. live = {} /\ clear = [p \in Procs |-> {}]
    BY DEF Init
  <1>2. InZero(live) = {} /\ Cardinality({}) = 0 /\ IsFiniteSet({})
    BY <1>1, FS_EmptySet DEF InZero
  <1>3. desc[0].type = "page"
    BY InitFields
  <1>4. Bound(Now, 0)
    BY <1>3 DEF Bound, Now
  <1> QED
    BY <1>1, <1>2, <1>4 DEF HeldInv, HeldOK

\* What is held is covered.
LEMMA HeldCovered ==
  ASSUME Sound(Now), HeldInv
  PROVE  LiveCovered
  <1>1. ASSUME NEW a \in live
        PROVE  Held(desc, a) /\ a.size \in Nat \ {0}
    BY PoolAssumption DEF HeldInv, HeldOK, Now
  <1>2. ASSUME NEW a \in live, IsRun(a)
        PROVE  a.page \in StartPages(desc) /\ PagesOf(a) \subseteq Run(desc, a.page)
    <2>1. /\ a.page \in StartPages(desc) /\ a.off = 0 /\ a.size <= desc[a.page].n * 2048
          /\ a.size \in Nat \ {0}
      BY <1>1, <1>2 DEF Held
    <2>2. a.page \in Int /\ desc[a.page].n \in Int
      <3>1. a.page \in Nodes /\ a.page \in Int /\ desc \in Descs
        BY <2>1, Bounds, StateIs DEF StartPages, Sound, PagesOK, Now
      <3>2. desc[a.page].n \in 0 .. 11
        BY <3>1, Fields
      <3> QED
        BY <3>1, <3>2
    <2> DEFINE last == (a.size - 1) \div 2048
    <2>3. PagesOf(a) = a.page .. a.page + last
      <3>1. 0 \div 2048 = 0 /\ 0 + a.size - 1 = a.size - 1
        BY <2>1
      <3> QED
        BY <2>1, <2>2, <3>1 DEF PagesOf, MaxSize
    <2>4. last \in Int /\ last * 2048 <= a.size - 1
      BY <2>1
    <2> HIDE DEF last
    <2>5. last <= desc[a.page].n - 1
      BY <2>1, <2>2, <2>4
    <2> QED
      BY <2>1, <2>2, <2>3, <2>4, <2>5 DEF Run
  <1>3. ASSUME NEW a \in live, ~IsRun(a)
        PROVE  /\ a.page \in SlabPages(desc)
               /\ desc[a.page].n = (IF Shift(a.size) = ExactShift THEN 0 ELSE Shift(a.size))
    <2>1. Shift(a.size) \in Classes /\ InClass(desc, a.page, Shift(a.size))
      BY <1>1, <1>3 DEF Held
    <2> QED
      BY <2>1, InClassIsSlab DEF InClass, Number
  <1> QED
    BY <1>2, <1>3 DEF LiveCovered

\* An allocation of more than 16 bytes lies in the pages that were given away for it.
LEMMA HeldInPart ==
  ASSUME Sound(Now), HeldInv, NEW a \in live, a.size > 16
  PROVE  /\ a.page \in Given(desc) /\ PagesOf(a) \subseteq Part(desc, a.page)
         /\ ~IsRun(a) => Shift(a.size) \in Classes /\ InClass(desc, a.page, Shift(a.size))
  <1>1. Held(desc, a) /\ a.size \in Nat \ {0} /\ a.off = 0
    BY PoolAssumption DEF HeldInv, HeldOK, Now
  <1>2. a.page \in Given(desc) /\ a.page \in PageNodes
    BY <1>1, HeldIsGiven
  <1>3. CASE IsRun(a)
    <2>1. a.page \in StartPages(desc) /\ PagesOf(a) \subseteq Run(desc, a.page)
      BY <1>3, HeldCovered DEF LiveCovered
    <2>2. Part(desc, a.page) = Run(desc, a.page)
      BY <2>1 DEF Part, Run, Extent, StartPages
    <2> QED
      BY <1>2, <1>3, <2>1, <2>2
  <1>4. CASE ~IsRun(a)
    <2>1. Shift(a.size) \in Classes /\ InClass(desc, a.page, Shift(a.size))
      BY <1>1, <1>4 DEF Held
    <2>2. a.size <= 1024
      BY <1>1, <1>4, <2>1, ShiftIs DEF IsRun, MaxSize
    <2>3. 0 \div 2048 = 0 /\ (a.size - 1) \div 2048 = 0 /\ 0 + a.size - 1 = a.size - 1
      BY <1>1, <2>2
    <2>4. a.page \in Int
      BY <1>2, Bounds
    <2> DEFINE last == (a.size - 1) \div 2048
    <2>5. PagesOf(a) = a.page .. a.page
      <3>1. PagesOf(a) = a.page .. a.page + last
        BY <1>1, <2>3, <2>4 DEF PagesOf, MaxSize
      <3>2. last = 0
        BY <2>3
      <3> HIDE DEF last
      <3> QED
        BY <2>4, <3>1, <3>2
    <2>6. a.page \in SlabPages(desc)
      BY <2>1, InClassIsSlab
    <2>7. Extent(desc, a.page) = 1
      BY <2>6 DEF Extent, SlabPages
    <2>8. Part(desc, a.page) = a.page .. a.page + 1 - 1
      BY <2>7 DEF Part
    <2> QED
      BY <1>2, <2>1, <2>4, <2>5, <2>8
  <1> QED
    BY <1>3, <1>4

\* Different pages that were given away have no page in common.
LEMMA PartsApart ==
  ASSUME NEW d \in Descs, Layout(d), NEW j \in Given(d), NEW k \in Given(d),
         NEW t, t \in Part(d, j), t \in Part(d, k)
  PROVE  j = k
  <1>1. j \in Heads(d) /\ k \in Heads(d) /\ j \in PageNodes /\ k \in PageNodes
    BY DEF Given, Heads, StartPages, SlabPages
  <1>2. j \in Int /\ k \in Int /\ j \in Nodes /\ k \in Nodes
    BY <1>1, Bounds
  <1>3. Extent(d, j) \in Int /\ Extent(d, k) \in Int
    <2>1. d[j].n \in 0 .. 11 /\ d[k].n \in 0 .. 11
      BY <1>2, Fields
    <2> QED
      BY <2>1 DEF Extent
  <1>4. (j < k => j + Extent(d, j) <= k) /\ (k < j => k + Extent(d, k) <= j)
    BY <1>1 DEF Layout
  <1>5. t \in Int /\ j <= t /\ t <= j + Extent(d, j) - 1 /\ k <= t /\ t <= k + Extent(d, k) - 1
    BY <1>2, <1>3 DEF Part
  <1> QED
    BY <1>2, <1>3, <1>4, <1>5

\* No run has a page in common with another allocation, nor have chunks of
\* different classes.
LEMMA HeldApart ==
  ASSUME Sound(Now), HeldInv, \A size \in Sizes : size > 16
  PROVE  PagesNotShared
  <1> SUFFICES ASSUME NEW a \in live, NEW b \in live, a # b,
                      NEW t, t \in PagesOf(a), t \in PagesOf(b)
               PROVE  ~IsRun(a) /\ ~IsRun(b) /\ a.page = b.page /\ Shift(a.size) = Shift(b.size)
    BY DEF PagesNotShared
  <1>1. a.size > 16 /\ b.size > 16
    BY DEF HeldInv, HeldOK
  <1>2. /\ a.page \in Given(desc) /\ t \in Part(desc, a.page)
        /\ ~IsRun(a) => Shift(a.size) \in Classes /\ InClass(desc, a.page, Shift(a.size))
    BY <1>1, HeldInPart
  <1>3. /\ b.page \in Given(desc) /\ t \in Part(desc, b.page)
        /\ ~IsRun(b) => Shift(b.size) \in Classes /\ InClass(desc, b.page, Shift(b.size))
    BY <1>1, HeldInPart
  <1>4. desc \in Descs /\ Layout(desc)
    BY StateIs DEF Sound, PagesOK, Now
  <1>5. a.page = b.page
    BY <1>2, <1>3, <1>4, PartsApart
  <1>6. ~IsRun(a) /\ ~IsRun(b)
    BY <1>5 DEF HeldInv, HeldOK
  <1> QED
    BY <1>2, <1>3, <1>5, <1>6, OneClass

\* In every state, what a client holds is still taken in the pool, by a run that
\* is long enough or a page of its class: hcore_slab_free_locked gives a page back
\* only after its last chunk.  The chunks that hcore_shpool_calloc clears must not
\* lie on the bitmap of a small page, as those of up to 16 bytes do (LiveDisjoint).
THEOREM LiveAlwaysCovered ==
  ASSUME \A size \in Zeroed : size > 16
  PROVE  Spec => []LiveCovered
  <1>1. Init => Sound(Now) /\ HeldInv
    BY InitSound, HeldInit
  <1>2. (Sound(Now) /\ HeldInv) /\ [Next]_vars => (Sound(Now) /\ HeldInv)'
    BY NextSound, HeldNext
  <1>3. Sound(Now) /\ HeldInv => LiveCovered
    BY HeldCovered
  <1> QED
    BY <1>1, <1>2, <1>3, PTL DEF Spec

\* In every state, two allocations have a page in common only as chunks of one
\* class: no run is given away while a part of it is in use.  A chunk of up to 16
\* bytes may be found at an offset behind the end of its page (line 646).
THEOREM PagesNeverShared ==
  ASSUME \A size \in Sizes : size > 16
  PROVE  Spec => []PagesNotShared
  <1>1. \A size \in Zeroed : size > 16
    BY PoolAssumption
  <1>2. Init => Sound(Now) /\ HeldInv
    BY InitSound, HeldInit
  <1>3. (Sound(Now) /\ HeldInv) /\ [Next]_vars => (Sound(Now) /\ HeldInv)'
    BY <1>1, NextSound, HeldNext
  <1>4. Sound(Now) /\ HeldInv => PagesNotShared
    BY HeldApart
  <1> QED
    BY <1>2, <1>3, <1>4, PTL DEF Spec
=============================================================================

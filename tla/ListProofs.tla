----------------------------- MODULE ListProofs -----------------------------
(***************************************************************************)
(* Proofs about List for every set of items, every comparison, every       *)
(* initial capacity of at least two and every bound: accesses stay inside  *)
(* the array, beyond twice the initial capacity the array is more than     *)
(* half full, the list holds what callers put in it, and a search answers  *)
(* from that.                                                              *)
(***************************************************************************)
EXTENDS List, TLAPS, SequenceTheorems, FiniteSetTheorems, WellFoundedInduction

\* The types of the counters.
Counters == num \in Nat /\ reserved \in Nat /\ failures \in Nat

\* The capacity never falls below the initial one, so doubling it makes room.
Capacity == reserved >= InitReserved

\* The array is NULL only after a failure.
NullNeedsFailure == null => failures > 0

\* The inductive invariant.  AccessesInside needs NullNeedsFailure, because a
\* NULL array is what a later call trips over, and Capacity, because growth
\* doubles; the count fits the capacity after a cut because of the test that
\* hcore_list_delete makes, and HalfFull because it makes it at every deletion.
IInv == Counters /\ Capacity /\ NullNeedsFailure /\ AccessesInside /\ HalfFull

\* What growing to n elements gives, whatever the capacity was.
LEMMA GrowthFits ==
  ASSUME IInv
  PROVE  /\ Grown(num + 1) \in Nat /\ Grown(num + 1) >= num + 1
         /\ Grown(num + 1) >= InitReserved
         /\ Grown(num + 1) > InitReserved * 2 => 2 * (num + 1) > Grown(num + 1)
BY ListAssumption DEF IInv, Counters, Capacity, AccessesInside, HalfFull, Grown

\* What a deletion leaves is inside the capacity it cuts to.
LEMMA ShrinkFits ==
  ASSUME IInv, num > 0
  PROVE  /\ Shrunk(num - 1) \in Nat /\ Shrunk(num - 1) >= num - 1
         /\ Shrunk(num - 1) >= InitReserved
         /\ Shrunk(num - 1) > InitReserved * 2 => 2 * (num - 1) > Shrunk(num - 1)
<1>1. CASE (num - 1) * 2 <= reserved /\ reserved > InitReserved * 2
  <2>1. /\ reserved \div 2 \in Nat /\ reserved \div 2 >= num - 1
        /\ reserved \div 2 >= InitReserved /\ reserved >= 2 * (reserved \div 2)
    BY <1>1, ListAssumption DEF IInv, Counters
  <2>2. 2 * num > reserved /\ reserved >= 5
    BY <1>1, ListAssumption DEF IInv, Counters, HalfFull
  <2>3. 2 * (num - 1) > reserved \div 2
    BY <2>1, <2>2 DEF IInv, Counters
  <2> QED  BY <1>1, <2>1, <2>3 DEF Shrunk
<1>2. CASE ~((num - 1) * 2 <= reserved /\ reserved > InitReserved * 2)
  BY <1>2, ListAssumption
     DEF IInv, Counters, Capacity, AccessesInside, HalfFull, Shrunk
<1> QED  BY <1>1, <1>2

\* An empty list satisfies the invariant.
LEMMA InitInv == Init => IInv
BY ListAssumption
   DEF Init, IInv, Counters, Capacity, NullNeedsFailure, AccessesInside, HalfFull

\* A call that adds an element, whether or not it keeps it.
LEMMA AddKeeps ==
  ASSUME IInv, ~crashed, NEW x, NEW fails \in BOOLEAN, AddTo(x, fails)
  PROVE  IInv'
<1>1. Counters' /\ num' <= reserved' /\ Capacity' /\ HalfFull'
  BY GrowthFits, ListAssumption
     DEF AddTo, Realloc, IInv, Counters, Capacity, HalfFull
<1>2. failures' >= failures /\ (fails => failures' > 0)
  BY DEF AddTo, Realloc, IInv, Counters
<1>3. (null' => failures' > 0) /\ (crashed' => failures' > 0)
  <2>1. CASE fails
    BY <2>1, <1>2
  <2>2. CASE ~fails /\ (null \/ num + 1 > Grown(num + 1)) /\ Crash
    <3>1. null
      BY <2>2, GrowthFits DEF IInv, Counters
    <3> QED  BY <3>1, <1>2, <1>1 DEF IInv, NullNeedsFailure, Counters
  <2>3. CASE ~fails /\ ~null /\ Appends(x)
    BY <2>3 DEF Appends
  <2> QED  BY <2>1, <2>2, <2>3 DEF AddTo
<1> QED  BY <1>1, <1>3 DEF IInv, NullNeedsFailure, AccessesInside

\* Every call keeps the invariant.
LEMMA NextInv == IInv /\ [Next]_vars => IInv'
<1> SUFFICES ASSUME IInv, [Next]_vars PROVE IInv'
  OBVIOUS
<1>1. CASE UNCHANGED vars
  BY <1>1 DEF vars, IInv, Counters, Capacity, NullNeedsFailure, AccessesInside,
              HalfFull
<1>2. ASSUME NEW x \in Items, NEW fails \in BOOLEAN, Add(x, fails) PROVE IInv'
  BY <1>2, AddKeeps DEF Add
<1>3. ASSUME NEW x \in Items, NEW fails \in BOOLEAN, InsertPlain(x, fails)
      PROVE IInv'
  BY <1>3, AddKeeps DEF InsertPlain
<1>4. ASSUME NEW x \in Items, NEW fails \in BOOLEAN, Insert(x, fails) PROVE IInv'
  <2>1. Counters' /\ num' <= reserved' /\ Capacity' /\ HalfFull'
    BY <1>4, GrowthFits, ListAssumption
       DEF Insert, Realloc, IInv, Counters, Capacity, HalfFull
  <2>2. failures' >= failures /\ (fails => failures' > 0)
    BY <1>4 DEF Insert, Realloc, IInv, Counters
  <2>3. null' = null
    BY <1>4 DEF Insert, Crash
  <2>4. crashed' => null \/ fails
    <3>1. ~(num + 1 > Grown(num + 1))
      BY GrowthFits DEF IInv, Counters
    <3>2. null \/ fails \/ crashed' = crashed
      BY <1>4, <3>1 DEF Insert
    <3> QED  BY <1>4, <3>2 DEF Insert
  <2> QED  BY <2>1, <2>2, <2>3, <2>4
           DEF IInv, NullNeedsFailure, AccessesInside, Counters
<1>5. ASSUME NEW x \in Items, Delete(x) PROVE IInv'
  <2>1. CASE null /\ Crash /\ UNCHANGED <<num, reserved, failures>>
    BY <2>1 DEF Crash, IInv, Counters, Capacity, NullNeedsFailure, AccessesInside,
                HalfFull
  <2>2. CASE /\ num' = num - 1 /\ reserved' = Shrunk(num - 1) /\ num > 0
             /\ UNCHANGED <<failures, null, crashed>>
    BY <2>2, ShrinkFits, ListAssumption
       DEF IInv, Counters, Capacity, NullNeedsFailure, AccessesInside, HalfFull
  <2> QED  BY <1>5, <2>1, <2>2 DEF Delete
<1>6. ASSUME NEW fails \in BOOLEAN, DeleteAll(fails) PROVE IInv'
  BY <1>6, ListAssumption
     DEF DeleteAll, Realloc, IInv, Counters, Capacity, NullNeedsFailure,
         AccessesInside, HalfFull
<1>7. CASE Sort
  BY <1>7 DEF Sort, Crash, IInv, Counters, Capacity, NullNeedsFailure,
              AccessesInside, HalfFull
<1>8. ASSUME NEW target \in Items, Search(target) PROVE IInv'
  BY <1>8 DEF Search, Crash, IInv, Counters, Capacity, NullNeedsFailure,
              AccessesInside, HalfFull
<1> QED  BY <1>1, <1>2, <1>3, <1>4, <1>5, <1>6, <1>7, <1>8 DEF Next

\* The invariant holds throughout.
LEMMA Invariance == Spec => []IInv
BY InitInv, NextInv, PTL DEF Spec

\* As long as no allocation has failed, no call of the list leaves its array
\* or meets a NULL one, and the count never exceeds the capacity.
THEOREM StaysInside == Spec => []AccessesInside
<1>1. IInv => AccessesInside
  BY DEF IInv
<1> QED  BY <1>1, Invariance, PTL

\* Beyond twice the initial capacity more than half of the array is in use,
\* after every sequence of calls.
THEOREM MemoryInStep == Spec => []HalfFull
<1>1. IInv => HalfFull
  BY DEF IInv
<1> QED  BY <1>1, Invariance, PTL
-----------------------------------------------------------------------------
(* Lists with an item more.                                                 *)

\* t is s with x at place p.
OneMoreItem(s, t, x, p) ==
  /\ s \in Seq(Items) /\ t \in Seq(Items) /\ x \in Items
  /\ Len(t) = Len(s) + 1 /\ p \in 1 .. Len(t) /\ t[p] = x
  /\ \A i \in 1 .. Len(s) : t[IF i < p THEN i ELSE i + 1] = s[i]

Places(s, v) == {i \in DOMAIN s : s[i] = v}

\* The places of an item in a list, counted.
LEMMA Counted ==
  ASSUME NEW s \in Seq(Items)
  PROVE  /\ Len(s) \in Nat /\ DOMAIN s = 1 .. Len(s)
         /\ \A v : IsFiniteSet(Places(s, v)) /\ Cardinality(Places(s, v)) \in Nat
         /\ \A v : v \in Elements(s) <=> Cardinality(Places(s, v)) # 0
         /\ Elements(s) \subseteq Items
         /\ DOMAIN BagOf(s) = Elements(s)
         /\ \A v \in Elements(s) : BagOf(s)[v] = Cardinality(Places(s, v))
  <1>1. Len(s) \in Nat /\ DOMAIN s = 1 .. Len(s) /\ \A i \in 1 .. Len(s) : s[i] \in Items
    BY LenProperties, ElementOfSeq
  <1>2. IsFiniteSet(1 .. Len(s))
    BY <1>1, FS_Interval
  <1>3. \A v : IsFiniteSet(Places(s, v)) /\ Cardinality(Places(s, v)) \in Nat
    <2>1. \A v : Places(s, v) \subseteq 1 .. Len(s)
      BY <1>1 DEF Places
    <2> QED
      BY <1>2, <2>1, FS_Subset, FS_CardinalityType
  <1>4. \A v : v \in Elements(s) <=> Places(s, v) # {}
    BY DEF Elements, Places
  <1>5. \A v : v \in Elements(s) <=> Cardinality(Places(s, v)) # 0
    BY <1>3, <1>4, FS_EmptySet
  <1>6. Elements(s) \subseteq Items
    BY <1>1 DEF Elements
  <1>7. DOMAIN BagOf(s) = Elements(s) /\ \A v \in Elements(s) : BagOf(s)[v] = Cardinality(Places(s, v))
    BY DEF BagOf, Places
  <1> QED
    BY <1>1, <1>3, <1>5, <1>6, <1>7

\* One item more is counted once more, at its own place.
LEMMA CountsMore ==
  ASSUME NEW s, NEW t, NEW x, NEW p, OneMoreItem(s, t, x, p), NEW v
  PROVE  Cardinality(Places(t, v)) = Cardinality(Places(s, v)) + (IF v = x THEN 1 ELSE 0)
  <1> DEFINE S == Places(s, v)
             T == Places(t, v) \ {p}
             f == [i \in S |-> IF i < p THEN i ELSE i + 1]
  <1>1. /\ Len(s) \in Nat /\ DOMAIN s = 1 .. Len(s) /\ IsFiniteSet(S) /\ Cardinality(S) \in Nat
        /\ Len(t) = Len(s) + 1 /\ DOMAIN t = 1 .. Len(s) + 1 /\ IsFiniteSet(Places(t, v))
        /\ Cardinality(Places(t, v)) \in Nat
        /\ p \in 1 .. Len(s) + 1 /\ t[p] = x
    BY Counted DEF OneMoreItem
  <1>2. \A i \in 1 .. Len(s) : t[IF i < p THEN i ELSE i + 1] = s[i]
    BY DEF OneMoreItem
  <1>3. \A i \in S : i \in 1 .. Len(s) /\ s[i] = v
    BY <1>1 DEF Places
  <1>4. \A j : j \in T <=> j \in 1 .. Len(s) + 1 /\ t[j] = v /\ j # p
    BY <1>1 DEF Places
  <1> HIDE DEF S, T
  <1>5. \A i \in S : f[i] \in T
    <2>1. ASSUME NEW i \in S
          PROVE  (IF i < p THEN i ELSE i + 1) \in 1 .. Len(s) + 1 /\ (IF i < p THEN i ELSE i + 1) # p
      BY <1>1, <1>3
    <2> QED
      BY <1>2, <1>3, <1>4, <2>1
  <1>6. \A i, j \in S : f[i] = f[j] => i = j
    <2>1. ASSUME NEW i \in S, NEW j \in S,
                 (IF i < p THEN i ELSE i + 1) = (IF j < p THEN j ELSE j + 1)
          PROVE  i = j
      BY <1>1, <1>3, <2>1
    <2> QED
      BY <2>1
  <1>7. \A j \in T : \E i \in S : f[i] = j
    <2>1. ASSUME NEW j \in T
          PROVE  \E i \in S : (IF i < p THEN i ELSE i + 1) = j
      <3> DEFINE i == IF j < p THEN j ELSE j - 1
      <3>1. j \in 1 .. Len(s) + 1 /\ t[j] = v /\ j # p
        BY <1>4
      <3>2. i \in 1 .. Len(s) /\ (IF i < p THEN i ELSE i + 1) = j
        BY <1>1, <3>1
      <3> HIDE DEF i
      <3>3. s[i] = v
        BY <1>2, <3>1, <3>2
      <3>4. i \in S
        BY <1>1, <3>2, <3>3 DEF S, Places
      <3> QED
        BY <3>2, <3>4
    <2> QED
      BY <2>1
  <1>8. ExistsBijection(S, T)
    <2>1. f \in [S -> T]
      BY <1>5
    <2> HIDE DEF f
    <2>2. f \in Bijection(S, T)
      BY <1>6, <1>7, <2>1 DEF Bijection, Injection, Surjection, IsInjective
    <2> QED
      BY <2>2 DEF ExistsBijection
  <1>9. Cardinality(T) = Cardinality(S)
    BY <1>1, <1>8, FS_Bijection
  <1>10. Cardinality(T) = IF p \in Places(t, v) THEN Cardinality(Places(t, v)) - 1
                          ELSE Cardinality(Places(t, v))
    BY <1>1, FS_RemoveElement DEF T
  <1>11. p \in Places(t, v) <=> v = x
    BY <1>1 DEF Places
  <1> QED
    BY <1>1, <1>9, <1>10, <1>11 DEF S

\* The bags of a list and of the list with an item more.
LEMMA BagsMore ==
  ASSUME NEW s, NEW t, NEW x, NEW p, OneMoreItem(s, t, x, p)
  PROVE  /\ BagOf(t) = BagOf(s) (+) SetToBag({x})
         /\ BagOf(s) = BagOf(t) (-) SetToBag({x})
  <1> DEFINE n(v) == Cardinality(Places(s, v))
             one == SetToBag({x})
  <1>1. s \in Seq(Items) /\ t \in Seq(Items)
    BY DEF OneMoreItem
  <1>2. \A v : n(v) \in Nat /\ (v \in Elements(s) <=> n(v) # 0)
    BY <1>1, Counted
  <1>3. \A v : /\ Cardinality(Places(t, v)) = n(v) + (IF v = x THEN 1 ELSE 0)
               /\ v \in Elements(t) <=> Cardinality(Places(t, v)) # 0
    BY <1>1, Counted, CountsMore
  <1>4. /\ DOMAIN BagOf(s) = Elements(s) /\ \A v \in Elements(s) : BagOf(s)[v] = n(v)
        /\ DOMAIN BagOf(t) = Elements(t)
        /\ \A v \in Elements(t) : BagOf(t)[v] = n(v) + (IF v = x THEN 1 ELSE 0)
    BY <1>1, <1>3, Counted
  <1>5. BagOf(s) = [v \in Elements(s) |-> BagOf(s)[v]] /\ BagOf(t) = [v \in Elements(t) |-> BagOf(t)[v]]
    BY <1>4 DEF BagOf
  <1>6. DOMAIN one = {x} /\ \A v \in {x} : one[v] = 1
    BY DEF SetToBag
  <1>7. Elements(t) = Elements(s) \union {x}
    <2>1. \A v : v \in Elements(t) <=> v \in Elements(s) \/ v = x
      BY <1>2, <1>3
    <2> QED
      BY <2>1
  <1> HIDE DEF n, one
  <1>8. BagOf(t) = BagOf(s) (+) one
    <2> DEFINE b == BagOf(s) (+) one
    <2>1. b = [v \in DOMAIN BagOf(s) \union DOMAIN one |->
                 (IF v \in DOMAIN BagOf(s) THEN BagOf(s)[v] ELSE 0)
                 + (IF v \in DOMAIN one THEN one[v] ELSE 0)]
      BY DEF (+)
    <2>2. DOMAIN BagOf(s) \union DOMAIN one = Elements(t)
      BY <1>4, <1>6, <1>7
    <2>3. \A v \in Elements(t) : b[v] = BagOf(t)[v]
      <3> SUFFICES ASSUME NEW v \in Elements(t) PROVE b[v] = BagOf(t)[v]
        OBVIOUS
      <3>1. b[v] = (IF v \in Elements(s) THEN n(v) ELSE 0) + (IF v = x THEN 1 ELSE 0)
        BY <1>4, <1>6, <2>1, <2>2
      <3>2. (IF v \in Elements(s) THEN n(v) ELSE 0) = n(v)
        BY <1>2
      <3> QED
        BY <1>4, <3>1, <3>2
    <2>4. b = [v \in Elements(t) |-> b[v]]
      BY <2>1, <2>2
    <2> HIDE DEF b
    <2>5. b = BagOf(t)
      BY <1>5, <2>3, <2>4
    <2> QED
      BY <2>5 DEF b
  <1>9. BagOf(s) = BagOf(t) (-) one
    <2> DEFINE less == [v \in DOMAIN BagOf(t) |-> IF v \in DOMAIN one THEN BagOf(t)[v] - one[v]
                                                  ELSE BagOf(t)[v]]
               b == [v \in {u \in DOMAIN less : less[u] > 0} |-> less[v]]
    <2>1. BagOf(t) (-) one = b
      BY DEF (-)
    <2>2. DOMAIN less = Elements(t) /\ \A v \in Elements(t) : less[v] = n(v)
      <3> SUFFICES ASSUME NEW v \in Elements(t) PROVE less[v] = n(v)
        BY <1>4
      <3>1. less[v] = IF v = x THEN BagOf(t)[v] - 1 ELSE BagOf(t)[v]
        BY <1>4, <1>6
      <3>2. BagOf(t)[v] = n(v) + (IF v = x THEN 1 ELSE 0) /\ n(v) \in Nat
        BY <1>2, <1>4
      <3> QED
        BY <3>1, <3>2
    <2> HIDE DEF less
    <2>3. {u \in DOMAIN less : less[u] > 0} = Elements(s)
      <3>1. \A u \in Elements(t) : less[u] > 0 <=> u \in Elements(s)
        BY <1>2, <2>2
      <3> QED
        BY <1>7, <2>2, <3>1
    <2>4. b = [v \in Elements(s) |-> less[v]]
      BY <2>3
    <2>5. \A v \in Elements(s) : less[v] = BagOf(s)[v]
      BY <1>4, <1>7, <2>2
    <2> QED
      BY <1>5, <2>1, <2>4, <2>5
  <1> QED
    BY <1>8, <1>9 DEF one
-----------------------------------------------------------------------------
(* Induction on numbers.                                                    *)

\* A set of numbers has a least element.
LEMMA Least ==
  ASSUME NEW C \in SUBSET Nat, C # {}
  PROVE  \E x \in C : \A y \in C : x <= y
  <1> DEFINE below == {0 .. x : x \in C}
  <1>1. below \subseteq FiniteSubsetsOf(Nat) /\ below # {}
    <2>1. \A x \in C : IsFiniteSet(0 .. x) /\ 0 .. x \subseteq Nat
      BY FS_Interval
    <2> QED
      BY <2>1 DEF FiniteSubsetsOf
  <1>2. PICK u \in below : \A v \in below : <<v, u>> \notin StrictSubsetOrdering(Nat)
    <2> HIDE DEF below
    <2> QED
      BY <1>1, WFMin, FS_StrictSubsetOrderingWellFounded
  <1>3. PICK x \in C : u = 0 .. x
    BY <1>2
  <1>4. ASSUME NEW y \in C, y < x
        PROVE  FALSE
    <2>1. <<0 .. y, 0 .. x>> \notin StrictSubsetOrdering(Nat)
      BY <1>2, <1>3
    <2>2. 0 .. y \subseteq 0 .. x /\ x \in 0 .. x /\ x \notin 0 .. y
      BY <1>4
    <2> QED
      BY <2>1, <2>2 DEF StrictSubsetOrdering
  <1> QED
    BY <1>4

\* What is true of 0, and of k + 1 when it is of k, is true of all numbers.
LEMMA Induction ==
  ASSUME NEW T, 0 \in T, \A k \in Nat : k \in T => k + 1 \in T
  PROVE  Nat \subseteq T
  <1> DEFINE C == Nat \ T
  <1> SUFFICES ASSUME C # {} PROVE FALSE
    OBVIOUS
  <1>1. PICK x \in C : \A y \in C : x <= y
    BY Least
  <1>2. x \in Nat /\ x # 0
    OBVIOUS
  <1>3. x - 1 \in Nat /\ ~(x <= x - 1) /\ (x - 1) + 1 = x
    BY <1>2
  <1>4. x - 1 \in T
    BY <1>1, <1>3
  <1> QED
    BY <1>3, <1>4
-----------------------------------------------------------------------------
(* Where items enter and leave.                                             *)

\* What is left of s after its first p items.
LEMMA Rest ==
  ASSUME NEW s \in Seq(Items), NEW p \in 0 .. Len(s)
  PROVE  LET c == SubSeq(s, p + 1, Len(s))
         IN  /\ c \in Seq(Items) /\ Len(c) = Len(s) - p
             /\ \A i \in 1 .. Len(s) - p : c[i] = s[p + i]
  <1> DEFINE c == SubSeq(s, p + 1, Len(s))
             m == p + 1
             n == Len(s)
  <1>1. /\ n \in Nat /\ p \in Nat /\ p <= n /\ m \in Int /\ n \in Int
        /\ \A i \in m .. n : s[i] \in Items
    <2>1. Len(s) \in Nat /\ \A i \in 1 .. Len(s) : s[i] \in Items
      BY LenProperties, ElementOfSeq
    <2> QED
      BY <2>1
  <1>2. /\ c \in Seq(Items) /\ Len(c) = (IF m <= n THEN n - m + 1 ELSE 0)
        /\ \A i \in 1 .. n - m + 1 : c[i] = s[m + i - 1]
    <2> HIDE DEF m, n
    <2>1. /\ SubSeq(s, m, n) \in Seq(Items)
          /\ Len(SubSeq(s, m, n)) = (IF m <= n THEN n - m + 1 ELSE 0)
          /\ \A i \in 1 .. n - m + 1 : SubSeq(s, m, n)[i] = s[m + i - 1]
      BY <1>1, SubSeqProperties
    <2> QED
      BY <2>1 DEF m, n
  <1> HIDE DEF c
  <1>3. (IF m <= n THEN n - m + 1 ELSE 0) = n - p
    BY <1>1
  <1>4. \A i \in 1 .. n - p : i \in 1 .. n - m + 1 /\ m + i - 1 = p + i
    BY <1>1
  <1>5. \A i \in 1 .. n - p : c[i] = s[p + i]
    BY <1>2, <1>4
  <1> QED
    BY <1>2, <1>3, <1>5 DEF c

\* s with x after its first p items.
LEMMA PutFacts ==
  ASSUME NEW s \in Seq(Items), NEW x \in Items, NEW p \in 0 .. Len(s)
  PROVE  /\ OneMoreItem(s, PutAt(s, p, x), x, p + 1)
         /\ \A i \in 1 .. p : PutAt(s, p, x)[i] = s[i]
         /\ \A i \in p + 1 .. Len(s) : PutAt(s, p, x)[i + 1] = s[i]
         /\ PutAt(s, p, x)[p + 1] = x
  <1> DEFINE a == SubSeq(s, 1, p)
             c == SubSeq(s, p + 1, Len(s))
             one == <<x>>
             b == a \o one
             t == b \o c
  <1>1. /\ Len(s) \in Nat /\ p \in Nat /\ p <= Len(s) /\ p \in Int /\ p + 1 \in Int
        /\ Len(s) \in Int /\ 1 \in Int
        /\ \A i \in 1 .. Len(s) : s[i] \in Items
    BY LenProperties, ElementOfSeq
  <1>2. a \in Seq(Items) /\ Len(a) = p /\ \A i \in 1 .. p : a[i] = s[i]
    <2>1. \A i \in 1 .. p : s[i] \in Items
      BY <1>1
    <2>2. /\ a \in Seq(Items) /\ Len(a) = (IF 1 <= p THEN p - 1 + 1 ELSE 0)
          /\ \A i \in 1 .. p - 1 + 1 : a[i] = s[1 + i - 1]
      BY <1>1, <2>1, SubSeqProperties
    <2> HIDE DEF a
    <2> QED
      BY <1>1, <2>2
  <1>3. c \in Seq(Items) /\ Len(c) = Len(s) - p /\ \A i \in 1 .. Len(s) - p : c[i] = s[p + i]
    BY Rest
  <1>4. one \in Seq(Items) /\ Len(one) = 1 /\ one[1] = x
    OBVIOUS
  <1> HIDE DEF a, c, one
  <1>5. /\ b \in Seq(Items) /\ Len(b) = p + 1 /\ b[p + 1] = x
        /\ \A i \in 1 .. p : b[i] = s[i]
    <2>1. /\ b \in Seq(Items) /\ Len(b) = Len(a) + Len(one)
          /\ \A i \in 1 .. Len(a) + Len(one) :
               b[i] = IF i <= Len(a) THEN a[i] ELSE one[i - Len(a)]
      BY <1>2, <1>4, ConcatProperties
    <2> HIDE DEF b
    <2> QED
      BY <1>1, <1>2, <1>4, <2>1
  <1> HIDE DEF b
  <1>6. /\ t \in Seq(Items) /\ Len(t) = Len(s) + 1
        /\ \A i \in 1 .. Len(s) + 1 : t[i] = IF i <= p + 1 THEN b[i] ELSE c[i - (p + 1)]
    <2>1. /\ t \in Seq(Items) /\ Len(t) = Len(b) + Len(c)
          /\ \A i \in 1 .. Len(b) + Len(c) : t[i] = IF i <= Len(b) THEN b[i] ELSE c[i - Len(b)]
      BY <1>3, <1>5, ConcatProperties
    <2> HIDE DEF t
    <2>2. Len(b) + Len(c) = Len(s) + 1 /\ Len(b) = p + 1
      BY <1>1, <1>3, <1>5
    <2> QED
      BY <2>1, <2>2
  <1> HIDE DEF t
  <1>7. PutAt(s, p, x) = t
    BY DEF PutAt, t, b, a, c, one
  <1>8. \A i \in 1 .. p : t[i] = s[i]
    <2>1. \A i \in 1 .. p : i \in 1 .. Len(s) + 1 /\ i <= p + 1
      BY <1>1
    <2> QED
      BY <1>5, <1>6, <2>1
  <1>9. t[p + 1] = x
    BY <1>1, <1>5, <1>6
  <1>10. \A i \in p + 1 .. Len(s) : t[i + 1] = s[i]
    <2>1. \A i \in p + 1 .. Len(s) :
            /\ i + 1 \in 1 .. Len(s) + 1 /\ ~(i + 1 <= p + 1)
            /\ (i + 1) - (p + 1) \in 1 .. Len(s) - p /\ p + ((i + 1) - (p + 1)) = i
      BY <1>1
    <2> QED
      BY <1>3, <1>6, <2>1
  <1>11. \A i \in 1 .. Len(s) : t[IF i < p + 1 THEN i ELSE i + 1] = s[i]
    <2>1. \A i \in 1 .. Len(s) : (i < p + 1 => i \in 1 .. p) /\ (~(i < p + 1) => i \in p + 1 .. Len(s))
      BY <1>1
    <2> QED
      BY <1>8, <1>10, <2>1
  <1>12. p + 1 \in 1 .. Len(t)
    BY <1>1, <1>6
  <1> QED
    BY <1>6, <1>7, <1>8, <1>9, <1>10, <1>11, <1>12 DEF OneMoreItem

\* A list with an item at its end.
LEMMA AppendFacts ==
  ASSUME NEW s \in Seq(Items), NEW x \in Items
  PROVE  OneMoreItem(s, Append(s, x), x, Len(s) + 1)
  <1> DEFINE t == Append(s, x)
  <1>1. /\ t \in Seq(Items) /\ Len(t) = Len(s) + 1 /\ Len(s) \in Nat
        /\ \A i \in 1 .. Len(s) : t[i] = s[i]
        /\ t[Len(s) + 1] = x
    BY AppendProperties, LenProperties
  <1> HIDE DEF t
  <1>2. \A i \in 1 .. Len(s) : i < Len(s) + 1
    BY <1>1
  <1>3. Len(s) + 1 \in 1 .. Len(t)
    BY <1>1
  <1>4. OneMoreItem(s, t, x, Len(s) + 1)
    BY <1>1, <1>2, <1>3 DEF OneMoreItem
  <1> QED
    BY <1>4 DEF t

\* A list without the first occurrence of an item.
LEMMA WithoutFacts ==
  ASSUME NEW s \in Seq(Items), NEW x \in Elements(s)
  PROVE  \E p : OneMoreItem(Without(s, x), s, x, p)
  <1> DEFINE Is(k) == s[k] = x /\ \A j \in 1 .. k - 1 : s[j] # x
             p == CHOOSE k \in DOMAIN s : Is(k)
             a == SubSeq(s, 1, p - 1)
             c == SubSeq(s, p + 1, Len(s))
             t == a \o c
  <1>1. /\ Len(s) \in Nat /\ DOMAIN s = 1 .. Len(s) /\ Len(s) \in Int
        /\ \A i \in 1 .. Len(s) : s[i] \in Items
    BY LenProperties, ElementOfSeq
  <1>2. p \in 1 .. Len(s) /\ s[p] = x
    <2> DEFINE P == Places(s, x)
    <2>1. P \in SUBSET Nat /\ P # {} /\ \A k : k \in P <=> k \in 1 .. Len(s) /\ s[k] = x
      BY <1>1 DEF Places, Elements
    <2> HIDE DEF P
    <2>2. PICK k \in P : \A j \in P : k <= j
      BY <2>1, Least
    <2>3. k \in DOMAIN s /\ s[k] = x
      BY <1>1, <2>1
    <2>4. ASSUME NEW j \in 1 .. k - 1 PROVE s[j] # x
      <3>1. j \in 1 .. Len(s) /\ ~(k <= j)
        BY <1>1, <2>3
      <3> QED
        BY <2>1, <2>2, <3>1
    <2>5. Is(k)
      BY <2>3, <2>4
    <2>6. p \in DOMAIN s /\ Is(p)
      BY <2>3, <2>5
    <2> QED
      BY <1>1, <2>6
  <1>3. Without(s, x) = t
    BY DEF Without
  <1> HIDE DEF p
  <1>4. p \in Int /\ p - 1 \in Int /\ p + 1 \in Int /\ 1 \in Int /\ p - 1 \in Nat
    BY <1>1, <1>2
  <1>5. a \in Seq(Items) /\ Len(a) = p - 1 /\ \A i \in 1 .. p - 1 : a[i] = s[i]
    <2>1. \A i \in 1 .. p - 1 : s[i] \in Items
      BY <1>1, <1>2
    <2>2. /\ a \in Seq(Items) /\ Len(a) = (IF 1 <= p - 1 THEN (p - 1) - 1 + 1 ELSE 0)
          /\ \A i \in 1 .. (p - 1) - 1 + 1 : a[i] = s[1 + i - 1]
      BY <1>4, <2>1, SubSeqProperties
    <2> HIDE DEF a
    <2> QED
      BY <1>4, <2>2
  <1>6. c \in Seq(Items) /\ Len(c) = Len(s) - p /\ \A i \in 1 .. Len(s) - p : c[i] = s[p + i]
    <2>1. p \in 0 .. Len(s)
      BY <1>1, <1>2
    <2> QED
      BY <2>1, Rest
  <1> HIDE DEF a, c
  <1>7. /\ t \in Seq(Items) /\ Len(t) = Len(s) - 1
        /\ \A i \in 1 .. Len(s) - 1 : t[i] = IF i <= p - 1 THEN a[i] ELSE c[i - (p - 1)]
    <2>1. /\ t \in Seq(Items) /\ Len(t) = Len(a) + Len(c)
          /\ \A i \in 1 .. Len(a) + Len(c) : t[i] = IF i <= Len(a) THEN a[i] ELSE c[i - Len(a)]
      BY <1>5, <1>6, ConcatProperties
    <2> HIDE DEF t
    <2>2. Len(a) + Len(c) = Len(s) - 1 /\ Len(a) = p - 1
      BY <1>1, <1>2, <1>5, <1>6
    <2> QED
      BY <2>1, <2>2
  <1> HIDE DEF t
  <1>8. \A i \in 1 .. Len(t) : s[IF i < p THEN i ELSE i + 1] = t[i]
    <2> SUFFICES ASSUME NEW i \in 1 .. Len(t)
                 PROVE  s[IF i < p THEN i ELSE i + 1] = t[i]
      OBVIOUS
    <2>1. i \in 1 .. Len(s) - 1
      BY <1>7
    <2>2. CASE i < p
      <3>1. i <= p - 1 /\ i \in 1 .. p - 1
        BY <1>2, <2>1, <2>2
      <3> QED
        BY <1>5, <1>7, <2>1, <2>2, <3>1
    <2>3. CASE ~(i < p)
      <3>1. ~(i <= p - 1) /\ i - (p - 1) \in 1 .. Len(s) - p /\ p + (i - (p - 1)) = i + 1
        BY <1>1, <1>2, <2>1, <2>3
      <3> QED
        BY <1>6, <1>7, <2>1, <2>3, <3>1
    <2> QED
      BY <2>2, <2>3
  <1>9. Len(s) = Len(t) + 1 /\ x \in Items
    BY <1>1, <1>2, <1>7
  <1>10. OneMoreItem(t, s, x, p)
    BY <1>2, <1>7, <1>8, <1>9 DEF OneMoreItem
  <1> QED
    BY <1>3, <1>10
-----------------------------------------------------------------------------
(* The binary search of hcore_list_insert.                                  *)

\* The pairs of bounds it works on.
Bounds(s) == (0 .. Len(s)) \X (-1 .. Len(s) - 1)

Middle(r) == (r[1] + r[2]) \div 2

\* What the search between the bounds r comes to, when f says what it comes to
\* between others.
Half(s, x, f, r) ==
  IF r[1] > r[2] THEN r[1]
  ELSE IF Key[s[Middle(r) + 1]] = Key[x] THEN Middle(r)
  ELSE IF Key[s[Middle(r) + 1]] > Key[x] THEN f[<<r[1], Middle(r) - 1>>]
  ELSE f[<<Middle(r) + 1, r[2]>>]

\* Both halves are narrower, and inside the array.
LEMMA Narrower ==
  ASSUME NEW s \in Seq(Items), NEW r \in Bounds(s), r[1] <= r[2]
  PROVE  /\ Middle(r) \in 0 .. Len(s) - 1 /\ r[1] <= Middle(r) /\ Middle(r) <= r[2]
         /\ <<r[1], Middle(r) - 1>> \in Bounds(s)
         /\ <<Middle(r) + 1, r[2]>> \in Bounds(s)
  <1>1. Len(s) \in Nat /\ r[1] \in 0 .. Len(s) /\ r[2] \in -1 .. Len(s) - 1
    BY LenProperties DEF Bounds
  <1>2. Middle(r) \in Int /\ r[1] <= Middle(r) /\ Middle(r) <= r[2]
    BY <1>1 DEF Middle
  <1> HIDE DEF Middle
  <1>3. Middle(r) \in 0 .. Len(s) - 1 /\ Middle(r) - 1 \in -1 .. Len(s) - 1 /\ Middle(r) + 1 \in 0 .. Len(s)
    BY <1>1, <1>2
  <1> QED
    BY <1>1, <1>2, <1>3 DEF Bounds

\* The recursion that defines Probe has a solution: for bounds less and less
\* close to each other, by steps of one.
LEMMA ProbeSolved ==
  ASSUME NEW s \in Seq(Items), NEW x
  PROVE  \E f : /\ f = [r \in Bounds(s) |-> Half(s, x, f, r)]
                /\ Probe(s, x) = f[<<0, Len(s) - 1>>]
  <1> DEFINE Settled(f, k) == \A r \in Bounds(s) : r[2] - r[1] < k => f[r] = Half(s, x, f, r)
             T == {k \in Nat : \E f : DOMAIN f = Bounds(s) /\ Settled(f, k)}
  <1>1. Len(s) \in Nat
    BY LenProperties
  <1>2. \A r \in Bounds(s) : r[1] \in Int /\ r[2] \in Int /\ r[2] - r[1] < Len(s)
    BY <1>1 DEF Bounds
  <1>3. 0 \in T
    <2> DEFINE f == [r \in Bounds(s) |-> r[1]]
    <2>1. Settled(f, 0)
      BY <1>2 DEF Half
    <2> QED
      BY <2>1
  <1>4. ASSUME NEW k \in Nat, k \in T
        PROVE  k + 1 \in T
    <2>1. PICK f : DOMAIN f = Bounds(s) /\ Settled(f, k)
      BY <1>4
    <2> DEFINE g == [r \in Bounds(s) |-> Half(s, x, f, r)]
    <2>2. \A r \in Bounds(s) : r[2] - r[1] < k => g[r] = f[r]
      BY <2>1
    <2>3. ASSUME NEW r \in Bounds(s), r[2] - r[1] < k + 1
          PROVE  g[r] = Half(s, x, g, r)
      <3>1. g[r] = Half(s, x, f, r)
        OBVIOUS
      <3> HIDE DEF g
      <3>2. CASE r[1] > r[2]
        BY <3>1, <3>2 DEF Half
      <3>3. CASE ~(r[1] > r[2])
        <4> DEFINE low == <<r[1], Middle(r) - 1>>
                   high == <<Middle(r) + 1, r[2]>>
        <4>1. /\ r[1] \in Int /\ r[2] \in Int /\ r[1] <= r[2]
          BY <1>2, <3>3
        <4>2. /\ Middle(r) \in Int /\ r[1] <= Middle(r) /\ Middle(r) <= r[2]
              /\ low \in Bounds(s) /\ high \in Bounds(s)
          BY <4>1, <1>1, Narrower
        <4>3. low[1] = r[1] /\ low[2] = Middle(r) - 1 /\ high[1] = Middle(r) + 1 /\ high[2] = r[2]
          OBVIOUS
        <4>4. Half(s, x, f, r) = (IF Key[s[Middle(r) + 1]] = Key[x] THEN Middle(r)
                                  ELSE IF Key[s[Middle(r) + 1]] > Key[x] THEN f[low] ELSE f[high])
          BY <3>3 DEF Half
        <4>5. Half(s, x, g, r) = (IF Key[s[Middle(r) + 1]] = Key[x] THEN Middle(r)
                                  ELSE IF Key[s[Middle(r) + 1]] > Key[x] THEN g[low] ELSE g[high])
          BY <3>3 DEF Half
        <4> HIDE DEF low, high
        <4>6. low[2] - low[1] < k /\ high[2] - high[1] < k
          BY <2>3, <4>1, <4>2, <4>3
        <4>7. g[low] = f[low] /\ g[high] = f[high]
          BY <2>2, <4>2, <4>6
        <4> QED
          BY <3>1, <4>4, <4>5, <4>7
      <3> QED
        BY <3>2, <3>3
    <2>4. DOMAIN g = Bounds(s) /\ Settled(g, k + 1)
      BY <2>3
    <2> HIDE DEF g
    <2> QED
      BY <2>4
  <1>5. Len(s) \in T
    <2> HIDE DEF T
    <2> QED
      BY <1>1, <1>3, <1>4, Induction
  <1>6. PICK g : DOMAIN g = Bounds(s) /\ Settled(g, Len(s))
    BY <1>5
  <1> DEFINE Solves(f) == f = [r \in Bounds(s) |-> Half(s, x, f, r)]
             h == [r \in Bounds(s) |-> g[r]]
  <1>7. Solves(h)
    <2>1. \A r \in Bounds(s) : g[r] = Half(s, x, g, r)
      BY <1>2, <1>6
    <2>2. ASSUME NEW r \in Bounds(s)
          PROVE  Half(s, x, g, r) = Half(s, x, h, r)
      <3>1. CASE r[1] > r[2]
        BY <3>1 DEF Half
      <3>2. CASE ~(r[1] > r[2])
        <4>1. /\ <<r[1], Middle(r) - 1>> \in Bounds(s)
              /\ <<Middle(r) + 1, r[2]>> \in Bounds(s)
          BY <1>2, <3>2, Narrower
        <4>2. /\ h[<<r[1], Middle(r) - 1>>] = g[<<r[1], Middle(r) - 1>>]
              /\ h[<<Middle(r) + 1, r[2]>>] = g[<<Middle(r) + 1, r[2]>>]
          BY <4>1
        <4> QED
          BY <4>2 DEF Half
      <3> QED
        BY <3>1, <3>2
    <2> QED
      BY <2>1, <2>2
  <1> HIDE DEF h, Settled
  <1>8. Probe(s, x) = (CHOOSE f : Solves(f))[<<0, Len(s) - 1>>]
    BY DEF Probe, Half, Middle, Bounds
  <1>9. Solves(CHOOSE f : Solves(f))
    BY <1>7
  <1> QED
    BY <1>8, <1>9

\* Items no greater than x come first, then items no smaller.
Splits(s, x, p) ==
  /\ p \in 0 .. Len(s)
  /\ \A i \in 1 .. p : Key[s[i]] <= Key[x]
  /\ \A i \in p + 1 .. Len(s) : Key[x] <= Key[s[i]]

\* What is known of the items outside the bounds while the search runs.
Brackets(s, x, r) ==
  /\ r[1] <= r[2] + 1
  /\ \A i \in 1 .. r[1] : Key[s[i]] <= Key[x]
  /\ \A i \in r[2] + 2 .. Len(s) : Key[x] <= Key[s[i]]

\* The search finds a place where an ordered list stays ordered.
LEMMA ProbeSplits ==
  ASSUME NEW s \in Seq(Items), NEW x \in Items, Ordered(s)
  PROVE  Splits(s, x, Probe(s, x))
  <1>1. PICK f : /\ f = [r \in Bounds(s) |-> Half(s, x, f, r)]
                 /\ Probe(s, x) = f[<<0, Len(s) - 1>>]
    BY ProbeSolved
  <1>2. \A r \in Bounds(s) : f[r] = Half(s, x, f, r)
    BY <1>1
  <1>3. /\ Len(s) \in Nat /\ DOMAIN s = 1 .. Len(s)
        /\ Key[x] \in Nat /\ \A i \in 1 .. Len(s) : Key[s[i]] \in Nat
    BY LenProperties, ElementOfSeq, ListAssumption
  <1>4. \A i, j \in 1 .. Len(s) : i <= j => Key[s[i]] <= Key[s[j]]
    BY <1>3 DEF Ordered
  <1>5. \A r \in Bounds(s) : r[1] \in 0 .. Len(s) /\ r[2] \in -1 .. Len(s) - 1
    BY DEF Bounds
  <1> DEFINE T == {k \in Nat : \A r \in Bounds(s) :
                     r[2] - r[1] < k /\ Brackets(s, x, r) => Splits(s, x, f[r])}
  <1>6. 0 \in T
    <2> SUFFICES ASSUME NEW r \in Bounds(s), r[2] - r[1] < 0, Brackets(s, x, r)
                 PROVE  Splits(s, x, f[r])
      OBVIOUS
    <2>1. r[1] = r[2] + 1 /\ r[1] > r[2]
      BY <1>3, <1>5 DEF Brackets
    <2>2. f[r] = r[1]
      BY <1>2, <2>1 DEF Half
    <2> QED
      BY <1>3, <1>5, <2>1, <2>2 DEF Brackets, Splits
  <1>7. ASSUME NEW k \in Nat, k \in T
        PROVE  k + 1 \in T
    <2> SUFFICES ASSUME NEW r \in Bounds(s), r[2] - r[1] < k + 1, Brackets(s, x, r)
                 PROVE  Splits(s, x, f[r])
      OBVIOUS
    <2>1. \A q \in Bounds(s) : q[2] - q[1] < k /\ Brackets(s, x, q) => Splits(s, x, f[q])
      BY <1>7
    <2> HIDE DEF T
    <2>2. r[1] \in 0 .. Len(s) /\ r[2] \in -1 .. Len(s) - 1
      BY <1>5
    <2>3. CASE r[1] > r[2]
      <3>1. r[1] = r[2] + 1
        BY <1>3, <2>2, <2>3 DEF Brackets
      <3>2. f[r] = r[1]
        BY <1>2, <2>3 DEF Half
      <3> QED
        BY <1>3, <2>2, <3>1, <3>2 DEF Brackets, Splits
    <2>4. CASE ~(r[1] > r[2])
      <3> DEFINE m == Middle(r)
                 low == <<r[1], m - 1>>
                 high == <<m + 1, r[2]>>
      <3>1. r[1] <= r[2]
        BY <1>3, <2>2, <2>4
      <3>2. /\ m \in 0 .. Len(s) - 1 /\ r[1] <= m /\ m <= r[2]
            /\ low \in Bounds(s) /\ high \in Bounds(s)
        BY <3>1, Narrower
      <3>3. low[1] = r[1] /\ low[2] = m - 1 /\ high[1] = m + 1 /\ high[2] = r[2]
        OBVIOUS
      <3>4. f[r] = (IF Key[s[m + 1]] = Key[x] THEN m
                    ELSE IF Key[s[m + 1]] > Key[x] THEN f[low] ELSE f[high])
        BY <1>2, <2>4 DEF Half
      <3> HIDE DEF m, low, high
      <3>5. low[2] - low[1] < k /\ high[2] - high[1] < k
        BY <1>3, <2>2, <3>2, <3>3
      <3>6. m + 1 \in 1 .. Len(s) /\ Key[s[m + 1]] \in Nat
        BY <1>3, <3>2
      <3>7. /\ \A i \in 1 .. m + 1 : i \in 1 .. Len(s) /\ Key[s[i]] <= Key[s[m + 1]] /\ Key[s[i]] \in Nat
            /\ \A i \in m + 1 .. Len(s) :
                 i \in 1 .. Len(s) /\ Key[s[m + 1]] <= Key[s[i]] /\ Key[s[i]] \in Nat
        BY <1>3, <1>4, <3>2, <3>6
      <3>8. CASE Key[s[m + 1]] = Key[x]
        <4>1. /\ \A i \in 1 .. m : Key[s[i]] <= Key[x]
              /\ \A i \in m + 1 .. Len(s) : Key[x] <= Key[s[i]]
          BY <3>2, <3>7, <3>8
        <4> QED
          BY <1>3, <3>2, <3>4, <3>8, <4>1 DEF Splits
      <3>9. CASE Key[s[m + 1]] > Key[x]
        <4>1. \A i \in m + 1 .. Len(s) : Key[x] <= Key[s[i]]
          BY <1>3, <3>6, <3>7, <3>9
        <4>2. low[2] + 2 = m + 1
          BY <3>2, <3>3
        <4>3. Brackets(s, x, low)
          BY <2>2, <3>2, <3>3, <4>1, <4>2 DEF Brackets
        <4>4. f[r] = f[low]
          BY <1>3, <3>4, <3>6, <3>9
        <4> QED
          BY <2>1, <3>2, <3>5, <4>3, <4>4
      <3>10. CASE ~(Key[s[m + 1]] = Key[x]) /\ ~(Key[s[m + 1]] > Key[x])
        <4>1. \A i \in 1 .. m + 1 : Key[s[i]] <= Key[x]
          BY <1>3, <3>6, <3>7, <3>10
        <4>2. Brackets(s, x, high)
          BY <2>2, <3>2, <3>3, <4>1 DEF Brackets
        <4>3. f[r] = f[high]
          BY <3>4, <3>10
        <4> QED
          BY <2>1, <3>2, <3>5, <4>2, <4>3
      <3> QED
        BY <3>8, <3>9, <3>10
    <2> QED
      BY <2>3, <2>4
  <1>8. Len(s) \in T
    <2> HIDE DEF T
    <2> QED
      BY <1>3, <1>6, <1>7, Induction
  <1> DEFINE all == <<0, Len(s) - 1>>
  <1>9. all \in Bounds(s) /\ all[1] = 0 /\ all[2] = Len(s) - 1
    BY <1>3 DEF Bounds
  <1> HIDE DEF all
  <1>10. all[2] - all[1] < Len(s) /\ Brackets(s, x, all)
    BY <1>3, <1>9 DEF Brackets
  <1>11. Splits(s, x, f[all])
    BY <1>8, <1>9, <1>10
  <1> QED
    BY <1>1, <1>11 DEF all

\* What hcore_list_insert does to an ordered list leaves it ordered.
LEMMA PutKeepsOrder ==
  ASSUME NEW s \in Seq(Items), NEW x \in Items, Ordered(s)
  PROVE  \E p : OneMoreItem(s, PutAt(s, Probe(s, x), x), x, p) /\ Ordered(PutAt(s, Probe(s, x), x))
  <1> DEFINE p == Probe(s, x)
             t == PutAt(s, p, x)
  <1>1. Splits(s, x, p)
    BY ProbeSplits
  <1> HIDE DEF p
  <1>2. p \in 0 .. Len(s)
    BY <1>1 DEF Splits
  <1>3. /\ OneMoreItem(s, t, x, p + 1)
        /\ \A i \in 1 .. p : t[i] = s[i]
        /\ \A i \in p + 1 .. Len(s) : t[i + 1] = s[i]
        /\ t[p + 1] = x
    BY <1>2, PutFacts
  <1> HIDE DEF t
  <1>4. /\ Len(s) \in Nat /\ Len(t) = Len(s) + 1 /\ DOMAIN t = 1 .. Len(s) + 1 /\ DOMAIN s = 1 .. Len(s)
        /\ Key[x] \in Nat /\ \A i \in 1 .. Len(s) : Key[s[i]] \in Nat
    BY <1>3, LenProperties, ElementOfSeq, ListAssumption DEF OneMoreItem
  <1>5. \A i, j \in 1 .. Len(s) : i < j => Key[s[i]] <= Key[s[j]]
    BY <1>4 DEF Ordered
  <1>6. ASSUME NEW i \in 1 .. Len(s) + 1, NEW j \in 1 .. Len(s) + 1, i < j
        PROVE  Key[t[i]] <= Key[t[j]]
    <2>1. CASE j <= p
      <3>1. i \in 1 .. p /\ j \in 1 .. p /\ i \in 1 .. Len(s) /\ j \in 1 .. Len(s)
        BY <1>2, <1>4, <1>6, <2>1
      <3> QED
        BY <1>3, <1>5, <1>6, <3>1
    <2>2. CASE j = p + 1
      <3>1. i \in 1 .. p
        BY <1>2, <1>4, <1>6, <2>2
      <3> QED
        BY <1>1, <1>3, <2>2, <3>1 DEF Splits
    <2>3. CASE j > p + 1
      <3>1. j - 1 \in p + 1 .. Len(s) /\ j - 1 \in 1 .. Len(s) /\ (j - 1) + 1 = j
        BY <1>2, <1>4, <2>3
      <3>2. t[j] = s[j - 1]
        BY <1>3, <3>1
      <3>3. CASE i <= p
        <4>1. i \in 1 .. p /\ i \in 1 .. Len(s) /\ i < j - 1
          BY <1>2, <1>4, <2>3, <3>3
        <4> QED
          BY <1>3, <1>5, <3>1, <3>2, <4>1
      <3>4. CASE i = p + 1
        BY <1>1, <1>3, <3>1, <3>2, <3>4 DEF Splits
      <3>5. CASE i > p + 1
        <4>1. i - 1 \in p + 1 .. Len(s) /\ i - 1 \in 1 .. Len(s) /\ (i - 1) + 1 = i /\ i - 1 < j - 1
          BY <1>2, <1>4, <1>6, <3>5
        <4>2. t[i] = s[i - 1]
          BY <1>3, <4>1
        <4> QED
          BY <1>5, <3>1, <3>2, <4>1, <4>2
      <3> QED
        BY <1>2, <1>4, <3>3, <3>4, <3>5
    <2> QED
      BY <1>2, <1>4, <2>1, <2>2, <2>3
  <1>7. Ordered(t)
    BY <1>4, <1>6 DEF Ordered
  <1> QED
    BY <1>3, <1>7 DEF t, p

\* A list that loses an item stays ordered.
LEMMA LessKeepsOrder ==
  ASSUME NEW s, NEW t, NEW x, NEW p, OneMoreItem(s, t, x, p), Ordered(t)
  PROVE  Ordered(s)
  <1>1. /\ Len(s) \in Nat /\ Len(t) = Len(s) + 1 /\ DOMAIN t = 1 .. Len(s) + 1 /\ DOMAIN s = 1 .. Len(s)
        /\ p \in 1 .. Len(s) + 1
    BY LenProperties DEF OneMoreItem
  <1>2. \A i \in 1 .. Len(s) : t[IF i < p THEN i ELSE i + 1] = s[i]
    BY DEF OneMoreItem
  <1>3. ASSUME NEW i \in 1 .. Len(s), NEW j \in 1 .. Len(s), i < j
        PROVE  Key[s[i]] <= Key[s[j]]
    <2> DEFINE a == IF i < p THEN i ELSE i + 1
               b == IF j < p THEN j ELSE j + 1
    <2>1. a \in 1 .. Len(s) + 1 /\ b \in 1 .. Len(s) + 1 /\ a < b
      BY <1>1, <1>3
    <2>2. t[a] = s[i] /\ t[b] = s[j]
      BY <1>2
    <2> HIDE DEF a, b
    <2>3. Key[t[a]] <= Key[t[b]]
      BY <1>1, <2>1 DEF Ordered
    <2> QED
      BY <2>2, <2>3
  <1> QED
    BY <1>1, <1>3 DEF Ordered
-----------------------------------------------------------------------------
(* The contents of the list.                                                *)

\* While the list has an array, or no element, it is what callers put in it,
\* and in order when the flag says so.  hcore_list_insert and hcore_list_search
\* rely on the flag; that is why ContentsKept alone is not inductive.
Contents ==
  /\ items \in Seq(Items) /\ Len(items) = num /\ BagOf(items) = held
  /\ sorted => Ordered(items)

Whole == ~crashed /\ (~null \/ num = 0) => Contents

\* Sorting loses nothing.
LEMMA SortFacts ==
  ASSUME NEW s \in Seq(Items), NEW t \in Sortings(s)
  PROVE  t \in Seq(Items) /\ Len(t) = Len(s) /\ BagOf(t) = BagOf(s) /\ Ordered(t)
  <1>1. /\ Len(s) \in Nat /\ DOMAIN s = 1 .. Len(s)
        /\ DOMAIN BagOf(s) \subseteq Items
    BY Counted
  <1>2. t \in [1 .. Len(s) -> DOMAIN BagOf(s)] /\ BagOf(t) = BagOf(s) /\ Ordered(t)
    BY <1>1 DEF Sortings
  <1>3. t \in [1 .. Len(s) -> Items]
    BY <1>1, <1>2
  <1>4. t \in Seq(Items) /\ Len(t) = Len(s)
    BY <1>1, <1>3, IsASeq, LenProperties
  <1> QED
    BY <1>2, <1>4

\* hcore_list_insert and hcore_list_search look into an ordered list with the
\* same contents.
LEMMA InOrderFacts ==
  ASSUME Contents, NEW s \in InOrder
  PROVE  s \in Seq(Items) /\ Len(s) = num /\ BagOf(s) = held /\ Ordered(s)
  <1>1. CASE sorted
    BY <1>1 DEF Contents, InOrder
  <1>2. CASE ~sorted
    <2>1. items \in Seq(Items) /\ Len(items) = num /\ BagOf(items) = held /\ s \in Sortings(items)
      BY <1>2 DEF Contents, InOrder
    <2> QED
      BY <2>1, SortFacts
  <1> QED
    BY <1>1, <1>2

\* An empty list holds nothing, in order.
LEMMA NothingHeld ==
  /\ <<>> \in Seq(Items) /\ Len(<<>>) = 0 /\ BagOf(<<>>) = EmptyBag /\ Ordered(<<>>)
  <1> DEFINE s == <<>>
  <1>1. s \in Seq(Items) /\ Len(s) = 0 /\ DOMAIN s = {}
    OBVIOUS
  <1> HIDE DEF s
  <1>2. Ordered(s)
    BY <1>1 DEF Ordered
  <1>3. Elements(s) = {}
    BY <1>1 DEF Elements
  <1>4. BagOf(s) = EmptyBag
    BY <1>3 DEF BagOf, EmptyBag, SetToBag
  <1> QED
    BY <1>1, <1>2, <1>4 DEF s

\* A call that adds an item at the end.
LEMMA AddKeepsContents ==
  ASSUME Whole, ~crashed, num \in Nat, NEW x \in Items, NEW fails \in BOOLEAN, AddTo(x, fails)
  PROVE  Whole'
  <1>1. CASE fails /\ null' = TRUE
    <2>1. num' # 0
      BY DEF AddTo
    <2> QED
      BY <1>1, <2>1 DEF Whole
  <1>2. CASE Crash
    BY <1>2 DEF Crash, Whole
  <1>3. CASE ~null /\ Appends(x) /\ held' = held (+) SetToBag({x})
    <2>1. items \in Seq(Items) /\ Len(items) = num /\ BagOf(items) = held
      BY <1>3 DEF Whole, Contents
    <2>2. items' = Append(items, x) /\ sorted' = FALSE /\ num' = num + 1
      BY <1>3 DEF Appends, AddTo
    <2>3. OneMoreItem(items, items', x, Len(items) + 1)
      BY <2>1, <2>2, AppendFacts
    <2>4. BagOf(items') = held' /\ items' \in Seq(Items) /\ Len(items') = num'
      BY <1>3, <2>1, <2>2, <2>3, BagsMore, ZenonT(60) DEF OneMoreItem
    <2> QED
      BY <2>2, <2>4 DEF Whole, Contents
  <1> QED
    BY <1>1, <1>2, <1>3 DEF AddTo

\* hcore_list_insert with a comparison function.
LEMMA InsertKeepsContents ==
  ASSUME Whole, num \in Nat, NEW x \in Items, NEW fails \in BOOLEAN, Insert(x, fails)
  PROVE  Whole'
  <1>1. CASE Crash
    BY <1>1 DEF Crash, Whole
  <1>2. CASE ~null /\ ~Crash
    <2>1. Contents
      BY <1>2 DEF Whole, Insert
    <2>2. PICK s \in InOrder : items' = PutAt(s, Probe(s, x), x)
      BY <1>2 DEF Insert
    <2>3. s \in Seq(Items) /\ Len(s) = num /\ BagOf(s) = held /\ Ordered(s)
      BY <2>1, InOrderFacts
    <2>4. PICK p : OneMoreItem(s, items', x, p) /\ Ordered(items')
      BY <2>2, <2>3, PutKeepsOrder
    <2>5. num' = num + 1 /\ held' = held (+) SetToBag({x})
      BY <1>2 DEF Insert
    <2>6. BagOf(items') = held' /\ items' \in Seq(Items) /\ Len(items') = num'
      BY <2>3, <2>4, <2>5, BagsMore DEF OneMoreItem
    <2> QED
      BY <2>4, <2>6 DEF Whole, Contents
  <1> QED
    BY <1>1, <1>2 DEF Insert

\* hcore_list_delete
LEMMA DeleteKeepsContents ==
  ASSUME Whole, num \in Nat, NEW x, Delete(x)
  PROVE  Whole'
  <1>1. CASE Crash
    BY <1>1 DEF Crash, Whole
  <1>2. CASE ~null /\ ~Crash
    <2>1. Contents
      BY <1>2 DEF Whole, Delete
    <2>2. /\ x \in Elements(items) /\ num' = num - 1 /\ items' = Without(items, x)
          /\ held' = held (-) SetToBag({x}) /\ sorted' = sorted
      BY <1>2 DEF Delete
    <2>3. items \in Seq(Items) /\ Len(items) = num /\ BagOf(items) = held
      BY <2>1 DEF Contents
    <2>4. PICK p : OneMoreItem(items', items, x, p)
      BY <2>2, <2>3, WithoutFacts
    <2>5. BagOf(items') = held'
      BY <2>2, <2>3, <2>4, BagsMore
    <2>6. items' \in Seq(Items) /\ Len(items') = num'
      <3>1. items' \in Seq(Items) /\ Len(items) = Len(items') + 1
        BY <2>4 DEF OneMoreItem
      <3>2. Len(items') \in Nat
        BY <3>1, LenProperties
      <3> QED
        BY <2>2, <2>3, <3>1, <3>2
    <2>7. sorted' => Ordered(items')
      BY <2>1, <2>2, <2>4, LessKeepsOrder DEF Contents
    <2> QED
      BY <2>5, <2>6, <2>7 DEF Whole, Contents
  <1> QED
    BY <1>1, <1>2 DEF Delete

\* hcore_list_search
LEMMA SearchKeepsContents ==
  ASSUME Whole, num \in Nat, NEW target \in Items, Search(target)
  PROVE  Whole' /\ AnswersRight'
  <1>1. CASE Crash /\ answer' = NoAnswer
    BY <1>1 DEF Crash, Whole, AnswersRight, NoAnswer
  <1>2. CASE ~(null /\ num > 0) /\ ~(Crash /\ answer' = NoAnswer)
    <2>1. Contents
      BY <1>2 DEF Whole, Search
    <2>2. PICK s \in InOrder, x \in Items \union {NoItem} :
             /\ x \in Matches(s, target) /\ items' = s
             /\ answer' = [target |-> target, found |-> x]
      BY <1>2 DEF Search
    <2>3. s \in Seq(Items) /\ Len(s) = num /\ BagOf(s) = held /\ Ordered(s)
      BY <2>1, InOrderFacts
    <2>4. num' = num /\ held' = held
      BY <1>2 DEF Search
    <2>5. Whole'
      BY <2>2, <2>3, <2>4 DEF Whole, Contents
    <2>6. Elements(s) = BagToSet(held)
      BY <2>3, Counted DEF BagToSet
    <2> DEFINE equal == {y \in BagToSet(held) : Key[y] = Key[target]}
    <2>7. IF equal = {} THEN x = NoItem ELSE x \in equal
      BY <2>2, <2>3, <2>6 DEF Matches
    <2>8. AnswersRight'
      BY <2>2, <2>4, <2>7 DEF AnswersRight
    <2> QED
      BY <2>5, <2>8
  <1> QED
    BY <1>1, <1>2 DEF Search

\* Every call keeps the contents, and answers from them.
LEMMA ContentsNext ==
  num \in Nat /\ Whole /\ AnswersRight /\ [Next]_vars => Whole' /\ AnswersRight'
  <1> SUFFICES ASSUME num \in Nat, Whole, AnswersRight, [Next]_vars
               PROVE  Whole' /\ AnswersRight'
    OBVIOUS
  <1>1. CASE UNCHANGED vars
    BY <1>1 DEF vars, Whole, Contents, AnswersRight
  <1>2. answer' = NoAnswer => AnswersRight'
    BY DEF AnswersRight, NoAnswer
  <1>3. ASSUME NEW x \in Items, NEW fails \in BOOLEAN, Add(x, fails) \/ InsertPlain(x, fails)
        PROVE  Whole' /\ AnswersRight'
    BY <1>2, <1>3, AddKeepsContents DEF Add, InsertPlain
  <1>4. ASSUME NEW x \in Items, NEW fails \in BOOLEAN, Insert(x, fails)
        PROVE  Whole' /\ AnswersRight'
    <2>1. answer' = NoAnswer
      BY <1>4 DEF Insert
    <2> QED
      BY <1>2, <1>4, <2>1, InsertKeepsContents
  <1>5. ASSUME NEW x \in Items, Delete(x)
        PROVE  Whole' /\ AnswersRight'
    <2>1. answer' = NoAnswer
      BY <1>5 DEF Delete
    <2> QED
      BY <1>2, <1>5, <2>1, DeleteKeepsContents
  <1>6. ASSUME NEW fails \in BOOLEAN, DeleteAll(fails)
        PROVE  Whole' /\ AnswersRight'
    <2>1. /\ items' = <<>> /\ num' = 0 /\ held' = EmptyBag /\ answer' = NoAnswer
      BY <1>6 DEF DeleteAll
    <2>2. Whole'
      BY <2>1, NothingHeld DEF Whole, Contents
    <2> QED
      BY <1>2, <2>1, <2>2
  <1>7. CASE Sort
    <2>1. answer' = NoAnswer /\ num' = num
      BY <1>7 DEF Sort
    <2>2. CASE Crash
      BY <1>2, <2>1, <2>2 DEF Crash, Whole
    <2>3. CASE ~(null /\ num > 0) /\ items' \in Sortings(items) /\ held' = held
      <3>1. items \in Seq(Items) /\ Len(items) = num /\ BagOf(items) = held
        BY <1>7, <2>3 DEF Whole, Contents, Sort
      <3>2. /\ items' \in Seq(Items) /\ Len(items') = Len(items)
            /\ BagOf(items') = BagOf(items) /\ Ordered(items')
        BY <2>3, <3>1, SortFacts
      <3>3. Whole'
        BY <2>1, <2>3, <3>1, <3>2 DEF Whole, Contents
      <3> QED
        BY <1>2, <2>1, <3>3
    <2> QED
      BY <1>7, <2>2, <2>3 DEF Sort
  <1>8. ASSUME NEW target \in Items, Search(target)
        PROVE  Whole' /\ AnswersRight'
    BY <1>8, SearchKeepsContents
  <1> QED
    BY <1>1, <1>3, <1>4, <1>5, <1>6, <1>7, <1>8 DEF Next

\* Contents and answers, throughout.
LEMMA ContentsInvariance == Spec => [](Whole /\ AnswersRight)
  <1>1. Init => Whole /\ AnswersRight
    BY NothingHeld DEF Init, Whole, Contents, AnswersRight, NoAnswer
  <1>2. IInv => num \in Nat
    BY DEF IInv, Counters
  <1> QED
    BY <1>1, <1>2, ContentsNext, Invariance, PTL DEF Spec

\* Through growth, shrinking, sorting and insertion in the middle the list
\* holds what callers put in it, as often as they did, for every set of items,
\* every comparison and every number of items, until an allocation fails.
THEOREM KeepsContents == Spec => []ContentsKept
  <1>1. Whole => ContentsKept
    BY DEF Whole, Contents, ContentsKept
  <1> QED
    BY <1>1, ContentsInvariance, PTL

\* hcore_list_search finds an item that compares equal exactly when the list
\* holds one.
THEOREM AnswersTruly == Spec => []AnswersRight
  BY ContentsInvariance, PTL
=============================================================================

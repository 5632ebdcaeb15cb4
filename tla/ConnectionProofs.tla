------------------------- MODULE ConnectionProofs -------------------------
(***************************************************************************)
(* What is proved of Connection for all buffers and chains, every limit of *)
(* iovecs and every room of the socket: no byte of the message is lost,    *)
(* repeated or reordered.                                                  *)
(*                                                                         *)
(* The operators that walk a chain are recursive functions.  A function    *)
(* that follows a step exists (Recursion) and is the same on a prefix of   *)
(* the chain (SameStart); from this follow the equations that say what one *)
(* more link adds (BytesMore, SizeMore, IovecMore), and the facts about    *)
(* whole chains by induction on their length (ChainInduction).             *)
(***************************************************************************)
EXTENDS Connection, TLAPS, SequenceTheorems, FiniteSetTheorems, WellFoundedInduction
-----------------------------------------------------------------------------
(* Induction and recursion.                                                 *)

\* A set of numbers has a least element.
LEMMA Least ==
  ASSUME NEW C \in SUBSET Nat, C # {}
  PROVE  \E x \in C : \A y \in C : x <= y
  <1> DEFINE below == {0 .. x : x \in C}
  <1>1. below \subseteq FiniteSubsetsOf(Nat) /\ below # {}
    <2>1. \A x \in C : IsFiniteSet(0 .. x) /\ 0 .. x \subseteq Nat
      BY FS_Interval
    <2> QED
      BY <2>1 DEF FiniteSubsetsOf
  <1>2. PICK u \in below : \A v \in below : <<v, u>> \notin StrictSubsetOrdering(Nat)
    <2> HIDE DEF below
    <2> QED
      BY <1>1, WFMin, FS_StrictSubsetOrderingWellFounded
  <1>3. PICK x \in C : u = 0 .. x
    BY <1>2
  <1>4. ASSUME NEW y \in C, y < x
        PROVE  FALSE
    <2>1. <<0 .. y, 0 .. x>> \notin StrictSubsetOrdering(Nat)
      BY <1>2, <1>3
    <2>2. 0 .. y \subseteq 0 .. x /\ x \in 0 .. x /\ x \notin 0 .. y
      BY <1>4
    <2> QED
      BY <2>1, <2>2 DEF StrictSubsetOrdering
  <1> QED
    BY <1>4

\* What is true of 0, and of k + 1 when it is of k, is true of all numbers.
LEMMA Induction ==
  ASSUME NEW T, 0 \in T, \A k \in Nat : k \in T => k + 1 \in T
  PROVE  Nat \subseteq T
  <1> DEFINE C == Nat \ T
  <1> SUFFICES ASSUME C # {} PROVE FALSE
    OBVIOUS
  <1>1. PICK x \in C : \A y \in C : x <= y
    BY Least
  <1>2. x \in Nat /\ x # 0
    OBVIOUS
  <1>3. x - 1 \in Nat /\ ~(x <= x - 1) /\ (x - 1) + 1 = x
    BY <1>2
  <1>4. x - 1 \in T
    BY <1>1, <1>3
  <1> QED
    BY <1>3, <1>4

\* A function on 0 .. n that starts at a base in S and takes the steps st.
Follows(g, n, S, base, st) ==
  /\ g[0] = base
  /\ \A i \in 1 .. n : g[i - 1] \in S => g[i] = st[<<i, g[i - 1]>>]

Steps(n, S) == [(1 .. n) \X S -> S]

\* Two lists of steps are the same for i up to n; two functions agree there.
SameSteps(st, sh, n, S) == \A i \in 1 .. n, x \in S : st[<<i, x>>] = sh[<<i, x>>]
Agree(g, h, n, S) == \A i \in 0 .. n : g[i] \in S /\ g[i] = h[i]

\* Such a function exists.
LEMMA Recursion ==
  ASSUME NEW n \in Nat, NEW S, NEW base \in S, NEW st \in Steps(n, S)
  PROVE  \E g \in [0 .. n -> S] : Follows(g, n, S, base, st)
  <1> USE DEF Steps
  <1> DEFINE T == {k \in Nat : k <= n => \E g \in [0 .. k -> S] : Follows(g, k, S, base, st)}
  <1>1. 0 \in T
    <2> DEFINE g == [i \in 0 .. 0 |-> base]
    <2>1. g \in [0 .. 0 -> S] /\ Follows(g, 0, S, base, st)
      BY DEF Follows
    <2> HIDE DEF g
    <2> QED
      BY <2>1
  <1>2. ASSUME NEW k \in Nat, k \in T
        PROVE  k + 1 \in T
    <2> SUFFICES ASSUME k + 1 <= n
                 PROVE  \E g \in [0 .. k + 1 -> S] : Follows(g, k + 1, S, base, st)
      OBVIOUS
    <2>1. PICK g \in [0 .. k -> S] : Follows(g, k, S, base, st)
      BY <1>2
    <2> DEFINE x == st[<<k + 1, g[k]>>]
               h == [i \in 0 .. k + 1 |-> IF i = k + 1 THEN x ELSE g[i]]
    <2>2. k \in 0 .. k /\ k + 1 \in 1 .. n /\ k + 1 # 0
      OBVIOUS
    <2>3. x \in S
      BY <2>1, <2>2
    <2>4. \A i \in 0 .. k + 1 : i \in 0 .. k \/ i = k + 1
      OBVIOUS
    <2> HIDE DEF x
    <2>5. h \in [0 .. k + 1 -> S]
      BY <2>1, <2>3, <2>4
    <2>6. h[k + 1] = x /\ \A i \in 0 .. k : h[i] = g[i]
      OBVIOUS
    <2> HIDE DEF h
    <2>7. ASSUME NEW i \in 1 .. k + 1
          PROVE  h[i] = st[<<i, h[i - 1]>>]
      <3>1. CASE i = k + 1
        <4>1. i - 1 = k
          BY <3>1
        <4>2. h[i - 1] = g[k]
          BY <2>2, <2>6, <4>1
        <4> QED
          BY <2>6, <3>1, <4>2 DEF x
      <3>2. CASE i # k + 1
        <4>1. i \in 1 .. k /\ i \in 0 .. k /\ i - 1 \in 0 .. k
          BY <3>2
        <4>2. g[i - 1] \in S
          BY <4>1
        <4>3. g[i] = st[<<i, g[i - 1]>>]
          BY <2>1, <4>1, <4>2 DEF Follows
        <4> QED
          BY <2>6, <4>1, <4>3
      <3> QED
        BY <3>1, <3>2
    <2>8. h[0] = base
      BY <2>1, <2>2, <2>6 DEF Follows
    <2> QED
      BY <2>5, <2>7, <2>8 DEF Follows
  <1> HIDE DEF T
  <1>3. n \in T
    BY <1>1, <1>2, Induction
  <1> QED
    BY <1>3 DEF T

\* Its values are in S, and it agrees with any other function that takes the
\* same steps, as far as both go.
LEMMA SameStart ==
  ASSUME NEW n \in Nat, NEW m \in Nat, m <= n, NEW S, NEW base \in S,
         NEW st \in Steps(n, S), NEW sh, NEW g, NEW h,
         Follows(g, n, S, base, st), Follows(h, m, S, base, sh),
         SameSteps(st, sh, m, S)
  PROVE  Agree(g, h, m, S)
  <1> USE DEF Steps, SameSteps, Agree
  <1> DEFINE T == {k \in Nat : k <= m => g[k] \in S /\ g[k] = h[k]}
  <1>1. 0 \in T
    BY DEF Follows
  <1>2. ASSUME NEW k \in Nat, k \in T
        PROVE  k + 1 \in T
    <2> SUFFICES ASSUME k + 1 <= m PROVE g[k + 1] \in S /\ g[k + 1] = h[k + 1]
      OBVIOUS
    <2>1. k <= m /\ k \in 0 .. m /\ k + 1 \in 1 .. m /\ k + 1 \in 1 .. n /\ (k + 1) - 1 = k
      OBVIOUS
    <2>2. g[k] = h[k] /\ g[k] \in S
      BY <1>2, <2>1
    <2>3. g[k + 1] = st[<<k + 1, g[k]>>] /\ h[k + 1] = sh[<<k + 1, h[k]>>]
      <3>1. g[(k + 1) - 1] \in S /\ h[(k + 1) - 1] \in S
        BY <2>1, <2>2
      <3> QED
        BY <2>1, <3>1 DEF Follows
    <2> QED
      BY <2>1, <2>2, <2>3
  <1> HIDE DEF T
  <1>3. Nat \subseteq T
    BY <1>1, <1>2, Induction
  <1> QED
    BY <1>3 DEF T

\* What is true of the empty chain, and of a chain with one more link when it
\* is of the chain, is true of all chains.
LEMMA ChainInduction ==
  ASSUME NEW S, NEW T, <<>> \in T,
         \A s \in Seq(S), b \in S : s \in T => Append(s, b) \in T
  PROVE  Seq(S) \subseteq T
  <1> DEFINE K == {k \in Nat : \A s \in Seq(S) : Len(s) = k => s \in T}
  <1>1. 0 \in K
    BY EmptySeq
  <1>2. ASSUME NEW k \in Nat, k \in K
        PROVE  k + 1 \in K
    <2> SUFFICES ASSUME NEW s \in Seq(S), Len(s) = k + 1 PROVE s \in T
      OBVIOUS
    <2>1. s # <<>>
      BY EmptySeq
    <2>2. PICK t \in Seq(S), b \in S : s = Append(t, b)
      BY <2>1, SequenceEmptyOrAppend
    <2>3. Len(t) \in Nat /\ Len(s) = Len(t) + 1
      BY <2>2, AppendProperties, LenProperties
    <2>4. t \in T
      BY <1>2, <2>3
    <2> QED
      BY <2>2, <2>4
  <1> HIDE DEF K
  <1>3. Nat \subseteq K
    BY <1>1, <1>2, Induction
  <1> QED
    BY <1>3 DEF K
-----------------------------------------------------------------------------
(* Buffers, and what one more link adds to a chain.                         *)

\* The size of a buffer is the number of its bytes.
LEMMA OneBuffer ==
  ASSUME NEW b \in Areas
  PROVE  /\ b.pos \in Nat /\ b.last \in Nat /\ b.pos # 0 /\ b.pos <= b.last
         /\ Size(b) \in Nat
         /\ Bytes(b) \in Seq(Nat) /\ Len(Bytes(b)) = Size(b)
         /\ \A i \in 1 .. Size(b) : Bytes(b)[i] = b.pos + i - 1
  <1>1. b.pos \in Nat /\ b.last \in Nat /\ b.pos # 0 /\ b.pos <= b.last
    BY DEF Areas
  <1>2. Size(b) \in Nat
    BY <1>1 DEF Size
  <1>3. \A i \in 1 .. Size(b) : b.pos + i - 1 \in Nat
    BY <1>1, <1>2
  <1> QED
    BY <1>1, <1>2, <1>3 DEF Bytes

\* Where a link is in a chain, and in the chain with one more link.
LEMMA OneMore ==
  ASSUME NEW links \in Seq(Areas), NEW b \in Areas
  PROVE  /\ Append(links, b) \in Seq(Areas)
         /\ Len(links) \in Nat /\ Len(Append(links, b)) = Len(links) + 1
         /\ \A i \in 1 .. Len(links) : Append(links, b)[i] = links[i] /\ links[i] \in Areas
         /\ Append(links, b)[Len(links) + 1] = b
  BY AppendProperties, ElementOfSeq, LenProperties

BytesStep(links) ==
  [p \in (1 .. Len(links)) \X Seq(Nat) |-> p[2] \o Bytes(links[p[1]])]

\* The function that AllBytes chooses follows the steps.
LEMMA BytesFollow ==
  ASSUME NEW links \in Seq(Areas)
  PROVE  /\ BytesStep(links) \in Steps(Len(links), Seq(Nat))
         /\ \E g : /\ Follows(g, Len(links), Seq(Nat), <<>>, BytesStep(links))
                   /\ AllBytes(links) = g[Len(links)]
  <1> DEFINE n == Len(links)
             st == BytesStep(links)
             Is(g) == g = [i \in 0 .. Len(links) |->
                             IF i = 0 THEN <<>> ELSE g[i - 1] \o Bytes(links[i])]
  <1>1. n \in Nat /\ <<>> \in Seq(Nat) /\ \A i \in 1 .. n : Bytes(links[i]) \in Seq(Nat)
    BY OneBuffer, ElementOfSeq, LenProperties, EmptySeq
  <1>2. st \in Steps(n, Seq(Nat))
    BY <1>1, ConcatProperties DEF BytesStep, Steps
  <1>3. \A i \in 1 .. n, x \in Seq(Nat) : st[<<i, x>>] = x \o Bytes(links[i])
    BY DEF BytesStep
  <1> HIDE DEF st
  <1>4. PICK g \in [0 .. n -> Seq(Nat)] : Follows(g, n, Seq(Nat), <<>>, st)
    BY <1>1, <1>2, Recursion
  <1>5. Is(g)
    <2>1. ASSUME NEW i \in 0 .. n
          PROVE  g[i] = IF i = 0 THEN <<>> ELSE g[i - 1] \o Bytes(links[i])
      <3>1. CASE i = 0
        BY <3>1, <1>4 DEF Follows
      <3>2. CASE i # 0
        <4>1. i \in 1 .. n /\ i - 1 \in 0 .. n
          BY <1>1, <3>2
        <4>2. g[i - 1] \in Seq(Nat)
          BY <4>1
        <4> QED
          BY <1>3, <1>4, <3>2, <4>1, <4>2 DEF Follows
      <3> QED
        BY <3>1, <3>2
    <2> QED
      BY <2>1
  <1>6. PICK h : Is(h) /\ h = CHOOSE f : Is(f)
    BY <1>5
  <1>7. AllBytes(links) = h[Len(links)]
    BY <1>6 DEF AllBytes
  <1>8. \A i \in 0 .. n : h[i] = IF i = 0 THEN <<>> ELSE h[i - 1] \o Bytes(links[i])
    BY <1>6
  <1>9. Follows(h, n, Seq(Nat), <<>>, st)
    <2>1. h[0] = <<>>
      BY <1>1, <1>8
    <2>2. \A i \in 1 .. n : i \in 0 .. n /\ i # 0
      BY <1>1
    <2>3. \A i \in 1 .. n : h[i] = h[i - 1] \o Bytes(links[i])
      BY <1>8, <2>2
    <2> QED
      BY <1>3, <2>1, <2>3 DEF Follows
  <1> QED
    BY <1>2, <1>7, <1>9 DEF st

\* The bytes of a chain with one more link are its bytes and those of the link.
LEMMA BytesMore ==
  ASSUME NEW links \in Seq(Areas), NEW b \in Areas
  PROVE  /\ AllBytes(links) \in Seq(Nat)
         /\ AllBytes(Append(links, b)) = AllBytes(links) \o Bytes(b)
  <1> DEFINE more == Append(links, b)
             n == Len(links)
             m == Len(links) + 1
             S == Seq(Nat)
             st == BytesStep(links)
             sm == BytesStep(more)
  <1>1. /\ more \in Seq(Areas) /\ n \in Nat /\ m \in Nat /\ Len(more) = m
        /\ n <= m /\ m \in 1 .. m /\ m - 1 = n /\ n \in 0 .. n
    <2>1. /\ more \in Seq(Areas) /\ n \in Nat /\ Len(more) = n + 1
      BY OneMore
    <2> QED
      BY <2>1
  <1>2. <<>> \in S
    BY EmptySeq
  <1>3. PICK g : Follows(g, n, S, <<>>, st) /\ AllBytes(links) = g[n]
    BY BytesFollow
  <1>4. /\ sm \in Steps(m, S)
        /\ \E h : Follows(h, m, S, <<>>, sm) /\ AllBytes(more) = h[m]
    BY <1>1, BytesFollow
  <1>5. PICK h : Follows(h, m, S, <<>>, sm) /\ AllBytes(more) = h[m]
    BY <1>4
  <1>6. SameSteps(sm, st, n, S)
    BY <1>1, OneMore DEF BytesStep, SameSteps
  <1>7. \A x \in S : sm[<<m, x>>] = x \o Bytes(b)
    <2>1. m \in 1 .. Len(more) /\ more[m] = b
      BY <1>1, OneMore
    <2> QED
      BY <2>1 DEF BytesStep
  <1> HIDE DEF S, sm, st, more, n, m
  <1>8. Agree(h, g, n, S)
    BY ONLY <1>1, <1>2, <1>3, <1>4, <1>5, <1>6, SameStart
  <1>9. h[m] = sm[<<m, h[n]>>]
    <2>1. h[n] \in S
      BY <1>1, <1>8 DEF Agree
    <2>2. \A i \in 1 .. m : h[i - 1] \in S => h[i] = sm[<<i, h[i - 1]>>]
      BY <1>5 DEF Follows
    <2> QED
      BY <1>1, <2>1, <2>2
  <1> QED
    BY <1>1, <1>3, <1>5, <1>7, <1>8, <1>9 DEF S, more, n, Agree

\* No link, no byte.
LEMMA NoBytes == AllBytes(<<>>) = <<>>
  <1>1. <<>> \in Seq(Areas) /\ Len(<<>>) = 0
    BY EmptySeq
  <1>2. PICK g : Follows(g, 0, Seq(Nat), <<>>, BytesStep(<<>>)) /\ AllBytes(<<>>) = g[0]
    BY <1>1, BytesFollow
  <1> QED
    BY <1>2 DEF Follows

SizeStep(links) ==
  [p \in (1 .. Len(links)) \X Nat |-> p[2] + Size(links[p[1]])]

\* The function that TotalSize chooses follows the steps.
LEMMA SizeFollow ==
  ASSUME NEW links \in Seq(Areas)
  PROVE  /\ SizeStep(links) \in Steps(Len(links), Nat)
         /\ \E g : /\ Follows(g, Len(links), Nat, 0, SizeStep(links))
                   /\ TotalSize(links) = g[Len(links)]
  <1> DEFINE n == Len(links)
             st == SizeStep(links)
             Is(g) == g = [i \in 0 .. Len(links) |->
                             IF i = 0 THEN 0 ELSE g[i - 1] + Size(links[i])]
  <1>1. n \in Nat /\ 0 \in Nat /\ \A i \in 1 .. n : Size(links[i]) \in Nat
    BY OneBuffer, ElementOfSeq, LenProperties
  <1>2. st \in Steps(n, Nat)
    BY <1>1, SMT DEF SizeStep, Steps
  <1>3. \A i \in 1 .. n, x \in Nat : st[<<i, x>>] = x + Size(links[i])
    BY DEF SizeStep
  <1> HIDE DEF st
  <1>4. PICK g \in [0 .. n -> Nat] : Follows(g, n, Nat, 0, st)
    BY <1>1, <1>2, Recursion
  <1>5. Is(g)
    <2>1. ASSUME NEW i \in 0 .. n
          PROVE  g[i] = IF i = 0 THEN 0 ELSE g[i - 1] + Size(links[i])
      <3>1. CASE i = 0
        BY <3>1, <1>4 DEF Follows
      <3>2. CASE i # 0
        <4>1. i \in 1 .. n /\ i - 1 \in 0 .. n
          BY <1>1, <3>2
        <4>2. g[i - 1] \in Nat
          BY <4>1
        <4> QED
          BY <1>3, <1>4, <3>2, <4>1, <4>2 DEF Follows
      <3> QED
        BY <3>1, <3>2
    <2> QED
      BY <2>1
  <1>6. PICK h : Is(h) /\ h = CHOOSE f : Is(f)
    BY <1>5
  <1>7. TotalSize(links) = h[Len(links)]
    BY <1>6 DEF TotalSize
  <1>8. \A i \in 0 .. n : h[i] = IF i = 0 THEN 0 ELSE h[i - 1] + Size(links[i])
    BY <1>6
  <1>9. Follows(h, n, Nat, 0, st)
    <2>1. h[0] = 0
      BY <1>1, <1>8
    <2>2. \A i \in 1 .. n : i \in 0 .. n /\ i # 0
      BY <1>1
    <2>3. \A i \in 1 .. n : h[i] = h[i - 1] + Size(links[i])
      BY <1>8, <2>2
    <2> QED
      BY <1>3, <2>1, <2>3 DEF Follows
  <1> QED
    BY <1>2, <1>7, <1>9 DEF st

\* The size of a chain with one more link is its size and that of the link.
LEMMA SizeMore ==
  ASSUME NEW links \in Seq(Areas), NEW b \in Areas
  PROVE  /\ TotalSize(links) \in Nat
         /\ TotalSize(Append(links, b)) = TotalSize(links) + Size(b)
  <1> DEFINE more == Append(links, b)
             n == Len(links)
             m == Len(links) + 1
             S == Nat
             st == SizeStep(links)
             sm == SizeStep(more)
  <1>1. /\ more \in Seq(Areas) /\ n \in Nat /\ m \in Nat /\ Len(more) = m
        /\ n <= m /\ m \in 1 .. m /\ m - 1 = n /\ n \in 0 .. n
    <2>1. /\ more \in Seq(Areas) /\ n \in Nat /\ Len(more) = n + 1
      BY OneMore
    <2> QED
      BY <2>1
  <1>2. 0 \in S
    OBVIOUS
  <1>3. PICK g : Follows(g, n, S, 0, st) /\ TotalSize(links) = g[n]
    BY SizeFollow
  <1>4. /\ sm \in Steps(m, S)
        /\ \E h : Follows(h, m, S, 0, sm) /\ TotalSize(more) = h[m]
    BY <1>1, SizeFollow
  <1>5. PICK h : Follows(h, m, S, 0, sm) /\ TotalSize(more) = h[m]
    BY <1>4
  <1>6. SameSteps(sm, st, n, S)
    BY <1>1, OneMore DEF SizeStep, SameSteps
  <1>7. \A x \in S : sm[<<m, x>>] = x + Size(b)
    <2>1. m \in 1 .. Len(more) /\ more[m] = b
      BY <1>1, OneMore
    <2> QED
      BY <2>1 DEF SizeStep
  <1> HIDE DEF S, sm, st, more, n, m
  <1>8. Agree(h, g, n, S)
    BY ONLY <1>1, <1>2, <1>3, <1>4, <1>5, <1>6, SameStart
  <1>9. h[m] = sm[<<m, h[n]>>]
    <2>1. h[n] \in S
      BY <1>1, <1>8 DEF Agree
    <2>2. \A i \in 1 .. m : h[i - 1] \in S => h[i] = sm[<<i, h[i - 1]>>]
      BY <1>5 DEF Follows
    <2> QED
      BY <1>1, <2>1, <2>2
  <1> QED
    BY <1>1, <1>3, <1>5, <1>7, <1>8, <1>9 DEF S, more, n, Agree

\* No link, no size.
LEMMA NoSize == TotalSize(<<>>) = 0
  <1>1. <<>> \in Seq(Areas) /\ Len(<<>>) = 0
    BY EmptySeq
  <1>2. PICK g : Follows(g, 0, Nat, 0, SizeStep(<<>>)) /\ TotalSize(<<>>) = g[0]
    BY <1>1, SizeFollow
  <1> QED
    BY <1>2 DEF Follows
-----------------------------------------------------------------------------
(* Whole chains.                                                            *)

\* The size of a chain is the number of its bytes.
LEMMA Counted ==
  ASSUME NEW links \in Seq(Areas)
  PROVE  /\ AllBytes(links) \in Seq(Nat)
         /\ TotalSize(links) \in Nat
         /\ Len(AllBytes(links)) = TotalSize(links)
  <1> DEFINE Holds(s) == /\ AllBytes(s) \in Seq(Nat) /\ TotalSize(s) \in Nat
                         /\ Len(AllBytes(s)) = TotalSize(s)
             T == {s \in Seq(Areas) : Holds(s)}
  <1>1. <<>> \in T
    <2>1. Len(<<>>) = 0 /\ <<>> \in Seq(Nat) /\ <<>> \in Seq(Areas)
      BY EmptySeq
    <2>2. Holds(<<>>)
      <3>1. AllBytes(<<>>) \in Seq(Nat) /\ Len(AllBytes(<<>>)) = 0
        BY <2>1, NoBytes, Zenon
      <3>2. 0 \in Nat
        OBVIOUS
      <3> QED
        BY <3>1, <3>2, NoSize, Zenon
    <2> QED
      BY <2>1, <2>2
  <1>2. ASSUME NEW s \in Seq(Areas), NEW b \in Areas, s \in T
        PROVE  Append(s, b) \in T
    <2>1. /\ AllBytes(s) \in Seq(Nat) /\ TotalSize(s) \in Nat
          /\ Len(AllBytes(s)) = TotalSize(s)
      BY <1>2
    <2>2. AllBytes(Append(s, b)) = AllBytes(s) \o Bytes(b)
      BY BytesMore
    <2>3. TotalSize(Append(s, b)) = TotalSize(s) + Size(b)
      BY SizeMore
    <2>4. Bytes(b) \in Seq(Nat) /\ Len(Bytes(b)) = Size(b) /\ Size(b) \in Nat
      BY OneBuffer
    <2>5. /\ AllBytes(s) \o Bytes(b) \in Seq(Nat)
          /\ Len(AllBytes(s) \o Bytes(b)) = Len(AllBytes(s)) + Len(Bytes(b))
      BY <2>1, <2>4, ConcatProperties
    <2>6. Append(s, b) \in Seq(Areas)
      BY OneMore
    <2>7. TotalSize(s) + Size(b) \in Nat
      BY <2>1, <2>4
    <2>8. Holds(Append(s, b))
      BY <2>1, <2>2, <2>3, <2>4, <2>5, <2>7
    <2> QED
      BY <2>6, <2>8
  <1> HIDE DEF T
  <1>3. Seq(Areas) \subseteq T
    BY <1>1, <1>2, ChainInduction
  <1> QED
    BY <1>3 DEF T

\* Three strings of bytes, joined one after another.
LEMMA Regroup ==
  ASSUME NEW x \in Seq(Nat), NEW y \in Seq(Nat), NEW z \in Seq(Nat)
  PROVE  (x \o y) \o z = x \o (y \o z)
  BY ONLY ConcatAssociative, x \in Seq(Nat), y \in Seq(Nat), z \in Seq(Nat), SMTT(60)

\* One chain after another has the bytes and the size of both.
LEMMA Joined ==
  ASSUME NEW s \in Seq(Areas), NEW t \in Seq(Areas)
  PROVE  /\ s \o t \in Seq(Areas)
         /\ AllBytes(s \o t) = AllBytes(s) \o AllBytes(t)
         /\ TotalSize(s \o t) = TotalSize(s) + TotalSize(t)
  <1> DEFINE Holds(u) == /\ AllBytes(s \o u) = AllBytes(s) \o AllBytes(u)
                         /\ TotalSize(s \o u) = TotalSize(s) + TotalSize(u)
             T == {u \in Seq(Areas) : Holds(u)}
  <1>1. <<>> \in T
    <2>1. s \o <<>> = s /\ AllBytes(s) \o <<>> = AllBytes(s)
      BY Counted, ConcatEmptySeq
    <2>2. TotalSize(s) + 0 = TotalSize(s)
      BY Counted
    <2> QED
      BY <2>1, <2>2, EmptySeq, NoBytes, NoSize
  <1>2. ASSUME NEW u \in Seq(Areas), NEW b \in Areas, u \in T
        PROVE  Append(u, b) \in T
    <2>1. Holds(u)
      BY <1>2
    <2>2. s \o Append(u, b) = Append(s \o u, b)
      <3>1. <<b>> \in Seq(Areas) /\ s \o u \in Seq(Areas)
        BY ConcatProperties
      <3>2. Append(u, b) = u \o <<b>> /\ Append(s \o u, b) = (s \o u) \o <<b>>
        BY <3>1, AppendIsConcat
      <3> QED
        BY <3>1, <3>2, ConcatAssociative
    <2>3. s \o u \in Seq(Areas) /\ Append(u, b) \in Seq(Areas)
      BY ConcatProperties, OneMore
    <2>4. /\ AllBytes(s) \in Seq(Nat) /\ AllBytes(u) \in Seq(Nat) /\ Bytes(b) \in Seq(Nat)
          /\ TotalSize(s) \in Nat /\ TotalSize(u) \in Nat /\ Size(b) \in Nat
      BY Counted, OneBuffer
    <2>5. /\ AllBytes(Append(s \o u, b)) = AllBytes(s \o u) \o Bytes(b)
          /\ AllBytes(Append(u, b)) = AllBytes(u) \o Bytes(b)
      BY <2>3, BytesMore
    <2>6. /\ TotalSize(Append(s \o u, b)) = TotalSize(s \o u) + Size(b)
          /\ TotalSize(Append(u, b)) = TotalSize(u) + Size(b)
      BY <2>3, SizeMore
    <2>7. (AllBytes(s) \o AllBytes(u)) \o Bytes(b) = AllBytes(s) \o (AllBytes(u) \o Bytes(b))
      BY ONLY <2>4, Regroup, ZenonT(60)
    <2>8. (TotalSize(s) + TotalSize(u)) + Size(b) = TotalSize(s) + (TotalSize(u) + Size(b))
      BY <2>4
    <2> QED
      BY <2>1, <2>2, <2>3, <2>5, <2>6, <2>7, <2>8
  <1> HIDE DEF T
  <1>3. Seq(Areas) \subseteq T
    BY <1>1, <1>2, ChainInduction
  <1>4. s \o t \in Seq(Areas)
    BY ConcatProperties
  <1> QED
    BY <1>3, <1>4 DEF T

\* A chain of one link.
LEMMA Single ==
  ASSUME NEW b \in Areas
  PROVE  <<b>> \in Seq(Areas) /\ AllBytes(<<b>>) = Bytes(b) /\ TotalSize(<<b>>) = Size(b)
  <1>1. <<>> \in Seq(Areas) /\ Append(<<>>, b) = <<b>>
    BY EmptySeq
  <1>2. <<>> \o Bytes(b) = Bytes(b) /\ 0 + Size(b) = Size(b)
    BY OneBuffer, ConcatEmptySeq
  <1> QED
    BY <1>1, <1>2, BytesMore, SizeMore, NoBytes, NoSize, OneMore
-----------------------------------------------------------------------------
(* hcore_update_output_chain.                                               *)

\* The first bytes of a string that starts with x are x.
LEMMA Prefix ==
  ASSUME NEW x \in Seq(Nat), NEW y \in Seq(Nat), Len(x) # 0
  PROVE  SubSeq(x \o y, 1, Len(x)) = x
  <1>1. Len(x) \in Nat /\ 1 \in 1 .. Len(x) /\ Len(x) \in 1 .. Len(x)
    BY LenProperties
  <1>2. SubSeq(x \o y, 1, Len(x)) = SubSeq(x, 1, Len(x))
    BY <1>1, SubSeqOfConcat1
  <1> QED
    BY <1>2, SubSeqFull

\* A string can be cut anywhere.
LEMMA Cut ==
  ASSUME NEW x \in Seq(Nat), NEW n \in 0 .. Len(x)
  PROVE  /\ SubSeq(x, 1, n) \in Seq(Nat) /\ SubSeq(x, n + 1, Len(x)) \in Seq(Nat)
         /\ Len(SubSeq(x, 1, n)) = n
         /\ Len(SubSeq(x, n + 1, Len(x))) = Len(x) - n
         /\ x = SubSeq(x, 1, n) \o SubSeq(x, n + 1, Len(x))
  <1>1. /\ Len(x) \in Nat /\ n \in Nat /\ n <= Len(x)
        /\ 1 \in 1 .. Len(x) + 1 /\ n \in 1 - 1 .. Len(x) /\ Len(x) \in n .. Len(x)
    BY LenProperties
  <1>2. \A i \in 1 .. Len(x) : x[i] \in Nat
    BY ElementOfSeq
  <1>3. SubSeq(x, 1, n) \in Seq(Nat) /\ Len(SubSeq(x, 1, n)) = n
    <2>1. \A i \in 1 .. n : x[i] \in Nat
      BY <1>1, <1>2
    <2> QED
      BY <1>1, <2>1, SubSeqProperties
  <1>4. SubSeq(x, n + 1, Len(x)) \in Seq(Nat) /\ Len(SubSeq(x, n + 1, Len(x))) = Len(x) - n
    <2>1. \A i \in n + 1 .. Len(x) : x[i] \in Nat
      BY <1>1, <1>2
    <2> QED
      BY <1>1, <2>1, SubSeqProperties
  <1>5. SubSeq(x, 1, n) \o SubSeq(x, n + 1, Len(x)) = SubSeq(x, 1, Len(x))
    BY <1>1, ConcatAdjacentSubSeq
  <1> QED
    BY <1>3, <1>4, <1>5, SubSeqFull

\* A buffer of which some bytes were sent keeps the bytes after them.
LEMMA CutBuffer ==
  ASSUME NEW b \in Areas, NEW n \in 0 .. Size(b)
  PROVE  LET rest == [b EXCEPT !.pos = @ + n]
         IN  /\ rest \in Areas /\ Size(rest) = Size(b) - n
             /\ Bytes(b) = SubSeq(Bytes(b), 1, n) \o Bytes(rest)
             /\ SubSeq(Bytes(b), 1, n) \in Seq(Nat) /\ Len(SubSeq(Bytes(b), 1, n)) = n
  <1> DEFINE rest == [b EXCEPT !.pos = @ + n]
             tail == SubSeq(Bytes(b), n + 1, Size(b))
  <1>1. /\ b.pos \in Nat /\ b.last \in Nat /\ b.pos # 0 /\ b.pos <= b.last
        /\ Size(b) = b.last - b.pos /\ Size(b) \in Nat /\ n \in Nat /\ n <= Size(b)
    BY OneBuffer DEF Size
  <1>2. rest = [pos |-> b.pos + n, last |-> b.last]
    BY DEF Areas
  <1>3. rest \in Areas /\ rest.pos = b.pos + n /\ Size(rest) = Size(b) - n
    BY <1>1, <1>2 DEF Areas, Size
  <1>4. /\ Bytes(b) \in Seq(Nat) /\ Len(Bytes(b)) = Size(b)
        /\ \A i \in 1 .. Size(b) : Bytes(b)[i] = b.pos + i - 1
    BY OneBuffer
  <1>5. /\ SubSeq(Bytes(b), 1, n) \in Seq(Nat) /\ tail \in Seq(Nat)
        /\ Len(SubSeq(Bytes(b), 1, n)) = n /\ Len(tail) = Size(b) - n
        /\ Bytes(b) = SubSeq(Bytes(b), 1, n) \o tail
    BY <1>4, Cut
  <1> HIDE DEF rest
  <1>6. tail = Bytes(rest)
    <2>1. /\ Bytes(rest) \in Seq(Nat) /\ Len(Bytes(rest)) = Size(rest)
          /\ \A i \in 1 .. Size(rest) : Bytes(rest)[i] = rest.pos + i - 1
      BY <1>3, OneBuffer
    <2>2. \A i \in 1 .. Size(b) - n : tail[i] = b.pos + n + i - 1
      <3>1. \A i \in n + 1 .. Size(b) : i \in 1 .. Size(b) /\ Bytes(b)[i] \in Nat
        BY <1>1, <1>4
      <3>2. n + 1 \in Int /\ Size(b) \in Int
        BY <1>1
      <3>3. \A i \in 1 .. Size(b) - (n + 1) + 1 : tail[i] = Bytes(b)[(n + 1) + i - 1]
        BY <3>1, <3>2, SubSeqProperties
      <3>4. \A i \in 1 .. Size(b) - n :
              /\ i \in 1 .. Size(b) - (n + 1) + 1 /\ (n + 1) + i - 1 \in 1 .. Size(b)
              /\ b.pos + ((n + 1) + i - 1) - 1 = b.pos + n + i - 1
        BY <1>1
      <3> QED
        BY <1>4, <3>3, <3>4
    <2>3. Size(rest) = Size(b) - n /\ rest.pos = b.pos + n
      BY <1>3
    <2> HIDE DEF tail
    <2>4. \A i \in 1 .. Len(tail) : tail[i] = Bytes(rest)[i]
      BY <1>1, <1>5, <2>1, <2>2, <2>3
    <2> QED
      BY <1>5, <2>1, <2>3, <2>4, SeqEqual
  <1> QED
    BY <1>3, <1>5, <1>6 DEF rest

\* A chain is the links before one, this link, and the links after it.
LEMMA AtLink ==
  ASSUME NEW links \in Seq(Areas), NEW k \in 1 .. Len(links)
  PROVE  /\ SubSeq(links, 1, k - 1) \in Seq(Areas)
         /\ SubSeq(links, k + 1, Len(links)) \in Seq(Areas)
         /\ links[k] \in Areas
         /\ SubSeq(links, 1, k) = SubSeq(links, 1, k - 1) \o <<links[k]>>
         /\ links = SubSeq(links, 1, k) \o SubSeq(links, k + 1, Len(links))
  <1>1. /\ Len(links) \in Nat /\ k \in Int /\ k - 1 \in Int /\ k + 1 \in Int
        /\ 1 \in 1 .. Len(links) /\ k \in 1 .. Len(links)
        /\ 1 \in 1 .. Len(links) + 1 /\ k \in 1 - 1 .. Len(links) /\ Len(links) \in k .. Len(links)
    BY LenProperties
  <1>2. \A i \in 1 .. Len(links) : links[i] \in Areas
    BY ElementOfSeq
  <1>3. SubSeq(links, 1, k - 1) \in Seq(Areas)
    <2>1. \A i \in 1 .. k - 1 : links[i] \in Areas
      BY <1>1, <1>2
    <2> QED
      BY <1>1, <2>1, SubSeqProperties
  <1>4. SubSeq(links, k + 1, Len(links)) \in Seq(Areas)
    <2>1. \A i \in k + 1 .. Len(links) : links[i] \in Areas
      BY <1>1, <1>2
    <2> QED
      BY <1>1, <2>1, SubSeqProperties
  <1>5. SubSeq(links, 1, k) = SubSeq(links, 1, k - 1) \o <<links[k]>>
    <2>1. k \in 1 .. Len(links) /\ 1 \in 1 .. Len(links) /\ k \in 1 .. k
      BY <1>1
    <2> QED
      BY <1>1, SubSeqRecursiveSecond
  <1>6. SubSeq(links, 1, k) \o SubSeq(links, k + 1, Len(links)) = SubSeq(links, 1, Len(links))
    BY <1>1, ConcatAdjacentSubSeq
  <1> QED
    BY <1>2, <1>3, <1>4, <1>5, <1>6, SubSeqFull

\* The link at which n bytes are passed over: the links before it hold fewer,
\* with it there are enough.
LEMMA TheLink ==
  ASSUME NEW links \in Seq(Areas), NEW n \in 1 .. TotalSize(links)
  PROVE  LET k == Min(Reached(links, n))
         IN  /\ Reached(links, n) # {} /\ k \in 1 .. Len(links)
             /\ TotalSize(SubSeq(links, 1, k - 1)) < n
             /\ n <= TotalSize(SubSeq(links, 1, k))
  <1> DEFINE R == Reached(links, n)
             k == Min(R)
  <1>1. /\ Len(links) \in Nat /\ DOMAIN links = 1 .. Len(links)
        /\ TotalSize(links) \in Nat /\ n \in Nat /\ 1 <= n /\ n <= TotalSize(links)
    BY LenProperties, Counted
  <1>2. R = {i \in 1 .. Len(links) : TotalSize(SubSeq(links, 1, i)) >= n}
    BY <1>1 DEF Reached
  <1> HIDE DEF R
  <1>3. Len(links) # 0
    <2> SUFFICES ASSUME Len(links) = 0 PROVE FALSE
      OBVIOUS
    <2>1. links = <<>>
      BY EmptySeq
    <2>2. TotalSize(links) = 0
      BY <2>1, NoSize, Zenon
    <2> QED
      BY <1>1, <2>2
  <1>4. Len(links) \in R
    <2>1. Len(links) \in 1 .. Len(links)
      BY <1>1, <1>3
    <2>2. SubSeq(links, 1, Len(links)) = links
      BY SubSeqFull
    <2>3. TotalSize(links) >= n
      BY <1>1
    <2>4. TotalSize(SubSeq(links, 1, Len(links))) >= n
      BY ONLY <2>2, <2>3
    <2> QED
      BY <1>2, <2>1, <2>4
  <1>5. k \in R /\ \A y \in R : k <= y
    <2>1. R \subseteq Nat /\ R # {}
      BY <1>1, <1>2, <1>4
    <2>2. \E x \in R : \A y \in R : x <= y
      BY <2>1, Least
    <2> QED
      BY <2>2 DEF Min
  <1> HIDE DEF k
  <1>6. k \in 1 .. Len(links) /\ n <= TotalSize(SubSeq(links, 1, k))
    <2>1. SubSeq(links, 1, k) \in Seq(Areas)
      BY <1>2, <1>5, AtLink, Single, Joined
    <2>2. TotalSize(SubSeq(links, 1, k)) \in Nat
      BY <2>1, Counted
    <2>3. k \in 1 .. Len(links) /\ TotalSize(SubSeq(links, 1, k)) >= n
      BY <1>2, <1>5
    <2> QED
      BY <1>1, <2>2, <2>3
  <1>7. TotalSize(SubSeq(links, 1, k - 1)) < n
    <2>1. k \in Nat /\ 1 <= k /\ k <= Len(links)
      BY <1>1, <1>6
    <2>2. CASE k = 1
      <3>1. SubSeq(links, 1, k - 1) = <<>>
        <4>1. 1 \in Int /\ k - 1 \in Int /\ k - 1 < 1
          BY <2>2
        <4> QED
          BY <4>1, SubSeqEmpty
      <3>2. TotalSize(SubSeq(links, 1, k - 1)) = 0
        BY <3>1, NoSize, Zenon
      <3> QED
        BY <1>1, <3>2
    <2>3. CASE k # 1
      <3>1. k - 1 \in 1 .. Len(links) /\ ~(k <= k - 1)
        BY <1>1, <2>1, <2>3
      <3>2. k - 1 \notin R
        BY <1>5, <3>1
      <3>3. ~(TotalSize(SubSeq(links, 1, k - 1)) >= n)
        BY <1>2, <3>1, <3>2
      <3>4. TotalSize(SubSeq(links, 1, k - 1)) \in Nat
        BY <1>6, AtLink, Counted
      <3> QED
        BY <1>1, <3>3, <3>4
    <2> QED
      BY <2>2, <2>3
  <1>8. Reached(links, n) # {}
    BY <1>4 DEF R
  <1> QED
    BY <1>6, <1>7, <1>8 DEF k, R



\* hcore_update_output_chain takes the first n bytes off the chain, no more
\* and no fewer, and leaves the others in their order.
LEMMA Advanced ==
  ASSUME NEW links \in Seq(Areas), NEW n \in 0 .. TotalSize(links)
  PROVE  /\ UpdateOutputChain(links, n) \in Seq(Areas)
         /\ SubSeq(AllBytes(links), 1, n) \o AllBytes(UpdateOutputChain(links, n))
              = AllBytes(links)
  <1>0. TotalSize(links) \in Nat /\ n \in Nat
    BY Counted
  <1>1. CASE n = 0
    <2>1. UpdateOutputChain(links, n) = links
      BY <1>1 DEF UpdateOutputChain
    <2>2. SubSeq(AllBytes(links), 1, n) = <<>>
      BY <1>1, SubSeqEmpty
    <2>3. AllBytes(links) \in Seq(Nat)
      BY Counted
    <2> QED
      BY <2>1, <2>2, <2>3, ConcatEmptySeq
  <1>2. CASE n # 0
    <2> DEFINE k == Min(Reached(links, n))
               before == SubSeq(links, 1, k - 1)
               after == SubSeq(links, k + 1, Len(links))
               b == links[k]
               rest == n - TotalSize(before)
               left == [b EXCEPT !.pos = @ + rest]
               head == SubSeq(Bytes(b), 1, rest)
    <2>1. UpdateOutputChain(links, n) = <<left>> \o after
      <3>1. n \in 1 .. TotalSize(links)
        BY <1>0, <1>2
      <3> QED
        BY <1>2, <3>1, TheLink DEF UpdateOutputChain
    <2>2. /\ k \in 1 .. Len(links) /\ TotalSize(before) < n
          /\ n <= TotalSize(SubSeq(links, 1, k))
      <3>1. n \in 1 .. TotalSize(links)
        BY <1>0, <1>2
      <3> QED
        BY <3>1, TheLink
    <2> HIDE DEF k
    <2>3. /\ before \in Seq(Areas) /\ after \in Seq(Areas) /\ b \in Areas
          /\ SubSeq(links, 1, k) = before \o <<b>> /\ links = (before \o <<b>>) \o after
      BY <2>2, AtLink
    <2> HIDE DEF before, after, b
    <2> DEFINE one == <<b>>
               upto == before \o one
    <2>41. one \in Seq(Areas) /\ AllBytes(one) = Bytes(b) /\ TotalSize(one) = Size(b)
      BY <2>3, Single
    <2>42. SubSeq(links, 1, k) = upto /\ links = upto \o after
      BY <2>3
    <2> HIDE DEF one
    <2>43. /\ upto \in Seq(Areas)
           /\ TotalSize(upto) = TotalSize(before) + TotalSize(one)
           /\ AllBytes(upto) = AllBytes(before) \o AllBytes(one)
      BY <2>3, <2>41, Joined
    <2> HIDE DEF upto
    <2>4. TotalSize(upto) = TotalSize(before) + Size(b)
      BY <2>41, <2>43
    <2>5. AllBytes(links) = (AllBytes(before) \o Bytes(b)) \o AllBytes(after)
      <3>1. AllBytes(links) = AllBytes(upto) \o AllBytes(after)
        <4>1. AllBytes(upto \o after) = AllBytes(upto) \o AllBytes(after)
          BY ONLY <2>3, <2>43, Joined, Zenon
        <4> QED
          BY <2>42, <4>1, Zenon
      <3> QED
        BY <2>41, <2>43, <3>1
    <2>6. rest \in 0 .. Size(b) /\ rest # 0
      <3>1. TotalSize(before) \in Nat /\ Size(b) \in Nat
        BY <2>3, Counted, OneBuffer
      <3>2. n <= TotalSize(before) + Size(b)
        BY <2>2, <2>42, <2>4
      <3> QED
        BY <1>0, <2>2, <3>1, <3>2
    <2>7. /\ left \in Areas /\ Bytes(b) = head \o Bytes(left)
          /\ head \in Seq(Nat) /\ Len(head) = rest
      BY <2>3, <2>6, CutBuffer
    <2>8. TotalSize(before) \in Nat /\ TotalSize(before) + rest = n
      BY <1>0, <2>3, Counted
    <2> HIDE DEF left, head, rest
    <2> DEFINE first == <<left>>
    <2>91. first \in Seq(Areas) /\ AllBytes(first) = Bytes(left)
      BY <2>7, Single
    <2>92. UpdateOutputChain(links, n) = first \o after
      BY <2>1
    <2> HIDE DEF first
    <2>9. /\ first \o after \in Seq(Areas)
          /\ AllBytes(first \o after) = Bytes(left) \o AllBytes(after)
      BY <2>3, <2>91, Joined
    <2>10. /\ AllBytes(before) \in Seq(Nat) /\ AllBytes(after) \in Seq(Nat)
           /\ Bytes(left) \in Seq(Nat) /\ Len(AllBytes(before)) = TotalSize(before)
      BY <2>3, <2>7, Counted, OneBuffer
    <2>11. AllBytes(links) = (AllBytes(before) \o head) \o (Bytes(left) \o AllBytes(after))
      <3>1. (AllBytes(before) \o (head \o Bytes(left))) \o AllBytes(after)
              = (AllBytes(before) \o head) \o (Bytes(left) \o AllBytes(after))
        <4> DEFINE x == AllBytes(before)
                   y == Bytes(left)
                   z == AllBytes(after)
        <4>1. x \in Seq(Nat) /\ head \in Seq(Nat) /\ y \in Seq(Nat) /\ z \in Seq(Nat)
          BY <2>7, <2>10
        <4> HIDE DEF x, y, z
        <4> DEFINE w == x \o head
        <4>2. w \in Seq(Nat)
          BY <4>1, ConcatProperties
        <4>3. (x \o head) \o y = x \o (head \o y)
          BY ONLY <4>1, Regroup, ZenonT(60)
        <4> HIDE DEF w
        <4>4. (w \o y) \o z = w \o (y \o z)
          BY ONLY <4>1, <4>2, Regroup, ZenonT(60)
        <4> QED
          BY <4>3, <4>4 DEF w, x, y, z
      <3> QED
        BY <2>5, <2>7, <3>1
    <2>12. /\ AllBytes(before) \o head \in Seq(Nat) /\ Bytes(left) \o AllBytes(after) \in Seq(Nat)
           /\ Len(AllBytes(before) \o head) = Len(AllBytes(before)) + Len(head)
      BY <2>7, <2>10, ConcatProperties
    <2>13. Len(AllBytes(before) \o head) = n
      BY <2>7, <2>8, <2>10, <2>12
    <2>14. SubSeq(AllBytes(links), 1, n) = AllBytes(before) \o head
      BY ONLY <1>2, <2>11, <2>12, <2>13, Prefix
    <2> QED
      BY <2>92, <2>9, <2>11, <2>14
  <1> QED
    BY <1>1, <1>2
-----------------------------------------------------------------------------
(* hcore_output_chain_to_iovec.                                             *)

\* The iovecs built so far: prevLast is where the last of them ends, and
\* vec->size is the size of all.
Vecs ==
  {v \in [iovs : Seq(Areas), prevLast : Nat, size : Nat] :
     /\ Len(v.iovs) <= IovMax
     /\ v.size = TotalSize(v.iovs)
     /\ \/ v.iovs = <<>> /\ v.prevLast = Null
        \/ \E s \in Seq(Areas), a \in Areas : v.iovs = Append(s, a) /\ v.prevLast = a.last}

\* Before the first link there are none.
LEMMA EmptyVec == NoIovecs \in Vecs
  <1>1. <<>> \in Seq(Areas) /\ Len(<<>>) = 0
    BY EmptySeq
  <1>2. 0 <= IovMax
    BY ConnectionAssumption
  <1>3. NoIovecs = [iovs |-> <<>>, prevLast |-> 0, size |-> 0]
    BY DEF NoIovecs, Null
  <1>4. NoIovecs.iovs = <<>> /\ NoIovecs.prevLast = 0 /\ NoIovecs.size = 0
    BY <1>3
  <1>5. NoIovecs \in [iovs : Seq(Areas), prevLast : Nat, size : Nat]
    BY <1>1, <1>3
  <1>6. TotalSize(NoIovecs.iovs) = 0
    BY <1>4, NoSize, Zenon
  <1>7. Len(NoIovecs.iovs) <= IovMax
    BY <1>1, <1>2, <1>4
  <1> QED
    BY <1>4, <1>5, <1>6, <1>7 DEF Vecs, Null

\* A buffer that starts where the last iovec ends makes it longer.
LEMMA Coalesced ==
  ASSUME NEW a \in Areas, NEW b \in Areas, a.last = b.pos
  PROVE  LET c == [a EXCEPT !.last = @ + Size(b)]
         IN  /\ c \in Areas /\ c.last = b.last
             /\ Size(c) = Size(a) + Size(b)
             /\ Bytes(c) = Bytes(a) \o Bytes(b)
  <1> DEFINE c == [a EXCEPT !.last = @ + Size(b)]
  <1>1. /\ a.pos \in Nat /\ a.last \in Nat /\ a.pos # 0 /\ a.pos <= a.last
        /\ b.pos \in Nat /\ b.last \in Nat /\ b.pos # 0 /\ b.pos <= b.last
    BY OneBuffer
  <1>2. c = [pos |-> a.pos, last |-> a.last + Size(b)]
    BY DEF Areas
  <1>3. c.pos = a.pos /\ c.last = b.last /\ c \in Areas /\ Size(c) = Size(a) + Size(b)
    BY <1>1, <1>2 DEF Areas, Size
  <1> HIDE DEF c
  <1>4. /\ Size(a) \in Nat /\ Size(b) \in Nat /\ Size(a) = b.pos - a.pos
        /\ Bytes(a) \in Seq(Nat) /\ Len(Bytes(a)) = Size(a)
        /\ Bytes(b) \in Seq(Nat) /\ Len(Bytes(b)) = Size(b)
        /\ Bytes(c) \in Seq(Nat) /\ Len(Bytes(c)) = Size(c)
    BY <1>3, OneBuffer DEF Size
  <1>5. /\ Bytes(a) \o Bytes(b) \in Seq(Nat)
        /\ Len(Bytes(a) \o Bytes(b)) = Size(a) + Size(b)
        /\ \A i \in 1 .. Size(a) + Size(b) : (Bytes(a) \o Bytes(b))[i] =
             IF i <= Size(a) THEN Bytes(a)[i] ELSE Bytes(b)[i - Size(a)]
    <2>1. /\ Bytes(a) \o Bytes(b) \in Seq(Nat)
          /\ Len(Bytes(a) \o Bytes(b)) = Len(Bytes(a)) + Len(Bytes(b))
          /\ \A i \in 1 .. Len(Bytes(a)) + Len(Bytes(b)) : (Bytes(a) \o Bytes(b))[i] =
               IF i <= Len(Bytes(a)) THEN Bytes(a)[i] ELSE Bytes(b)[i - Len(Bytes(a))]
      BY ONLY <1>4, ConcatProperties
    <2> QED
      BY ONLY <1>4, <2>1, Zenon
  <1>6. /\ \A i \in 1 .. Size(a) : Bytes(a)[i] = a.pos + i - 1
        /\ \A i \in 1 .. Size(b) : Bytes(b)[i] = b.pos + i - 1
        /\ \A i \in 1 .. Size(c) : Bytes(c)[i] = a.pos + i - 1
    BY <1>3, OneBuffer
  <1>7. ASSUME NEW i \in 1 .. Size(c)
        PROVE  Bytes(c)[i] = (Bytes(a) \o Bytes(b))[i]
    <2>1. i \in 1 .. Size(a) + Size(b)
      BY <1>3
    <2>2. CASE i <= Size(a)
      <3>1. i \in 1 .. Size(a)
        BY <1>4, <2>2
      <3> QED
        BY <1>5, <1>6, <2>1, <2>2, <3>1
    <2>3. CASE ~(i <= Size(a))
      <3>1. i - Size(a) \in 1 .. Size(b) /\ b.pos + (i - Size(a)) - 1 = a.pos + i - 1
        <4>1. Size(a) \in Nat /\ Size(b) \in Nat /\ b.pos = Size(a) + a.pos
          BY <1>1, <1>4
        <4>2. i \in Nat /\ ~(i <= Size(a)) /\ i <= Size(a) + Size(b)
          BY <2>1, <2>3, <4>1
        <4> QED
          BY ONLY <1>1, <4>1, <4>2
      <3>2. (Bytes(a) \o Bytes(b))[i] = Bytes(b)[i - Size(a)]
        BY <1>5, <2>1, <2>3
      <3>3. Bytes(b)[i - Size(a)] = b.pos + (i - Size(a)) - 1
        BY <1>6, <3>1
      <3> QED
        BY <1>6, <3>1, <3>2, <3>3
    <2> QED
      BY <2>2, <2>3
  <1>8. Bytes(c) = Bytes(a) \o Bytes(b)
    BY <1>3, <1>4, <1>5, <1>7, SeqEqual
  <1> QED
    BY <1>3, <1>8 DEF c

\* The last link of a chain is replaced.
LEMMA LastReplaced ==
  ASSUME NEW s \in Seq(Areas), NEW a \in Areas, NEW c \in Areas
  PROVE  [Append(s, a) EXCEPT ![Len(Append(s, a))] = c] = Append(s, c)
  <1> DEFINE t == Append(s, a)
             k == Len(t)
             u == [t EXCEPT ![k] = c]
             w == Append(s, c)
  <1>1. /\ t \in Seq(Areas) /\ Len(s) \in Nat /\ k = Len(s) + 1
        /\ \A i \in 1 .. Len(s) : t[i] = s[i]
    BY OneMore
  <1>2. /\ w \in Seq(Areas) /\ Len(w) = Len(s) + 1
        /\ \A i \in 1 .. Len(s) : w[i] = s[i]
        /\ w[Len(s) + 1] = c
    BY OneMore
  <1> HIDE DEF t, w, k
  <1>3. k \in 1 .. k
    BY <1>1
  <1>4. /\ u \in Seq(Areas) /\ Len(u) = k
        /\ \A i \in 1 .. k : u[i] = IF i = k THEN c ELSE t[i]
    BY <1>1, <1>3, ExceptSeq DEF k
  <1> HIDE DEF u
  <1>5. \A i \in 1 .. k : u[i] = w[i]
    <2>1. \A i \in 1 .. k : i \in 1 .. Len(s) \/ (i = k /\ i = Len(s) + 1)
      BY <1>1
    <2>2. \A i \in 1 .. Len(s) : i # k
      BY <1>1
    <2> QED
      BY <1>1, <1>2, <1>4, <2>1, <2>2
  <1>6. u = w
    BY <1>1, <1>2, <1>4, <1>5, SeqEqual
  <1> QED
    BY <1>6 DEF u, w, t, k

\* One more buffer keeps the iovecs in order, and adds its bytes unless every
\* iovec is taken.
LEMMA VecMore ==
  ASSUME NEW v \in Vecs, NEW b \in Areas
  PROVE  /\ AddToIovec(v, b) \in Vecs
         /\ Len(v.iovs) = IovMax => AddToIovec(v, b) = v
         /\ Len(v.iovs) # IovMax =>
              AllBytes(AddToIovec(v, b).iovs) = AllBytes(v.iovs) \o Bytes(b)
  <1>1. /\ v \in [iovs : Seq(Areas), prevLast : Nat, size : Nat]
        /\ v.iovs \in Seq(Areas) /\ v.prevLast \in Nat /\ v.size \in Nat
        /\ Len(v.iovs) <= IovMax /\ v.size = TotalSize(v.iovs)
    BY DEF Vecs
  <1>2. /\ b.pos \in Nat /\ b.last \in Nat /\ b.pos # 0 /\ Size(b) \in Nat
    BY OneBuffer
  <1>3. Len(v.iovs) \in Nat /\ IovMax \in Nat
    BY <1>1, ConnectionAssumption, LenProperties
  <1>4. v.size + Size(b) \in Nat
    BY <1>1, <1>2
  <1>5. CASE Len(v.iovs) = IovMax
    BY <1>5 DEF AddToIovec
  <1>6. CASE Len(v.iovs) # IovMax /\ v.prevLast = b.pos
    <2>1. PICK s \in Seq(Areas), a \in Areas : v.iovs = Append(s, a) /\ v.prevLast = a.last
      BY <1>2, <1>6 DEF Vecs, Null
    <2> DEFINE c == [a EXCEPT !.last = @ + Size(b)]
               w == [iovs |-> Append(s, c), prevLast |-> b.last, size |-> v.size + Size(b)]
    <2>2. /\ c \in Areas /\ c.last = b.last /\ Size(c) = Size(a) + Size(b)
          /\ Bytes(c) = Bytes(a) \o Bytes(b)
      BY <1>6, <2>1, Coalesced
    <2>3. Len(v.iovs) = Len(s) + 1 /\ Len(s) \in Nat /\ v.iovs[Len(v.iovs)] = a
      BY <2>1, OneMore
    <2>4. AddToIovec(v, b) = w
      <3> DEFINE k == Len(v.iovs)
      <3>1. AddToIovec(v, b) =
              [v EXCEPT !.iovs = [v.iovs EXCEPT ![k] = [v.iovs[k] EXCEPT !.last = @ + Size(b)]],
                        !.prevLast = b.last, !.size = @ + Size(b)]
        BY <1>6 DEF AddToIovec
      <3>2. [v.iovs EXCEPT ![k] = [v.iovs[k] EXCEPT !.last = @ + Size(b)]] = [v.iovs EXCEPT ![k] = c]
        BY <2>3
      <3>3. [v.iovs EXCEPT ![k] = c] = Append(s, c)
        <4> HIDE DEF c
        <4> QED
          BY <2>1, <2>2, LastReplaced
      <3> QED
        BY <1>1, <3>1, <3>2, <3>3
    <2> HIDE DEF c
    <2>5. /\ Append(s, c) \in Seq(Areas) /\ Len(Append(s, c)) = Len(s) + 1
          /\ Len(Append(s, a)) = Len(s) + 1
      BY <2>1, <2>2, OneMore
    <2>6. /\ TotalSize(Append(s, c)) = TotalSize(s) + Size(c)
          /\ TotalSize(Append(s, a)) = TotalSize(s) + Size(a)
          /\ AllBytes(Append(s, c)) = AllBytes(s) \o Bytes(c)
          /\ AllBytes(Append(s, a)) = AllBytes(s) \o Bytes(a)
      BY <2>2, SizeMore, BytesMore
    <2>7. /\ TotalSize(s) \in Nat /\ Size(a) \in Nat
          /\ AllBytes(s) \in Seq(Nat) /\ Bytes(a) \in Seq(Nat) /\ Bytes(b) \in Seq(Nat)
      BY Counted, OneBuffer
    <2>8. TotalSize(Append(s, c)) = v.size + Size(b)
      <3>1. v.size = TotalSize(s) + Size(a)
        BY <1>1, <2>1, <2>6
      <3> QED
        BY <1>2, <2>2, <2>6, <2>7, <3>1
    <2>9. AllBytes(Append(s, c)) = AllBytes(v.iovs) \o Bytes(b)
      <3>1. AllBytes(s) \o (Bytes(a) \o Bytes(b)) = (AllBytes(s) \o Bytes(a)) \o Bytes(b)
        BY ONLY <2>7, Regroup, ZenonT(60)
      <3> QED
        BY <2>1, <2>2, <2>6, <3>1
    <2>10. w \in Vecs
      <3>1. /\ w.iovs = Append(s, c) /\ w.prevLast = c.last /\ w.size = TotalSize(w.iovs)
            /\ Len(w.iovs) <= IovMax
        BY <1>1, <2>2, <2>3, <2>5, <2>8
      <3>2. w \in [iovs : Seq(Areas), prevLast : Nat, size : Nat]
        BY <1>2, <1>4, <2>5
      <3> HIDE DEF w
      <3> QED
        BY <2>2, <3>1, <3>2 DEF Vecs
    <2> QED
      BY <1>6, <2>4, <2>9, <2>10
  <1>7. CASE Len(v.iovs) # IovMax /\ v.prevLast # b.pos
    <2> DEFINE w == [iovs |-> Append(v.iovs, b), prevLast |-> b.last, size |-> v.size + Size(b)]
    <2>1. AddToIovec(v, b) = w
      BY <1>7 DEF AddToIovec
    <2>2. Append(v.iovs, b) \in Seq(Areas) /\ Len(Append(v.iovs, b)) = Len(v.iovs) + 1
      BY <1>1, OneMore
    <2>3. /\ TotalSize(Append(v.iovs, b)) = TotalSize(v.iovs) + Size(b)
          /\ AllBytes(Append(v.iovs, b)) = AllBytes(v.iovs) \o Bytes(b)
      BY <1>1, SizeMore, BytesMore
    <2>4. Len(v.iovs) + 1 <= IovMax
      BY <1>1, <1>3, <1>7
    <2>5. w \in Vecs
      <3>1. /\ w.iovs = Append(v.iovs, b) /\ w.prevLast = b.last /\ w.size = TotalSize(w.iovs)
            /\ Len(w.iovs) <= IovMax
        BY <1>1, <2>2, <2>3, <2>4
      <3>2. w \in [iovs : Seq(Areas), prevLast : Nat, size : Nat]
        BY <1>2, <1>4, <2>2
      <3> HIDE DEF w
      <3> QED
        BY <1>1, <3>1, <3>2 DEF Vecs
    <2> QED
      BY <1>7, <2>1, <2>3, <2>5
  <1> QED
    BY <1>5, <1>6, <1>7

IovecStep(links) ==
  [p \in (1 .. Len(links)) \X Vecs |-> AddToIovec(p[2], links[p[1]])]

\* The function that ToIovec chooses follows the steps.
LEMMA IovecFollow ==
  ASSUME NEW links \in Seq(Areas)
  PROVE  /\ IovecStep(links) \in Steps(Len(links), Vecs)
         /\ \E g : /\ Follows(g, Len(links), Vecs, NoIovecs, IovecStep(links))
                   /\ ToIovec(links) = g[Len(links)]
  <1> DEFINE n == Len(links)
             st == IovecStep(links)
             Is(g) == g = [i \in 0 .. Len(links) |->
                             IF i = 0 THEN NoIovecs
                             ELSE LET v == g[i - 1] IN AddToIovec(v, links[i])]
  <1>1. n \in Nat /\ NoIovecs \in Vecs /\ \A i \in 1 .. n : links[i] \in Areas
    BY EmptyVec, ElementOfSeq, LenProperties
  <1>2. st \in Steps(n, Vecs)
    BY <1>1, VecMore DEF IovecStep, Steps
  <1>3. \A i \in 1 .. n, x \in Vecs : st[<<i, x>>] = AddToIovec(x, links[i])
    BY DEF IovecStep
  <1> HIDE DEF st
  <1>4. PICK g \in [0 .. n -> Vecs] : Follows(g, n, Vecs, NoIovecs, st)
    BY <1>1, <1>2, Recursion
  <1>5. Is(g)
    <2>1. ASSUME NEW i \in 0 .. n
          PROVE  g[i] = IF i = 0 THEN NoIovecs
                             ELSE LET v == g[i - 1] IN AddToIovec(v, links[i])
      <3>1. CASE i = 0
        BY <3>1, <1>4 DEF Follows
      <3>2. CASE i # 0
        <4>1. i \in 1 .. n /\ i - 1 \in 0 .. n
          BY <1>1, <3>2
        <4>2. g[i - 1] \in Vecs
          BY <4>1
        <4> QED
          BY <1>3, <1>4, <3>2, <4>1, <4>2 DEF Follows
      <3> QED
        BY <3>1, <3>2
    <2> QED
      BY <2>1
  <1>6. PICK h : Is(h) /\ h = CHOOSE f : Is(f)
    BY <1>5
  <1>7. ToIovec(links) = h[Len(links)]
    BY <1>6 DEF ToIovec
  <1>8. \A i \in 0 .. n : h[i] = IF i = 0 THEN NoIovecs ELSE AddToIovec(h[i - 1], links[i])
    BY <1>6
  <1>9. Follows(h, n, Vecs, NoIovecs, st)
    <2>1. h[0] = NoIovecs
      BY <1>1, <1>8
    <2>2. \A i \in 1 .. n : i \in 0 .. n /\ i # 0
      BY <1>1
    <2>3. \A i \in 1 .. n : h[i] = AddToIovec(h[i - 1], links[i])
      BY <1>8, <2>2
    <2> QED
      BY <1>3, <2>1, <2>3 DEF Follows
  <1> QED
    BY <1>2, <1>7, <1>9 DEF st

\* One more link is added to the iovecs of the chain.
LEMMA IovecMore ==
  ASSUME NEW links \in Seq(Areas), NEW b \in Areas
  PROVE  /\ ToIovec(links) \in Vecs
         /\ ToIovec(Append(links, b)) = AddToIovec(ToIovec(links), b)
  <1> DEFINE more == Append(links, b)
             n == Len(links)
             m == Len(links) + 1
             S == Vecs
             st == IovecStep(links)
             sm == IovecStep(more)
  <1>1. /\ more \in Seq(Areas) /\ n \in Nat /\ m \in Nat /\ Len(more) = m
        /\ n <= m /\ m \in 1 .. m /\ m - 1 = n /\ n \in 0 .. n
    <2>1. /\ more \in Seq(Areas) /\ n \in Nat /\ Len(more) = n + 1
      BY OneMore
    <2> QED
      BY <2>1
  <1>2. NoIovecs \in S
    BY EmptyVec
  <1>3. PICK g : Follows(g, n, S, NoIovecs, st) /\ ToIovec(links) = g[n]
    BY IovecFollow
  <1>4. /\ sm \in Steps(m, S)
        /\ \E h : Follows(h, m, S, NoIovecs, sm) /\ ToIovec(more) = h[m]
    BY <1>1, IovecFollow
  <1>5. PICK h : Follows(h, m, S, NoIovecs, sm) /\ ToIovec(more) = h[m]
    BY <1>4
  <1>6. SameSteps(sm, st, n, S)
    BY <1>1, OneMore DEF IovecStep, SameSteps
  <1>7. \A x \in S : sm[<<m, x>>] = AddToIovec(x, b)
    <2>1. m \in 1 .. Len(more) /\ more[m] = b
      BY <1>1, OneMore
    <2> QED
      BY <2>1 DEF IovecStep
  <1> HIDE DEF S, sm, st, more, n, m
  <1>8. Agree(h, g, n, S)
    BY ONLY <1>1, <1>2, <1>3, <1>4, <1>5, <1>6, SameStart
  <1>9. h[m] = sm[<<m, h[n]>>]
    <2>1. h[n] \in S
      BY <1>1, <1>8 DEF Agree
    <2>2. \A i \in 1 .. m : h[i - 1] \in S => h[i] = sm[<<i, h[i - 1]>>]
      BY <1>5 DEF Follows
    <2> QED
      BY <1>1, <2>1, <2>2
  <1> QED
    BY <1>1, <1>3, <1>5, <1>7, <1>8, <1>9 DEF S, more, n, Agree

\* No link, no iovec.
LEMMA NoVec == ToIovec(<<>>) = NoIovecs
  <1>1. <<>> \in Seq(Areas) /\ Len(<<>>) = 0
    BY EmptySeq
  <1>2. PICK g : Follows(g, 0, Vecs, NoIovecs, IovecStep(<<>>)) /\ ToIovec(<<>>) = g[0]
    BY <1>1, IovecFollow
  <1> QED
    BY <1>2 DEF Follows

\* The iovecs of a chain hold its first bytes, in their order, and all of them
\* unless every iovec is taken.
LEMMA Gathered ==
  ASSUME NEW links \in Seq(Areas)
  PROVE  /\ ToIovec(links) \in Vecs
         /\ \E r \in Seq(Nat) :
              /\ AllBytes(links) = AllBytes(ToIovec(links).iovs) \o r
              /\ Len(ToIovec(links).iovs) # IovMax => r = <<>>
  <1> DEFINE Holds(s) ==
               /\ ToIovec(s) \in Vecs
               /\ \E r \in Seq(Nat) :
                    /\ AllBytes(s) = AllBytes(ToIovec(s).iovs) \o r
                    /\ Len(ToIovec(s).iovs) # IovMax => r = <<>>
             T == {s \in Seq(Areas) : Holds(s)}
  <1>1. <<>> \in T
    <2>1. ToIovec(<<>>) \in Vecs /\ ToIovec(<<>>).iovs = <<>>
      <3>1. NoIovecs \in Vecs /\ NoIovecs.iovs = <<>>
        BY EmptyVec DEF NoIovecs
      <3> QED
        BY <3>1, NoVec, Zenon
    <2>2. AllBytes(ToIovec(<<>>).iovs) = <<>>
      BY <2>1, NoBytes, Zenon
    <2>3. <<>> \in Seq(Nat) /\ <<>> \o <<>> = <<>> /\ <<>> \in Seq(Areas)
      BY EmptySeq, ConcatEmptySeq
    <2>4. AllBytes(<<>>) = AllBytes(ToIovec(<<>>).iovs) \o <<>>
      BY <2>2, <2>3, NoBytes, Zenon
    <2> QED
      BY <2>1, <2>3, <2>4, Zenon
  <1>2. ASSUME NEW s \in Seq(Areas), NEW b \in Areas, s \in T
        PROVE  Append(s, b) \in T
    <2> DEFINE v == ToIovec(s)
               w == AddToIovec(v, b)
    <2>1. v \in Vecs
      BY <1>2
    <2>2. PICK r \in Seq(Nat) : /\ AllBytes(s) = AllBytes(v.iovs) \o r
                                /\ Len(v.iovs) # IovMax => r = <<>>
      BY <1>2
    <2>3. ToIovec(Append(s, b)) = w
      BY IovecMore
    <2>4. AllBytes(Append(s, b)) = AllBytes(s) \o Bytes(b)
      BY BytesMore
    <2>5. /\ w \in Vecs
          /\ Len(v.iovs) = IovMax => w = v
          /\ Len(v.iovs) # IovMax => AllBytes(w.iovs) = AllBytes(v.iovs) \o Bytes(b)
      BY <2>1, VecMore
    <2>6. v.iovs \in Seq(Areas) /\ w.iovs \in Seq(Areas)
      BY <2>1, <2>5 DEF Vecs
    <2>7. Bytes(b) \in Seq(Nat) /\ AllBytes(v.iovs) \in Seq(Nat) /\ AllBytes(w.iovs) \in Seq(Nat)
      BY <2>6, OneBuffer, Counted
    <2> HIDE DEF v, w
    <2>8. \E q \in Seq(Nat) : /\ AllBytes(s) \o Bytes(b) = AllBytes(w.iovs) \o q
                              /\ Len(w.iovs) # IovMax => q = <<>>
      <3>1. CASE Len(v.iovs) = IovMax
        <4> DEFINE x == AllBytes(v.iovs)
                   y == Bytes(b)
        <4>1. x \in Seq(Nat) /\ y \in Seq(Nat) /\ AllBytes(s) = x \o r /\ AllBytes(w.iovs) = x
              /\ Len(w.iovs) = IovMax
          BY <2>2, <2>5, <2>7, <3>1
        <4> HIDE DEF x, y
        <4>2. (x \o r) \o y = x \o (r \o y)
          BY ONLY <4>1, Regroup, ZenonT(60)
        <4>3. r \o y \in Seq(Nat)
          BY <4>1, ConcatProperties
        <4> QED
          BY <4>1, <4>2, <4>3 DEF y
      <3>2. CASE Len(v.iovs) # IovMax
        <4>1. AllBytes(s) = AllBytes(v.iovs)
          BY <2>2, <2>7, <3>2, ConcatEmptySeq
        <4>2. AllBytes(w.iovs) = AllBytes(w.iovs) \o <<>> /\ <<>> \in Seq(Nat)
          BY <2>7, ConcatEmptySeq, EmptySeq
        <4>3. AllBytes(s) \o Bytes(b) = AllBytes(w.iovs) \o <<>>
          BY ONLY <2>5, <3>2, <4>1, <4>2, Zenon
        <4> QED
          BY <4>2, <4>3
      <3> QED
        BY <3>1, <3>2
    <2>9. Append(s, b) \in Seq(Areas)
      BY OneMore
    <2> QED
      BY <2>3, <2>4, <2>5, <2>8, <2>9
  <1> HIDE DEF T
  <1>3. Seq(Areas) \subseteq T
    BY <1>1, <1>2, ChainInduction
  <1> QED
    BY <1>3 DEF T
-----------------------------------------------------------------------------
(* The invariant.                                                           *)

Events == [ready : BOOLEAN, error : BOOLEAN, eof : BOOLEAN]

\* The types, and the room of the kernel's buffer.
Typed ==
  /\ flat \in Areas /\ out \in Seq(Areas)
  /\ sock \in Seq(Nat) /\ got \in Seq(Nat)
  /\ sentSize \in Nat /\ Len(sock) <= SockRoom
  /\ wev \in Events /\ rev \in Events

\* Nothing of the flat buffer is left while the chain is sent.
FlatFirst == pc = "chain" => Size(flat) = 0

StreamInv == Typed /\ FlatFirst /\ StreamIntact

\* What the kernel takes is at most what it is given and what it has room for.
LEMMA Taken ==
  ASSUME NEW size \in Nat, Typed
  PROVE  /\ Room \in Nat /\ Len(sock) \in Nat /\ Len(sock) + Room = SockRoom
         /\ Takes(size) \in 0 .. size /\ Takes(size) \in 0 .. Room
         /\ Takes(size) # size => Takes(size) = Room
  <1>1. Len(sock) \in Nat /\ SockRoom \in Nat /\ Len(sock) <= SockRoom
    BY LenProperties, ConnectionAssumption DEF Typed
  <1>2. Room \in Nat /\ Len(sock) + Room = SockRoom
    BY <1>1 DEF Room
  <1> QED
    BY <1>1, <1>2 DEF Takes, Min2

\* The bytes of the state, and their lengths.
LEMMA StateBytes ==
  ASSUME Typed
  PROVE  /\ Bytes(flat) \in Seq(Nat) /\ AllBytes(out) \in Seq(Nat)
         /\ got \o sock \in Seq(Nat)
         /\ Len(got) \in Nat /\ Len(sock) \in Nat /\ Size(flat) \in Nat
  <1>1. got \o sock \in Seq(Nat)
    BY ConcatProperties DEF Typed
  <1>2. Bytes(flat) \in Seq(Nat) /\ AllBytes(out) \in Seq(Nat) /\ Size(flat) \in Nat
    BY OneBuffer, Counted DEF Typed
  <1> QED
    BY <1>1, <1>2, LenProperties DEF Typed

\* The invariant holds when the host sets out.
LEMMA StreamStarts == Init => StreamInv
  <1> SUFFICES ASSUME Init PROVE StreamInv
    OBVIOUS
  <1>1. flat \in Areas /\ out \in Seq(Areas)
    BY ConnectionAssumption DEF Init
  <1>2. <<>> \in Seq(Nat) /\ Len(<<>>) = 0 /\ 0 <= SockRoom
    BY EmptySeq, ConnectionAssumption
  <1>3. Typed
    BY <1>1, <1>2 DEF Init, Typed, Fresh, Events
  <1>4. <<>> \o <<>> = <<>>
    BY <1>2, ConcatEmptySeq
  <1>5. <<>> \o Bytes(flat) = Bytes(flat)
    BY <1>3, StateBytes, ConcatEmptySeq
  <1>6. StreamIntact
    <2>1. got \o sock = <<>>
      BY <1>4 DEF Init
    <2>2. got \o sock \o Bytes(flat) \o AllBytes(out) = message
      BY <1>5, <2>1, Zenon DEF Init
    <2>3. sentSize = Len(got) + Len(sock)
      BY <1>2 DEF Init
    <2> QED
      BY <2>2, <2>3 DEF StreamIntact
  <1> QED
    BY <1>3, <1>6 DEF StreamInv, FlatFirst, Init

\* hcore_tcp_send: the bytes that the kernel took left the front of the buffer.
LEMMA SendTakesStep ==
  ASSUME StreamInv, SendTakes
  PROVE  StreamInv'
  <1> DEFINE n == Takes(Size(flat))
             h == SubSeq(Bytes(flat), 1, n)
  <1>1. Typed /\ StreamIntact
    BY DEF StreamInv
  <1>2. /\ Bytes(flat) \in Seq(Nat) /\ AllBytes(out) \in Seq(Nat) /\ got \o sock \in Seq(Nat)
        /\ Len(got) \in Nat /\ Len(sock) \in Nat /\ Size(flat) \in Nat
        /\ got \in Seq(Nat) /\ sock \in Seq(Nat)
    BY <1>1, StateBytes DEF Typed
  <1>3. /\ n \in 0 .. Size(flat) /\ n \in 0 .. Room /\ Room \in Nat
        /\ Len(sock) + Room = SockRoom
    BY <1>1, <1>2, Taken
  <1>4. /\ sock' = sock \o h /\ sentSize' = sentSize + n
        /\ flat' = [flat EXCEPT !.pos = @ + n] /\ rev' = [rev EXCEPT !.ready = @ /\ n = Size(flat)]
        /\ pc' = "idle" /\ out' = out /\ got' = got /\ wev' = wev /\ message' = message
    BY DEF SendTakes
  <1> HIDE DEF n
  <1>5. /\ flat' \in Areas /\ Bytes(flat) = h \o Bytes(flat')
        /\ h \in Seq(Nat) /\ Len(h) = n /\ Bytes(flat') \in Seq(Nat)
    <2>1. /\ flat' \in Areas /\ Bytes(flat) = h \o Bytes(flat')
          /\ h \in Seq(Nat) /\ Len(h) = n
      BY <1>1, <1>3, <1>4, CutBuffer DEF Typed
    <2> QED
      BY <2>1, OneBuffer
  <1> HIDE DEF h
  <1>6. sock' \in Seq(Nat) /\ Len(sock') = Len(sock) + n
    BY <1>2, <1>4, <1>5, ConcatProperties
  <1>7. Typed'
    <2>1. Len(sock') <= SockRoom /\ sentSize' \in Nat
      BY <1>1, <1>2, <1>3, <1>4, <1>6 DEF Typed
    <2>2. rev' \in Events /\ wev' \in Events
      BY <1>1, <1>4 DEF Typed, Events
    <2> QED
      BY <1>1, <1>4, <1>5, <1>6, <2>1, <2>2 DEF Typed
  <1>8. got' \o sock' \o Bytes(flat') \o AllBytes(out') = message'
    <2>1. (got \o sock') \o Bytes(flat') = (got \o sock) \o Bytes(flat)
      <3> DEFINE w == got \o sock
                 left == Bytes(flat')
      <3>1. w \in Seq(Nat) /\ left \in Seq(Nat)
        BY <1>2, <1>5
      <3>2. (got \o sock) \o h = got \o (sock \o h)
        <4>1. got \in Seq(Nat) /\ sock \in Seq(Nat) /\ h \in Seq(Nat)
          BY <1>2, <1>5
        <4> QED
          BY ONLY <4>1, Regroup, ZenonT(60)
      <3> HIDE DEF w, left
      <3>3. (w \o h) \o left = w \o (h \o left)
        BY ONLY <1>5, <3>1, Regroup, ZenonT(60)
      <3> QED
        BY <1>4, <1>5, <3>2, <3>3 DEF w, left
    <2>2. got' \o sock' \o Bytes(flat') = got \o sock \o Bytes(flat)
      BY <1>4, <2>1
    <2> QED
      BY <1>1, <1>4, <2>2 DEF StreamIntact
  <1>9. sentSize' = Len(got') + Len(sock')
    BY <1>1, <1>2, <1>3, <1>4, <1>6 DEF StreamIntact
  <1> QED
    BY <1>4, <1>7, <1>8, <1>9 DEF StreamInv, FlatFirst, StreamIntact

\* hcore_tcp_send_chain: the bytes that the kernel took of the iovecs left the
\* front of the chain, in whatever way the buffers were joined.
LEMMA ChainTakesStep ==
  ASSUME StreamInv, ChainTakes
  PROVE  StreamInv'
  <1>1. Typed /\ StreamIntact /\ pc = "chain" /\ Size(flat) = 0
    BY DEF StreamInv, FlatFirst, ChainTakes
  <1>2. /\ Bytes(flat) \in Seq(Nat) /\ AllBytes(out) \in Seq(Nat) /\ got \o sock \in Seq(Nat)
        /\ Len(got) \in Nat /\ Len(sock) \in Nat
        /\ got \in Seq(Nat) /\ sock \in Seq(Nat) /\ out \in Seq(Areas)
    BY <1>1, StateBytes DEF Typed
  <1> DEFINE vec == ToIovec(out)
             n == Takes(TotalSize(vec.iovs))
             h == SubSeq(AllBytes(vec.iovs), 1, n)
  <1>3. /\ sock' = sock \o h /\ sentSize' = sentSize + n
        /\ out' = UpdateOutputChain(out, n)
        /\ wev' = [wev EXCEPT !.ready = @ /\ vec.size = n]
        /\ flat' = flat /\ got' = got /\ rev' = rev /\ message' = message
    BY DEF ChainTakes
  <1>4. PICK r \in Seq(Nat) : AllBytes(out) = AllBytes(vec.iovs) \o r
    BY <1>2, Gathered
  <1>5. vec \in Vecs /\ vec.iovs \in Seq(Areas)
    BY <1>2, Gathered DEF Vecs
  <1>6. /\ AllBytes(vec.iovs) \in Seq(Nat) /\ TotalSize(vec.iovs) \in Nat
        /\ Len(AllBytes(vec.iovs)) = TotalSize(vec.iovs)
        /\ Len(AllBytes(out)) = TotalSize(out) /\ TotalSize(out) \in Nat
    BY <1>2, <1>5, Counted
  <1>7. /\ n \in 0 .. TotalSize(vec.iovs) /\ n \in 0 .. Room /\ Room \in Nat
        /\ Len(sock) + Room = SockRoom
    BY <1>1, <1>6, Taken
  <1> HIDE DEF vec, n
  <1>8. h \in Seq(Nat) /\ Len(h) = n
    BY <1>6, <1>7, Cut
  <1>9. n \in 0 .. TotalSize(out)
    <2>1. Len(AllBytes(out)) = Len(AllBytes(vec.iovs)) + Len(r) /\ Len(r) \in Nat
      BY <1>4, <1>6, ConcatProperties, LenProperties
    <2> QED
      BY <1>6, <1>7, <2>1
  <1>10. h = SubSeq(AllBytes(out), 1, n)
    <2>1. CASE n = 0
      <3>1. n \in Int /\ 1 \in Int /\ n < 1
        BY <2>1
      <3>2. h = <<>> /\ SubSeq(AllBytes(out), 1, n) = <<>>
        BY <3>1, SubSeqEmpty
      <3> QED
        BY <3>2
    <2>2. CASE n # 0
      <3> DEFINE x == AllBytes(vec.iovs)
      <3>1. x \in Seq(Nat) /\ 1 \in 1 .. Len(x) /\ n \in 1 .. Len(x)
        BY <1>6, <1>7, <2>2
      <3> HIDE DEF x
      <3>2. SubSeq(x \o r, 1, n) = SubSeq(x, 1, n)
        BY <3>1, SubSeqOfConcat1
      <3> QED
        BY <1>4, <3>2 DEF x
    <2> QED
      BY <2>1, <2>2
  <1>11. /\ out' \in Seq(Areas) /\ h \o AllBytes(out') = AllBytes(out)
         /\ AllBytes(out') \in Seq(Nat)
    <2>1. out' \in Seq(Areas) /\ h \o AllBytes(out') = AllBytes(out)
      BY <1>2, <1>3, <1>9, <1>10, Advanced
    <2> QED
      BY <2>1, Counted
  <1> HIDE DEF h
  <1>12. sock' \in Seq(Nat) /\ Len(sock') = Len(sock) + n
    BY <1>2, <1>3, <1>8, ConcatProperties
  <1>13. Typed'
    <2>1. Len(sock') <= SockRoom /\ sentSize' \in Nat
      BY <1>1, <1>2, <1>3, <1>7, <1>12 DEF Typed
    <2>2. rev' \in Events /\ wev' \in Events
      BY <1>1, <1>3 DEF Typed, Events
    <2> QED
      BY <1>1, <1>3, <1>11, <1>12, <2>1, <2>2 DEF Typed
  <1>14. got' \o sock' \o Bytes(flat') \o AllBytes(out') = message'
    <2> DEFINE w == got \o sock
               left == AllBytes(out')
    <2>1. w \in Seq(Nat) /\ left \in Seq(Nat)
      BY <1>2, <1>11
    <2>2. (got \o sock) \o h = got \o (sock \o h)
      <3>1. got \in Seq(Nat) /\ sock \in Seq(Nat) /\ h \in Seq(Nat)
        BY <1>2, <1>8
      <3> QED
        BY ONLY <3>1, Regroup, ZenonT(60)
    <2>3. Bytes(flat) = <<>>
      BY <1>1, OneBuffer, EmptySeq DEF Typed
    <2> HIDE DEF w, left
    <2>4. (w \o h) \o left = w \o (h \o left)
      BY ONLY <1>8, <2>1, Regroup, ZenonT(60)
    <2>5. w \o h \in Seq(Nat)
      BY <1>8, <2>1, ConcatProperties
    <2>6. (w \o h) \o <<>> = w \o h /\ w \o <<>> = w
      BY <2>1, <2>5, ConcatEmptySeq
    <2>7. w \o Bytes(flat) \o AllBytes(out) = message
      BY <1>1 DEF StreamIntact, w
    <2>8. w \o AllBytes(out) = message
      BY <2>3, <2>6, <2>7
    <2>9. got' \o sock' = w \o h /\ Bytes(flat') = <<>>
      BY <1>3, <2>2, <2>3 DEF w
    <2>10. (w \o h) \o left = message
      BY <1>11, <2>4, <2>8 DEF left
    <2>11. got' \o sock' \o Bytes(flat') = w \o h
      BY <2>6, <2>9
    <2> QED
      BY <1>3, <2>10, <2>11 DEF left
  <1>15. sentSize' = Len(got') + Len(sock')
    BY <1>1, <1>2, <1>3, <1>7, <1>12 DEF StreamIntact
  <1>16. FlatFirst'
    BY <1>1, <1>3 DEF FlatFirst
  <1> QED
    BY <1>13, <1>14, <1>15, <1>16 DEF StreamInv, StreamIntact

\* The peer takes its bytes from the front of the kernel's buffer.
LEMMA PeerReadsStep ==
  ASSUME StreamInv, PeerReads
  PROVE  StreamInv'
  <1>1. Typed /\ StreamIntact
    BY DEF StreamInv
  <1>2. /\ Len(got) \in Nat /\ Len(sock) \in Nat
        /\ got \in Seq(Nat) /\ sock \in Seq(Nat) /\ SockRoom \in Nat
    BY <1>1, StateBytes, ConnectionAssumption DEF Typed
  <1>3. PICK n \in 1 .. Len(sock) :
          /\ got' = got \o SubSeq(sock, 1, n)
          /\ sock' = SubSeq(sock, n + 1, Len(sock))
    BY DEF PeerReads
  <1>4. /\ flat' = flat /\ out' = out /\ sentSize' = sentSize /\ message' = message
        /\ wev' = wev /\ rev' = rev /\ pc' = pc
    BY DEF PeerReads
  <1> DEFINE h == SubSeq(sock, 1, n)
  <1>5. n \in 0 .. Len(sock) /\ n \in Nat
    BY <1>2
  <1>6. /\ h \in Seq(Nat) /\ sock' \in Seq(Nat) /\ Len(h) = n
        /\ Len(sock') = Len(sock) - n /\ sock = h \o sock'
    BY <1>2, <1>3, <1>5, Cut
  <1>7. got' = got \o h
    BY <1>3
  <1> HIDE DEF h
  <1>8. got' \in Seq(Nat) /\ Len(got') = Len(got) + n
    BY <1>2, <1>6, <1>7, ConcatProperties
  <1>9. got' \o sock' = got \o sock
    <2> DEFINE t == sock'
    <2>1. t \in Seq(Nat)
      BY <1>6
    <2> HIDE DEF t
    <2>2. (got \o h) \o t = got \o (h \o t)
      <3>1. got \in Seq(Nat) /\ h \in Seq(Nat) /\ t \in Seq(Nat)
        BY <1>2, <1>6, <2>1
      <3> QED
        BY ONLY <3>1, Regroup, ZenonT(60)
    <2> QED
      BY <1>6, <1>7, <2>2 DEF t
  <1>10. Typed'
    <2>1. Len(sock') <= SockRoom
      BY <1>1, <1>2, <1>5, <1>6 DEF Typed
    <2> QED
      BY <1>1, <1>4, <1>6, <1>8, <2>1 DEF Typed
  <1>11. StreamIntact'
    <2>1. sentSize' = Len(got') + Len(sock')
      BY <1>1, <1>2, <1>4, <1>5, <1>6, <1>8 DEF StreamIntact
    <2> QED
      BY <1>1, <1>4, <1>9, <2>1 DEF StreamIntact
  <1> QED
    BY <1>1, <1>4, <1>10, <1>11 DEF StreamInv, FlatFirst

\* A step that leaves the bytes alone keeps the invariant.
LEMMA NoBytesStep ==
  ASSUME StreamInv, UNCHANGED <<message, flat, out, sock, got, sentSize>>,
         wev' \in Events, rev' \in Events, FlatFirst'
  PROVE  StreamInv'
  <1>1. Typed'
    BY DEF StreamInv, Typed
  <1>2. StreamIntact'
    BY DEF StreamInv, StreamIntact
  <1> QED
    BY <1>1, <1>2 DEF StreamInv

\* Every step keeps the invariant.
LEMMA StreamStep ==
  ASSUME StreamInv, [Next]_vars
  PROVE  StreamInv'
  <1>1. wev \in Events /\ rev \in Events /\ FlatFirst
    BY DEF StreamInv, Typed
  <1> DEFINE Same == UNCHANGED <<message, flat, out, sock, got, sentSize>>
  <1>2. ASSUME Same, wev' \in Events, rev' \in Events, pc' # "chain" \/ pc' = pc
        PROVE  StreamInv'
    <2>1. FlatFirst'
      BY <1>1, <1>2 DEF FlatFirst, Size
    <2> QED
      BY <1>2, <2>1, NoBytesStep
  <1>3. CASE CallSend
    BY <1>1, <1>2, <1>3 DEF CallSend, Enter
  <1>4. CASE SendTakes
    BY <1>4, SendTakesStep
  <1>5. CASE SendAgain
    BY <1>1, <1>2, <1>5 DEF SendAgain, Events
  <1>6. CASE SendFails
    BY <1>1, <1>2, <1>6 DEF SendFails, Fails, Events
  <1>7. CASE CallSendChain
    <2>1. Same /\ wev' = wev /\ rev' = rev /\ Size(flat) = 0
      BY <1>7 DEF CallSendChain, Enter
    <2>2. FlatFirst'
      BY <2>1 DEF FlatFirst, Size
    <2> QED
      BY <1>1, <2>1, <2>2, NoBytesStep
  <1>8. CASE ChainTakes
    BY <1>8, ChainTakesStep
  <1>9. CASE ChainFails
    BY <1>1, <1>2, <1>9 DEF ChainFails, Events
  <1>10. CASE CallRecv
    BY <1>1, <1>2, <1>10 DEF CallRecv, Enter
  <1>11. CASE RecvTakes
    BY <1>1, <1>2, <1>11 DEF RecvTakes
  <1>12. CASE RecvEmpty
    <2>1. rev' \in Events
      <3>1. (~peerOpen) \in BOOLEAN
        OBVIOUS
      <3>2. rev' = [rev EXCEPT !.ready = FALSE, !.eof = ~peerOpen]
        BY <1>12 DEF RecvEmpty
      <3> QED
        BY <1>1, <3>1, <3>2 DEF Events
    <2> QED
      BY <1>1, <1>2, <1>12, <2>1 DEF RecvEmpty
  <1>13. CASE RecvFails
    BY <1>1, <1>2, <1>13 DEF RecvFails, Fails, Events
  <1>14. CASE PeerReads
    BY <1>14, PeerReadsStep
  <1>15. CASE PeerSends
    BY <1>1, <1>2, <1>15 DEF PeerSends
  <1>16. CASE PeerCloses
    BY <1>1, <1>2, <1>16 DEF PeerCloses
  <1>17. CASE Writable
    BY <1>1, <1>2, <1>17 DEF Writable, Events
  <1>18. CASE Readable
    BY <1>1, <1>2, <1>18 DEF Readable, Events
  <1>19. CASE UNCHANGED vars
    BY <1>1, <1>2, <1>19 DEF vars
  <1> QED
    BY <1>3, <1>4, <1>5, <1>6, <1>7, <1>8, <1>9, <1>10, <1>11, <1>12, <1>13,
       <1>14, <1>15, <1>16, <1>17, <1>18, <1>19 DEF Next, Send, SendChain, Recv

\* hcore_tcp_send_chain gives up readiness only after it filled the buffer:
\* vec->size is what writev was given, and less was taken.
LEMMA WaitsStep ==
  ASSUME StreamInv, [Next]_vars, wev.ready, ~wev'.ready
  PROVE  Len(sock') = SockRoom
  <1>1. Typed /\ wev \in Events
    BY DEF StreamInv, Typed
  <1>2. CASE ChainTakes
    <2> DEFINE vec == ToIovec(out)
               size == TotalSize(vec.iovs)
               n == Takes(size)
               h == SubSeq(AllBytes(vec.iovs), 1, n)
    <2>1. /\ sock' = sock \o h
          /\ wev' = [wev EXCEPT !.ready = @ /\ vec.size = n]
      BY <1>2 DEF ChainTakes
    <2>2. vec \in Vecs /\ vec.iovs \in Seq(Areas) /\ vec.size = size
      BY <1>1, Gathered DEF Typed, Vecs
    <2>3. /\ AllBytes(vec.iovs) \in Seq(Nat) /\ size \in Nat
          /\ Len(AllBytes(vec.iovs)) = size
      BY <2>2, Counted
    <2>4. size # n
      BY <1>1, <2>1, <2>2 DEF Events
    <2>5. /\ n \in 0 .. size /\ n = Room /\ Len(sock) \in Nat /\ Room \in Nat
          /\ Len(sock) + Room = SockRoom
      BY <1>1, <2>3, <2>4, Taken
    <2> HIDE DEF vec, size, n
    <2>6. h \in Seq(Nat) /\ Len(h) = n
      BY <2>3, <2>5, Cut
    <2> HIDE DEF h
    <2>7. Len(sock') = Len(sock) + Len(h)
      BY <1>1, <2>1, <2>6, ConcatProperties DEF Typed
    <2> QED
      BY <2>5, <2>6, <2>7
  <1>3. CASE ~ChainTakes
    <2>1. wev'.ready = wev.ready \/ wev'.ready
      <3> USE <1>1 DEF Events
      <3>1. CASE ChainFails \/ Writable
        BY <3>1 DEF ChainFails, Writable
      <3>2. CASE Send
        BY <3>2 DEF Send, CallSend, Enter, SendTakes, SendAgain, SendFails, Fails
      <3>3. CASE CallSendChain \/ Recv
        BY <3>3 DEF CallSendChain, Enter, Recv, CallRecv, RecvTakes, RecvEmpty, RecvFails, Fails
      <3>4. CASE PeerReads \/ PeerSends \/ PeerCloses \/ Readable \/ UNCHANGED vars
        BY <3>4 DEF PeerReads, PeerSends, PeerCloses, Readable, vars
      <3> QED
        BY <1>3, <3>1, <3>2, <3>3, <3>4 DEF Next, SendChain
    <2> QED
      BY <2>1
  <1> QED
    BY <1>2, <1>3
-----------------------------------------------------------------------------
(* The theorems.                                                            *)

\* What the peer has read, what is under way and what is left to send are the
\* message, whatever the buffers, however many iovecs there are and however
\* the kernel cuts the sends of hcore_tcp_send and hcore_tcp_send_chain.
THEOREM NothingLost == Spec => []StreamIntact
  <1>1. StreamInv /\ [Next]_vars => StreamInv'
    BY StreamStep
  <1>2. StreamInv => StreamIntact
    BY DEF StreamInv
  <1> QED
    BY <1>1, <1>2, StreamStarts, PTL DEF Spec

\* hcore_tcp_send_chain leaves the host waiting for an event only when the
\* kernel's buffer is full.
THEOREM WaitsForRoom == Spec => WaitsOnlyWhenFull
  <1>1. StreamInv /\ [Next]_vars => StreamInv'
    BY StreamStep
  <1>2. StreamInv /\ [Next]_vars => [wev.ready /\ ~wev'.ready => Len(sock') = SockRoom]_vars
    BY WaitsStep
  <1> QED
    BY <1>1, <1>2, StreamStarts, PTL DEF Spec, WaitsOnlyWhenFull
=============================================================================

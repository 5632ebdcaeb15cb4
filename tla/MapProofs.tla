----------------------------- MODULE MapProofs -----------------------------
(***************************************************************************)
(* What is proved of Map for every width of a unit and every set of sizes: *)
(* a call changes exactly the positions of its range.  The argument is the *)
(* arithmetic of units and bits: the bits that the code touches in the     *)
(* first and the last unit, and the units it fills between, are the        *)
(* interval that the positions of the range stand for (RangeBits).         *)
(***************************************************************************)
EXTENDS Map, TLAPS

\* The map has the units that its size needs.
MapTypeOK ==
  /\ map.size \in Nat /\ map.bits \subseteq Nat
  /\ map = [size |-> map.size, bits |-> map.bits,
            n |-> (map.size \div UnitBits) + (IF map.size % UnitBits = 0 THEN 0 ELSE 1)]
-----------------------------------------------------------------------------
(* Units and bits.                                                          *)

\* A number is its unit and its bit.
LEMMA Divided ==
  ASSUME NEW x \in Nat
  PROVE  /\ x \div UnitBits \in Nat /\ x % UnitBits \in 0 .. UnitBits - 1
         /\ x = (x \div UnitBits) * UnitBits + (x % UnitBits)
  <1>1. UnitBits \in Nat \ {0}
    BY MapAssumption
  <1> QED
    BY <1>1

\* Units do not overlap.
LEMMA UnitsApart ==
  ASSUME NEW u \in Nat, NEW v \in Nat, u < v
  PROVE  u * UnitBits + UnitBits <= v * UnitBits
  <1>1. UnitBits \in Nat \ {0}
    BY MapAssumption
  <1>2. PICK k \in Nat : v = u + 1 + k
    <2>1. v - u - 1 \in Nat /\ v = u + 1 + (v - u - 1)
      OBVIOUS
    <2> QED
      BY <2>1
  <1>3. (u + 1 + k) * UnitBits = u * UnitBits + UnitBits + k * UnitBits
    BY <1>1
  <1>4. k * UnitBits \in Nat /\ u * UnitBits \in Nat
    BY <1>1
  <1> QED
    BY <1>1, <1>2, <1>3, <1>4

\* A unit is an interval, and the positions of a range are another.
LEMMA BitsBetween ==
  ASSUME NEW u \in Nat, NEW from \in Nat, NEW to \in Int
  PROVE  BitsOf(u, from, to) = u * UnitBits + from .. u * UnitBits + to
  <1>1. u * UnitBits \in Nat
    BY MapAssumption
  <1> DEFINE s == u * UnitBits
  <1> HIDE DEF s
  <1>2. {s + i : i \in from .. to} = s + from .. s + to
    <2>1. ASSUME NEW x \in s + from .. s + to
          PROVE  x \in {s + i : i \in from .. to}
      <3>1. x - s \in from .. to /\ x = s + (x - s)
        BY <1>1 DEF s
      <3> QED
        BY <3>1
    <2>2. ASSUME NEW i \in from .. to
          PROVE  s + i \in s + from .. s + to
      BY <1>1 DEF s
    <2> QED
      BY <2>1, <2>2
  <1> QED
    BY <1>2 DEF BitsOf, s

\* The bits that _hcore_map_set_range touches are those of the range.  When
\* there is no whole unit between the ends, none is filled.
LEMMA RangeBits ==
  ASSUME NEW bp \in Nat \ {0}, NEW ep \in Nat \ {0}, bp <= ep
  PROVE  /\ Ends(bp, ep) \union Between(bp, ep) = bp - 1 .. ep - 1
         /\ Unit(ep) <= Unit(bp) + 1 => Between(bp, ep) = {}
  <1> DEFINE p == bp - 1
             q == ep - 1
             u == Unit(bp)
             v == Unit(ep)
             i == Bit(bp)
             j == Bit(ep)
  <1>1. /\ p \in Nat /\ q \in Nat /\ p <= q /\ UnitBits \in Nat \ {0}
        /\ u = p \div UnitBits /\ i = p % UnitBits
        /\ v = q \div UnitBits /\ j = q % UnitBits
    BY MapAssumption DEF Unit, Bit
  <1>2. /\ u \in Nat /\ i \in 0 .. UnitBits - 1 /\ p = u * UnitBits + i
        /\ v \in Nat /\ j \in 0 .. UnitBits - 1 /\ q = v * UnitBits + j
    BY <1>1, Divided
  <1>3. Ends(bp, ep) = IF u # v
                       THEN BitsOf(u, i, UnitBits - 1) \union BitsOf(v, 0, j)
                       ELSE BitsOf(u, i, j)
    BY DEF Ends
  <1>4. Between(bp, ep) = UNION {BitsOf(w, 0, UnitBits - 1) : w \in (u + 1) .. (v - 1)}
    BY DEF Between
  <1> HIDE DEF p, q, u, v, i, j
  <1>5. \A w \in Nat : w * UnitBits \in Nat
    BY <1>1
  <1>6. u <= v
    <2> SUFFICES ASSUME v < u PROVE FALSE
      BY <1>2
    <2>1. v * UnitBits + UnitBits <= u * UnitBits
      BY <1>2, UnitsApart
    <2>2. u * UnitBits \in Nat /\ v * UnitBits \in Nat
      BY <1>2, <1>5
    <2> QED
      BY <1>1, <1>2, <2>1, <2>2
  <1>7. ASSUME u = v
        PROVE  Ends(bp, ep) = p .. q /\ Between(bp, ep) = {}
    <2>1. (u + 1) .. (v - 1) = {}
      BY <1>2, <1>7
    <2>2. BitsOf(u, i, j) = p .. q
      BY <1>2, <1>7, BitsBetween
    <2> QED
      BY <1>3, <1>4, <1>7, <2>1, <2>2
  <1>8. ASSUME u # v
        PROVE  /\ Ends(bp, ep) \union Between(bp, ep) = p .. q
               /\ v <= u + 1 => Between(bp, ep) = {}
    <2> DEFINE a == u * UnitBits + UnitBits
               b == v * UnitBits
    <2>1. a \in Nat /\ b \in Nat /\ a <= b /\ p < a /\ b <= q
      <3>1. u * UnitBits \in Nat /\ b \in Nat
        BY <1>2, <1>5
      <3>2. a <= b
        BY <1>2, <1>6, <1>8, UnitsApart
      <3> HIDE DEF b
      <3>3. q = b + j
        BY <1>2 DEF b
      <3> QED
        BY <1>1, <1>2, <3>1, <3>2, <3>3
    <2>2. BitsOf(u, i, UnitBits - 1) = p .. a - 1
      <3>1. BitsOf(u, i, UnitBits - 1) = u * UnitBits + i .. u * UnitBits + (UnitBits - 1)
        <4>1. u \in Nat /\ i \in Nat /\ UnitBits - 1 \in Int
          BY <1>1, <1>2
        <4> QED
          BY ONLY <4>1, BitsBetween
      <3>2. u * UnitBits + (UnitBits - 1) = a - 1
        BY <1>1, <1>2, <1>5
      <3> QED
        BY <1>2, <3>1, <3>2
    <2>3. BitsOf(v, 0, j) = b .. q
      <3>1. BitsOf(v, 0, j) = v * UnitBits + 0 .. v * UnitBits + j
        <4>1. v \in Nat /\ 0 \in Nat /\ j \in Int
          BY <1>1, <1>2
        <4> QED
          BY ONLY <4>1, BitsBetween
      <3>2. v * UnitBits + 0 = b
        BY <1>2, <1>5
      <3> QED
        BY <1>2, <3>1, <3>2
    <2>4. Between(bp, ep) = a .. b - 1
      <3>1. ASSUME NEW w \in (u + 1) .. (v - 1), NEW x \in BitsOf(w, 0, UnitBits - 1)
            PROVE  x \in a .. b - 1
        <4>1. w \in Nat /\ u < w /\ w < v
          BY <1>2
        <4>2. x \in w * UnitBits + 0 .. w * UnitBits + (UnitBits - 1)
          <5>1. w \in Nat /\ 0 \in Nat /\ UnitBits - 1 \in Int
            BY <1>1, <4>1
          <5>2. BitsOf(w, 0, UnitBits - 1) = w * UnitBits + 0 .. w * UnitBits + (UnitBits - 1)
            BY ONLY <5>1, BitsBetween
          <5> QED
            BY <5>2
        <4>3. a <= w * UnitBits /\ w * UnitBits + UnitBits <= b
          BY <1>2, <4>1, UnitsApart
        <4>4. w * UnitBits \in Nat
          BY <1>5, <4>1
        <4> HIDE DEF a, b
        <4> QED
          BY <1>1, <2>1, <4>2, <4>3, <4>4
      <3>2. ASSUME NEW x \in a .. b - 1
            PROVE  \E w \in (u + 1) .. (v - 1) : x \in BitsOf(w, 0, UnitBits - 1)
        <4> DEFINE w == x \div UnitBits
                   y == x % UnitBits
        <4>1. x \in Nat /\ a <= x /\ x < b
          <5> HIDE DEF a, b
          <5> QED
            BY <2>1
        <4>2. w \in Nat /\ y \in 0 .. UnitBits - 1 /\ x = w * UnitBits + y
          BY <4>1, Divided
        <4> HIDE DEF w, y
        <4>3. x \in BitsOf(w, 0, UnitBits - 1)
          <5>1. BitsOf(w, 0, UnitBits - 1) = w * UnitBits + 0 .. w * UnitBits + (UnitBits - 1)
            BY <1>1, <4>2, BitsBetween
          <5>2. w * UnitBits \in Nat
            BY <1>5, <4>2
          <5> QED
            BY <1>1, <4>2, <5>1, <5>2
        <4>4. u < w
          <5> SUFFICES ASSUME w <= u PROVE FALSE
            BY <1>2, <4>2
          <5>1. w * UnitBits \in Nat /\ u * UnitBits \in Nat
            BY <1>2, <1>5, <4>2
          <5>2. w * UnitBits <= u * UnitBits
            <6>1. CASE w = u
              BY <5>1, <6>1
            <6>2. CASE w # u
              <7>1. w * UnitBits + UnitBits <= u * UnitBits
                BY <1>2, <4>2, <6>2, UnitsApart
              <7> QED
                BY <1>1, <5>1, <7>1
            <6> QED
              BY <6>1, <6>2
          <5> QED
            BY <1>1, <4>1, <4>2, <5>1, <5>2
        <4>5. w < v
          <5> SUFFICES ASSUME v <= w PROVE FALSE
            BY <1>2, <4>2
          <5>1. w * UnitBits \in Nat
            BY <1>5, <4>2
          <5>2. b <= w * UnitBits
            <6>1. CASE w = v
              BY <2>1, <6>1
            <6>2. CASE w # v
              <7>1. v * UnitBits + UnitBits <= w * UnitBits
                BY <1>2, <4>2, <6>2, UnitsApart
              <7> QED
                BY <1>1, <2>1, <5>1, <7>1
            <6> QED
              BY <6>1, <6>2
          <5> HIDE DEF b
          <5> QED
            BY <1>1, <2>1, <4>1, <4>2, <5>1, <5>2
        <4>6. w \in (u + 1) .. (v - 1)
          BY <1>2, <4>2, <4>4, <4>5
        <4> QED
          BY <4>3, <4>6
      <3> QED
        BY <1>4, <3>1, <3>2
    <2>5. v <= u + 1 => Between(bp, ep) = {}
      <3>1. v <= u + 1 => (u + 1) .. (v - 1) = {}
        BY <1>2
      <3> QED
        BY <1>4, <3>1
    <2> HIDE DEF a, b
    <2>6. (p .. a - 1) \union (b .. q) \union (a .. b - 1) = p .. q
      BY <1>1, <2>1
    <2> QED
      BY <1>3, <1>8, <2>2, <2>3, <2>4, <2>5, <2>6
  <1> QED
    BY <1>7, <1>8 DEF p, q, u, v
-----------------------------------------------------------------------------
(* The map.                                                                 *)

\* A map is made with the units its size needs, and keeps them.
LEMMA MapInvariance == MapSpec => []MapTypeOK
  <1>1. MapInit => MapTypeOK
    <2> SUFFICES ASSUME MapInit PROVE MapTypeOK
      OBVIOUS
    <2>1. PICK s \in MapSizes :
            map = [size |-> s, n |-> (s \div UnitBits) + (IF s % UnitBits = 0 THEN 0 ELSE 1),
                   bits |-> {}]
      BY DEF MapInit
    <2>2. s \in Nat
      BY MapAssumption
    <2> QED
      BY <2>1, <2>2 DEF MapTypeOK
  <1>2. MapTypeOK /\ [MapNext]_mapVars => MapTypeOK'
    <2> SUFFICES ASSUME MapTypeOK, [MapNext]_mapVars PROVE MapTypeOK'
      OBVIOUS
    <2> DEFINE Units(s) == (s \div UnitBits) + (IF s % UnitBits = 0 THEN 0 ELSE 1)
    <2> HIDE DEF Units
    <2>1. map = [size |-> map.size, bits |-> map.bits, n |-> Units(map.size)]
          /\ map.size \in Nat /\ map.bits \subseteq Nat
      BY DEF MapTypeOK, Units
    <2>2. ASSUME NEW B \in SUBSET Nat, map' = [map EXCEPT !.bits = B]
          PROVE  MapTypeOK'
      <3>1. map' = [size |-> map'.size, bits |-> map'.bits, n |-> Units(map'.size)]
            /\ map'.size \in Nat /\ map'.bits \subseteq Nat
        BY <2>1, <2>2
      <3> QED
        BY <3>1 DEF MapTypeOK, Units
    <2>3. CASE map' = map
      BY <2>3 DEF MapTypeOK
    <2>4. \A pos \in Positions : HasBit(pos) => pos \in Nat \ {0}
      <3>1. MaxMapSize \in Nat
        BY MapAssumption DEF MaxMapSize
      <3> QED
        BY <3>1 DEF Positions, HasBit
    <2>5. ASSUME NEW pos \in Positions, NEW on \in BOOLEAN, Assign(pos, on), HasBit(pos)
          PROVE  MapTypeOK'
      <3> DEFINE b == BitsOf(Unit(pos), Bit(pos), Bit(pos))
      <3>1. map' = [map EXCEPT !.bits = IF on THEN map.bits \union b ELSE map.bits \ b]
        BY <2>1, <2>5 DEF Assign
      <3>2. b \subseteq Nat
        <4>1. pos - 1 \in Nat
          BY <2>4, <2>5
        <4>2. Unit(pos) \in Nat /\ Bit(pos) \in Nat /\ Bit(pos) \in Int
          BY <4>1, MapAssumption, Divided DEF Unit, Bit
        <4>3. Unit(pos) * UnitBits \in Nat
          BY <4>2, MapAssumption
        <4>4. b = Unit(pos) * UnitBits + Bit(pos) .. Unit(pos) * UnitBits + Bit(pos)
          BY <4>2, BitsBetween
        <4> QED
          BY <4>2, <4>3, <4>4
      <3> HIDE DEF b
      <3>3. (IF on THEN map.bits \union b ELSE map.bits \ b) \in SUBSET Nat
        BY <2>1, <3>2
      <3> QED
        BY <2>2, <3>1, <3>3
    <2>6. ASSUME NEW bp \in Positions, NEW ep \in Positions, NEW on \in BOOLEAN,
                 AssignRange(bp, ep, on), HasBit(bp) /\ HasBit(ep)
          PROVE  MapTypeOK'
      <3> DEFINE e == Ends(bp, ep)
                 w == Between(bp, ep)
                 B == (IF on THEN map.bits \union e ELSE map.bits \ e) \union w
      <3>1. map' = [map EXCEPT !.bits = B]
        BY <2>1, <2>6 DEF AssignRange
      <3>2. /\ bp - 1 \in Nat /\ ep - 1 \in Nat
            /\ Unit(bp) = (bp - 1) \div UnitBits /\ Bit(bp) = (bp - 1) % UnitBits
            /\ Unit(ep) = (ep - 1) \div UnitBits /\ Bit(ep) = (ep - 1) % UnitBits
        BY <2>4, <2>6 DEF Unit, Bit
      <3>3. /\ Unit(bp) \in Nat /\ Bit(bp) \in Nat /\ Unit(ep) \in Nat /\ Bit(ep) \in Nat
            /\ UnitBits \in Nat
        BY <3>2, MapAssumption, Divided
      <3>4. ASSUME NEW u \in Nat, NEW from \in Nat, NEW to \in Int
            PROVE  BitsOf(u, from, to) \subseteq Nat
        <4>1. \A i \in from .. to : u * UnitBits + i \in Nat
          BY <3>3
        <4> QED
          BY <4>1 DEF BitsOf
      <3>5. UnitBits - 1 \in Int /\ Bit(ep) \in Int /\ 0 \in Nat
        BY <3>3
      <3>6. e \subseteq Nat
        BY <3>3, <3>4, <3>5 DEF Ends
      <3>7. w \subseteq Nat
        <4>1. \A u \in (Unit(bp) + 1) .. (Unit(ep) - 1) : u \in Nat
          BY <3>3
        <4> QED
          BY <3>4, <3>5, <4>1 DEF Between
      <3> HIDE DEF e, w
      <3>8. B \in SUBSET Nat
        BY <2>1, <3>6, <3>7
      <3> HIDE DEF B
      <3> QED
        BY <2>2, <3>1, <3>8
    <2>7. CASE MapNext
      BY <2>3, <2>5, <2>6, <2>7 DEF MapNext, Assign, AssignRange
    <2> QED
      BY <2>3, <2>7 DEF mapVars
  <1> QED
    BY <1>1, <1>2, PTL DEF MapSpec

\* _hcore_map_get_m accepts the positions of the map and no other.
LEMMA HasBitIs ==
  ASSUME MapTypeOK, NEW pos \in Nat
  PROVE  HasBit(pos) <=> pos \in 1 .. map.size
  <1> DEFINE s == map.size
             u == s \div UnitBits
             r == s % UnitBits
  <1>1. s \in Nat /\ map.n = u + (IF r = 0 THEN 0 ELSE 1) /\ UnitBits \in Nat \ {0}
    BY MapAssumption DEF MapTypeOK
  <1>2. u \in Nat /\ r \in 0 .. UnitBits - 1 /\ s = u * UnitBits + r
    BY <1>1, Divided
  <1>3. ASSUME pos \in 1 .. s
        PROVE  (pos - 1) \div UnitBits < map.n
    <2> DEFINE p == pos - 1
               v == p \div UnitBits
               b == p % UnitBits
    <2>1. p \in Nat /\ p < s
      BY <1>1, <1>3
    <2>2. v \in Nat /\ b \in 0 .. UnitBits - 1 /\ p = v * UnitBits + b
      BY <2>1, Divided
    <2> HIDE DEF p, v, b, s, u, r
    <2>3. u * UnitBits \in Nat /\ v * UnitBits \in Nat
      BY <1>1, <1>2, <2>2
    <2>4. v <= u
      <3> SUFFICES ASSUME u < v PROVE FALSE
        BY <1>2, <2>2
      <3>1. u * UnitBits + UnitBits <= v * UnitBits
        BY <1>2, <2>2, UnitsApart
      <3> QED
        BY <1>1, <1>2, <2>1, <2>2, <2>3, <3>1
    <2>5. r = 0 => v # u
      BY <1>1, <1>2, <2>1, <2>2, <2>3
    <2>6. v < map.n
      BY <1>1, <1>2, <2>2, <2>4, <2>5
    <2> QED
      BY <2>6 DEF v, p
  <1> QED
    BY <1>1, <1>3 DEF HasBit

\* Each call of hcore_map.c changes exactly the positions of its range and no
\* bit beyond the size, and is refused when an end lies outside, for every
\* width of a unit.
THEOREM RangesExact == MapSpec => MapExact
  <1> DEFINE c == mapCall'
             plain == c.bp <= c.ep /\ (c.op = "set" \/ Unit(c.ep) <= Unit(c.bp) + 1)
             Exact ==
               /\ c.ok <=> {c.bp, c.ep} \subseteq 1 .. map.size
               /\ ~c.ok => map' = map
               /\ c.ok /\ plain => \A pos \in 1 .. map.size :
                    IsSet(map', pos) = IF pos \in c.bp .. c.ep THEN c.op = "set"
                                       ELSE IsSet(map, pos)
               /\ c.ok /\ plain => \A b \in map'.bits \ map.bits : b < map.size
  <1>1. ASSUME MapTypeOK, NEW bp \in Nat, NEW ep \in Nat, NEW on \in BOOLEAN,
               NEW T, NEW W, T \union W = bp - 1 .. ep - 1,
               ~on /\ Unit(ep) <= Unit(bp) + 1 => W = {},
               mapCall' = [op |-> IF on THEN "set" ELSE "unset", bp |-> bp, ep |-> ep,
                           ok |-> {bp, ep} \subseteq 1 .. map.size],
               map' = IF ~({bp, ep} \subseteq 1 .. map.size) THEN map
                      ELSE [map EXCEPT !.bits = (IF on THEN map.bits \union T
                                                 ELSE map.bits \ T) \union W],
               bp <= ep
        PROVE  Exact
    <2>1. /\ c.op = IF on THEN "set" ELSE "unset"
          /\ c.bp = bp /\ c.ep = ep /\ c.ok = ({bp, ep} \subseteq 1 .. map.size)
      BY <1>1
    <2>2. CASE ~c.ok
      BY <1>1, <2>1, <2>2
    <2>3. CASE c.ok /\ plain
      <3>1. map'.bits = IF on THEN map.bits \union (bp - 1 .. ep - 1)
                        ELSE map.bits \ (bp - 1 .. ep - 1)
        BY <1>1, <2>1, <2>3 DEF MapTypeOK
      <3>2. map.size \in Nat /\ bp \in 1 .. map.size /\ ep \in 1 .. map.size
        BY <1>1, <2>1, <2>3 DEF MapTypeOK
      <3>3. ASSUME NEW pos \in 1 .. map.size
            PROVE  IsSet(map', pos) = IF pos \in bp .. ep THEN c.op = "set" ELSE IsSet(map, pos)
        <4>1. pos - 1 \in bp - 1 .. ep - 1 <=> pos \in bp .. ep
          BY <3>2
        <4> QED
          BY <2>1, <3>1, <4>1 DEF IsSet
      <3>4. \A b \in bp - 1 .. ep - 1 : b < map.size
        BY <3>2
      <3>5. \A b \in map'.bits \ map.bits : b < map.size
        BY <3>1, <3>4
      <3> QED
        BY <2>1, <2>3, <3>3, <3>5
    <2>4. CASE c.ok /\ ~plain
      BY <2>1, <2>4
    <2> QED
      BY <2>2, <2>3, <2>4
  <1>2. \A pos \in Positions : pos \in Nat
    <2>1. MaxMapSize \in Nat
      BY MapAssumption DEF MaxMapSize
    <2> QED
      BY <2>1 DEF Positions
  <1>3. ASSUME MapTypeOK, NEW bp \in Nat, NEW ep \in Nat, NEW on \in BOOLEAN,
               AssignRange(bp, ep, on)
        PROVE  Exact
    <2> DEFINE ok == {bp, ep} \subseteq 1 .. map.size
    <2>1. (HasBit(bp) /\ HasBit(ep)) <=> ok
      BY <1>3, HasBitIs
    <2>2. /\ mapCall' = [op |-> IF on THEN "set" ELSE "unset", bp |-> bp, ep |-> ep,
                         ok |-> HasBit(bp) /\ HasBit(ep)]
          /\ (HasBit(bp) /\ HasBit(ep)) \in BOOLEAN
      BY <1>3 DEF AssignRange
    <2>3. mapCall' = [op |-> IF on THEN "set" ELSE "unset", bp |-> bp, ep |-> ep, ok |-> ok]
      BY <2>1, <2>2
    <2>4. map' = IF ~ok THEN map
                 ELSE [map EXCEPT !.bits = (IF on THEN map.bits \union Ends(bp, ep)
                                            ELSE map.bits \ Ends(bp, ep))
                                           \union Between(bp, ep)]
      BY <1>3, <2>1 DEF AssignRange, MapTypeOK
    <2>5. CASE ~ok
      BY <2>3, <2>4, <2>5
    <2>6. CASE ok /\ bp <= ep
      <3>1. bp \in Nat \ {0} /\ ep \in Nat \ {0}
        BY <1>3, <2>6 DEF MapTypeOK
      <3>2. /\ Ends(bp, ep) \union Between(bp, ep) = bp - 1 .. ep - 1
            /\ Unit(ep) <= Unit(bp) + 1 => Between(bp, ep) = {}
        BY <2>6, <3>1, RangeBits
      <3> QED
        BY <1>1, <1>3, <2>3, <2>4, <2>6, <3>2
    <2>7. CASE ok /\ ~(bp <= ep)
      BY <2>3, <2>7
    <2> QED
      BY <2>5, <2>6, <2>7
  <1>4. ASSUME MapTypeOK, NEW pos \in Nat, NEW on \in BOOLEAN, Assign(pos, on)
        PROVE  Exact
    <2> DEFINE ok == {pos, pos} \subseteq 1 .. map.size
               T == BitsOf(Unit(pos), Bit(pos), Bit(pos))
    <2>1. HasBit(pos) <=> ok
      BY <1>4, HasBitIs
    <2>2. /\ mapCall' = [op |-> IF on THEN "set" ELSE "unset", bp |-> pos, ep |-> pos,
                         ok |-> HasBit(pos)]
          /\ HasBit(pos) \in BOOLEAN
      BY <1>4 DEF Assign, HasBit
    <2>3. mapCall' = [op |-> IF on THEN "set" ELSE "unset", bp |-> pos, ep |-> pos, ok |-> ok]
      BY <2>1, <2>2
    <2>4. map' = IF ~ok THEN map
                 ELSE [map EXCEPT !.bits = (IF on THEN map.bits \union T
                                            ELSE map.bits \ T) \union {}]
      <3>1. map' = IF ~ok THEN map
                   ELSE [map EXCEPT !.bits = IF on THEN map.bits \union T ELSE map.bits \ T]
        BY <1>4, <2>1 DEF Assign, MapTypeOK
      <3> HIDE DEF T
      <3>2. (IF on THEN map.bits \union T ELSE map.bits \ T)
              = (IF on THEN map.bits \union T ELSE map.bits \ T) \union {}
        OBVIOUS
      <3> QED
        BY <3>1, <3>2
    <2>5. CASE ~ok
      BY <2>3, <2>4, <2>5
    <2>6. CASE ok
      <3>1. pos - 1 \in Nat
        BY <1>4, <2>6 DEF MapTypeOK
      <3>2. /\ Unit(pos) \in Nat /\ Bit(pos) \in Nat /\ Bit(pos) \in Int
            /\ pos - 1 = Unit(pos) * UnitBits + Bit(pos)
        BY <3>1, MapAssumption, Divided DEF Unit, Bit
      <3>3. T = pos - 1 .. pos - 1
        BY <3>2, BitsBetween
      <3> HIDE DEF T
      <3>4. T \union {} = pos - 1 .. pos - 1 /\ pos <= pos
        BY <3>3
      <3> QED
        BY <1>1, <1>4, <2>3, <2>4, <2>6, <3>4
    <2> QED
      BY <2>5, <2>6
  <1>5. MapTypeOK /\ [MapNext]_mapVars => [Exact]_mapVars
    BY <1>2, <1>3, <1>4 DEF MapNext
  <1>6. [][Exact]_mapVars => MapExact
    BY PTL DEF MapExact
  <1> QED
    BY <1>5, <1>6, MapInvariance, PTL DEF MapSpec
=============================================================================

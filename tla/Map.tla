-------------------------------- MODULE Map --------------------------------
(***************************************************************************)
(* The bitmap of src/src/hcore_map.c.  A map of size positions is kept in  *)
(* units of UnitBits bits (8 in the code); positions are counted from 1.   *)
(* The bits of the units are numbered from 0 through all units.            *)
(***************************************************************************)
EXTENDS Integers

CONSTANTS
  UnitBits,    \* the bits of a unit, 8 in the code
  MapSizes     \* the sizes maps are created with

ASSUME MapAssumption ==
  /\ UnitBits \in Nat \ {0} /\ MapSizes \subseteq Nat
  /\ \E s \in MapSizes : \A t \in MapSizes : t <= s

VARIABLES
  map,         \* size, n (the number of units) and the bits that are set
  mapCall      \* the last call: operation, range and result

mapVars == <<map, mapCall>>
-----------------------------------------------------------------------------
MaxMapSize == CHOOSE s \in MapSizes : \A t \in MapSizes : t <= s
\* What a client may pass: 0, every position, and one beyond the largest.
Positions == 0 .. (MaxMapSize + 1)

\* hcore_init_map
MapInit ==
  /\ map \in {[size |-> s, n |-> (s \div UnitBits) + (IF s % UnitBits = 0 THEN 0 ELSE 1),
               bits |-> {}] : s \in MapSizes}
  /\ mapCall = [op |-> "init", bp |-> 1, ep |-> 0, ok |-> TRUE]

\* _hcore_map_get_m finds a unit for the position.
HasBit(pos) == pos # 0 /\ pos <= map.size /\ (pos - 1) \div UnitBits < map.n

Unit(pos) == (pos - 1) \div UnitBits
Bit(pos) == (pos - 1) % UnitBits
BitsOf(unit, from, to) == {unit * UnitBits + i : i \in from .. to}

\* Mutant: the last bit of the range is left out.
EndsShort(bp, ep) ==
  IF Unit(bp) # Unit(ep)
  THEN BitsOf(Unit(bp), Bit(bp), UnitBits - 1) \union BitsOf(Unit(ep), 0, Bit(ep) - 1)
  ELSE BitsOf(Unit(bp), Bit(bp), Bit(ep) - 1)

\* The bits of the first and of the last unit that the loops touch.
Ends(bp, ep) ==
  IF Unit(bp) # Unit(ep)
  THEN BitsOf(Unit(bp), Bit(bp), UnitBits - 1) \union BitsOf(Unit(ep), 0, Bit(ep))
  ELSE BitsOf(Unit(bp), Bit(bp), Bit(ep))

\* The units between the two, which are filled whatever the call is for.
Between(bp, ep) ==
  UNION {BitsOf(u, 0, UnitBits - 1) : u \in (Unit(bp) + 1) .. (Unit(ep) - 1)}

\* _hcore_map_set
Assign(pos, on) ==
  LET b == BitsOf(Unit(pos), Bit(pos), Bit(pos)) IN
  /\ map' = IF ~HasBit(pos) THEN map
            ELSE [map EXCEPT !.bits = IF on THEN @ \union b ELSE @ \ b]
  /\ mapCall' = [op |-> IF on THEN "set" ELSE "unset", bp |-> pos, ep |-> pos,
                 ok |-> HasBit(pos)]

\* _hcore_map_set_range
AssignRange(bp, ep, on) ==
  LET ok == HasBit(bp) /\ HasBit(ep) IN
  /\ map' = IF ~ok THEN map
            ELSE [map EXCEPT !.bits = (IF on THEN @ \union Ends(bp, ep)
                                       ELSE @ \ Ends(bp, ep)) \union Between(bp, ep)]
  /\ mapCall' = [op |-> IF on THEN "set" ELSE "unset", bp |-> bp, ep |-> ep, ok |-> ok]

MapNext ==
  \/ \E pos \in Positions, on \in BOOLEAN : Assign(pos, on)
  \/ \E bp, ep \in Positions, on \in BOOLEAN : AssignRange(bp, ep, on)

MapSpec == MapInit /\ [][MapNext]_mapVars

\* hcore_map_is_set, for a position of the map
IsSet(m, pos) == (pos - 1) \in m.bits
-----------------------------------------------------------------------------
(* Properties *)

\* A call changes exactly the positions of its range, is refused without a
\* change when an end lies outside, and sets no bit beyond the size.
\* Ranges whose ends are reversed are left out, and so is the clearing of a
\* range with a whole unit inside it: _hcore_map_set_range fills that unit.
MapExact ==
  [][LET c == mapCall'
         plain == c.bp <= c.ep /\ (c.op = "set" \/ Unit(c.ep) <= Unit(c.bp) + 1)
     IN /\ c.ok <=> {c.bp, c.ep} \subseteq 1 .. map.size
        /\ ~c.ok => map' = map
        /\ c.ok /\ plain => \A pos \in 1 .. map.size :
             IsSet(map', pos) = IF pos \in c.bp .. c.ep THEN c.op = "set"
                                ELSE IsSet(map, pos)
        /\ c.ok /\ plain => \A b \in map'.bits \ map.bits : b < map.size]_mapVars
=============================================================================

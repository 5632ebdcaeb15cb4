-------------------------------- MODULE Htb --------------------------------
(***************************************************************************)
(* The hash table of src/src/hcore_htb.c: elements of fixed size that are  *)
(* empty, in use or deleted, found by a quadratic probe, with a count of   *)
(* references for each datum.  hcore_htb_init sets the status of the       *)
(* elements and nothing else, so the data of an empty element are whatever *)
(* the memory held.                                                        *)
(***************************************************************************)
EXTENDS Integers, Sequences, FiniteSets, FiniteSetsExt

CONSTANTS
  TableSize,   \* the number of elements
  Data,        \* what clients store: numbers, get_hash_proc is the identity
  MaxRefs      \* bound: references that are held at a time

ASSUME TableAssumption ==
  TableSize \in Nat \ {0} /\ Data \subseteq Nat /\ MaxRefs \in Nat

VARIABLES
  table,       \* type, count and the elements
  refs,        \* references taken by successful calls and not given back
  tableCall    \* the result of the last call, or "spins"

tableVars == <<table, refs, tableCall>>
-----------------------------------------------------------------------------
Index == 0 .. (TableSize - 1)

\* Memory that matches no datum.
Garbage == 1 + Max(Data)

\* hcore_htb_init, for a table that the client provides or that is allocated.
TableInit ==
  /\ \E old \in [Index -> Data \union {Garbage}], type \in {"common", "fixedsize"} :
       table = [type |-> type, count |-> 0,
                elem |-> [i \in Index |-> [status |-> "empty", ref |-> 0, data |-> old[i]]]]
  /\ refs = 0
  /\ tableCall = "success"

\* The k-th index of the probe: the steps 1, 3, 5, ... add up to squares.
ProbeAt(d, k) == (d + k * k) % TableSize

\* The turns after which the loop of hcore_htb_find_pos leaves.  The squares
\* repeat, so a probe that finds no stop in TableSize turns never does.
Stops(d) ==
  {k \in Index : LET e == table.elem[ProbeAt(d, k)] IN e.status = "exist" \/ e.data = d}
FindPos(d) == ProbeAt(d, Min(Stops(d)))

Nearly == table.type = "fixedsize" /\ (table.count * 10) \div TableSize > 7

\* Mutant: a deleted element is taken back into use without being counted.
TakenUncounted(i, d, status) ==
  [table EXCEPT !.elem[i] = [status |-> "exist", ref |-> 1,
                             data |-> IF status = "empty" THEN d ELSE @.data],
                !.count = IF status = "empty" THEN @ + 1 ELSE @]

\* A deleted element is used again as it is, an empty one receives the data.
TakenBy(i, d, status) ==
  [table EXCEPT !.elem[i] = [status |-> "exist", ref |-> 1,
                             data |-> IF status = "empty" THEN d ELSE @.data],
                !.count = @ + 1]

\* hcore_htb_insert
HtbInsert(d, existed) ==
  /\ tableCall # "spins" /\ refs < MaxRefs
  /\ IF table.count = TableSize
     THEN tableCall' = "full" /\ UNCHANGED <<table, refs>>
     ELSE IF Stops(d) = {}
     THEN tableCall' = "spins" /\ UNCHANGED <<table, refs>>
     ELSE LET i == FindPos(d)
              e == table.elem[i]
          IN
          IF e.status = "exist" /\ existed
          THEN tableCall' = "exist" /\ UNCHANGED <<table, refs>>
          ELSE /\ table' = IF e.status = "exist" THEN [table EXCEPT !.elem[i].ref = @ + 1]
                           ELSE TakenBy(i, d, e.status)
               /\ refs' = refs + 1
               /\ tableCall' = IF e.status # "exist" /\ Nearly THEN "warning" ELSE "success"

\* hcore_htb_remove
HtbRemove(d) ==
  /\ tableCall # "spins"
  /\ IF Stops(d) = {}
     THEN tableCall' = "spins" /\ UNCHANGED <<table, refs>>
     ELSE LET i == FindPos(d)
              e == table.elem[i]
          IN
          IF e.status # "exist"
          THEN tableCall' = "no_exist" /\ UNCHANGED <<table, refs>>
          ELSE /\ table' =
                    IF e.ref = 1
                    THEN [table EXCEPT !.elem[i].ref = 0, !.elem[i].status = "delete",
                                       !.count = @ - 1]
                    ELSE [table EXCEPT !.elem[i].ref = @ - 1]
               /\ refs' = refs - 1
               /\ tableCall' = "success"

\* A probe that finds nothing to stop at goes on for ever.
Spinning == tableCall = "spins" /\ UNCHANGED tableVars

TableNext ==
  \/ \E d \in Data : HtbRemove(d) \/ \E existed \in BOOLEAN : HtbInsert(d, existed)
  \/ Spinning
-----------------------------------------------------------------------------
(* Properties *)

\* The count of the table, which decides when it is full, is the number of
\* elements in use, and the references of the elements are those the clients
\* hold, through deletion and reuse of elements and probes that stop at the
\* element of another datum.
TableCounts ==
  LET used == {i \in Index : table.elem[i].status = "exist"} IN
  /\ table.count = Cardinality(used)
  /\ \A i \in Index : (table.elem[i].ref > 0) <=> (i \in used)
  /\ refs = MapThenSumSet(LAMBDA i : table.elem[i].ref, Index)
=============================================================================

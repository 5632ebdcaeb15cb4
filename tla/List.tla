-------------------------------- MODULE List --------------------------------
(***************************************************************************)
(* The growing array of src/src/hcore_list.c, with its count, its capacity *)
(* and the flag that says it is sorted.  A call is one step.               *)
(*                                                                         *)
(* The list lives in a pool: hcore_init_list reports an error whenever the *)
(* pool is NULL.  qsort and bsearch are external: qsort leaves any order   *)
(* that the comparison allows, bsearch finds some equal element of an      *)
(* ordered array and may answer anything on one that is not.  The pool may *)
(* have no room, which makes list->p NULL.  Using elements of a NULL       *)
(* array, elements that are not initialised or a place past the end of the *)
(* array is undefined: crashed becomes TRUE and nothing is modelled after  *)
(* it.                                                                     *)
(***************************************************************************)
EXTENDS Integers, Sequences, Bags, FiniteSets

CONSTANTS
  Items,          \* the pointers that callers put in the list
  NoItem,         \* NULL
  Key,            \* what the comparison function looks at in each item
  InitReserved,   \* HCORE_LIST_INIT_NUM_RESERVED
  MaxItems,       \* bound: elements are added while there are fewer
  MaxFailures     \* bound: allocations that fail

ASSUME ListAssumption ==
  /\ Key \in [Items -> Nat] /\ NoItem \notin Items
  /\ InitReserved \in Nat /\ InitReserved >= 2
  /\ MaxItems \in Nat /\ MaxFailures \in Nat

VARIABLES
  compare,    \* list->cmp is not NULL
  items,      \* list->p[0 .. num_item - 1], meaningful while p is not NULL
  num,        \* list->num_item
  reserved,   \* list->num_reserved
  null,       \* list->p is NULL
  sorted,     \* list->sorted
  crashed,    \* undefined behaviour has happened
  held,       \* the bag of the items that callers added and did not delete
  answer,     \* what the last search was for and what it returned
  failures    \* allocations that failed

vars == <<compare, items, num, reserved, null, sorted, crashed, held, answer,
          failures>>
-----------------------------------------------------------------------------
NoAnswer == [target |-> NoItem, found |-> NoItem]

Elements(s) == {s[i] : i \in DOMAIN s}
Ordered(s) == \A i, j \in DOMAIN s : i < j => Key[s[i]] <= Key[s[j]]
BagOf(s) == [x \in Elements(s) |-> Cardinality({i \in DOMAIN s : s[i] = x})]

\* What qsort may leave.
Sortings(s) ==
  LET bag == BagOf(s) IN
  {t \in [DOMAIN s -> DOMAIN bag] : BagOf(t) = bag /\ Ordered(t)}

\* hcore_list_insert and hcore_list_search sort a list that is not sorted.
InOrder == IF sorted THEN {items} ELSE Sortings(items)

\* What bsearch may return.
Matches(s, target) ==
  LET equal == {x \in Elements(s) : Key[x] = Key[target]} IN
  IF ~Ordered(s) THEN Elements(s) \union {NoItem}
  ELSE IF equal = {} THEN {NoItem} ELSE equal

\* Where the binary search of hcore_list_insert puts x: at an equal element it
\* meets, or where low ends.  Positions count from 0.
Probe(s, x) ==
  LET f[r \in (0 .. Len(s)) \X (-1 .. Len(s) - 1)] ==
        LET low == r[1]  high == r[2]  middle == (low + high) \div 2 IN
        IF low > high THEN low
        ELSE IF Key[s[middle + 1]] = Key[x] THEN middle
        ELSE IF Key[s[middle + 1]] > Key[x] THEN f[<<low, middle - 1>>]
        ELSE f[<<middle + 1, high>>]
  IN f[<<0, Len(s) - 1>>]

\* Mutant: the elements are moved in ascending order, over each other.
PutAtUpward(s, pos, x) ==
  [i \in 1 .. Len(s) + 1 |->
     IF i <= pos THEN s[i] ELSE IF i = pos + 1 THEN x ELSE s[pos + 1]]

\* The elements from pos on move up by one.
PutAt(s, pos, x) == SubSeq(s, 1, pos) \o <<x>> \o SubSeq(s, pos + 1, Len(s))

\* The elements after the first occurrence of x move down by one.
Without(s, x) ==
  LET i == CHOOSE k \in DOMAIN s : s[k] = x /\ \A j \in 1 .. k - 1 : s[j] # x
  IN SubSeq(s, 1, i - 1) \o SubSeq(s, i + 1, Len(s))

\* Mutant: the array grows one element too late.
GrownLate(n) == IF n > reserved + 1 THEN reserved * 2 ELSE reserved

\* The capacity once num_item is n.
Grown(n) == IF n > reserved THEN reserved * 2 ELSE reserved

\* Mutant: an array that is half full is not cut.
ShrunkLate(n) ==
  IF n * 2 < reserved /\ reserved > InitReserved * 2 THEN reserved \div 2
  ELSE reserved

\* The capacity after a deletion that leaves n elements.
Shrunk(n) ==
  IF n * 2 <= reserved /\ reserved > InitReserved * 2 THEN reserved \div 2
  ELSE reserved

\* hcore_list_realloc: hcore_prealloc allocates, and may fail, when the array
\* grows or is NULL; otherwise it returns the array it was given.
Realloc(allocates, fails) ==
  /\ fails => allocates /\ failures < MaxFailures
  /\ failures' = failures + (IF fails THEN 1 ELSE 0)

Crash == crashed' = TRUE /\ UNCHANGED <<items, null, sorted, held>>
-----------------------------------------------------------------------------
\* hcore_init_list, with or without a comparison function.  That the array
\* could not be allocated goes unnoticed.
Init ==
  /\ compare \in BOOLEAN
  /\ items = <<>> /\ num = 0 /\ reserved = InitReserved
  /\ sorted = TRUE /\ crashed = FALSE
  /\ held = EmptyBag /\ answer = NoAnswer
  /\ \/ null = FALSE /\ failures = 0
     \/ null = TRUE /\ failures = 1 /\ MaxFailures > 0

\* Mutant: hcore_list_add leaves the flag alone.
AppendsSorted(x) == items' = Append(items, x) /\ UNCHANGED <<null, sorted, crashed>>

\* list->p[i] = p
Appends(x) ==
  /\ items' = Append(items, x) /\ sorted' = FALSE
  /\ UNCHANGED <<null, crashed>>

\* hcore_list_add.  When the reallocation fails the count and the capacity
\* have already been changed and the array is lost.
AddTo(x, fails) ==
  LET n == num + 1  r == Grown(n) IN
  /\ num' = n /\ reserved' = r
  /\ Realloc(r # reserved, fails)
  /\ \/ fails /\ null' = TRUE /\ UNCHANGED <<items, sorted, crashed, held>>
     \/ ~fails /\ (null \/ n > r) /\ Crash
     \/ ~fails /\ ~null /\ n <= r /\ Appends(x) /\ held' = held (+) SetToBag({x})

Add(x, fails) ==
  /\ ~crashed /\ num < MaxItems
  /\ AddTo(x, fails)
  /\ answer' = NoAnswer /\ UNCHANGED compare

\* hcore_list_insert without a comparison function adds and returns HCORE_OK
\* whatever came of it.
InsertPlain(x, fails) ==
  /\ ~crashed /\ num < MaxItems /\ ~compare
  /\ AddTo(x, fails)
  /\ answer' = NoAnswer /\ UNCHANGED compare

\* With one, it sorts, looks for the place and moves the elements behind it.
\* The result of the reallocation is not looked at.
Insert(x, fails) ==
  LET n == num + 1  r == Grown(n) IN
  /\ ~crashed /\ num < MaxItems /\ compare
  /\ num' = n /\ reserved' = r
  /\ Realloc(r # reserved, fails)
  /\ \/ (null \/ fails \/ n > r) /\ Crash
     \/ /\ ~null /\ ~fails /\ n <= r
        /\ \E s \in InOrder : items' = PutAt(s, Probe(s, x), x)
        /\ sorted' = TRUE /\ held' = held (+) SetToBag({x})
        /\ UNCHANGED <<null, crashed>>
  /\ answer' = NoAnswer /\ UNCHANGED compare

\* hcore_list_delete of an item that is in the list.  An item that is not
\* changes nothing.
Delete(x) ==
  /\ ~crashed /\ num > 0
  /\ \/ null /\ Crash /\ UNCHANGED <<num, reserved>>
     \/ /\ ~null /\ x \in Elements(items)
        /\ num' = num - 1 /\ reserved' = Shrunk(num - 1)
        /\ items' = Without(items, x)
        /\ held' = held (-) SetToBag({x})
        /\ UNCHANGED <<null, sorted, crashed>>
  /\ answer' = NoAnswer /\ UNCHANGED <<compare, failures>>

\* hcore_list_delete_all.  A list that was lost gets a new array.
DeleteAll(fails) ==
  /\ ~crashed
  /\ items' = <<>> /\ num' = 0 /\ reserved' = InitReserved
  /\ Realloc(null, fails)
  /\ null' = fails /\ held' = EmptyBag /\ answer' = NoAnswer
  /\ UNCHANGED <<compare, sorted, crashed>>

\* hcore_list_sort
Sort ==
  /\ ~crashed /\ compare
  /\ \/ null /\ num > 0 /\ Crash
     \/ /\ ~(null /\ num > 0)
        /\ items' \in Sortings(items) /\ sorted' = TRUE
        /\ UNCHANGED <<null, crashed, held>>
  /\ answer' = NoAnswer
  /\ UNCHANGED <<compare, num, reserved, failures>>

\* hcore_list_search
Search(target) ==
  /\ ~crashed /\ compare
  /\ \/ null /\ num > 0 /\ Crash /\ answer' = NoAnswer
     \/ /\ ~(null /\ num > 0)
        /\ \E s \in InOrder, x \in Items \union {NoItem} :
             /\ x \in Matches(s, target)
             /\ items' = s
             /\ answer' = [target |-> target, found |-> x]
        /\ sorted' = TRUE
        /\ UNCHANGED <<null, crashed, held>>
  /\ UNCHANGED <<compare, num, reserved, failures>>

Next ==
  \/ \E x \in Items, fails \in BOOLEAN :
       Add(x, fails) \/ InsertPlain(x, fails) \/ Insert(x, fails)
  \/ \E x \in Items : Delete(x)
  \/ \E fails \in BOOLEAN : DeleteAll(fails)
  \/ Sort
  \/ \E target \in Items : Search(target)

Spec == Init /\ [][Next]_vars
-----------------------------------------------------------------------------
\* The list holds what callers added and did not delete, each as often as they
\* added it, through growth, shrinking, sorting and insertion in the middle,
\* until an allocation fails.
ContentsKept == ~null /\ ~crashed => Len(items) = num /\ BagOf(items) = held

\* hcore_list_search returns an item equal to the target whenever callers put
\* one in the list and did not delete it, and NULL otherwise.
AnswersRight ==
  answer.target # NoItem =>
    LET equal == {x \in BagToSet(held) : Key[x] = Key[answer.target]} IN
    IF equal = {} THEN answer.found = NoItem ELSE answer.found \in equal

\* No access leaves the array or meets a NULL array, unless an allocation
\* failed before: hcore_list_add and hcore_list_insert grow it in time and
\* hcore_list_delete never cuts off an element in use.
AccessesInside == (crashed => failures > 0) /\ num <= reserved

\* hcore_list_delete gives memory back in step: beyond twice the initial
\* capacity more than half of the array is in use.
HalfFull == reserved > InitReserved * 2 => 2 * num > reserved
=============================================================================

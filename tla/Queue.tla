------------------------------- MODULE Queue -------------------------------
(***************************************************************************)
(* The doubly linked queue of src/include/hcore_queue.h and                *)
(* src/src/hcore_queue.c.  A queue is a head (the sentinel) in a circle    *)
(* with links that are members of client structures.  The reference is the *)
(* sequence of the elements of each queue, kept in content.                *)
(***************************************************************************)
EXTENDS Integers, Sequences, SequencesExt, Functions

CONSTANTS
  Heads,        \* the heads of the queues, numbers
  QueueElems    \* the links of the clients, numbers

ASSUME QueueAssumption == (QueueElems \union Heads) \subseteq Nat \ {0} /\ Heads \intersect QueueElems = {}

VARIABLES
  links,        \* prev and next of every head and element
  content       \* the elements of each queue that is set up

queueVars == <<links, content>>
-----------------------------------------------------------------------------
NoLink == 0
Spots == Heads \union QueueElems

\* What the comparison of the client looks at: elements 2k and 2k+1 are equal.
SortKey(x) == x \div 2

InQueues == UNION {ToSet(content[h]) : h \in DOMAIN content}

\* hcore_queue_init
Alone(l, h) == [l EXCEPT !.prev[h] = h, !.next[h] = h]

QueueInit ==
  /\ \E h \in Heads :
       /\ links = Alone([prev |-> [x \in Spots |-> NoLink],
                         next |-> [x \in Spots |-> NoLink]], h)
       /\ content = [g \in {h} |-> <<>>]

\* hcore_queue_insert_head, and hcore_queue_insert_after behind an element
Behind(l, h, x) ==
  [l EXCEPT !.next[x] = l.next[h], !.prev[l.next[h]] = x,
            !.prev[x] = h, !.next[h] = x]

\* hcore_queue_insert_tail
BeforeSpot(l, h, x) ==
  [l EXCEPT !.prev[x] = l.prev[h], !.next[l.prev[h]] = x,
            !.next[x] = h, !.prev[h] = x]

\* The links of what left a queue are NULL with _HCORE_DEBUG and old without:
\* nothing may depend on them.
Loose(l, x) == [l EXCEPT !.prev[x] = NoLink, !.next[x] = NoLink]

\* hcore_queue_remove
Unhooked(l, x) ==
  Loose([l EXCEPT !.prev[l.next[x]] = l.prev[x], !.next[l.prev[x]] = l.next[x]], x)

\* hcore_queue_split: from q on the elements of h go to the new head n.
Split(l, h, q, n) ==
  [l EXCEPT !.prev[n] = l.prev[h], !.next[l.prev[h]] = n, !.next[n] = q,
            !.prev[h] = l.prev[q], !.next[l.prev[q]] = h, !.prev[q] = n]

\* hcore_queue_add: the elements of n go to the end of h.
Joined(l, h, n) ==
  LET l1 == [l EXCEPT !.next[l.prev[h]] = l.next[n], !.prev[l.next[n]] = l.prev[h]]
  IN [l1 EXCEPT !.prev[h] = l1.prev[n], !.next[l1.prev[n]] = h]

\* hcore_queue_add_head: they go to the front.
JoinedFront(l, h, n) ==
  LET l1 == [l EXCEPT !.prev[l.next[h]] = l.prev[n], !.next[l.prev[n]] = l.next[h]]
  IN [l1 EXCEPT !.next[h] = l1.next[n], !.prev[l1.next[n]] = h]
-----------------------------------------------------------------------------
(* hcore_queue_sort *)

\* Mutant: an element passes those that are equal to it.
StopAtStrict(x, q) == SortKey(x) < SortKey(q)

\* cmp(prev, q) <= 0
StopAt(x, q) == SortKey(x) <= SortKey(q)

\* The walk back from p to the element, or the head, to put q behind.
PlaceFor(l, h, p, q) ==
  LET Back[x \in QueueElems] ==
        IF StopAt(x, q) \/ l.prev[x] = h THEN (IF StopAt(x, q) THEN x ELSE h)
        ELSE Back[l.prev[x]]
  IN Back[p]

RECURSIVE SortFrom(_, _, _)
SortFrom(l, h, q) ==
  IF q = h THEN l
  ELSE LET out == Unhooked(l, q)
       IN SortFrom(Behind(out, PlaceFor(out, h, l.prev[q], q), q), h, l.next[q])

Sorted(l, h) ==
  IF l.next[h] = l.prev[h] THEN l ELSE SortFrom(l, h, l.next[l.next[h]])

\* hcore_queue_middle: next advances two elements for each one of middle.
RECURSIVE MiddleFrom(_, _, _, _)
MiddleFrom(l, h, m, x) ==
  LET m1 == l.next[m]
      x1 == l.next[x]
  IN IF x1 = l.prev[h] \/ l.next[x1] = l.prev[h] THEN m1
     ELSE MiddleFrom(l, h, m1, l.next[x1])

Middle(l, h) ==
  LET first == l.next[h] IN
  IF first = l.prev[h] THEN first ELSE MiddleFrom(l, h, first, first)
-----------------------------------------------------------------------------
(* Actions *)

PutHead(h, x) ==
  /\ x \notin InQueues
  /\ links' = Behind(links, h, x)
  /\ content' = [content EXCEPT ![h] = <<x>> \o @]

PutTail(h, x) ==
  /\ x \notin InQueues
  /\ links' = BeforeSpot(links, h, x)
  /\ content' = [content EXCEPT ![h] = Append(@, x)]

PutAfter(h, i, x) ==
  /\ x \notin InQueues
  /\ links' = Behind(links, content[h][i], x)
  /\ content' = [content EXCEPT ![h] = InsertAt(@, i + 1, x)]

Take(h, i) ==
  /\ links' = Unhooked(links, content[h][i])
  /\ content' = [content EXCEPT ![h] = RemoveAt(@, i)]

\* A queue is split at one of its elements into a head that is not in use.
SplitAt(h, i, n) ==
  /\ n \notin DOMAIN content
  /\ links' = Split(links, h, content[h][i], n)
  /\ content' = [g \in DOMAIN content \union {n} |->
                   IF g = n THEN SubSeq(content[h], i, Len(content[h]))
                   ELSE IF g = h THEN SubSeq(content[h], 1, i - 1) ELSE content[g]]

\* After hcore_queue_add and hcore_queue_add_head the head n must be set up
\* again before it is used.
JoinTail(h, n) ==
  /\ h # n
  /\ links' = Loose(Joined(links, h, n), n)
  /\ content' = [g \in DOMAIN content \ {n} |->
                   IF g = h THEN content[h] \o content[n] ELSE content[g]]
JoinHead(h, n) ==
  /\ h # n
  /\ links' = Loose(JoinedFront(links, h, n), n)
  /\ content' = [g \in DOMAIN content \ {n} |->
                   IF g = h THEN content[n] \o content[h] ELSE content[g]]

\* The elements in the order of their rank, equal ones as they were.
InRankOrder(s) ==
  LET top == CHOOSE r \in {SortKey(x) : x \in QueueElems} : \A x \in QueueElems : SortKey(x) <= r
  IN FlattenSeq([r \in 1 .. top + 1 |-> SelectSeq(s, LAMBDA x : SortKey(x) = r - 1)])

QueueSort(h) ==
  /\ links' = Sorted(links, h)
  /\ content' = [content EXCEPT ![h] = InRankOrder(@)]

QueueNext ==
  \E h \in DOMAIN content :
    \/ \E x \in QueueElems :
         \/ PutHead(h, x)
         \/ PutTail(h, x)
         \/ \E i \in DOMAIN content[h] : PutAfter(h, i, x)
    \/ \E i \in DOMAIN content[h] : Take(h, i) \/ \E n \in Heads : SplitAt(h, i, n)
    \/ \E n \in DOMAIN content : JoinTail(h, n) \/ JoinHead(h, n)
    \/ QueueSort(h)
-----------------------------------------------------------------------------
(* Properties *)

\* A sequence of clients' elements lies in the circle of h in both directions.
Circle(h, s) ==
  LET ring == <<h>> \o s \o <<h>> IN
  \A i \in 1 .. Len(ring) - 1 :
    links.next[ring[i]] = ring[i + 1] /\ links.prev[ring[i + 1]] = ring[i]

\* Through insertions, removals, splits, joins and sorts every queue is one
\* circle that holds exactly its elements in the right order, in both
\* directions; the sort keeps equal elements in order; hcore_queue_middle is
\* the middle element, or the first of the second half.
QueuesAreSequences ==
  \A h \in DOMAIN content :
    /\ Circle(h, content[h])
    /\ content[h] # <<>> =>
         Middle(links, h) = content[h][(Len(content[h]) \div 2) + 1]
=============================================================================

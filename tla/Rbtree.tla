------------------------------ MODULE Rbtree ------------------------------
(***************************************************************************)
(* The red-black tree of src/src/hcore_rbtree.c.  The nodes are members of *)
(* client structures, linked by left, right and parent; a tree is a root,  *)
(* a sentinel and the function that orders the nodes (by value, or by time *)
(* with keys that wrap around).  The two halves of the rebalancing code    *)
(* mirror each other, so an operator takes the side it works on.           *)
(*                                                                         *)
(* An insertion or a deletion is one step for the change of the links and  *)
(* one step for each turn of the loop that repairs the colours.            *)
(***************************************************************************)
EXTENDS Integers, Sequences, FiniteSets, SequencesExt

CONSTANTS
  TreeNodes,    \* the nodes of the clients, 1 .. their number
  KeyRange      \* the number of values of a key: it wraps at KeyRange

ASSUME TreeAssumption ==
  /\ TreeNodes = 1 .. Cardinality(TreeNodes)
  /\ KeyRange \in Nat \ {0} /\ KeyRange % 2 = 0

VARIABLES
  tree,     \* the tree and its nodes (see Trees)
  fixing,   \* the loop that is under way, the node it has reached and its turns
  now,      \* the clock of the clients that keep timers in the tree
  order     \* the members in the order a client expects to visit them

treeVars == <<tree, fixing, now, order>>
-----------------------------------------------------------------------------
Null == 0
Sentinel == -1
Places == TreeNodes \union {Null, Sentinel}
Keys == 0 .. (KeyRange - 1)

Trees == [
  root : Places,
  insert : {"value", "timer"},                 \* tree->insert
  child : [{"left", "right"} -> [Places -> Places]],
  parent : [Places -> Places],
  red : [Places -> BOOLEAN],
  key : [Places -> Keys]]

Resting == [op |-> "none", node |-> Null, turns |-> 0]
Repairing(op, n) == [op |-> op, node |-> n, turns |-> 0]
NextTurn(n) == [fixing EXCEPT !.node = n, !.turns = @ + 1]

Other(side) == IF side = "left" THEN "right" ELSE "left"

Left(t, n) == t.child["left"][n]
Right(t, n) == t.child["right"][n]
IsChild(t, n, side) == n = t.child[side][t.parent[n]]
\* The side the code takes n to be on, by a test of parent->left.
SideOf(t, n) == IF IsChild(t, n, "left") THEN "left" ELSE "right"

SetChild(t, n, side, c) == [t EXCEPT !.child[side][n] = c]
SetParent(t, n, p) == [t EXCEPT !.parent[n] = p]
Paint(t, n, colour) == [t EXCEPT !.red[n] = colour]
Black(t, n) == Paint(t, n, FALSE)
Red(t, n) == Paint(t, n, TRUE)

\* hcore_rbtree_init: the sentinel is black, its links are not set.
TreeInit ==
  /\ tree \in [root : {Sentinel}, insert : {"value", "timer"},
               child : {[s \in {"left", "right"} |-> [n \in Places |-> Null]]},
               parent : {[n \in Places |-> Null]},
               red : {[n \in Places |-> FALSE]},
               key : {[n \in Places |-> 0]}]
  /\ fixing = Resting
  /\ now = 0
  /\ order = <<>>

\* Between two calls the parents of the root and of the sentinel are left from
\* earlier calls and mean nothing, and so do the colours of nodes outside the
\* tree: none is kept, and a call that used one would go astray.
Settled(t, members) ==
  [t EXCEPT !.parent = [n \in Places |-> IF n \in members \ {t.root} THEN @[n] ELSE Null],
            !.red = [n \in Places |-> n \in members \union {Sentinel} /\ @[n]]]

\* hcore_rbtree_left_rotate (side "left") and hcore_rbtree_right_rotate: the
\* child on the other side takes the place of n.
Rotate(t, n, side) ==
  LET c == t.child[Other(side)][n]
      inner == t.child[side][c]
      p == t.parent[n]
      up == IF n = t.root THEN <<side, c>> ELSE <<SideOf(t, n), p>>
  IN [t EXCEPT !.root = IF n = @ THEN c ELSE @,
               !.child[Other(side)][n] = inner,
               !.child[up[1]][up[2]] = c,
               !.child[side][c] = n,
               !.parent[inner] = IF inner # Sentinel THEN n ELSE @,
               !.parent[c] = p,
               !.parent[n] = c]
-----------------------------------------------------------------------------
(* Insertion *)

\* Mutant: the comparison of the timers ignores the overflow.
BeforeNoWrap(t, j, k) == j < k

\* node->key < temp->key, for timers as a signed difference.
Before(t, j, k) ==
  IF t.insert = "value" THEN j < k
  ELSE (j - k) % KeyRange >= KeyRange \div 2

\* hcore_rbtree_insert_value and hcore_rbtree_insert_timer_value: the last
\* node on the way down from the root to the place of n.
Descend(t, n) ==
  LET Down[m \in TreeNodes] ==
        LET c == t.child[IF Before(t, t.key[n], t.key[m]) THEN "left" ELSE "right"][m]
        IN IF c = Sentinel THEN m ELSE Down[c]
  IN Down[t.root]

\* A node without children.
AsLeaf(t, n) == SetChild(SetChild(t, n, "left", Sentinel), n, "right", Sentinel)

Linked(t, n) ==
  LET m == Descend(t, n)
      side == IF Before(t, t.key[n], t.key[m]) THEN "left" ELSE "right"
  IN Red(SetParent(AsLeaf(SetChild(t, m, side, n), n), n, m), n)

AsRoot(t, n) ==
  [Black(SetParent(AsLeaf(t, n), n, Null), n) EXCEPT !.root = n]

\* What a client means by an earlier node: the smaller value, or the timer that
\* is due sooner from now.
Sooner(t, j, k) ==
  IF t.insert = "value" THEN j < k
  ELSE (j - now) % KeyRange < (k - now) % KeyRange

\* Where the visitor of the tree expects n: behind the nodes that are not
\* later, so that equal keys keep the order of their insertion.
Expected(t, n) ==
  LET later(m) == Sooner(t, t.key[n], t.key[m])
  IN SelectSeq(order, LAMBDA m : ~later(m)) \o <<n>> \o SelectSeq(order, later)

\* A client uses a tree of values with any keys, also equal ones; timers lie
\* within half the range of the keys from now, as the comparison demands.
KeyFor(t, n) == IF t.insert = "value" THEN n \div 2 ELSE n % KeyRange
Admitted(t, n) ==
  t.insert = "timer" => (KeyFor(t, n) - now) % KeyRange < KeyRange \div 2

TreeInsert(n) ==
  /\ fixing = Resting
  /\ n \notin ToSet(order)
  /\ Admitted(tree, n)
  /\ LET t == [tree EXCEPT !.key[n] = KeyFor(tree, n)] IN
     /\ tree' = IF t.root = Sentinel THEN AsRoot(t, n) ELSE Linked(t, n)
     /\ fixing' = IF t.root = Sentinel THEN Resting ELSE Repairing("insert", n)
     /\ order' = Expected(t, n)
  /\ UNCHANGED now

\* One turn of the loop of hcore_rbtree_insert.
InsertTurn(t, n) ==
  LET p == t.parent[n]
      g == t.parent[p]
      side == SideOf(t, p)
      uncle == t.child[Other(side)][g]
  IN
  IF t.red[uncle]
  THEN [t |-> Red(Black(Black(t, p), uncle), g), node |-> g]
  ELSE LET inner == n = t.child[Other(side)][p]
           m == IF inner THEN p ELSE n
           t1 == IF inner THEN Rotate(t, p, side) ELSE t
           q == t1.parent[m]
           t2 == Red(Black(t1, q), t1.parent[q])
       IN [t |-> Rotate(t2, t2.parent[q], Other(side)), node |-> m]

InsertFix ==
  LET n == fixing.node IN
  /\ fixing.op = "insert"
  /\ IF n # tree.root /\ tree.red[tree.parent[n]]
     THEN LET turn == InsertTurn(tree, n) IN
          /\ tree' = turn.t
          /\ fixing' = NextTurn(turn.node)
     ELSE /\ tree' = Settled(Black(tree, tree.root), ToSet(order))
          /\ fixing' = Resting
  /\ UNCHANGED <<now, order>>
-----------------------------------------------------------------------------
(* Deletion *)

\* hcore_rbtree_min
MinOf(t, n) ==
  LET Leftmost[m \in TreeNodes] ==
        IF Left(t, m) = Sentinel THEN m ELSE Leftmost[Left(t, m)]
  IN Leftmost[n]

\* The node that leaves its place, and the one that takes that place.
Subst(t, n) ==
  IF Left(t, n) = Sentinel \/ Right(t, n) = Sentinel THEN n ELSE MinOf(t, Right(t, n))
Moved(t, n) ==
  IF Left(t, n) = Sentinel THEN Right(t, n)
  ELSE IF Right(t, n) = Sentinel THEN Left(t, n)
  ELSE LET s == Subst(t, n) IN
       IF Left(t, s) # Sentinel THEN Left(t, s) ELSE Right(t, s)

\* subst takes the links and the colour of n, and n's neighbours link to it.
Replace(t, n, s) ==
  LET t1 == SetChild(SetChild(t, s, "left", Left(t, n)), s, "right", Right(t, n))
      t2 == Paint(SetParent(t1, s, t.parent[n]), s, t.red[n])
      t3 == IF n = t.root THEN [t2 EXCEPT !.root = s]
            ELSE SetChild(t2, t2.parent[n], SideOf(t2, n), s)
      t4 == IF Left(t3, s) # Sentinel THEN SetParent(t3, Left(t3, s), s) ELSE t3
  IN IF Right(t4, s) # Sentinel THEN SetParent(t4, Right(t4, s), s) ELSE t4

Cleared(t, n) ==
  [SetParent(SetChild(SetChild(t, n, "left", Null), n, "right", Null), n, Null)
     EXCEPT !.key[n] = 0]

Unlinked(t, n) ==
  LET s == Subst(t, n)
      m == Moved(t, n)
      t1 == SetChild(t, t.parent[s], SideOf(t, s), m)
      t2 == SetParent(t1, m, IF s # n /\ t.parent[s] = n THEN s ELSE t.parent[s])
  IN Cleared(IF s = n THEN t2 ELSE Replace(t2, n, s), n)

TreeDelete(n) ==
  LET s == Subst(tree, n)
      m == Moved(tree, n)
  IN
  /\ fixing = Resting
  /\ n \in ToSet(order)
  /\ order' = SelectSeq(order, LAMBDA k : k # n)
  /\ IF s = tree.root
     THEN /\ tree' = Settled([Cleared(Black(tree, m), n) EXCEPT !.root = m], ToSet(order'))
          /\ fixing' = Resting
     ELSE IF tree.red[s]
     THEN /\ tree' = Settled(Unlinked(tree, n), ToSet(order'))
          /\ fixing' = Resting
     ELSE /\ tree' = Unlinked(tree, n)
          /\ fixing' = Repairing("delete", m)
  /\ UNCHANGED now

\* Mutant: the sibling is not fetched again after the first rotation.
DeleteTurnStale(t, n) ==
  LET p == t.parent[n]
      side == SideOf(t, n)
      w == t.child[Other(side)][p]
      t1 == IF t.red[w] THEN Rotate(Red(Black(t, w), p), p, side) ELSE t
      near == t1.child[side][w]
      far == t1.child[Other(side)][w]
  IN
  IF ~t1.red[near] /\ ~t1.red[far] THEN [t |-> Red(t1, w), node |-> t1.parent[n]]
  ELSE LET t2 == IF ~t1.red[far]
                 THEN Rotate(Red(Black(t1, near), w), w, Other(side)) ELSE t1
           q == t2.parent[n]
           v == t2.child[Other(side)][q]
           t3 == Black(Black(Paint(t2, v, t2.red[q]), q), t2.child[Other(side)][v])
           t4 == Rotate(t3, q, side)
       IN [t |-> t4, node |-> t4.root]

\* One turn of the loop of hcore_rbtree_delete: n is short of a black node.
DeleteTurn(t, n) ==
  LET p == t.parent[n]
      side == SideOf(t, n)
      w0 == t.child[Other(side)][p]
      t1 == IF t.red[w0] THEN Rotate(Red(Black(t, w0), p), p, side) ELSE t
      w == t1.child[Other(side)][t1.parent[n]]
      near == t1.child[side][w]
      far == t1.child[Other(side)][w]
  IN
  IF ~t1.red[near] /\ ~t1.red[far] THEN [t |-> Red(t1, w), node |-> t1.parent[n]]
  ELSE LET t2 == IF ~t1.red[far]
                 THEN Rotate(Red(Black(t1, near), w), w, Other(side)) ELSE t1
           q == t2.parent[n]
           v == t2.child[Other(side)][q]
           t3 == Black(Black(Paint(t2, v, t2.red[q]), q), t2.child[Other(side)][v])
           t4 == Rotate(t3, q, side)
       IN [t |-> t4, node |-> t4.root]

DeleteFix ==
  LET n == fixing.node IN
  /\ fixing.op = "delete"
  /\ IF n # tree.root /\ ~tree.red[n]
     THEN LET turn == DeleteTurn(tree, n) IN
          /\ tree' = turn.t
          /\ fixing' = NextTurn(turn.node)
     ELSE /\ tree' = Settled(Black(tree, n), ToSet(order))
          /\ fixing' = Resting
  /\ UNCHANGED <<now, order>>
-----------------------------------------------------------------------------
\* Time passes once the timers that are due have been deleted.
Tick ==
  /\ fixing = Resting /\ tree.insert = "timer"
  /\ \A n \in ToSet(order) : tree.key[n] # now
  /\ now' = (now + 1) % KeyRange
  /\ UNCHANGED <<tree, fixing, order>>

TreeNext ==
  \/ \E n \in TreeNodes : TreeInsert(n) \/ TreeDelete(n)
  \/ InsertFix
  \/ DeleteFix
  \/ Tick
-----------------------------------------------------------------------------
(* Properties *)

\* The number of black nodes on the way from n down to the sentinel, or -1
\* when two ways differ.
BlackHeight(t, n) ==
  LET Height[m \in TreeNodes \union {Sentinel}] ==
        IF m = Sentinel THEN 0
        ELSE LET l == Height[Left(t, m)]  r == Height[Right(t, m)] IN
             IF l # r \/ l = -1 THEN -1 ELSE l + (IF t.red[m] THEN 0 ELSE 1)
  IN Height[n]

\* hcore_rbtree_next
NextOf(t, n) ==
  LET Up[m \in TreeNodes] ==
        IF m = t.root THEN Null
        ELSE IF m = Left(t, t.parent[m]) THEN t.parent[m]
        ELSE Up[t.parent[m]]
  IN IF Right(t, n) # Sentinel THEN MinOf(t, Right(t, n)) ELSE Up[n]

\* A tree at rest is balanced, whatever was inserted and deleted before: the
\* root and the sentinel are black, no red node has a red child, and all ways
\* down pass the same number of black nodes.  The loops of hcore_rbtree_insert
\* and hcore_rbtree_delete that repair the colours climb towards the root and
\* end: they turn at most as often as a balanced tree is high, 2 log2(n + 1).
Balanced ==
  /\ (fixing = Resting /\ order # <<>>) =>
       /\ ~tree.red[tree.root] /\ ~tree.red[Sentinel]
       /\ \A n \in ToSet(order) :
            tree.red[n] => ~tree.red[Left(tree, n)] /\ ~tree.red[Right(tree, n)]
       /\ BlackHeight(tree, tree.root) # -1
  /\ 2 ^ fixing.turns <= (Len(order) + 2) ^ 2

\* A walk with hcore_rbtree_min and hcore_rbtree_next meets the members once
\* each in the order of their keys, equal keys in the order of insertion, and
\* timers in the order in which they fall due although their keys wrap.  The
\* parent of the root is not defined and must not be looked at.
WalkInOrder ==
  fixing = Resting =>
    IF order = <<>> THEN tree.root = Sentinel
    ELSE /\ MinOf(tree, tree.root) = Head(order)
         /\ \A i \in 1 .. Len(order) :
              NextOf(tree, order[i]) = IF i < Len(order) THEN order[i + 1] ELSE Null
=============================================================================

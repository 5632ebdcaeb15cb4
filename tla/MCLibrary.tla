----------------------------- MODULE MCLibrary -----------------------------
(***************************************************************************)
(* The sequential containers and conversions, side by side: a behaviour    *)
(* uses one of them, chosen at the start, and the others rest.             *)
(***************************************************************************)
EXTENDS List, Rbtree, Queue, Map, Htb, Text, Astring

CONSTANTS itemA, itemB, itemC

VARIABLE which    \* the component that is used

libVars == <<vars, treeVars, queueVars, mapVars, tableVars, textVars, astringVars, which>>
-----------------------------------------------------------------------------
\* Two items that compare equal, and a larger one.
MCItems == {itemA, itemB, itemC}
MCKey == [x \in MCItems |-> IF x = itemC THEN 2 ELSE 1]

\* Numbers around the limits for IntBits = 27: 134217727, 131071K and 127M.
MCPieces == [
  size |-> {<<"7">>, <<"8">>, <<"1","3","4","2","1","7","7","2">>, <<"1","3","1","0","7","1">>,
            <<"1","2","7">>, <<"K">>, <<"m">>, <<"G">>, <<"x">>},
  hex |-> {<<"7">>, <<"f">>, <<"F","F","f","f">>, <<"0">>, <<"g">>},
  time |-> {<<"1">>, <<"4">>, <<"1","5","5","3">>, <<"1","3","4","2","1","7","7","2","7">>,
            <<"y">>, <<"M">>, <<"w">>, <<"d">>, <<"h">>, <<"m">>, <<"s">>, <<"m","s">>, <<" ">>},
  address |-> {<<"0">>, <<"9">>, <<"2","5","5">>, <<"2","5","6">>, <<".">>,
               <<"1",".","2",".">>, <<"x">>},
  ports |-> {<<"0">>, <<"1">>, <<"6","5","5","3","5">>, <<"6","5","5","3","6">>, <<"-">>, <<"x">>},
  url |-> {<<"*">>, <<":">>, <<"8","0">>, <<"6","5","5","3","6">>,
           <<"1",".","2",".","3",".","4">>, <<"u","n","i","x",":">>,
           <<"2","5","5",".">>, <<"2","5","5">>},
  mac |-> {<<"0","a",":","1","B","-","2","c",":">>, <<"f","f">>, <<":">>, <<"-">>, <<"7">>, <<"g">>},
  masked |-> {<<"1",".","2",".","3",".","4">>, <<"/">>, <<"2","5","5",".">>, <<"2","5","5">>},
  macmask |-> {<<"0","a",":","1","B","-","2","c",":">>, <<"0","0",":","0","0">>, <<"/">>, <<":">>},
  tokens |-> {<<"a">>, <<" ">>, <<",">>}]
MCMaxPieces == [size |-> 4, hex |-> 6, time |-> 4, address |-> 5, ports |-> 5, url |-> 4,
                mac |-> 5, masked |-> 8, macmask |-> 6, tokens |-> 7]

Str(n) == [kind |-> "string", len |-> n]
Num(neg, digits, width) == [kind |-> "number", neg |-> neg, digits |-> digits, width |-> width]
Flt(neg, digits, frac) ==
  [kind |-> "float", neg |-> neg, digits |-> digits, width |-> 0, frac |-> frac]
Chr == [kind |-> "char"]
MCFormats == {<<Str(3)>>, <<Num(TRUE, 2, 4), Chr>>, <<Flt(TRUE, 1, 2)>>, <<Str(0)>>,
              <<Str(9), Num(FALSE, 3, 1)>>, <<Chr, Num(TRUE, 1, 0)>>}
\* The time, a separator, the process, a separator.
MCLogHead == <<Str(3), Chr, Num(FALSE, 2, 3), Chr>>
-----------------------------------------------------------------------------
Uses(component) == which = component

LibInit ==
  /\ which \in {"list", "tree", "queue", "map", "table", "text", "string"}
  /\ Init /\ (Uses("list") \/ (compare /\ ~null))
  /\ TreeInit /\ (Uses("tree") \/ tree.insert = "value")
  /\ QueueInit /\ (Uses("queue") \/ DOMAIN content = {Min(Heads)})
  /\ MapInit /\ (Uses("map") \/ map.size = 0)
  /\ TableInit /\ (Uses("table") \/ (table.type = "common" /\ \A i \in Index : table.elem[i].data = Garbage))
  /\ TextInit /\ (Uses("text") \/ input = [kind |-> "size", pieces |-> <<>>])
  /\ AstringInit

LibNext ==
  \/ /\ Uses("list") /\ Next
     /\ UNCHANGED <<treeVars, queueVars, mapVars, tableVars, textVars, astringVars, which>>
  \/ /\ Uses("tree") /\ TreeNext
     /\ UNCHANGED <<vars, queueVars, mapVars, tableVars, textVars, astringVars, which>>
  \/ /\ Uses("queue") /\ QueueNext
     /\ UNCHANGED <<vars, treeVars, mapVars, tableVars, textVars, astringVars, which>>
  \/ /\ Uses("map") /\ MapNext
     /\ UNCHANGED <<vars, treeVars, queueVars, tableVars, textVars, astringVars, which>>
  \/ /\ Uses("table") /\ TableNext
     /\ UNCHANGED <<vars, treeVars, queueVars, mapVars, textVars, astringVars, which>>
  \/ /\ Uses("text") /\ TextNext
     /\ UNCHANGED <<vars, treeVars, queueVars, mapVars, tableVars, astringVars, which>>
  \/ /\ Uses("string") /\ AstringNext
     /\ UNCHANGED <<vars, treeVars, queueVars, mapVars, tableVars, textVars, which>>

LibSpec == LibInit /\ [][LibNext]_libVars
=============================================================================

-------------------------------- MODULE Pack --------------------------------
(***************************************************************************)
(* The message packer of src/src/hcore_pack.c.  A sender adds named values *)
(* to a pack and writes it; the bytes reach the receiver in pieces of any  *)
(* size, and hcore_pack_read resumes in the phase where the bytes ran out. *)
(* One turn of its loop is one step, and no bytes arrive during a call.    *)
(*                                                                         *)
(* A byte is a number.  An unsigned int takes IntSize bytes, of which the  *)
(* first stands for its value, so that input can end inside an integer.    *)
(* The list of elements is List, used through what is shown there: it      *)
(* keeps its elements in the order of hcore_pack_cmp_name and finds them.  *)
(* Allocations succeed.                                                    *)
(***************************************************************************)
EXTENDS Integers, Sequences

CONSTANTS
  IntSize,     \* sizeof(unsigned int)
  Names,       \* the names of elements, sequences of bytes
  Ints,        \* the integers that are added
  Strings,     \* the strings and data that are added, sequences of bytes
  Max,         \* pack->max on both sides; 0 is no limit
  Foreign,     \* bytes that no hcore_pack_write produced
  MaxAdds      \* bound: values that are added

\* hcore_pack_elem_type_e: int, data, str.
Types == 0 .. 2
IntType == 0

ASSUME PackAssumption ==
  /\ IntSize \in Nat \ {0}
  /\ Names \subseteq Seq(Nat) /\ Strings \subseteq Seq(Nat) /\ Ints \subseteq Nat
  /\ Foreign \subseteq Seq(Nat)
  /\ Max \in Nat /\ MaxAdds \in Nat

VARIABLES
  added,      \* what was added under each type and name, in order
  adds,       \* how many values were
  elements,   \* the sender's pack->elements
  total,      \* its pack->total_size
  buf,        \* its pack->buf, empty before hcore_pack_write
  sent,       \* added at the time of hcore_pack_write
  origin,     \* where the bytes on the wire come from
  wire,       \* bytes on their way
  input,      \* bytes that arrived and were not consumed
  pack        \* the receiver's pack

vars == <<added, adds, elements, total, buf, sent, origin, wire, input, pack>>
sender == <<added, adds, elements, total, buf, sent, origin>>
-----------------------------------------------------------------------------
(* Writing.                                                                *)

Concat(s) ==
  LET f[i \in 0 .. Len(s)] == IF i = 0 THEN <<>> ELSE f[i - 1] \o s[i]
  IN f[Len(s)]

\* hcore_pack_write_int and hcore_pack_write_str.
WriteInt(n) == <<n>> \o [i \in 1 .. IntSize - 1 |-> 0]
WriteStr(s) == WriteInt(Len(s)) \o s
WriteValue(type, v) == IF type = IntType THEN WriteInt(v) ELSE WriteStr(v)

WriteElem(e) ==
  WriteStr(e.name) \o WriteInt(e.type) \o WriteInt(Len(e.values))
  \o Concat([i \in DOMAIN e.values |-> WriteValue(e.type, e.values[i])])

\* The bytes of hcore_pack_write.
Encode(els) == WriteInt(Len(els)) \o Concat([i \in DOMAIN els |-> WriteElem(els[i])])

\* hcore_memcmp of two names of one length.
Before(s, t) ==
  \E i \in DOMAIN s : s[i] < t[i] /\ \A j \in 1 .. i - 1 : s[j] = t[j]

\* hcore_pack_cmp_name is at most 0.
Leq(d, e) ==
  \/ d.type < e.type
  \/ /\ d.type = e.type
     /\ \/ Len(d.name) < Len(e.name)
        \/ Len(d.name) = Len(e.name) /\ ~Before(e.name, d.name)

\* The places where hcore_list_insert may put e: before and after equals.
Places(els, e) ==
  {i \in 1 .. Len(els) + 1 : /\ \A j \in 1 .. i - 1 : Leq(els[j], e)
                             /\ \A j \in i .. Len(els) : Leq(e, els[j])}
PutAt(els, i, e) == SubSeq(els, 1, i - 1) \o <<e>> \o SubSeq(els, i, Len(els))

\* hcore_pack_elem_get
Found(els, type, name) == {i \in DOMAIN els : els[i].type = type /\ els[i].name = name}

\* hcore_pack_get_int_array, hcore_pack_get_str_array, hcore_pack_get_data_array;
\* an element that is not found gives no values.
Get(els, type, name) ==
  IF Found(els, type, name) = {} THEN <<>>
  ELSE els[CHOOSE i \in Found(els, type, name) : TRUE].values

StrType == 2

\* What hcore_pack_elem_add_int, _add_str and _add_data store: the copy of a
\* string is made with "%s" and ends before its first zero.
Copied(type, v) ==
  IF type # StrType THEN v
  ELSE SubSeq(v, 1, CHOOSE n \in 0 .. Len(v) :
                      /\ \A i \in 1 .. n : v[i] # 0
                      /\ n = Len(v) \/ v[n + 1] = 0)

NoElem(type, name) == [type |-> type, name |-> name, values |-> <<>>]

\* Mutant: the number of values is not counted.
ElemSizeShort(name) == IntSize + Len(name) + IntSize

\* What a new element adds to total_size: name, type and number of values.
ElemSize(name) == IntSize + Len(name) + IntSize + IntSize
ValueSize(type, v) == IF type = IntType THEN IntSize ELSE IntSize + Len(v)

\* hcore_pack_add_value of a value of an element that exists.
AddToElem(type, name, v) ==
  /\ \E i \in Found(elements, type, name) :
       elements' = [elements EXCEPT ![i].values = Append(@, Copied(type, v))]
  /\ total' = total + ValueSize(type, v)

\* ... and of an element that has to be made; past the limit it is refused.
AddElem(type, name, v) ==
  /\ Found(elements, type, name) = {}
  /\ Max = 0 \/ Len(elements) < Max
  /\ LET e == [NoElem(type, name) EXCEPT !.values = <<Copied(type, v)>>] IN
     \E i \in Places(elements, e) : elements' = PutAt(elements, i, e)
  /\ total' = total + ElemSize(name) + ValueSize(type, v)

\* hcore_pack_add_int, hcore_pack_add_str and hcore_pack_add_data.
Add(type, name, v) ==
  /\ adds < MaxAdds /\ adds' = adds + 1
  /\ AddToElem(type, name, v) \/ AddElem(type, name, v)
  /\ added' = [added EXCEPT ![type, name] = Append(@, v)]
  /\ UNCHANGED <<buf, sent, origin, wire, input, pack>>

\* hcore_pack_write.  A second call returns the same buffer.
Write ==
  /\ elements # <<>> /\ buf = <<>> /\ origin = "none"
  /\ buf' = Encode(elements) /\ wire' = buf'
  /\ sent' = added /\ origin' = "sender"
  /\ UNCHANGED <<added, adds, elements, total, input, pack>>

SendForeign(bytes) ==
  /\ origin = "none" /\ origin' = "foreign"
  /\ wire' = bytes
  /\ UNCHANGED <<added, adds, elements, total, buf, sent, input, pack>>
-----------------------------------------------------------------------------
(* Reading.                                                                *)

\* hcore_pack_init
Fresh == [phase |-> "init", need |-> IntSize, failed |-> FALSE,
          num |-> 0, curNum |-> 0, name |-> <<>>, type |-> 0,
          valueNum |-> 0, curValueNum |-> 0, cur |-> 0,
          elements |-> <<>>]

Init ==
  /\ added = [x \in Types \X Names |-> <<>>] /\ adds = 0
  /\ elements = <<>> /\ total = IntSize /\ buf = <<>> /\ sent = added
  /\ origin = "none" /\ wire = <<>> /\ input = <<>>
  /\ pack = Fresh

\* Mutant: the last of the bytes is never reached.
RunsShort == ~pack.failed /\ pack.phase # "done" /\ pack.need < Len(input)

\* The loop goes on while the bytes that are needed are there.
Runs == ~pack.failed /\ pack.phase # "done" /\ pack.need <= Len(input)

\* The next n bytes arrive and hcore_pack_read is called.
Deliver(n) ==
  /\ ~Runs
  /\ input' = input \o SubSeq(wire, 1, n)
  /\ wire' = SubSeq(wire, n + 1, Len(wire))
  /\ UNCHANGED <<sender, pack>>

\* The loop leaves the pack at next and has consumed what it needed.
Goes(next) ==
  /\ pack' = next
  /\ input' = SubSeq(input, pack.need + 1, Len(input))
  /\ UNCHANGED <<sender, wire>>

\* return -1
Refuse ==
  /\ pack' = [pack EXCEPT !.failed = TRUE]
  /\ UNCHANGED <<sender, wire, input>>

In(phase) == Runs /\ pack.phase = phase

\* hcore_pack_read_int
IntAhead == input[1]

ReadInit ==
  /\ In("init")
  /\ \/ IntAhead = 0 /\ Refuse
     \/ IntAhead # 0 /\ Goes([pack EXCEPT !.num = IntAhead, !.curNum = 0,
                                     !.phase = "nameLen", !.need = IntSize])

TooMany == Max # 0 /\ Max < pack.num

ReadNameLen ==
  /\ In("nameLen")
  /\ \/ TooMany /\ Refuse
     \/ ~TooMany /\ Goes([pack EXCEPT !.phase = "name", !.need = IntAhead])

ReadName ==
  /\ In("name")
  /\ Goes([pack EXCEPT !.name = SubSeq(input, 1, pack.need),
                       !.phase = "type", !.need = IntSize])

ReadType ==
  /\ In("type")
  /\ Goes([pack EXCEPT !.type = IntAhead, !.phase = "valueNum", !.need = IntSize])

\* hcore_pack_elem_create knows the type.
Known(type) == type \in Types

\* The element is in the list before its values are read.
ReadValueNum ==
  /\ In("valueNum")
  /\ \/ (IntAhead = 0 \/ ~Known(pack.type)) /\ Refuse
     \/ /\ IntAhead # 0 /\ Known(pack.type)
        /\ LET e == NoElem(pack.type, pack.name) IN
           \E i \in Places(pack.elements, e) :
             Goes([pack EXCEPT
                     !.valueNum = IntAhead, !.curValueNum = 0,
                     !.elements = PutAt(@, i, e), !.cur = i, !.need = IntSize,
                     !.phase = IF pack.type = IntType THEN "int" ELSE "valueLen"])

\* Mutant: the last element ends the message with its first value.
AfterValueEarly(p, again) ==
  IF p.curNum + 1 = p.num THEN [p EXCEPT !.curNum = @ + 1, !.phase = "done"]
  ELSE IF p.curValueNum = p.valueNum
  THEN [p EXCEPT !.curNum = @ + 1, !.phase = "nameLen", !.need = IntSize]
  ELSE [p EXCEPT !.phase = again, !.need = IntSize]

\* Where the loop goes after a value: to the next value of the element, to the
\* next element, or to the end.
AfterValue(p, again) ==
  IF p.curValueNum # p.valueNum THEN [p EXCEPT !.phase = again, !.need = IntSize]
  ELSE IF p.curNum + 1 = p.num THEN [p EXCEPT !.curNum = @ + 1, !.phase = "done"]
  ELSE [p EXCEPT !.curNum = @ + 1, !.phase = "nameLen", !.need = IntSize]

WithValue(v) ==
  [pack EXCEPT !.elements[pack.cur].values = Append(@, Copied(pack.type, v)),
               !.curValueNum = @ + 1]

ReadInt == In("int") /\ Goes(AfterValue(WithValue(IntAhead), "int"))

ReadValueLen == In("valueLen") /\ Goes([pack EXCEPT !.phase = "value", !.need = IntAhead])

ReadValue ==
  In("value") /\ Goes(AfterValue(WithValue(SubSeq(input, 1, pack.need)), "valueLen"))

Read == \/ ReadInit \/ ReadNameLen \/ ReadName \/ ReadType \/ ReadValueNum
        \/ ReadInt \/ ReadValueLen \/ ReadValue

Next ==
  \/ \E name \in Names :
       \/ \E v \in Ints : Add(IntType, name, v)
       \/ \E type \in Types \ {IntType}, v \in Strings : Add(type, name, v)
  \/ Write
  \/ \E bytes \in Foreign : SendForeign(bytes)
  \/ \E n \in 1 .. Len(wire) : Deliver(n)
  \/ Read

Spec == Init /\ [][Next]_vars

\* What was sent goes on arriving, and the receiver goes on reading.
FairSpec ==
  Spec /\ WF_vars(\E n \in 1 .. Len(wire) : Deliver(n)) /\ WF_vars(Read)
-----------------------------------------------------------------------------
\* Values of an element of a type.
ValuesOf(type) == Seq(IF type = IntType THEN Nat ELSE Seq(Nat))

ElemsOK(els) ==
  \A i \in DOMAIN els : /\ els[i].type \in Types /\ els[i].name \in Seq(Nat)
                        /\ els[i].values \in ValuesOf(els[i].type)

\* total_size, which hcore_pack_add_value keeps and by which hcore_pack_write
\* sizes its buffer, is at least what writing the elements takes, so the buffer
\* is never overrun; it is more only by what was cut from strings.
BufferSuffices == Len(Encode(elements)) <= total

\* A message that hcore_pack_write produced is never refused, and when the
\* receiver is done, asking for any name and type gives what was added under
\* it before the message was written (a string up to its first zero), and no
\* byte is left over.  Whatever bytes arrive, the elements read so far are of
\* known types and hold values of their types.
RoundTrip ==
  /\ ElemsOK(pack.elements)
  /\ origin = "sender" =>
       /\ ~pack.failed
       /\ pack.phase = "done" =>
            /\ \A type \in Types, name \in Names :
                 Get(pack.elements, type, name) =
                   [i \in DOMAIN sent[type, name] |-> Copied(type, sent[type, name][i])]
            /\ Len(pack.elements) = pack.num
            /\ input \o wire = <<>>

\* However the bytes are cut, the receiver gets to the end of the message.
Arrives == (origin = "sender") ~> (pack.phase = "done")
=============================================================================

------------------------------ MODULE Astring ------------------------------
(***************************************************************************)
(* Formatted output: hcore_vslprintf and hcore_sprintf_num of              *)
(* src/src/hcore_string.c, the growing string of src/src/hcore_astring.c   *)
(* and the line of the log of src/src/hcore_log.c, which are built on them.*)
(*                                                                         *)
(* A format is a sequence of directives.  A directive is given by what     *)
(* decides where the output is cut: the length of a string; the sign, the  *)
(* digits and the width of a number; the digits of its fraction.           *)
(***************************************************************************)
EXTENDS Integers, Sequences, SequencesExt

CONSTANTS
  Formats,      \* the formats clients use, sequences of directives
  StringSizes,  \* the sizes strings are created with; 0 asks for the default
  DefSize,      \* HCORE_ASTRING_DEF_SIZE
  MaxSize,      \* bound: a string of this size cannot grow
  LogSize,      \* HCORE_LOG_ERRSTR_LENGTH_MAX
  LogHead       \* the directives hcore_log_error_core puts before the message

ASSUME AstringAssumption ==
  /\ StringSizes \subseteq Nat /\ {DefSize, MaxSize, LogSize} \subseteq Nat \ {0}

VARIABLES
  astr,       \* the string (see NoString)
  printing,   \* the format of the call under way, or <<>>
  written,    \* what the successful calls should have left in the string
  logged      \* the last line of the log and its message

astringVars == <<astr, printing, written, logged>>
-----------------------------------------------------------------------------
(* Characters stand for themselves: the k-th digit or character of a text   *)
(* is k, the others are negative.                                           *)
Minus == -1
Pad == -2
Point == -3
Feed == -4
Letter == 0

Chars(n) == [k \in 1 .. n |-> k]
Pads(n) == [k \in 1 .. n |-> Pad]
Least(a, b) == IF a < b THEN a ELSE b

\* hcore_sprintf_num: padding and digits up to the end of the buffer.
PutNumber(buf, last, digits, width) ==
  LET fill == IF digits < width THEN width - digits ELSE 0
      padded == buf \o Pads(Least(fill, last - Len(buf)))
  IN padded \o Chars(IF Len(padded) + digits > last THEN last - Len(padded) ELSE digits)

\* The minus sign is written without a check: there is room for a character.
PutSign(buf, neg) == IF neg THEN Append(buf, Minus) ELSE buf

\* One directive of hcore_vslprintf.
Put(buf, last, d) ==
  CASE d.kind = "char" -> Append(buf, Letter)
    [] d.kind = "string" -> buf \o Chars(Least(last - Len(buf), d.len))
    [] d.kind = "number" -> PutNumber(PutSign(buf, d.neg), last, d.digits, d.width)
    [] d.kind = "float" ->
         LET whole == PutNumber(PutSign(buf, d.neg), last, d.digits, d.width)
             point == IF Len(whole) < last THEN Append(whole, Point) ELSE whole
         IN IF d.frac = 0 THEN whole ELSE PutNumber(point, last, d.frac, d.frac)

\* hcore_vslprintf goes on while there is room for a character.
Vslprintf(buf, last, fmt) ==
  FoldLeft(LAMBDA b, d : IF Len(b) < last THEN Put(b, last, d) ELSE b, buf, fmt)
-----------------------------------------------------------------------------
(* The string *)

NoString == [inited |-> FALSE, size |-> 0, len |-> 0, data |-> <<>>, ended |-> FALSE,
             error |-> FALSE, created |-> FALSE, blocks |-> 0]

AstringInit ==
  /\ astr = NoString
  /\ printing = <<>> /\ written = <<>>
  /\ logged = [line |-> <<>>, msg |-> <<>>]

\* hcore_init_astring on a structure of the caller, or hcore_create_astring,
\* which allocates the structure too; blocks counts what is allocated.
CreateAstring(size, created) ==
  /\ ~astr.inited
  /\ \/ astr' = [inited |-> TRUE, size |-> IF size = 0 THEN DefSize ELSE size, len |-> 0,
                 data |-> <<>>, ended |-> FALSE, error |-> FALSE, created |-> created,
                 blocks |-> IF created THEN 2 ELSE 1]
     \/ UNCHANGED astr
  /\ written' = <<>>
  /\ UNCHANGED <<printing, logged>>

\* hcore_destroy_astring
DestroyAstring ==
  /\ astr.inited /\ printing = <<>>
  /\ astr' = [NoString EXCEPT !.blocks = astr.blocks - (IF astr.created THEN 2 ELSE 1)]
  /\ written' = <<>>
  /\ UNCHANGED <<printing, logged>>

\* hcore_asnprintf
Asnprintf(fmt) ==
  /\ astr.inited /\ printing = <<>>
  /\ printing' = fmt
  /\ UNCHANGED <<astr, written, logged>>

\* Mutant: output that ends exactly at the end counts as complete.
FillsOnly(out, size) == Len(out) > size

\* last == astr->data + astr->size: the output may have been cut.
Fills(out, size) == Len(out) = size

\* The text of a directive when there is room for all of it.
Whole(fmt) ==
  FlattenSeq([i \in DOMAIN fmt |->
    LET d == fmt[i]
        Number(digits, width) == Pads(IF digits < width THEN width - digits ELSE 0) \o Chars(digits)
        sign == IF d.kind \in {"number", "float"} /\ d.neg THEN <<Minus>> ELSE <<>>
    IN CASE d.kind = "char" -> <<Letter>>
         [] d.kind = "string" -> Chars(d.len)
         [] d.kind = "number" -> sign \o Number(d.digits, d.width)
         [] d.kind = "float" -> sign \o Number(d.digits, d.width)
                                \o (IF d.frac = 0 THEN <<>> ELSE <<Point>> \o Chars(d.frac))])

\* One turn of its loop: the output is complete; or the space is doubled for
\* another turn; or it cannot be, and the call fails.
PrintTurn ==
  LET out == Vslprintf(SubSeq(astr.data, 1, astr.len), astr.size, printing) IN
  /\ printing # <<>>
  /\ IF ~Fills(out, astr.size)
     THEN /\ astr' = [astr EXCEPT !.data = out, !.len = Len(out), !.ended = TRUE]
          /\ printing' = <<>>
          /\ written' = written \o Whole(printing)
     ELSE \/ /\ astr.size < MaxSize
             /\ astr' = [astr EXCEPT !.data = out, !.size = 2 * @]
             /\ UNCHANGED <<printing, written>>
          \/ /\ astr' = [astr EXCEPT !.data = out, !.error = TRUE, !.ended = FALSE]
             /\ printing' = <<>>
             /\ UNCHANGED written
  /\ UNCHANGED logged

\* hcore_log_error_core: the head and the message, the last character of a
\* full buffer replaced by the line feed.
LogLine(fmt) ==
  LET text == Vslprintf(Vslprintf(<<>>, LogSize, LogHead), LogSize, fmt)
  IN Append(SubSeq(text, 1, Least(Len(text), LogSize - 1)), Feed)

Log(fmt) ==
  /\ logged' = [line |-> LogLine(fmt), msg |-> fmt]
  /\ UNCHANGED <<astr, printing, written>>

AstringNext ==
  \/ \E size \in StringSizes, created \in BOOLEAN : CreateAstring(size, created)
  \/ \E fmt \in Formats : Asnprintf(fmt) \/ Log(fmt)
  \/ PrintTurn
  \/ DestroyAstring
-----------------------------------------------------------------------------
(* Properties *)

\* Whatever sizes the directives have and wherever the space ends, a string
\* holds exactly the texts of its successful calls, one after the other, and
\* has room for the final NUL, which only a failed call may have overwritten;
\* output that was cut is the beginning of the whole output.  A line of the
\* log fits its buffer, ends with its only line feed and is the beginning of
\* the head and the message.  A destroyed string has given back its memory.
OutputKept ==
  /\ astr.inited => /\ SubSeq(astr.data, 1, astr.len) = written
                    /\ astr.len < astr.size /\ Len(astr.data) <= astr.size
                    /\ written # <<>> => astr.ended \/ astr.error
                    /\ printing # <<>> => IsPrefix(astr.data, written \o Whole(printing))
                                          \/ astr.error
  /\ ~astr.inited => astr.blocks = 0
  /\ logged.line # <<>> =>
       LET n == Len(logged.line) IN
       /\ n <= LogSize /\ logged.line[n] = Feed
       /\ IsPrefix(SubSeq(logged.line, 1, n - 1), Whole(LogHead) \o Whole(logged.msg))
       /\ n < LogSize => n - 1 = Len(Whole(LogHead \o logged.msg))
=============================================================================

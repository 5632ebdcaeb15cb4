------------------------------ MODULE Version ------------------------------
(***************************************************************************)
(* hcore_parse_version of src/src/hcore_string.c, one step for each turn   *)
(* of its loops.  A line is a text, its length, what follows the line in   *)
(* memory being part of the text, and the numbers it stands for.           *)
(***************************************************************************)
EXTENDS Integers, Sequences

CONSTANT Lines    \* the lines that are parsed

VARIABLES
  line, p,        \* the line, and the position of the next character
  phase,          \* "prefix", "version", "digits" (the inner loop), "separator"
  vers, verPos,   \* the numbers, and which of them is read
  odd,            \* the turns of the loop were an odd number
  result          \* the numbers, once the function has returned; <<>> is an error

vars == <<line, p, phase, vers, verPos, odd, result>>
-----------------------------------------------------------------------------
Pending == <<-1>>
Failure == <<>>

DigitChars == <<"0", "1", "2", "3", "4", "5", "6", "7", "8", "9">>
IsDigit(c) == \E n \in 0 .. 9 : DigitChars[n + 1] = c
Digit(c) == CHOOSE n \in 0 .. 9 : DigitChars[n + 1] = c

Char == line.text[p]

Init ==
  /\ line \in Lines
  /\ p = 1 /\ phase = "prefix"
  /\ vers = <<0, 0, 0>> /\ verPos = 1
  /\ odd = FALSE /\ result = Pending

Running == result = Pending
\* One turn of the outer loop, while p < last.
Turn(at) ==
  /\ Running /\ phase = at /\ p <= line.len
  /\ odd' = ~odd
  /\ UNCHANGED line

PrefixPhase ==
  /\ Turn("prefix")
  /\ p' = IF Char \in {"v", "V"} THEN p + 1 ELSE p
  /\ phase' = "version"
  /\ UNCHANGED <<vers, verPos, result>>

\* All numbers are read: the loop goes on without a change.
CompleteVersion ==
  /\ Turn("version") /\ verPos > Len(vers)
  /\ UNCHANGED <<p, phase, vers, verPos, result>>

VersionPhase ==
  /\ Turn("version") /\ verPos <= Len(vers)
  /\ phase' = "digits"
  /\ UNCHANGED <<p, vers, verPos, result>>

\* The inner loop, which does not look at the length of the line.
TakeDigit ==
  LET v == vers[verPos] * 10 + Digit(Char) IN
  /\ Running /\ phase = "digits" /\ IsDigit(Char)
  /\ vers' = [vers EXCEPT ![verPos] = v]
  /\ IF v > 255 THEN result' = Failure /\ UNCHANGED p
     ELSE p' = p + 1 /\ UNCHANGED result
  /\ UNCHANGED <<line, phase, verPos, odd>>

EndOfNumber ==
  /\ Running /\ phase = "digits" /\ ~IsDigit(Char)
  /\ verPos' = verPos + 1
  /\ phase' = "separator"
  /\ UNCHANGED <<line, p, vers, odd, result>>

\* The separator is looked at and stays where it is.
SeparatorPhase ==
  /\ Turn("separator")
  /\ IF Char = "." THEN phase' = "version" /\ UNCHANGED result
     ELSE result' = Failure /\ UNCHANGED phase
  /\ UNCHANGED <<p, vers, verPos>>

\* The end of the line.
Return ==
  /\ Running /\ phase # "digits" /\ p > line.len
  /\ result' = IF vers[1] = 0 THEN Failure ELSE vers
  /\ UNCHANGED <<line, p, phase, vers, verPos, odd>>

Next ==
  \/ PrefixPhase \/ CompleteVersion \/ VersionPhase \/ TakeDigit \/ EndOfNumber
  \/ SeparatorPhase \/ Return

\* The function runs without waiting for anything.
Spec == Init /\ [][Next]_vars /\ WF_vars(Next)
-----------------------------------------------------------------------------
\* hcore_string.h:84: hcore_parse_version turns a line such as "v1.0.0" or
\* "1.0.0" into its numbers.
VersionParsed == <>(result = line.numbers)
=============================================================================

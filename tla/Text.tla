-------------------------------- MODULE Text --------------------------------
(***************************************************************************)
(* The conversions between text and numbers: src/src/hcore_string.c (sizes,*)
(* decimal and hexadecimal numbers, tokens), src/src/hcore_time.c          *)
(* (durations, calendar dates) and src/src/hcore_inet.c (addresses, ports, *)
(* masks, hardware addresses).                                             *)
(*                                                                         *)
(* A text is a sequence of characters.  Inputs are put together piece by   *)
(* piece, so that the meaning of an input is known from its pieces and can *)
(* be compared with what the parser makes of the characters.               *)
(***************************************************************************)
EXTENDS Integers, Sequences, SequencesExt, FiniteSets, FiniteSetsExt

CONSTANTS
  IntBits,     \* the bits of a positive hcore_int_t and ssize_t, 63 in the code
  Pieces,      \* for each kind of text the pieces inputs are made of
  MaxPieces,   \* bound: pieces of an input, for each kind
  Years, Seconds    \* the years, and the seconds of a day, that are converted

ASSUME TextAssumption ==
  /\ IntBits \in Nat \ {0}
  /\ DOMAIN Pieces = DOMAIN MaxPieces

VARIABLE input   \* the kind of the text and its pieces

textVars == <<input>>
-----------------------------------------------------------------------------
MaxInt == 2 ^ IntBits - 1
Error == -1

DigitChars == <<"0", "1", "2", "3", "4", "5", "6", "7", "8", "9">>
LowerHex == DigitChars \o <<"a", "b", "c", "d", "e", "f">>
UpperHex == DigitChars \o <<"A", "B", "C", "D", "E", "F">>
Place(c, chars) == (CHOOSE i \in DOMAIN chars : chars[i] = c) - 1

Digit == [c \in ToSet(DigitChars) |-> Place(c, DigitChars)]
HexDigit == [c \in ToSet(LowerHex) \union ToSet(UpperHex) |->
               Place(c, IF c \in ToSet(LowerHex) THEN LowerHex ELSE UpperHex)]

Line == FlattenSeq(input.pieces)

\* hcore_strlchr: the first position of c in s, or 0
FirstOf(s, c) ==
  LET at == {i \in DOMAIN s : s[i] = c} IN IF at = {} THEN 0 ELSE Min(at)
-----------------------------------------------------------------------------
(* Numbers *)

\* Mutant: only a value above the cutoff is refused.
TakeDigitLate(value, d) ==
  IF value > MaxInt \div 10 THEN Error ELSE value * 10 + d

\* One more digit, with the cutoff and the cutlim of hcore_atoi.
TakeDigit(value, d) ==
  IF value >= MaxInt \div 10 /\ (value > MaxInt \div 10 \/ d > MaxInt % 10)
  THEN Error ELSE value * 10 + d

\* hcore_atoi and hcore_atosz
Atoi(s) ==
  IF s = <<>> THEN Error
  ELSE FoldLeft(LAMBDA v, c : IF v = Error \/ c \notin DOMAIN Digit THEN Error
                              ELSE TakeDigit(v, Digit[c]), 0, s)

\* hcore_hextoi
Hextoi(s) ==
  IF s = <<>> THEN Error
  ELSE FoldLeft(LAMBDA v, c : IF v = Error \/ v > MaxInt \div 16 \/ c \notin DOMAIN HexDigit
                              THEN Error ELSE v * 16 + HexDigit[c], 0, s)

SizeScale(c) ==
  CASE c \in {"K", "k"} -> 1024 [] c \in {"M", "m"} -> 1024 * 1024
    [] c \in {"G", "g"} -> 1024 * 1024 * 1024 [] OTHER -> 1

\* hcore_parse_size
ParseSize(s) ==
  IF s = <<>> THEN Error
  ELSE LET scale == SizeScale(Last(s))
           size == Atoi(IF scale = 1 THEN s ELSE Front(s))
       IN IF size = Error \/ size > MaxInt \div scale THEN Error ELSE size * scale
-----------------------------------------------------------------------------
(* Durations *)

\* The steps of hcore_parse_time in their order, and the seconds of each.
Step == [start |-> 0, y |-> 1, M |-> 2, w |-> 3, d |-> 4, h |-> 5, m |-> 6, s |-> 7,
         ms |-> 8, last |-> 9]
UnitSeconds == [y |-> 31536000, M |-> 2592000, w |-> 604800, d |-> 86400, h |-> 3600,
                m |-> 60, s |-> 1, ms |-> 1, last |-> 1]

\* The unit at position i of s: its name and length, "none" for no unit.
UnitAt(s, i) ==
  CASE s[i] = "m" /\ i < Len(s) /\ s[i + 1] = "s" -> <<"ms", 2>>
    [] s[i] = " " -> <<"last", 1>>
    [] s[i] \notin {"y", "M", "w", "d", "h", "m", "s", " "} -> <<"none", 1>>
    [] OTHER -> <<s[i], 1>>

\* The unit is allowed after the step reached so far.
UnitFollows(step, unit, isSec) ==
  CASE unit = "none" -> FALSE
    [] unit = "ms" -> ~isSec /\ step < Step["ms"]
    [] unit = "last" -> step < Step["s"]
    [] unit = "y" -> step = Step["start"]
    [] OTHER -> step < Step[unit]

\* One turn of the loop at position at, with the spaces behind a unit.
TimeTurn(s, t, isSec) ==
  LET c == s[t.at]
      unit == UnitAt(s, t.at)
      thousand == IF isSec \/ unit[1] = "ms" THEN 1 ELSE 1000
      scale == UnitSeconds[unit[1]] * thousand
      max == (MaxInt \div UnitSeconds[unit[1]]) \div thousand
      rest == {i \in t.at + unit[2] .. Len(s) : s[i] # " "}
  IN
  IF c \in DOMAIN Digit
  THEN LET v == TakeDigit(t.value, Digit[c]) IN
       IF v = Error THEN [t EXCEPT !.bad = TRUE]
       ELSE [t EXCEPT !.value = v, !.at = @ + 1, !.valid = TRUE]
  ELSE IF \/ ~UnitFollows(t.step, unit[1], isSec)
          \/ t.value > max
          \/ t.total > MaxInt - t.value * scale
  THEN [t EXCEPT !.bad = TRUE]
  ELSE [t EXCEPT !.total = @ + t.value * scale, !.value = 0, !.step = Step[unit[1]],
                 !.at = IF rest = {} THEN Len(s) + 1 ELSE Min(rest)]

RECURSIVE TimeLoop(_, _, _)
TimeLoop(s, t, isSec) ==
  IF t.bad \/ t.at > Len(s) THEN t ELSE TimeLoop(s, TimeTurn(s, t, isSec), isSec)

\* hcore_parse_time
ParseTime(s, isSec) ==
  LET t == TimeLoop(s, [at |-> 1, value |-> 0, total |-> 0, valid |-> FALSE, bad |-> FALSE,
                        step |-> IF isSec THEN Step["start"] ELSE Step["M"]], isSec)
      thousand == IF isSec THEN 1 ELSE 1000
  IN IF \/ t.bad \/ ~t.valid
        \/ t.value > MaxInt \div thousand
        \/ t.total > MaxInt - t.value * thousand
     THEN Error ELSE t.total + t.value * thousand
-----------------------------------------------------------------------------
(* Calendar *)

\* The last day hcore_gmtime knows, December 31, 9999.
LastDay == 2932896

\* The date of a number of days since 1970 by the formula of hcore_gmtime.
GmDate(days) ==
  LET d == days - (31 + 28) + 719527
      y0 == ((d + 2) * 400) \div (365 * 400 + 100 - 4 + 1)
      yday0 == d - (365 * y0 + y0 \div 4 - y0 \div 100 + y0 \div 400)
      leap == IF y0 % 4 = 0 /\ (y0 % 100 # 0 \/ y0 % 400 = 0) THEN 1 ELSE 0
      y == IF yday0 < 0 THEN y0 - 1 ELSE y0
      yday == IF yday0 < 0 THEN 365 + leap + yday0 ELSE yday0
      mon == ((yday + 31) * 10) \div 306
      mday == yday - ((367 * mon) \div 12 - 30) + 1
  IN IF yday >= 306 THEN <<y + 1, mon - 10, mday>> ELSE <<y, mon + 2, mday>>

\* hcore_gmtime of a time given as days and seconds of the day.
Gmtime(days, sec) ==
  LET day == IF days > LastDay THEN LastDay ELSE days
      s == IF days > LastDay THEN 86399 ELSE sec
  IN [date |-> GmDate(day), wday |-> (4 + day) % 7,
      time |-> <<s \div 3600, (s % 3600) \div 60, (s % 3600) % 60>>]
-----------------------------------------------------------------------------
(* Addresses: four octets; INADDR_NONE is the address 255.255.255.255.      *)

NoAddress == <<255, 255, 255, 255>>

\* hcore_inet_addr: an octet without digits is 0.
InetAddr(s) ==
  LET Take(a, c) ==
        CASE a.bad -> a
          [] ~a.bad /\ c \in DOMAIN Digit ->
               [a EXCEPT !.octet = @ * 10 + Digit[c], !.bad = a.octet * 10 + Digit[c] > 255]
          [] ~a.bad /\ c = "." -> [a EXCEPT !.addr = Append(@, a.octet), !.octet = 0]
          [] OTHER -> [a EXCEPT !.bad = TRUE]
      a == FoldLeft(Take, [addr |-> <<>>, octet |-> 0, bad |-> FALSE], s)
  IN IF a.bad \/ Len(a.addr) # 3 THEN NoAddress ELSE Append(a.addr, a.octet)

IsPort(n) == 1 <= n /\ n <= 65535

\* hcore_parse_port_range
ParsePortRange(s) ==
  LET dash == FirstOf(s, "-")
      ep == Atoi(SubSeq(s, dash + 1, Len(s)))
      bp == Atoi(IF dash = 0 THEN s ELSE SubSeq(s, 1, dash - 1))
  IN IF dash = 0 THEN (IF IsPort(bp) THEN <<bp, bp>> ELSE <<>>)
     ELSE IF IsPort(ep) /\ IsPort(bp) /\ bp <= ep THEN <<bp, ep>> ELSE <<>>

\* hcore_check_mask: the loop over the bits of a byte runs from bit 7 while
\* the bit is 0, that is never.
CheckMask(bytes) == TRUE

Broadcast == <<"2","5","5",".","2","5","5",".","2","5","5",".","2","5","5">>

\* hcore_parse_ip_and_mask
ParseIpAndMask(s) ==
  LET slash == FirstOf(s, "/")
      ip == SubSeq(s, 1, slash - 1)
      mask == SubSeq(s, slash + 1, Len(s))
  IN IF \/ slash = 0 \/ Len(ip) > Len(Broadcast) \/ Len(mask) > Len(Broadcast)
        \/ InetAddr(ip) = NoAddress
        \/ mask # Broadcast /\ (InetAddr(mask) = NoAddress \/ ~CheckMask(InetAddr(mask)))
     THEN <<>> ELSE <<InetAddr(ip), InetAddr(mask)>>

UnixPrefix == <<"u", "n", "i", "x", ":">>
AnyAddress == <<0, 0, 0, 0>>

\* hcore_parse_url for a socket to listen on or to connect to: <<>> when it
\* is refused.  hcore_parse_unix_sock refuses everything.
ParseUrl(s, listen) ==
  LET colon == FirstOf(s, ":")
      port == Atoi(SubSeq(s, colon + 1, Len(s)))
      host == SubSeq(s, 1, colon - 1)
  IN
  IF \/ s = <<>> \/ (Len(s) > Len(UnixPrefix) /\ IsPrefix(UnixPrefix, s))
     \/ ~IsPort(port)
     \/ colon = 0 /\ ~listen
     \/ colon # 0 /\ host = <<>>
     \/ host = <<"*">> /\ ~listen
     \/ colon # 0 /\ host # <<"*">> /\ InetAddr(host) = NoAddress
  THEN <<>>
  ELSE IF colon = 0 \/ host = <<"*">> THEN <<AnyAddress, port>> ELSE <<InetAddr(host), port>>

\* hcore_parse_mac: pairs of hexadecimal digits with one separator between
\* two.  hcore_hextoi is always given two characters: behind an odd last one it
\* reads the NUL that ends the text.
RECURSIVE MacFrom(_, _, _)
MacFrom(s, mac, sep) ==
  IF s = <<>> THEN (IF Len(mac) = 6 THEN mac ELSE <<>>)
  ELSE IF Len(mac) = 6 THEN <<>>
  ELSE IF sep THEN (IF Head(s) \in {":", "-"} THEN MacFrom(Tail(s), mac, FALSE) ELSE <<>>)
  ELSE IF Len(s) = 1 \/ Hextoi(SubSeq(s, 1, 2)) = Error THEN <<>>
  ELSE MacFrom(SubSeq(s, 3, Len(s)), Append(mac, Hextoi(SubSeq(s, 1, 2))), TRUE)

ParseMac(s) == MacFrom(s, <<>>, FALSE)

MacLen == 17

\* hcore_parse_mac_and_mask
ParseMacAndMask(s) ==
  LET slash == FirstOf(s, "/")
      mac == SubSeq(s, 1, slash - 1)
      mask == SubSeq(s, slash + 1, Len(s))
  IN IF \/ slash = 0 \/ Len(mac) # MacLen \/ Len(mask) # MacLen
        \/ ParseMac(mac) = <<>> \/ ParseMac(mask) = <<>> \/ ~CheckMask(ParseMac(mask))
     THEN <<>> ELSE <<ParseMac(mac), ParseMac(mask)>>
-----------------------------------------------------------------------------
(* Tokens *)

Delimiters == {" ", ","}

\* Mutant: a separator does not end a token that is under way.
StrtokRunOn(s) ==
  FoldLeft(LAMBDA t, i :
             IF s[i] \in Delimiters THEN t
             ELSE IF t.start THEN [t EXCEPT !.found[Len(t.found)] = Append(@, i)]
             ELSE [start |-> TRUE, found |-> Append(t.found, <<i>>)],
           [start |-> FALSE, found |-> <<>>], [i \in DOMAIN s |-> i]).found

\* hcore_strtok: the positions of each token.
Strtok(s) ==
  FoldLeft(LAMBDA t, i :
             IF s[i] \in Delimiters THEN [t EXCEPT !.start = FALSE]
             ELSE IF t.start THEN [t EXCEPT !.found[Len(t.found)] = Append(@, i)]
             ELSE [start |-> TRUE, found |-> Append(t.found, <<i>>)],
           [start |-> FALSE, found |-> <<>>], [i \in DOMAIN s |-> i]).found
-----------------------------------------------------------------------------
(* Inputs *)

MonthDays(y, m) ==
  CASE m \in {4, 6, 9, 11} -> 30
    [] m = 2 -> IF y % 4 = 0 /\ (y % 100 # 0 \/ y % 400 = 0) THEN 29 ELSE 28
    [] OTHER -> 31

TextInit ==
  \/ input \in {[kind |-> k, pieces |-> <<>>] : k \in DOMAIN Pieces}
  \/ \E y \in Years, m \in 1 .. 12, s \in Seconds : \E d \in 1 .. MonthDays(y, m) :
       input = [kind |-> "date", pieces |-> <<<<y, m, d>>, s>>]

AddPiece ==
  /\ input.kind \in DOMAIN Pieces
  /\ Len(input.pieces) < MaxPieces[input.kind]
  /\ \E p \in Pieces[input.kind] : input' = [input EXCEPT !.pieces = Append(@, p)]

TextNext == AddPiece
-----------------------------------------------------------------------------
(* Properties *)

\* Exact values; what is larger than MaxInt is all the same.
Beyond == MaxInt + 1
Times(a, b) == IF a > MaxInt \div b THEN Beyond ELSE a * b
Plus(a, b) == IF a + b > MaxInt THEN Beyond ELSE a + b
OrError(v) == IF v > MaxInt THEN Error ELSE v

AllIn(s, alphabet) == s # <<>> /\ ToSet(s) \subseteq alphabet
ValueIn(s, base, digit) == FoldLeft(LAMBDA v, c : Plus(Times(v, base), digit[c]), 0, s)
Decimal(s) == ValueIn(s, 10, Digit)
IsNumber(s) == AllIn(s, DOMAIN Digit)

\* A size: digits, then at most one unit.
SizeMeans(s) ==
  LET scale == IF s = <<>> THEN 1 ELSE SizeScale(Last(s))
      digits == IF scale = 1 THEN s ELSE Front(s)
  IN IF IsNumber(digits) THEN OrError(Times(Decimal(digits), scale)) ELSE Error

\* The terms of a duration: numbers alternate with units, in decreasing order,
\* and a number at the end counts seconds.
UnitRank(u) == Step[IF u = <<"m", "s">> THEN "ms" ELSE u[1]]
IsUnit(p) == p = <<"m", "s">> \/ (Len(p) = 1 /\ p[1] \in DOMAIN Step)
Duration(ps, isSec) ==
  /\ ps # <<>>
  /\ \A i \in DOMAIN ps : IF i % 2 = 1 THEN IsNumber(ps[i]) ELSE IsUnit(ps[i])
  /\ \A i, j \in DOMAIN ps : i < j /\ i % 2 = 0 /\ j % 2 = 0 => UnitRank(ps[i]) < UnitRank(ps[j])
  /\ \A i \in DOMAIN ps : i % 2 = 0 =>
       IF isSec THEN ps[i] # <<"m", "s">> ELSE UnitRank(ps[i]) > Step["M"]
TermValue(ps, i, isSec) ==
  LET unit == IF i = Len(ps) THEN "s" ELSE IF Len(ps[i + 1]) = 2 THEN "ms" ELSE ps[i + 1][1]
  IN Times(Times(Decimal(ps[i]), UnitSeconds[unit]), IF isSec \/ unit = "ms" THEN 1 ELSE 1000)
DurationMeans(ps, isSec) ==
  OrError(FoldLeft(LAMBDA v, i : IF i % 2 = 0 THEN v ELSE Plus(v, TermValue(ps, i, isSec)),
                   0, [i \in DOMAIN ps |-> i]))

\* The days from 1970 to a date, counted year by year and month by month.
DaysTo(y, m, d) ==
  LET leaps(n) == n \div 4 - n \div 100 + n \div 400
  IN 365 * (y - 1970) + leaps(y - 1) - leaps(1969)
     + MapThenSumSet(LAMBDA k : MonthDays(y, k), 1 .. (m - 1)) + d - 1

\* A number, size or duration is converted to its exact value or, when that
\* does not fit or the text is malformed, to an error: no wraparound at any
\* limit, whatever the units; a malformed duration never yields a value out
\* of range.  hcore_gmtime inverts the calendar, leap days and the end of a
\* century included.
ConversionsExact ==
  /\ input.kind = "size" =>
       /\ ParseSize(Line) = SizeMeans(Line)
       /\ Atoi(Line) = IF IsNumber(Line) THEN OrError(Decimal(Line)) ELSE Error
  /\ input.kind = "hex" =>
       Hextoi(Line) = IF AllIn(Line, DOMAIN HexDigit)
                      THEN OrError(ValueIn(Line, 16, HexDigit)) ELSE Error
  /\ input.kind = "time" => \A isSec \in BOOLEAN :
       IF Duration(input.pieces, isSec)
       THEN ParseTime(Line, isSec) = DurationMeans(input.pieces, isSec)
       ELSE ParseTime(Line, isSec) \in Error .. MaxInt
  /\ input.kind = "date" =>
       LET date == input.pieces[1]
           sec == input.pieces[2]
           days == DaysTo(date[1], date[2], date[3])
           gmt == Gmtime(days, sec)
       IN days <= LastDay => /\ gmt.date = date
                             /\ gmt.time[1] * 3600 + gmt.time[2] * 60 + gmt.time[3] = sec
                             /\ gmt.time[1] < 24 /\ gmt.time[2] < 60 /\ gmt.time[3] < 60

\* The fields of a text between separators.
Fields(s, seps) ==
  FoldLeft(LAMBDA f, c : IF c \in seps THEN Append(f, <<>>)
                         ELSE [f EXCEPT ![Len(f)] = Append(@, c)], <<<<>>>>, s)

\* Four fields of digits up to 255; a field without digits counts as 0.
Address(s) ==
  LET f == Fields(s, {"."}) IN
  IF Len(f) = 4 /\ \A i \in 1 .. 4 : f[i] = <<>> \/ (IsNumber(f[i]) /\ Decimal(f[i]) <= 255)
  THEN [i \in 1 .. 4 |-> Decimal(f[i])] ELSE NoAddress

Port(s) == IsNumber(s) /\ Decimal(s) \in 1 .. 65535

\* What hcore_inet.c accepts is what the text says, field by field, and
\* nothing else is accepted: addresses, ranges of ports, sockets to listen on
\* or connect to, and hardware addresses; a token of hcore_strtok is a longest
\* run without a delimiter, and no run is left out or split.
NetworkTextExact ==
  /\ input.kind = "address" => InetAddr(Line) = Address(Line)
  /\ input.kind = "ports" =>
       LET f == Fields(Line, {"-"}) IN
       ParsePortRange(Line) =
         IF Len(f) <= 2 /\ (\A i \in DOMAIN f : Port(f[i])) /\ Decimal(f[1]) <= Decimal(Last(f))
         THEN <<Decimal(f[1]), Decimal(Last(f))>> ELSE <<>>
  /\ input.kind = "url" => \A listen \in BOOLEAN :
       LET f == Fields(Line, {":"})
           any == Len(f) = 1 \/ f[1] = <<"*">>
       IN ParseUrl(Line, listen) =
            IF Len(f) <= 2 /\ Port(Last(f)) /\ (any => listen)
               /\ (any \/ (f[1] # <<>> /\ Address(f[1]) # NoAddress))
            THEN <<IF any THEN AnyAddress ELSE Address(f[1]), Decimal(Last(f))>> ELSE <<>>
  /\ input.kind = "mac" =>
       LET f == Fields(Line, {":", "-"}) IN
       ParseMac(Line) =
         IF Len(f) = 6 /\ \A i \in 1 .. 6 : Len(f[i]) = 2 /\ AllIn(f[i], DOMAIN HexDigit)
         THEN [i \in 1 .. 6 |-> ValueIn(f[i], 16, HexDigit)] ELSE <<>>
  /\ input.kind \in {"masked", "macmask"} =>
       LET f == Fields(Line, {"/"})
           got == IF input.kind = "masked" THEN ParseIpAndMask(Line) ELSE ParseMacAndMask(Line)
       IN got # <<>> => /\ Len(f) = 2
                        /\ got = IF input.kind = "masked" THEN <<Address(f[1]), Address(f[2])>>
                                 ELSE <<ParseMac(f[1]), ParseMac(f[2])>>
  /\ input.kind = "tokens" =>
       Strtok(Line) =
         LET starts == {i \in DOMAIN Line : Line[i] \notin Delimiters
                                            /\ (i = 1 \/ Line[i - 1] \in Delimiters)}
             StopAfter(i) == Min({j \in i .. Len(Line) : j = Len(Line) \/ Line[j + 1] \in Delimiters})
             order == SetToSortSeq(starts, <)
         IN [k \in DOMAIN order |-> [j \in 1 .. (StopAfter(order[k]) - order[k] + 1) |-> order[k] + j - 1]]
=============================================================================

----------------------------- MODULE StringFormat -----------------------------
(***************************************************************************)
(* string_format_va_buf of string/string.c, without floating point: what   *)
(* it makes of a format and its arguments in a buffer of some capacity,    *)
(* and the numbers that the parsers of string.c find in that.  A format is *)
(* a sequence of texts and directives, a text a sequence of characters.    *)
(***************************************************************************)
EXTENDS Integers, Sequences, SequencesExt

CONSTANTS Calls,   \* the formats, arguments and capacities clients use
          Bits,    \* of the integers of each length a directive can name
          Part,    \* what u64_to_dec takes at a time: a power of ten
          PartDigits

VARIABLES call, out, read
vars == <<call, out, read>>

Modulus  == 2 ^ Bits["l"]
Repeat(c, n) == [i \in 1 .. n |-> c]

\* All the ways to append: of a text as much as there is room for, and one place
\* for the end is never given away.
append_block(o, s) ==
  LET w == IF Len(s) <= o.rem - 1 THEN Len(s) ELSE o.rem - 1
  IN  [text |-> o.text \o SubSeq(s, 1, w), rem |-> o.rem - w,
       truncated |-> o.truncated \/ w < Len(s)]

\* Digits, the low ones last.
Small == <<"0", "1", "2", "3", "4", "5", "6", "7", "8", "9", "a", "b", "c", "d", "e", "f">>
Large == <<"0", "1", "2", "3", "4", "5", "6", "7", "8", "9", "A", "B", "C", "D", "E", "F">>

RECURSIVE u64_to_base(_, _, _)
u64_to_base(v, base, set) ==
  (IF v < base THEN <<>> ELSE u64_to_base(v \div base, base, set)) \o <<set[(v % base) + 1]>>

Filled(v, n) == LET s == u64_to_base(v, 10, Small) IN Repeat("0", n - Len(s)) \o s

\* By parts, of which all but the first have all their digits.
RECURSIVE u64_to_decUnfilled(_)
u64_to_decUnfilled(v) ==
  IF v < Part THEN u64_to_base(v, 10, Small)
  ELSE u64_to_decUnfilled(v \div Part) \o u64_to_base(v % Part, 10, Small)

RECURSIVE u64_to_dec(_)
u64_to_dec(v) ==
  IF v < Part THEN u64_to_base(v, 10, Small) ELSE u64_to_dec(v \div Part) \o Filled(v % Part, PartDigits)

-----------------------------------------------------------------------------
\* What a directive has a star for comes from the arguments, the precision ahead
\* of the width.  A negative width asks for the other side, a negative precision
\* for none.
Width(d)     == IF "width" \in d.starred THEN Last(d.stars) ELSE d.width
Precision(d) == IF "precision" \in d.starred THEN Head(d.stars) ELSE d.precision
Directive(d) ==
  [d EXCEPT !.flags = IF Width(d) < 0 THEN @ \cup {"-"} ELSE @,
            !.width = IF Width(d) < 0 THEN -Width(d) ELSE Width(d),
            !.precision = IF Precision(d) < 0 THEN -1 ELSE Precision(d),
            !.starred = {}]

Spaces(n) == Repeat(" ", n)

emit_padded(o, s, d) ==
  LET pad == Spaces(d.width - Len(s))
  IN  IF "-" \in d.flags THEN append_block(append_block(o, s), pad)
      ELSE append_block(append_block(o, pad), s)

IsSigned(d) == d.spec \in {"d", "i"}

\* The argument as an integer of the length the directive names; an unsigned one
\* without a length is read at full length.
Unsigned(d) == d.arg % 2 ^ Bits[IF d.length = "" THEN "l" ELSE d.length]
Signed(d) ==
  LET m == 2 ^ Bits[IF d.length = "" THEN "int" ELSE d.length]
      v == d.arg % m
  IN  IF v >= m \div 2 THEN v - m ELSE v
Value(d) == IF IsSigned(d) THEN Signed(d) ELSE Unsigned(d)

Digits(d) ==
  LET v == Value(d)
      s == CASE d.spec = "b" -> u64_to_base(v, 2, Small)
             [] d.spec = "o" -> u64_to_base(v, 8, Small)
             [] d.spec = "x" -> u64_to_base(v, 16, Small)
             [] d.spec = "X" -> u64_to_base(v, 16, Large)
             [] OTHER -> u64_to_dec(IF v < 0 THEN -v ELSE v)
  IN  IF d.precision = 0 /\ s = <<"0">> THEN <<>> ELSE s

Sign(d) ==
  CASE ~IsSigned(d) -> <<>>
    [] Value(d) < 0 -> <<"-">>
    [] "+" \in d.flags -> <<"+">>
    [] " " \in d.flags -> <<" ">>
    [] OTHER -> <<>>

ZeroPrecision(d) == IF d.precision > Len(Digits(d)) THEN d.precision - Len(Digits(d)) ELSE 0

\* The # takes a prefix away, but from octal numbers.
Prefix(d) ==
  LET s == Digits(d)
  IN  CASE d.spec = "b" /\ "#" \notin d.flags /\ s # <<>> -> <<"0", "b">>
        [] d.spec \in {"x", "X"} /\ "#" \notin d.flags /\ s \notin {<<>>, <<"0">>} -> <<"0", d.spec>>
        [] /\ d.spec = "o" /\ "#" \in d.flags
           /\ (s = <<>> \/ (ZeroPrecision(d) = 0 /\ Head(s) # "0")) -> <<"0">>
        [] OTHER -> <<>>

\* With a minus the spaces go to both sides.
PadZero(d) == "-" \notin d.flags /\ "0" \in d.flags /\ d.precision = -1
Laid(lead, body, room, d) ==
  IF PadZero(d) THEN lead \o Repeat("0", room) \o body
  ELSE Spaces(room) \o lead \o body \o (IF "-" \in d.flags THEN Spaces(room) ELSE <<>>)
Padded(lead, body, d) == Laid(lead, body, d.width - Len(lead) - Len(body), d)
Integer(o, d) ==
  append_block(o, Padded(Sign(d) \o Prefix(d), Repeat("0", ZeroPrecision(d)) \o Digits(d), d))

Cut(s, d) == IF d.precision = -1 THEN s ELSE SubSeq(s, 1, d.precision)

Put(o, d) ==
  CASE d.spec = "text" -> append_block(o, d.arg)
    [] d.spec = "%" -> emit_padded(o, <<"%">>, d)
    [] d.spec = "c" -> emit_padded(o, <<d.arg>>, d)
    [] d.spec = "s" -> emit_padded(o, Cut(d.arg, d), d)
    [] d.spec = "?" -> append_block(o, <<"%", "?">>)
    [] d.spec = "unfinished" -> append_block(o, <<"%">>)   \* the format ends in it
    [] OTHER -> Integer(o, d)

\* What is written last gives way to the marker; a text that was cut between two
\* directives has none.
TRUNC_MARKER == <<"[", ".", ".", ".", "]">>
Marked(s) ==
  LET w == IF Len(s) < 5 THEN Len(s) ELSE 5
  IN  SubSeq(s, 1, Len(s) - w) \o SubSeq(TRUNC_MARKER, 6 - w, 5)

Fresh(cap) == [text |-> <<>>, rem |-> IF cap = 0 THEN 1 ELSE cap, truncated |-> FALSE]
Ended(o)   == IF o.truncated THEN [o EXCEPT !.text = Marked(@)] ELSE o
string_format_va_buf(fmt, cap) ==
  Ended(FoldLeft(LAMBDA o, d : IF o.rem > 1 THEN Put(o, Directive(d)) ELSE o, Fresh(cap), fmt))

\* A number by itself, all its digits but the zeros ahead.
string_from_hex(v) == <<"0", "x">> \o u64_to_base(v, 16, Large)
string_from_bin(v) == <<"0", "b">> \o u64_to_base(v, 2, Small)

-----------------------------------------------------------------------------
\* The number a text begins with: the parsers stop at the first character that is
\* no digit.
DigitOf(c) ==
  LET i == SelectInSeq(Small, LAMBDA x : x = c)
  IN  IF i # 0 THEN i - 1 ELSE SelectInSeq(Large, LAMBDA x : x = c) - 1
Leading(s, base) ==
  LET end == SelectInSeq(s, LAMBDA c : DigitOf(c) \notin 0 .. base - 1)
  IN  IF end = 0 THEN s ELSE SubSeq(s, 1, end - 1)
Number(s, base) == FoldLeft(LAMBDA v, c : (v * base + DigitOf(c)) % Modulus, 0, Leading(s, base))

Beginning(s, i) == IF i <= Len(s) THEN {s[i]} ELSE {}

parse_int64(s) ==
  IF Beginning(s, 1) = {"-"} THEN -Number(Tail(s), 10) ELSE Number(s, 10)
parse_int_u64(s) == Number(s, 10)

\* What is ahead of an x in the second place does not count, nor does a # in the first.
parse_hex_u64(s) ==
  CASE Beginning(s, 2) \cap {"x", "X"} # {} /\ DigitOf(s[1]) >= 0 -> Number(SubSeq(s, 3, Len(s)), 16)
    [] Beginning(s, 1) = {"#"} -> Number(Tail(s), 16)
    [] OTHER -> Number(s, 16)

\* No number when the text does not begin with one or it is larger than a word.
Nothing == -1
parse_uint32_dec(s) ==
  LET v == parse_int_u64(s)
  IN  IF s = <<>> \/ (v = 0 /\ Head(s) # "0") \/ v >= 2 ^ Bits["int"] THEN Nothing ELSE v

-----------------------------------------------------------------------------
\* A call makes its text, and whoever gets the text looks for the number in it.
Unmade == [text |-> <<>>, rem |-> 0, truncated |-> FALSE]
Init == call \in Calls /\ out = Unmade /\ read = <<>>

Format ==
  /\ out = Unmade /\ read = <<>>
  /\ out' = CASE call.maker = "format" -> string_format_va_buf(call.fmt, call.cap)
              [] call.maker = "hex" -> [Unmade EXCEPT !.text = string_from_hex(call.fmt)]
              [] call.maker = "bin" -> [Unmade EXCEPT !.text = string_from_bin(call.fmt)]
  /\ UNCHANGED <<call, read>>

Read ==
  /\ out # Unmade /\ read = <<>>
  /\ read' = [int64 |-> parse_int64(out.text), u64 |-> parse_int_u64(out.text),
              hex |-> parse_hex_u64(out.text), uint32 |-> parse_uint32_dec(out.text)]
  /\ UNCHANGED <<call, out>>

Next == Format \/ Read
Spec == Init /\ [][Next]_vars

-----------------------------------------------------------------------------
Whole(fmt) == string_format_va_buf(fmt, 1000).text
Formatted == call.maker = "format" /\ out # Unmade

\* What the buffer has no room for is what is missing, and nothing else: the text
\* is all of it, or it fills the buffer to the place of its end, and but for the
\* marker it is the beginning of all of it.
CutToFit ==
  Formatted => \E whole \in {Whole(call.fmt)} :
    \/ out.text = whole /\ ~out.truncated
    \/ /\ Len(out.text) = (IF call.cap = 0 THEN 0 ELSE call.cap - 1)
       /\ Len(whole) >= Len(out.text)
       /\ LET kept == Len(out.text) - (IF out.truncated THEN 5 ELSE 0)
          IN  SubSeq(out.text, 1, kept) = SubSeq(whole, 1, kept)

\* What one directive makes fills its width, and without a minus no more than that.
WideEnough ==
  (Formatted /\ Len(call.fmt) = 1 /\ ~out.truncated /\ Head(call.fmt).spec \notin {"text", "?", "unfinished"} /\ call.cap > 1) =>
    \E d \in {Directive(Head(call.fmt))} : \E bare \in {Len(Whole(<<[d EXCEPT !.width = 0]>>))} :
      LET full == IF bare < d.width THEN d.width ELSE bare
      IN  IF "-" \in d.flags THEN Len(out.text) >= full ELSE Len(out.text) = full

\* A number that was written, in a buffer that is large enough and with nothing
\* ahead of its digits but a minus, is read back as the same number, by the parser
\* of its base.
NumberReadBack ==
  /\ (read # <<>> /\ call.maker = "hex") => read.hex = call.fmt
  /\ (read # <<>> /\ Formatted /\ Len(call.fmt) = 1 /\ ~out.truncated /\ call.cap > 1
        /\ Beginning(out.text, 1) \subseteq ToSet(Large) \cup {"-"} \cup ToSet(Small)) =>
       LET d == Directive(Head(call.fmt))
       IN  CASE IsSigned(d) -> read.int64 = Value(d)
             [] d.spec = "u" -> /\ read.u64 = Value(d)
                                /\ read.uint32 = (IF out.text # <<>> /\ Value(d) < 2 ^ Bits["int"] THEN Value(d) ELSE Nothing)
             [] d.spec \in {"x", "X"} -> read.hex = Value(d)
             [] OTHER -> TRUE
=============================================================================

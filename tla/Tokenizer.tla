------------------------------- MODULE Tokenizer -------------------------------
(***************************************************************************)
(* data/format/scanner and data/format/tokenizer: which token a text goes  *)
(* on with.  Places in a text begin with 1.  No client has a rule of its   *)
(* own for identifiers, or asks for constants in place of numbers.         *)
(* data/format/helpers: the tokens as a stream, one of which may have been *)
(* looked at ahead of time.                                                *)
(***************************************************************************)
EXTENDS Integers, Sequences, FiniteSetsExt

At(t, p)        == IF p \in 1 .. Len(t) THEN SubSeq(t, p, p) ELSE ""
Starts(t, p, w) == p + Len(w) - 1 <= Len(t) /\ SubSeq(t, p, p + Len(w) - 1) = w
\* The first place from p on that is not one of the characters of S.
Past(t, p, S)   == Min({q \in p .. Len(t) + 1 : At(t, q) \notin S})

Among(w) == {At(w, i) : i \in 1 .. Len(w)}
Digit  == Among("0123456789")
Hex    == Digit \cup Among("abcdefABCDEF")
Letter == Among("abcdefghijklmnopqrstuvwxyzABCDEFGHIJKLMNOPQRSTUVWXYZ")
Delims == Among("(){}[],:;.")

-----------------------------------------------------------------------------
\* how: which comments there are, and whether newlines are tokens.
Blank(how) == {" ", "\t", "\r"} \cup (IF how.newlines THEN {} ELSE {"\n"})

LineComment    == [slash |-> "//", hash |-> "#", semi |-> ";"]
NextLine(t, p) == Min({q \in p .. Len(t) : At(t, q) \in {"\n", "\r"}} \cup {Len(t)}) + 1
Closings(t, p) == {q \in p .. Len(t) : Starts(t, q, "*/")}

\* skip_ws_and_comments: where the next token is, 0 if a comment does not end.
RECURSIVE Skipped(_, _, _)
Skipped(t, how, p) ==
  LET q == Past(t, p, Blank(how)) IN
  CASE how.comments # "none" /\ Starts(t, q, LineComment[how.comments]) ->
         Skipped(t, how, NextLine(t, q + Len(LineComment[how.comments])))
    [] how.comments = "slash" /\ Starts(t, q, "/*") ->
         IF Closings(t, q + 2) = {} THEN 0
         ELSE Skipped(t, how, Min(Closings(t, q + 2)) + 2)
    [] OTHER -> q

-----------------------------------------------------------------------------
\* Where the token at p ends: p if there is none of that kind, 0 if it is wrong.
Radix == [x |-> Hex, X |-> Hex, b |-> {"0", "1"}, B |-> {"0", "1"},
          o |-> Among("01234567"), O |-> Among("01234567")]

\* The digits, the point, the digits behind it and an f.
Mantissa(t, p) ==
  LET whole == Past(t, IF At(t, p) = "-" THEN p + 1 ELSE p, Digit)
      part  == IF At(t, whole) = "." THEN Past(t, whole + 1, Digit) ELSE whole
  IN  IF At(t, part) \in {"f", "F"} THEN part + 1 ELSE part

\* An exponent without digits is none.
Exponent(t, p) ==
  LET digits == IF At(t, p + 1) \in {"+", "-"} THEN p + 2 ELSE p + 1
  IN  IF At(t, p) \in {"e", "E"} /\ At(t, digits) \in Digit THEN Past(t, digits, Digit)
      ELSE p

read_number(t, p) ==
  IF At(t, p) = "0" /\ At(t, p + 1) \in DOMAIN Radix
  THEN LET e == Past(t, p + 2, Radix[At(t, p + 1)]) IN IF e = p + 2 THEN 0 ELSE e
  ELSE LET e == Exponent(t, Mantissa(t, p))
       IN  IF At(t, p) = "." /\ e = p + 1 THEN p ELSE e

\* The end of the string whose characters go on at p.
RECURSIVE read_string(_, _)
read_string(t, p) ==
  CASE At(t, p) = "\"" -> p + 1
    [] Starts(t, p, "\\u") /\ \A i \in 2 .. 5 : At(t, p + i) \in Hex -> read_string(t, p + 6)
    [] At(t, p) = "\\" /\ At(t, p + 1) \in Among("\"\\/bfnrt") -> read_string(t, p + 2)
    [] At(t, p) \notin {"", "\"", "\\"} -> read_string(t, p + 1)
    [] OTHER -> 0

ops3 == {">>>", "<<=", ">>=", "==="}
ops2 == {"==", "!=", "<=", ">=", "&&", "||", "<<", ">>", "+=", "-=", "*=", "/=", "%=",
         "&=", "|=", "^=", "::", "->"}
ops1 == Among("+-*/%=<>!&|^~?")

\* A minus before a number is the number's, unless an operator is expected.
read_operator(t, p, expected) ==
  CASE \E w \in ops3 : Starts(t, p, w) -> p + 3
    [] \E w \in ops2 : Starts(t, p, w) -> p + 2
    [] /\ At(t, p) \in ops1
       /\ expected \/ At(t, p) # "-" \/ At(t, p + 1) \notin Digit \cup {"."} -> p + 1
    [] OTHER -> p

check(kind, t, p, expected) ==
  CASE kind = "identifier" ->
         IF At(t, p) \in Letter \cup {"_"} THEN Past(t, p + 1, Letter \cup Digit \cup {"_"})
         ELSE p
    [] kind = "operator" -> read_operator(t, p, expected)
    [] kind = "number" -> IF At(t, p) \in Digit \cup {"-", "."} THEN read_number(t, p) ELSE p
    [] kind = "string" -> IF At(t, p) = "\"" THEN read_string(t, p + 1) ELSE p
    [] kind = "delim"  -> IF At(t, p) \in Delims THEN p + 1 ELSE p

tokenizer_checks == <<"identifier", "operator", "number", "string", "delim">>

-----------------------------------------------------------------------------
\* The token found from p on and where the text goes on; failed is for good.
\* A delimiter's kind is the character.
token(t, kind, p, e) == [kind |-> kind, pos |-> p, text |-> SubSeq(t, p, e - 1), next |-> e]
failed == [kind |-> "failed"]

Accepted(t, kind, q, e) ==
  IF e = 0 THEN failed ELSE token(t, IF kind = "delim" THEN At(t, q) ELSE kind, q, e)

\* The token of the first of kinds at q, where no blanks are.
First(t, kinds, q) ==
  IF kinds = <<>> THEN token(t, "symbol", q, q + 1)
  ELSE Accepted(t, Head(kinds), q, check(Head(kinds), t, q, FALSE))

TokenAt(t, q, expect) ==
  CASE q = 0 -> failed
    [] At(t, q) = "\n" -> [kind |-> "newline", pos |-> q + 1,
                           text |-> At(t, q + 1), next |-> q + 1]
    [] q > Len(t) -> token(t, "eof", q, q)
    [] OTHER ->
         IF expect # "none" /\ check(expect, t, q, TRUE) # q
         THEN Accepted(t, expect, q, check(expect, t, q, TRUE))
         ELSE First(t, SelectSeq(tokenizer_checks, LAMBDA k : check(k, t, q, FALSE) # q), q)

tokenizer_next_expecting(t, how, p, expect) == TokenAt(t, Skipped(t, how, p), expect)

-----------------------------------------------------------------------------
\* cur is Nothing unless a token was looked at.
Nothing == [kind |-> "nothing"]
ts_init(t, how) == [text |-> t, how |-> how, pos |-> 1, cur |-> Nothing]

\* A tokenizer that failed stays there, which pos 0 stands for.
Step(s, expect) ==
  IF s.pos = 0 THEN failed ELSE tokenizer_next_expecting(s.text, s.how, s.pos, expect)
Moved(s, tok) == [s EXCEPT !.pos = IF tok = failed THEN 0 ELSE tok.next]
Looked(s, tok) == [Moved(s, tok) EXCEPT !.cur = IF tok = failed THEN Nothing ELSE tok]

ts_peekAnew(s) == Looked(s, Step(s, "none"))
ts_peek(s) == IF s.cur # Nothing THEN s ELSE Looked(s, Step(s, "none"))

\* The token, and the stream after it.
After(s, tok) == [tok |-> tok, s |-> Moved(s, tok)]
ts_next_expecting(s, expect) ==
  IF s.cur # Nothing THEN [tok |-> s.cur, s |-> [s EXCEPT !.cur = Nothing]]
  ELSE After(s, Step(s, expect))

ts_next(s) == ts_next_expecting(s, "none")

token_is_operator_token(tok, w) == tok.kind = "operator" /\ tok.text = w

-----------------------------------------------------------------------------
\* Numerals.  Integers stay within 64 bits in the model.
Value(c) == CHOOSE n \in 0 .. 9 : At("0123456789", n + 1) = c

\* parse_int64 reads as far as there are digits.
RECURSIVE Decimal(_, _)
Decimal(w, n) ==
  IF At(w, 1) \notin Digit THEN n
  ELSE Decimal(SubSeq(w, 2, Len(w)), 10 * n + Value(At(w, 1)))
token_to_int64Unsigned(w) == Decimal(w, 0)
token_to_int64(w) ==
  IF At(w, 1) = "-" THEN -Decimal(SubSeq(w, 2, Len(w)), 0) ELSE Decimal(w, 0)

\* parse_double_literal wants digits on both sides of the point, and no sign.
IsDouble(w) ==
  LET whole == Past(w, 1, Digit)
      part  == IF At(w, whole) = "." THEN Past(w, whole + 1, Digit) ELSE whole
  IN  whole > 1 /\ part # whole + 1 /\ Exponent(w, part) = Len(w) + 1
=============================================================================

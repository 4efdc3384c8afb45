-------------------------------- MODULE Tokens --------------------------------
(***************************************************************************)
(* A client that takes the tokens of a text, looks ahead, and expects some *)
(* kinds.                                                                  *)
(***************************************************************************)
EXTENDS Tokenizer, SequencesExt

CONSTANT Readings   \* texts, and how clients have them read

VARIABLES ts,      \* the stream
          taken,   \* history: the tokens the client was given
          wanted   \* history: an expectation made a difference
vars == <<ts, taken, wanted>>

Init == /\ \E r \in Readings : ts = ts_init(r.text, r.how)
        /\ taken = <<>> /\ wanted = FALSE

Take(s, toks) ==
  /\ \A i \in DOMAIN taken : taken[i].kind # "eof"
  /\ ts' = s /\ taken' = taken \o SelectSeq(toks, LAMBDA tok : tok # failed)

Peek == ts' = ts_peek(ts) /\ UNCHANGED <<taken, wanted>>

\* Also ts_expect, ts_expect_operator and ts_expect_identifier, which take what
\* they do not want too.
TakeNext == \E r \in {ts_next(ts)} : Take(r.s, <<r.tok>>) /\ wanted' = wanted

NextExpecting ==
  \E kind \in Range(tokenizer_checks) :
    \E r \in {ts_next_expecting(ts, kind)} :
      /\ Take(r.s, <<r.tok>>)
      /\ wanted' = (wanted \/ r # ts_next(ts))

\* ts_expect_int, ts_expect_double: a minus may stand apart from its number.
ExpectNumber ==
  \E a \in {ts_next(ts)} :
    /\ wanted' = wanted
    /\ IF token_is_operator_token(a.tok, "-")
       THEN \E b \in {ts_next(a.s)} :
              IF b.tok.kind = "number" THEN Take(b.s, <<a.tok, b.tok>>)
              ELSE Take(ts_peek(a.s), <<a.tok>>)
       ELSE Take(a.s, <<a.tok>>)

Next == Peek \/ TakeNext \/ NextExpecting \/ ExpectNumber

-----------------------------------------------------------------------------
\* The tokens of a text, read straight through.
RECURSIVE From(_)
From(a) ==
  CASE a.tok = failed -> <<>>
    [] a.tok.kind = "eof" -> <<a.tok>>
    [] OTHER -> <<a.tok>> \o From(ts_next(a.s))
Straight(t, how) == From(ts_next(ts_init(t, how)))

Begin(tok) == IF tok.kind = "newline" THEN tok.pos - 1 ELSE tok.pos
Behind(i)  == IF i = 1 THEN 1 ELSE taken[i - 1].next
Gap(i)     == SubSeq(ts.text, Behind(i), Begin(taken[i]) - 1)

\* Clients are given every token once and in order: looking ahead, expecting a
\* kind or giving up changes nothing but the kinds that were expected, and what is
\* passed over holds no token (token_stream.c:8-47, tokenizer.c:11-74, 422-487).
InOrder ==
  /\ \A i \in DOMAIN taken :
       /\ Behind(i) <= Begin(taken[i])
       /\ \A tok \in Range(Straight(Gap(i), ts.how)) : tok.kind = "eof"
  /\ ~wanted => IsPrefix(taken, Straight(ts.text, ts.how))

-----------------------------------------------------------------------------
\* What tokens look like, whatever reads them.
All(w, S)  == Among(w) \subseteq S
Digits(w)  == w # "" /\ All(w, Digit)
Prefixed(w) == /\ Len(w) > 2 /\ At(w, 1) = "0" /\ At(w, 2) \in DOMAIN Radix
               /\ All(SubSeq(w, 3, Len(w)), Radix[At(w, 2)])
Mantissas(w) ==
  \E i, j, k, l \in 0 .. Len(w) :
    /\ i <= j /\ j <= k /\ k <= l
    /\ SubSeq(w, 1, i) \in {"", "-"}      /\ All(SubSeq(w, i + 1, j), Digit)
    /\ SubSeq(w, j + 1, k) \in {"", "."}  /\ All(SubSeq(w, k + 1, l), Digit)
    /\ j = k => k = l
    /\ SubSeq(w, l + 1, Len(w)) \in {"", "f", "F"}
Exponents(w) ==
  \/ w = ""
  \/ /\ At(w, 1) \in {"e", "E"}
     /\ Digits(SubSeq(w, IF At(w, 2) \in {"+", "-"} THEN 3 ELSE 2, Len(w)))
Numeral(w) ==
  \/ Prefixed(w)
  \/ /\ w \notin {"", "."}
     /\ \E i \in 0 .. Len(w) :
          Mantissas(SubSeq(w, 1, i)) /\ Exponents(SubSeq(w, i + 1, Len(w)))

Lexeme(kind, w) ==
  CASE kind = "identifier" -> /\ w # "" /\ At(w, 1) \notin Digit
                              /\ All(w, Letter \cup Digit \cup {"_"})
    [] kind = "operator"   -> w \in ops1 \cup ops2 \cup ops3
    [] kind = "number"     -> Numeral(w)
    [] OTHER               -> FALSE

\* A token is as long as its kind allows: no shorter operator hides a longer one,
\* and an exponent or prefix is part of its number exactly if its digits are there
\* (tokenizer.c:80-211, 262-327).
Longest ==
  \A tok \in Range(taken) :
    tok.kind \in {"identifier", "operator", "number"} =>
      /\ Lexeme(tok.kind, tok.text)
      /\ \A e \in tok.next .. Len(ts.text) :
           ~Lexeme(tok.kind, SubSeq(ts.text, tok.pos, e))
=============================================================================

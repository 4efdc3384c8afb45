-------------------------------- MODULE Formats --------------------------------
(***************************************************************************)
(* Readers of data/format that split a text into parts: URLs, user         *)
(* information, query strings, percent codes, TOML and CSV.  A client      *)
(* gives them texts it has put together itself.                            *)
(***************************************************************************)
EXTENDS Tokenizer, SequencesExt

CONSTANTS Given,    \* texts clients put together, the form and the parts of each
          Codes     \* what two hex digits stand for

VARIABLES given, found
vars == <<given, found>>

Wrong == [form |-> "wrong"]

Rest(t, p)      == SubSeq(t, p, Len(t))
Until(t, p, S)  == Min({q \in p .. Len(t) : At(t, q) \in S} \cup {Len(t) + 1})
\* What is between p and q, which a mark at q ends.
Part(t, p, q)   == SubSeq(t, p, q - 1)

-----------------------------------------------------------------------------
\* The host and the port of h, which may be empty; at most 16 bits.
Port(w)  == IF w # "" /\ Among(w) \subseteq Digit /\ Decimal(w, 0) <= 65535
            THEN {Decimal(w, 0)} ELSE {}
HostPort(h) ==
  LET six   == At(h, 1) = "["
      close == Until(h, 1, {IF six THEN "]" ELSE ":"})
      colon == IF six THEN close + 1 ELSE close
      ports == IF At(h, colon) = ":" THEN Port(Rest(h, colon + 1)) ELSE {0}
  IN  IF h = "" \/ (six /\ close > Len(h)) THEN {}
      ELSE {[host |-> Part(h, IF six THEN 2 ELSE 1, close), port |-> n] : n \in ports}

Authority(a) ==
  LET at == Until(a, 1, {"@"})
      in == IF at > Len(a) THEN a ELSE Rest(a, at + 1)
  IN  IF a = "" THEN {[userinfo |-> "", host |-> "", port |-> 0]}
      ELSE {[userinfo |-> IF at > Len(a) THEN "" ELSE Part(a, 1, at),
             host |-> h.host, port |-> h.port] : h \in HostPort(in)}

AuthorityToPath(t, p) == Until(t, p, {"/"})
AuthorityEnd(t, p) == Until(t, p, {"/", "?", "#"})

parse_url(t) ==
  LET colon == Past(t, 1, Letter \cup Digit \cup Among("+-."))
      auth  == IF Starts(t, colon + 1, "//") THEN colon + 3 ELSE 0
      path  == IF auth = 0 THEN colon + 1 ELSE AuthorityEnd(t, auth)
      query == Until(t, path, {"?", "#"})
      frag  == Until(t, query, {"#"})
      whos  == Authority(IF auth = 0 THEN "" ELSE Part(t, auth, path))
  IN  IF At(t, 1) \notin Letter \/ At(t, colon) # ":" \/ whos = {} THEN Wrong
      ELSE [form |-> "url", scheme |-> Part(t, 1, colon), who |-> CHOOSE w \in whos : TRUE,
            path |-> Part(t, path, query), query |-> Part(t, query + 1, frag),
            fragment |-> Rest(t, frag + 1)]

parse_userinfo(t) ==
  LET colon == Until(t, 1, {":"})
  IN  IF colon > Len(t) THEN Wrong
      ELSE [form |-> "userinfo", username |-> Part(t, 1, colon), password |-> Rest(t, colon + 1)]

Split(t, mark) == <<Part(t, 1, Until(t, 1, {mark})), Rest(t, Until(t, 1, {mark}) + 1)>>

\* Parameters that are empty altogether are left out.
RECURSIVE Params(_)
Params(t) ==
  LET s == Split(t, "&")
  IN  IF t = "" THEN <<>>
      ELSE (IF s[1] = "" THEN <<>> ELSE <<Split(s[1], "=")>>) \o Params(s[2])
query_parse(t) == [form |-> "query", params |-> Params(t)]

\* A code that is cut off is taken as it is, one of other characters is wrong.
RECURSIVE Decoded(_)
Decoded(t) ==
  LET code == SubSeq(t, 2, 3)
      then(c, p) == {c \o r : r \in Decoded(Rest(t, p))}
  IN  CASE t = "" -> {""}
        [] At(t, 1) = "%" /\ Len(t) > 2 ->
             IF Among(code) \subseteq Hex THEN then(Codes[code], 4) ELSE {}
        [] At(t, 1) = "+" -> then(" ", 2)
        [] OTHER -> then(At(t, 1), 2)
percent_decode(t) ==
  IF Decoded(t) = {} THEN Wrong ELSE [form |-> "percent", text |-> CHOOSE r \in Decoded(t) : TRUE]

-----------------------------------------------------------------------------
Stream(t) == ts_init(t, [comments |-> "hash", newlines |-> FALSE])
Over(tok) == tok.kind \in {"failed", "eof"}

\* a here is a token and the stream after it.
RECURSIVE Values(_)
Values(a) ==
  CASE a.tok.kind \in {"identifier", "string", "number"} ->
         <<a.tok.text>> \o Values(ts_next(a.s))
    [] a.tok.kind = "," -> Values(ts_next(a.s))
    [] OTHER -> <<>>
read_csv(t) == [form |-> "csv", values |-> Values(ts_next(Stream(t)))]

\* The token that ends what is open, or the text.
RECURSIVE Close(_, _)
Close(a, depth) ==
  CASE Over(a.tok) \/ (a.tok.kind = "]" /\ depth = 0) -> a
    [] a.tok.kind = "[" -> Close(ts_next(a.s), depth + 1)
    [] a.tok.kind = "]" -> Close(ts_next(a.s), depth - 1)
    [] OTHER -> Close(ts_next(a.s), depth)

\* The value that begins with a; no text, if there is none.
read_toml_value(a) ==
  LET e == Close(ts_next(a.s), 0)
  IN  CASE a.tok.kind \in {"identifier", "number"} -> [texts |-> {a.tok.text}, s |-> a.s]
        [] a.tok.kind = "string" ->
             [texts |-> {SubSeq(a.tok.text, 2, Len(a.tok.text) - 1)}, s |-> a.s]
        [] a.tok.kind = "[" ->
             [texts |-> IF Over(e.tok) THEN {} ELSE {Part(a.s.text, a.tok.next, e.tok.pos)},
              s |-> e.s]
        [] OTHER -> [texts |-> {}, s |-> a.s]

\* Names of tables are passed over, to the first bracket that closes.
RECURSIVE Heading(_)
Heading(a) == IF Over(a.tok) \/ a.tok.kind = "]" THEN a.s ELSE Heading(ts_next(a.s))

RECURSIVE Entries(_), Entry(_, _), Valued(_, _)
Entries(a) ==
  CASE Over(a.tok) -> <<>>
    [] a.tok.kind = "identifier" -> Entry(a.tok.text, ts_next(a.s))
    [] a.tok.kind = "["          -> Entries(ts_next(Heading(ts_next(a.s))))
    [] OTHER                     -> Entries(ts_next(a.s))
Entry(key, op) ==
  IF token_is_operator_token(op.tok, "=") THEN Valued(key, read_toml_value(ts_next(op.s)))
  ELSE Entries(ts_next(op.s))
Valued(key, v) == SetToSeq({<<key, w>> : w \in v.texts}) \o Entries(ts_next(v.s))
read_toml(t) == [form |-> "toml", entries |-> Entries(ts_next(Stream(t)))]

-----------------------------------------------------------------------------
Init == given \in Given /\ found = <<>>

Read ==
  /\ given' = given
  /\ found' = CASE given.form = "url"      -> parse_url(given.text)
                [] given.form = "userinfo" -> parse_userinfo(given.text)
                [] given.form = "query"    -> query_parse(given.text)
                [] given.form = "percent"  -> percent_decode(given.text)
                [] given.form = "csv"      -> read_csv(given.text)
                [] given.form = "toml"     -> read_toml(given.text)

\* What a text was put together from is found in it, whatever marks of other parts
\* a part holds, and what breaks the form is not taken for it (url.c:4-141,
\* userinfo.c:4-29, query_string.c:5-56, percent.c:4-36, csv.c:6-34, toml.c:5-88).
ReadBack == found # <<>> => found = given.parts
=============================================================================

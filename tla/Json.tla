--------------------------------- MODULE Json ---------------------------------
(***************************************************************************)
(* data/format/json.c: documents that clients parse, build, copy and free. *)
(* A parse or copy may be refused one of the blocks that it asks for;      *)
(* blocks of strings are had.  A double is its numeral.                    *)
(***************************************************************************)
EXTENDS Tokenizer, SequencesExt

CONSTANTS Handles,    \* where clients keep documents
          Sources,    \* texts they have parsed
          Scalars,    \* values and keys they build documents of
          Keys,
          Asks,       \* bound of the model: which of its blocks a call is refused
          MaxBlocks   \* bound of the model: blocks in the documents clients build

VARIABLES docs,       \* the document of each handle, or NoDoc
          held,       \* how many blocks are allocated for documents
          spilled     \* history: a copy went on without a block
vars == <<docs, held, spilled>>

NoDoc     == [kind |-> "none"]
Array(s)  == [kind |-> "array", items |-> s]
Object(s) == [kind |-> "object", pairs |-> s]
Pair(k, v) == [key |-> k, value |-> v]

\* What json_free releases: values, strings, keys and the arrays of items.
RECURSIVE Blocks(_)
Blocks(v) ==
  LET room(s) == IF s = <<>> THEN 0 ELSE 1
  IN  CASE v.kind = "none"   -> 0
        [] v.kind = "string" -> 2
        [] v.kind = "array"  ->
             FoldSeq(LAMBDA e, n : n + Blocks(e), 1 + room(v.items), v.items)
        [] v.kind = "object" ->
             FoldSeq(LAMBDA e, n : n + 1 + Blocks(e.value), 1 + room(v.pairs), v.pairs)
        [] OTHER -> 1

-----------------------------------------------------------------------------
\* Memory: which request is refused, 0 if none is, and the blocks handed out.
Refused(m)      == m.refuse = 1
zalloc(m)       == [refuse |-> IF m.refuse = 0 THEN 0 ELSE m.refuse - 1,
                    held   |-> IF Refused(m) THEN m.held ELSE m.held + 1]
Got(m, n)       == [m EXCEPT !.held = @ + n]
json_free(m, v) == Got(m, -Blocks(v))

\* What a call came to: its error, or the value and the stream behind it.
Ok(v, s, m) == [e |-> "ok", v |-> v, s |-> s, m |-> m]
Fail(e, m)  == [e |-> e, m |-> m]
\* A value of one block; its string is released again when there is none.
New(v, s, m) == IF Refused(m) THEN Fail("oom", zalloc(m))
                ELSE Ok(v, s, Got(zalloc(m), Blocks(v) - 1))
\* A larger array for one more item, in place of the smaller one.
Room(items, m) == IF items = <<>> \/ Refused(m) THEN zalloc(m) ELSE Got(zalloc(m), -1)

-----------------------------------------------------------------------------
Escaped == [f |-> "\f", n |-> "\n", r |-> "\r", t |-> "\t"]

\* The text of a string token from p on; of none if it has an escape for Unicode.
RECURSIVE Unescaped(_, _)
Unescaped(w, p) ==
  LET then(c, q) == {c \o rest : rest \in Unescaped(w, q)}
      e          == At(w, p + 1)
  IN  CASE p = Len(w)      -> {""}
        [] At(w, p) # "\\" -> then(At(w, p), p + 1)
        [] e = "u"         -> {}
        [] OTHER           -> then(IF e \in DOMAIN Escaped THEN Escaped[e] ELSE e, p + 2)

json_parse_string_token(tok, s, m) ==
  IF Unescaped(tok.text, 2) = {} THEN Fail("invalid", m)
  ELSE New([kind |-> "string", string |-> CHOOSE w \in Unescaped(tok.text, 2) : TRUE], s, m)

\* a is a token and the stream after it.
Number(minus, a, m) ==
  LET w == a.tok.text
      i == token_to_int64(w)
  IN  CASE a.tok.kind # "number" -> Fail("invalid", m)
        [] Among(w) \cap {".", "e", "E"} = {} ->
             New([kind |-> "int", int |-> IF minus THEN -i ELSE i], a.s, m)
        [] IsDouble(w) ->
             New([kind |-> "double", double |-> IF minus THEN "-" \o w ELSE w], a.s, m)
        [] OTHER -> Fail("invalid", m)

json_parse_number_tokens(a, m) ==
  IF token_is_operator_token(a.tok, "-") THEN Number(TRUE, ts_next(a.s), m)
  ELSE Number(FALSE, a, m)

\* json_parse_array and json_parse_object.
Inside(c) == IF c.kind = "array" THEN c.items ELSE c.pairs
Closing(c) == IF c.kind = "array" THEN "]" ELSE "}"

RECURSIVE json_parse_value(_, _), Beginning(_, _), Items(_, _, _), Keyed(_, _, _)
RECURSIVE Added(_, _, _, _), Continued(_, _, _)

\* What follows the items of c, up to the bracket.
Items(c, s, m) ==
  LET r == json_parse_value(s, m)
  IN  IF c.kind = "array" THEN Added(c, Array(Append(c.items, r.v)), r, 0)
      ELSE Keyed(c, ts_next(s), m)

\* Keys are taken as they are written, in a block of their own.
Keyed(o, key, m) ==
  LET colon == ts_next(key.s)
      r     == json_parse_value(colon.s, Got(m, 1))
      name  == SubSeq(key.tok.text, 2, Len(key.tok.text) - 1)
  IN  IF key.tok.kind # "string" \/ colon.tok.kind # ":" THEN Fail("invalid", json_free(m, o))
      ELSE Added(o, Object(Append(o.pairs, Pair(name, r.v))), r, 1)

\* more is c with what r came to, to which own blocks belong.
Added(c, more, r, own) ==
  CASE r.e # "ok"   -> Fail(r.e, json_free(Got(r.m, -own), c))
    [] Refused(r.m) -> Fail("oom", json_free(json_free(Got(zalloc(r.m), -own), r.v), c))
    [] OTHER        -> Continued(more, ts_next(r.s), Room(Inside(c), r.m))

Continued(c, a, m) ==
  CASE a.tok.kind = Closing(c) -> Ok(c, a.s, m)
    [] a.tok.kind = ","        -> Items(c, a.s, m)
    [] OTHER                   -> Fail("invalid", json_free(m, c))

\* open, which may be empty, begins at s.
Compound(open, s, m) ==
  LET r == New(open, s, m)
      a == ts_next(s)
  IN  CASE r.e # "ok"                -> r
        [] a.tok.kind = Closing(open) -> Ok(open, a.s, r.m)
        [] a.tok = failed            -> Fail("invalid", json_free(r.m, open))
        [] OTHER                     -> Items(open, s, r.m)

Constants == {[kind |-> "bool", bool |-> TRUE], [kind |-> "bool", bool |-> FALSE],
              [kind |-> "null"]}
Literal(v) == CASE v.kind = "null" -> "null" [] v.bool -> "true" [] OTHER -> "false"

Beginning(a, m) ==
  CASE a.tok.kind = "string" -> json_parse_string_token(a.tok, a.s, m)
    [] a.tok.kind = "number" \/ token_is_operator_token(a.tok, "-") ->
         json_parse_number_tokens(a, m)
    [] a.tok.kind = "{" -> Compound(Object(<<>>), a.s, m)
    [] a.tok.kind = "[" -> Compound(Array(<<>>), a.s, m)
    [] a.tok.kind = "identifier" /\ \E v \in Constants : Literal(v) = a.tok.text ->
         New(CHOOSE v \in Constants : Literal(v) = a.tok.text, a.s, m)
    [] OTHER -> Fail("invalid", m)
json_parse_value(s, m) == Beginning(ts_next(ts_peek(s)), m)

\* The document r, which nothing may follow.
AloneKeeping(r) ==
  IF r.e = "ok" /\ ts_next(r.s).tok.kind # "eof" THEN Fail("invalid", r.m) ELSE r
Alone(r) ==
  IF r.e = "ok" /\ ts_next(r.s).tok.kind # "eof" THEN Fail("invalid", json_free(r.m, r.v))
  ELSE r

json_parse(w, m) ==
  Alone(json_parse_value(ts_init(w, [comments |-> "none", newlines |-> FALSE]), m))

-----------------------------------------------------------------------------
\* json_serialize.  Numerals of integers are written in full.
RECURSIVE Numeral10(_), Joined(_, _), Quoted(_), serialize_value(_, _, _), Spaces(_)
Numeral10(n) ==
  CASE n < 0 -> "-" \o Numeral10(-n)
    [] n < 10 -> At("0123456789", n + 1)
    [] OTHER -> Numeral10(n \div 10) \o At("0123456789", (n % 10) + 1)
Spaces(n) == IF n = 0 THEN "" ELSE " " \o Spaces(n - 1)

\* The inside of a string.
Quoted(w) ==
  LET c == At(w, 1)
      e == {x \in DOMAIN Escaped : Escaped[x] = c}
  IN  IF w = "" THEN ""
      ELSE (CASE c \in {"\"", "\\"} -> "\\" \o c
              [] e # {}             -> "\\" \o (CHOOSE x \in e : TRUE)
              [] OTHER              -> c) \o Quoted(SubSeq(w, 2, Len(w)))

\* Lines that a comma ends, but the last.
Joined(lines, newline) ==
  IF Len(lines) = 1 THEN lines[1] \o newline
  ELSE lines[1] \o "," \o newline \o Joined(Tail(lines), newline)

serialize_value(v, indent, level) ==
  LET newline  == IF indent = 0 THEN "" ELSE "\n"
      margin   == Spaces((level + 1) * indent)
      item(e)  == margin \o serialize_value(e, indent, level + 1)
      pair(e)  == margin \o "\"" \o Quoted(e.key) \o "\":" \o Spaces(IF indent = 0 THEN 0 ELSE 1)
                    \o serialize_value(e.value, indent, level + 1)
      within(a, lines, b) ==
        IF lines = <<>> THEN a \o b
        ELSE a \o newline \o Joined(lines, newline) \o Spaces(level * indent) \o b
  IN  CASE v.kind \in {"null", "bool"} -> Literal(v)
        [] v.kind = "int"    -> Numeral10(v.int)
        [] v.kind = "double" -> v.double
        [] v.kind = "string" -> "\"" \o Quoted(v.string) \o "\""
        [] v.kind = "array"  ->
             within("[", [i \in DOMAIN v.items |-> item(v.items[i])], "]")
        [] v.kind = "object" ->
             within("{", [i \in DOMAIN v.pairs |-> pair(v.pairs[i])], "}")

-----------------------------------------------------------------------------
\* Building.  What is added is the document's own if there was room for it.
json_array_push(a, v, m) ==
  [done |-> ~Refused(m), m |-> Room(a.items, m),
   v |-> IF Refused(m) THEN a ELSE Array(Append(a.items, v))]

PairOf(o, key) == SelectInSeq(o.pairs, LAMBDA p : p.key = key)
json_obj_get(o, key) ==
  IF PairOf(o, key) = 0 THEN NoDoc ELSE o.pairs[PairOf(o, key)].value

json_obj_set(o, key, v, m) ==
  LET i == PairOf(o, key)
  IN  IF i # 0
      THEN [done |-> TRUE, m |-> json_free(m, o.pairs[i].value),
            v |-> Object([o.pairs EXCEPT ![i].value = v])]
      ELSE [done |-> ~Refused(m),
            m |-> IF Refused(m) THEN Room(o.pairs, m) ELSE Got(Room(o.pairs, m), 1),
            v |-> IF Refused(m) THEN o ELSE Object(Append(o.pairs, Pair(key, v)))]

\* json_clone does not look whether what it cloned was added.
RECURSIVE json_clone(_, _), Cloned(_, _, _, _)
Cloned(c, rest, m, spill) ==
  LET r    == json_clone(IF c.kind = "array" THEN Head(rest) ELSE Head(rest).value, m)
      into == IF c.kind = "array" THEN json_array_push(c, r.v, r.m)
              ELSE json_obj_set(c, Head(rest).key, r.v, r.m)
  IN  CASE rest = <<>>   -> [v |-> c, m |-> m, spilled |-> spill]
        [] r.v = NoDoc   -> [v |-> NoDoc, m |-> json_free(r.m, c),
                             spilled |-> spill \/ r.spilled]
        [] OTHER         -> Cloned(into.v, Tail(rest), into.m,
                                   spill \/ r.spilled \/ ~into.done)
json_clone(v, m) ==
  LET new == New(CASE v.kind = "array" -> Array(<<>>) [] v.kind = "object" -> Object(<<>>)
                   [] OTHER -> v, v, m)
  IN  CASE new.e # "ok"        -> [v |-> NoDoc, m |-> new.m, spilled |-> FALSE]
        [] v.kind = "array"  -> Cloned(new.v, v.items, new.m, FALSE)
        [] v.kind = "object" -> Cloned(new.v, v.pairs, new.m, FALSE)
        [] OTHER             -> [v |-> v, m |-> new.m, spilled |-> FALSE]

-----------------------------------------------------------------------------
Init == docs = [h \in Handles |-> NoDoc] /\ held = 0 /\ spilled = FALSE

Memory == {[refuse |-> n, held |-> held] : n \in Asks}
Total  == FoldFunction(LAMBDA v, n : n + Blocks(v), 0, docs)
Small(v) == Total + Blocks(v) <= MaxBlocks

\* A parse while there is nothing else.
Parse ==
  /\ Total = 0 /\ spilled' = spilled
  /\ \E h \in Handles, w \in Sources, m \in Memory :
       \E r \in {json_parse(w, m)} :
         /\ docs' = IF r.e = "ok" THEN [docs EXCEPT ![h] = r.v] ELSE docs
         /\ held' = r.m.held

Make ==
  \E h \in Handles, v \in Scalars \cup {Array(<<>>), Object(<<>>)}, m \in Memory :
    LET r == New(v, v, m)
    IN  /\ docs[h] = NoDoc /\ Small(v) /\ spilled' = spilled
        /\ docs' = IF r.e = "ok" THEN [docs EXCEPT ![h] = v] ELSE docs
        /\ held' = r.m.held

\* The document of g goes into that of h.
Into(h, g, r) ==
  /\ docs' = IF r.done THEN [docs EXCEPT ![h] = r.v, ![g] = NoDoc] ELSE docs
  /\ held' = r.m.held /\ spilled' = spilled

Add ==
  \E h \in Handles : \E g \in Handles \ {h}, m \in Memory :
    /\ docs[g] # NoDoc /\ Total <= MaxBlocks
    /\ \/ /\ docs[h].kind = "array"
          /\ Into(h, g, json_array_push(docs[h], docs[g], m))
       \/ /\ docs[h].kind = "object"
          /\ \E key \in Keys : Into(h, g, json_obj_set(docs[h], key, docs[g], m))

Clone ==
  \E h, g \in Handles, m \in Memory :
    LET r == json_clone(docs[g], m)
    IN  /\ docs[h] = NoDoc /\ docs[g] # NoDoc /\ Small(docs[g])
        /\ ~(spilled /\ r.spilled)  \* bound of the model: one copy spills
        /\ docs' = [docs EXCEPT ![h] = r.v] /\ held' = r.m.held
        /\ spilled' = (spilled \/ r.spilled)

Free ==
  \E h \in Handles :
    /\ docs[h] # NoDoc /\ spilled' = spilled
    /\ docs' = [docs EXCEPT ![h] = NoDoc] /\ held' = held - Blocks(docs[h])

Next == Parse \/ Make \/ Add \/ Clone \/ Free

-----------------------------------------------------------------------------
\* Every block belongs to one document, whatever step of a parse, an addition or a
\* copy failed, unless a copy went on without a block (json.c:12-351, 353-372,
\* 488-575).
Owned == held >= Total /\ (~spilled => held = Total)

\* Every value in v.
RECURSIVE Values(_)
Values(v) ==
  CASE v.kind = "array"  -> {v} \cup UNION {Values(e) : e \in Range(v.items)}
    [] v.kind = "object" -> {v} \cup UNION {Values(p.value) : p \in Range(v.pairs)}
    [] OTHER -> {v}

Distinct(o)  == \A i, j \in DOMAIN o.pairs : o.pairs[i].key = o.pairs[j].key => i = j
Plain(o)     == \A p \in Range(o.pairs) : Quoted(p.key) = p.key
Readable(v)  == CASE v.kind = "object" -> Plain(v)
                  [] v.kind = "double" -> At(v.double, 1) # "-" /\ "." \in Among(v.double)
                  [] OTHER -> TRUE

\* A document is the same when it is parsed from its text, with or without line
\* breaks, and when it is copied.  The first does not go for negative or whole
\* doubles and for keys that need an escape, the second not for objects with a
\* key twice (json.c:59-117, 187-277, 536-707).
Reproduced ==
  \A v \in {docs[h] : h \in Handles} \ {NoDoc} :
    LET plenty == [refuse |-> 0, held |-> 0]
        same   == [v |-> v, m |-> [refuse |-> 0, held |-> Blocks(v)]]
        copy   == json_clone(v, plenty)
    IN  /\ (\A x \in Values(v) : Readable(x)) =>
             \A indent \in {0, 1} :
               \A r \in {json_parse(serialize_value(v, indent, 0), plenty)} :
                 r.e = "ok" /\ [v |-> r.v, m |-> r.m] = same
        /\ (\A x \in Values(v) : x.kind = "object" => Distinct(x)) =>
             [v |-> copy.v, m |-> copy.m] = same
=============================================================================

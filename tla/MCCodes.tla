-------------------------------- MODULE MCCodes --------------------------------
\* The pieces of code that work on their arguments alone, for TLC: one call of one
\* of them in each behaviour, or one of the texts of MCText.  Memory of eighteen
\* bytes has room for a move of two wide words that no end is aligned with; texts of
\* four characters for what a pattern of four parts means and for a failure after
\* each part; three fields are a chunk of a structure and a part of another.
EXTENDS MemMove, Sequences, SequencesExt, FiniteSets, FiniteSetsExt

CONSTANTS Kinds,     \* which of them to check
          Patterns,  \* for Regex
          Unknown, Most,
          Handles, Asks, MaxBlocks  \* see MCText

VARIABLES which,
          l, r, val, out,
          stream, part, pos, size, cur_block, final_block, head,
          lens, last_code_len, litlen_tree, dist_tree,
          entries, heap, root,
          search, nodes, c, scan, results,
          read,
          job, structure, bytes, cursor, stage, given, answer,
          ts, taken, wanted, docs, held, spilled, found

\* MemMove has mem, was, call, d8, s8, count, shift, lo and at; call, at, count, mem,
\* out and given are shared by the calls that have something of that name.
moving    == <<d8, s8, shift, lo>>
memory    == <<mem, was, count>>
words     == <<l, r, val>>
inflating == <<stream, part, pos, size, cur_block, final_block, head,
               lens, last_code_len, litlen_tree, dist_tree>>
queueing  == <<entries, heap, root>>
searching == <<search, nodes, c, scan, results>>
serial    == <<job, structure, bytes, cursor, stage, answer>>
texts     == <<ts, taken, wanted, docs, held, spilled, found>>
allVars   == <<which, call, out, at, read, given, moving, memory, words, inflating, queueing,
               searching, serial, texts>>

-----------------------------------------------------------------------------
MCContents == {[a \in Addresses |-> a]}

\* Fills and reversals at each alignment, memories that differ in a byte or two, and
\* every small haystack with each place of a needle.
Identity(n) == [a \in 0 .. n - 1 |-> a]
Asked(op, d, s, n, len, v) == [op |-> op, dest |-> d, src |-> s, count |-> n, length |-> len, val |-> v]
Questions ==
  {[mem |-> Identity(40), call |-> Asked(op[1], d, 0, n, 0, op[2])] :
     op \in {<<"memset", <<50>>>>, <<"memset32", <<50, 51>>>>, <<"memreverse", <<>>>>},
     d \in 1 .. 8, n \in 0 .. 30}
  \cup {[mem |-> [a \in 0 .. 41 |-> IF a \in {x, y} THEN 1 ELSE 0],
         call |-> Asked("memcmp", d, s, n, 0, <<>>)] :
          x \in 6 .. 20, y \in {26, 28, 33, 40}, d \in 6 .. 7, s \in {26, 28}, n \in {0, 5, 14}}
  \cup {[mem |-> m, call |-> Asked("memmem", 0, 6, n, len, <<>>)] :
          m \in [0 .. 8 -> {0, 1}], n \in 4 .. 6, len \in 0 .. 3}
W == INSTANCE MemWords WITH Word <- 4, Wide <- 8, Quad <- 2, Far <- 6, Least <- 2
ASSUME QuestionsAssumption == \A q \in Questions : W!IsQuestion(q)

\* The streams a client has to decode are written by other programs, in the format of
\* RFC 1951 and 1950.  A block is of stored bytes or of tokens, which are bytes and
\* copies of what came before.
\* A number of n bits, the lowest first.
Number(v, n) == [k \in 1 .. n |-> (v \div 2 ^ (k - 1)) % 2]

Flat(ss) == FoldLeft(LAMBDA x, y : x \o y, <<>>, ss)

\* What a token stands for, behind what has been written.
Literal(b)       == [byte |-> b, length |-> 0, distance |-> 0]
Match(n, d)      == [byte |-> 0, length |-> n, distance |-> d]
IsMatch(t)       == t.length > 0
Written(text, t) ==
  IF IsMatch(t)
  THEN text \o [j \in 1 .. t.length |->
                  text[Len(text) - t.distance + 1 + ((j - 1) % t.distance)]]
  ELSE Append(text, t.byte)

\* The symbols: the first length and the number of extra bits of each.  The
\* longest match has a symbol of its own.
LengthRows   == <<<<257, 3, 0>>, <<258, 4, 0>>, <<264, 10, 0>>, <<265, 11, 1>>, <<269, 19, 2>>,
                  <<284, 227, 5>>, <<285, 258, 0>>>>
DistanceRows == <<<<0, 1, 0>>, <<1, 2, 0>>, <<3, 4, 0>>, <<4, 5, 1>>, <<7, 13, 2>>, <<16, 257, 7>>>>
Row(rows, x) ==
  CHOOSE row \in Range(rows) : x >= row[2] /\ x < row[2] + 2 ^ row[3]
                             /\ \A q \in Range(rows) : q[2] <= x => q[2] <= row[2]
LengthRow(t)   == Row(LengthRows, t.length)
DistanceRow(t) == Row(DistanceRows, t.distance)

\* Codes in the order of their lengths, and of the symbols in each length.
Earlier(len, a, b) == len[a] < len[b] \/ (len[a] = len[b] /\ a < b)
CodeOf(len, x) ==
  MapThenSumSet(LAMBDA y : 2 ^ (len[x] - len[y]), {y \in DOMAIN len : Earlier(len, y, x)})
CodeBits(len, x) == Reverse(Number(CodeOf(len, x), len[x]))

\* Two shapes of codes for a set of symbols: all of a length, or each longer, which
\* the codes of lengths, of seven bits at most, may not allow.
Rank(S, x) == Cardinality({y \in S : y < x})
Even(S)    == LET n == Min({k \in 1 .. 8 : Cardinality(S) <= 2 ^ k}) IN [x \in S |-> n]
Steep(S)   == [x \in S |-> IF Rank(S, x) + 1 < Cardinality(S) THEN Rank(S, x) + 1
                           ELSE IF Rank(S, x) = 0 THEN 1 ELSE Rank(S, x)]
Shaped(shape, S) == IF shape = "even" THEN Even(S) ELSE Steep(S)

\* Lengths of codes in a row, runs of them as one step: the symbol, how many
\* extra bits it has, and what they say.
LenAt(len, k) == IF k \in DOMAIN len THEN len[k] ELSE 0
RECURSIVE Steps(_, _)
Steps(row, k) ==
  IF k > Len(row) THEN <<>>
  ELSE LET run == Min({i \in k .. Len(row) : i = Len(row) \/ row[i + 1] # row[k]}) - k + 1
           n == IF run < 138 THEN run ELSE 138
           m == IF run < 7 THEN run ELSE 7
       IN  CASE row[k] = 0 /\ run >= 11 -> <<<<18, 7, n - 11>>>> \o Steps(row, k + n)
             [] row[k] = 0 /\ run >= 3 /\ run < 11 -> <<<<17, 3, run - 3>>>> \o Steps(row, k + run)
             [] row[k] # 0 /\ run >= 4 ->
                  <<<<row[k], 0, 0>>, <<16, 2, m - 4>>>> \o Steps(row, k + m)
             [] OTHER -> <<<<row[k], 0, 0>>>> \o Steps(row, k + 1)

code_lengths_order == <<16, 17, 18, 0, 8, 7, 9, 6, 10, 5, 11, 4, 12, 3, 13, 2, 14, 1, 15>>

\* A block of tokens with codes of its own.
DynamicBlock(tokens, shape, final) ==
  LET lits  == {tokens[i].byte : i \in {i \in DOMAIN tokens : ~IsMatch(tokens[i])}} \cup {256}
                 \cup {LengthRow(tokens[i])[1] : i \in {i \in DOMAIN tokens : IsMatch(tokens[i])}}
      dists == {DistanceRow(tokens[i])[1] : i \in {i \in DOMAIN tokens : IsMatch(tokens[i])}}
      ll    == Shaped(shape, lits)
      dl    == Shaped(shape, dists)
      hlit  == Max(lits) - 256
      hdist == IF dists = {} THEN 0 ELSE Max(dists)
      steps == Steps([k \in 1 .. hlit + hdist + 258 |->
                        IF k <= hlit + 257 THEN LenAt(ll, k - 1) ELSE LenAt(dl, k - hlit - 258)], 1)
      used  == {steps[i][1] : i \in DOMAIN steps}
      cl    == Shaped(IF Cardinality(used) > 8 THEN "even" ELSE shape, used)
      hclen == Max({k \in 1 .. 19 : k <= 4 \/ code_lengths_order[k] \in DOMAIN cl}) - 4
      Token(t) ==
        IF IsMatch(t)
        THEN CodeBits(ll, LengthRow(t)[1]) \o Number(t.length - LengthRow(t)[2], LengthRow(t)[3])
               \o CodeBits(dl, DistanceRow(t)[1])
               \o Number(t.distance - DistanceRow(t)[2], DistanceRow(t)[3])
        ELSE CodeBits(ll, t.byte)
  IN  <<final>> \o Number(2, 2) \o Number(hlit, 5) \o Number(hdist, 5) \o Number(hclen, 4)
        \o Flat([k \in 1 .. hclen + 4 |-> Number(LenAt(cl, code_lengths_order[k]), 3)])
        \o Flat([i \in DOMAIN steps |->
                   CodeBits(cl, steps[i][1]) \o Number(steps[i][3], steps[i][2])])
        \o Flat([i \in DOMAIN tokens |-> Token(tokens[i])]) \o CodeBits(ll, 256)

\* Stored bytes begin at a byte.
Filled(bits) == bits \o [k \in 1 .. (8 - (Len(bits) % 8)) % 8 |-> 0]
StoredBlock(before, plain, final) ==
  Filled(before \o <<final, 0, 0>>) \o Number(Len(plain), 16) \o Number(65535 - Len(plain), 16)
    \o Flat([i \in DOMAIN plain |-> Number(plain[i], 8)])

\* A block of tokens with the codes everybody knows, here of bytes below 144 only.
FixedBlock(plain, final) ==
  <<final>> \o Number(1, 2)
    \o Flat([i \in DOMAIN plain |-> Reverse(Number(plain[i] + 48, 8))]) \o Number(0, 7)

\* Streams of stored blocks, of tokens in codes of even and of steep lengths, and of
\* both, in one part and in two; plain where the program reads what others write.
Header == Number(8, 8) \o Number(29, 8)
TextOf(tokens) == FoldLeft(Written, <<>>, tokens)
b0 == Literal(0)
b1 == Literal(65)
b2 == Literal(255)
b3 == Literal(66)
Tokens ==
  {<<>>, <<b0>>, <<b0, Match(3, 1)>>, <<b1, b2, b0, Match(4, 2)>>,
   <<b0, b2, Match(11, 1), Match(12, 6)>>, <<b1, b3, b2, Match(10, 2)>>,
   <<b1, b2, b0, b3, Match(12, 4), Match(258, 16), Match(22, 264), Match(230, 16)>>, <<b0, Match(258, 1)>>}
\* What overlaps is copied by words: it is right only where no word reads what it writes.
Plain(tokens) ==
  \A i \in DOMAIN tokens : LET t == tokens[i] IN
    IsMatch(t) => t.length <= t.distance \/ t.length < 16 \/ t.distance % 8 = 0
Ahead == StoredBlock(Header, <<1, 2, 3, 4, 5, 6, 7>>, 0)
OneBlock(t, shape) ==
  [parts |-> <<Filled(Header \o DynamicBlock(t, shape, 1))>>, text |-> TextOf(t), plain |-> Plain(t)]
TwoBlocks(t, shape) ==
  [parts |-> <<StoredBlock(Header \o DynamicBlock(t, shape, 0), <<7, 8>>, 1)>>,
   text |-> TextOf(t) \o <<7, 8>>, plain |-> Plain(t)]
TwoParts(t, cut) ==
  LET whole == Filled(Ahead \o DynamicBlock(t, "even", 1))
  IN  [parts |-> <<SubSeq(whole, 1, cut), SubSeq(whole, cut + 1, Len(whole))>>,
       text |-> <<1, 2, 3, 4, 5, 6, 7>> \o TextOf(t), plain |-> Plain(t)]
Streams ==
  {OneBlock(t, shape) : t \in Tokens, shape \in {"even", "steep"}}
  \cup {TwoBlocks(t, shape) : t \in Tokens, shape \in {"even", "steep"}}
  \cup {TwoParts(<<b0, b2, Match(3, 1)>>, 56 + 8 * k) : k \in 1 .. 6}
  \cup {[parts |-> <<Filled(Header \o FixedBlock(<<7>>, 1))>>, text |-> <<7>>, plain |-> FALSE],
        [parts |-> <<StoredBlock(Header, <<>>, 1)>>, text |-> <<>>, plain |-> FALSE]}
I == INSTANCE Inflate WITH Word <- 8

\* Inputs whose counts are alike, far apart or of many bytes.
Inputs == (UNION {[1 .. n -> 1 .. 4] : n \in 1 .. 4}) \cup {<<9, 9, 9>>, <<1, 2, 3, 5, 8>>}
H == INSTANCE Huffman WITH Room <- 5, EntrySpan <- 20, Values <- {1, 2}

\* Patterns with what they mean: each part is some characters of a set, or opens or
\* closes a group.
Letters == <<"a", "b", "c", "*">>
Every   == ToSet(Letters)
Piece(w, i)      == [text |-> w, item |-> i]
Chars(w, S, T) == Piece(w, [kind |-> "char", among |-> S, times |-> T])
One(x)    == Chars(<<x>>, {x}, {1})
Some(x)   == Chars(<<x, "+">>, {x}, 1 .. 5)
Many(x)   == Chars(<<x, "*">>, {x}, 0 .. 5)
May(x)    == Chars(<<x, "?">>, {x}, 0 .. 1)
Not(x)    == Chars(<<"^", x>>, Every \ {x}, {1})
Quoted    == Chars(<<"\\", "*">>, {"*"}, {1})
Dot       == Chars(<<".">>, Every, {1})
Class(w, S) == Chars(<<"[">> \o w \o <<"]">>, S, {1})
Open      == Piece(<<"(">>, [kind |-> "("])
Close     == Piece(<<")">>, [kind |-> ")"])

\* Parts that have no character in common, the last of them a group or a class.
Distinct(parts) ==
  /\ Last(parts) # One("b")
  /\ \A i, j \in {i \in DOMAIN parts : parts[i].item.kind = "char"} :
       i # j => parts[i].item.among \cap parts[j].item.among = {}
Pattern(parts) ==
  [text |-> FlattenSeq([i \in DOMAIN parts |-> parts[i].text]),
   items |-> [i \in DOMAIN parts |-> parts[i].item], distinct |-> Distinct(parts)]
Balanced(parts) ==
  Cardinality({i \in DOMAIN parts : parts[i] = Open}) = Cardinality({i \in DOMAIN parts : parts[i] = Close})
PartLists ==
  {<<x, Open, y, Close>> : x \in {One("a"), Some("a"), Many("a"), May("a"), Not("a"), Quoted},
                           y \in {One("b"), Some("b"), One("a"), Not("b"), Some("a")}}
  \cup {<<One("a"), Open, y, z, Close>> : y \in {Many("b"), May("b"), Some("b"), Open},
                                          z \in {Many("c"), May("c"), One("c"), Some("b"), Close}}
  \cup {<<One("a"), Open, One("b"), Open, Many("c"), Close, May("b"), Close>>,
        <<One("a"), Open, Open, Open, Close, Close, Close>>, <<One("a"), Open, Close, Some("b"), Open, Close>>,
        <<Class(<<"b", "-", "c", "\\", "*">>, {"b", "c", "*"})>>, <<Class(<<"^", "a", "-", "b">>, {"c", "*"})>>,
        <<Class(<<"a", "[", "c", "-", "\\", "*">>, {"a", "c", "*"})>>, <<One("a"), One("b")>>}
MCPatterns == {Pattern(parts) : parts \in {p \in PartLists : Balanced(p)}}
MCDotted   == {Pattern(<<One("a"), Open, Dot, Close>>)}
Texts == UNION {[1 .. n -> Every] : n \in 1 .. 4}
Code  == [x \in Every |-> CHOOSE i \in DOMAIN Letters : Letters[i] = x]
X == INSTANCE Regex WITH MAX_CAPTURE <- 3

\* Every flag, widths to both sides, precisions of either sign and none, numbers at
\* the ends of the lengths, one directive and two, in rooms of each size.
Directive(spec, arg) ==
  [spec |-> spec, arg |-> arg, flags |-> {}, width |-> 0, precision |-> -1, length |-> "",
   starred |-> {}, stars |-> <<>>]
Sized(d, z) ==
  [d EXCEPT !.width = z.width, !.precision = z.precision, !.starred = z.starred, !.stars = z.stars]
Sizes(w, p) ==
  [starred : {{}}, stars : {<<>>}, width : {0, w}, precision : {-1, 0, p}]
  \cup [starred : {{"width"}}, stars : {<<-w>>}, width : {0}, precision : {-1, p}]
  \cup [starred : {{"width", "precision"}}, stars : {<<p, -w>>, <<-p, w>>}, width : {0}, precision : {-1}]
Numbers ==
  {[Sized(Directive(spec, arg), z) EXCEPT !.flags = f, !.length = n] :
     spec \in {"d", "u", "x", "X", "b", "o"}, arg \in {0, -1, 130, 60007}, f \in SUBSET {"-", "+", "0", "#"},
     z \in Sizes(6, 3), n \in {"", "h"}}
Abc == <<"a", "b", "c">>
Words ==
  {Directive("text", Abc), Directive("%", 0), Directive("c", "z"), Directive("?", 0)}
  \cup {[Sized(Directive("s", Abc), z) EXCEPT !.flags = f] : z \in Sizes(5, 2), f \in {{}, {"-"}}}
Unfinished == Directive("unfinished", 0)
Made(fmts, caps) == [maker : {"format"}, fmt : fmts, cap : caps]
MCCalls ==
  Made({<<d>> : d \in Numbers \cup Words \cup {Unfinished}}, {40})
  \cup Made({<<d, e>> : d \in Words \cup {Directive("d", -7), Directive("x", 130)},
                        e \in Words \cup {Directive("d", 5), Unfinished}}, {0, 1, 2, 5, 6, 9})
  \cup [maker : {"hex", "bin"}, fmt : {0, 9, 171, 4095}, cap : {0}]
BitsOf == [hh |-> 4, h |-> 6, int |-> 8, l |-> 16]
F == INSTANCE StringFormat WITH Calls <- MCCalls, Bits <- BitsOf, Part <- 100, PartDigits <- 2

\* Structures of up to four fields, one with a name that is empty and one with no
\* type, with two records
\* each; what is read is all of it or ends anywhere.
Flag == [type |-> "i8", name |-> <<"a">>]
Long == [type |-> "i32", name |-> <<"b", "c">>]
Name == [type |-> "string", name |-> <<"t">>]
Bare == [type |-> "i8", name |-> <<>>]
None == [type |-> "none", name |-> <<"n">>]
Records ==
  {[fields |-> <<>>, items |-> <<>>, lossy |-> FALSE], [fields |-> <<Flag, Bare>>, items |-> <<>>, lossy |-> FALSE],
   [fields |-> <<Flag, None>>, items |-> <<>>, lossy |-> FALSE]}
  \cup [fields : {<<Flag>>}, items : {<< <<7>>, <<9>> >>}, lossy : BOOLEAN]
  \cup [fields : {<<Flag, Name>>}, lossy : BOOLEAN,
        items : {<< <<7, <<"x", "y">> >>, <<9, <<>> >> >>, << <<7, <<>> >>, <<7, <<"x">> >> >>}]
  \cup [fields : {<<Flag, Name, Long>>, <<Long, Name, Long>>}, lossy : BOOLEAN,
        items : {<< <<7, <<"x">>, 3>>, <<9, <<>>, 1>> >>}]
  \cup [fields : {<<Flag, Name, Long, Flag>>}, lossy : BOOLEAN,
        items : {<< <<7, <<"x">>, 3, 2>>, <<9, <<>>, 1, 2>> >>}]
SizeOf == [i8 |-> 1, i32 |-> 2]
S == INSTANCE Serial WITH Long <- 2, Chunk <- 2

R == INSTANCE MCText
Reading == which \in {"tokens", "json", "formats"}

-----------------------------------------------------------------------------
CInit ==
  /\ which \in Kinds
  /\ IF which = "moves" THEN Init ELSE d8 = <<>> /\ s8 = <<>> /\ shift = <<>> /\ lo = <<>>
  /\ IF which = "words" THEN W!Init ELSE l = <<>> /\ r = <<>> /\ val = <<>>
  /\ which \notin {"moves", "words"} => mem = <<>> /\ was = <<>> /\ count = <<>>
  /\ IF which = "inflate" THEN I!Init
     ELSE /\ stream = <<>> /\ part = <<>> /\ pos = <<>> /\ size = <<>> /\ cur_block = <<>>
          /\ final_block = <<>> /\ head = <<>> /\ lens = <<>> /\ last_code_len = <<>>
          /\ litlen_tree = <<>> /\ dist_tree = <<>>
  /\ IF which = "queue" THEN H!Init ELSE entries = <<>> /\ heap = <<>> /\ root = <<>>
  /\ IF which = "regex" THEN X!Init
     ELSE search = <<>> /\ nodes = <<>> /\ c = <<>> /\ scan = <<>> /\ results = <<>>
  /\ IF which = "format" THEN F!Init ELSE read = <<>>
  /\ IF which = "serial" THEN S!Init
     ELSE /\ job = <<>> /\ structure = <<>> /\ bytes = <<>> /\ cursor = <<>> /\ stage = <<>>
          /\ answer = <<>>
  /\ IF Reading THEN R!Init
     ELSE /\ ts = <<>> /\ taken = <<>> /\ wanted = <<>> /\ docs = <<>> /\ held = <<>>
          /\ spilled = <<>> /\ found = <<>>
  /\ (which # "serial" /\ ~Reading) => given = <<>>
  /\ which \notin {"moves", "words", "format"} => call = <<>>
  /\ which \notin {"words", "inflate", "queue", "format"} => out = <<>>
  /\ (Reading \/ which \in {"format", "serial"}) => at = "none"

SearchStep ==
  /\ which = "regex" /\ X!Next
  /\ UNCHANGED <<which, call, out, read, given, moving, memory, words, inflating, queueing, serial, texts>>

\* What none but the texts change.
TextsStay == UNCHANGED texts

CNext ==
  /\ which' = which
  /\ \/ which = "moves" /\ Next /\ TextsStay
        /\ UNCHANGED <<out, read, given, words, inflating, queueing, searching, serial>>
     \/ which = "words" /\ W!Next /\ TextsStay
        /\ UNCHANGED <<read, given, moving, inflating, queueing, searching, serial>>
     \/ which = "inflate" /\ I!Next /\ TextsStay
        /\ UNCHANGED <<call, read, given, moving, memory, words, queueing, searching, serial>>
     \/ which = "queue" /\ H!Next /\ TextsStay
        /\ UNCHANGED <<call, read, given, moving, memory, words, inflating, searching, serial>>
     \/ SearchStep
     \/ which = "format" /\ F!Next /\ TextsStay
        /\ UNCHANGED <<at, given, moving, memory, words, inflating, queueing, searching, serial>>
     \/ which = "serial" /\ S!Next /\ TextsStay
        /\ UNCHANGED <<call, out, at, read, moving, memory, words, inflating, queueing, searching>>
     \/ Reading /\ R!Next
        /\ UNCHANGED <<call, out, at, read, moving, memory, words, inflating, queueing, searching, serial>>

\* A search is one call that runs until it returns: nothing takes its processor for good.
CSpec == CInit /\ [][CNext]_allVars /\ WF_allVars(SearchStep)

-----------------------------------------------------------------------------
\* A move leaves at its destination what the source held (memory.c:239-380, 586-827).
MovedOnly == which = "moves" => TypeOK /\ Moved

\* Fills, reversals, comparisons and searches of memory do what byte by byte ones
\* would (memory.c:3-237, 382-584, 829-895).
Served == which = "words" => W!Served

\* A stream that other programs write is decoded to what they wrote (deflate.c:83-359).
Inflated == which = "inflate" => I!Inflated

\* The queue serves the least first, and the codes that are built with it make an
\* input as short as codes can (p_queue.c:4-41, huffman.c:71-110).
Optimal == which = "queue" => H!Remembers /\ H!Optimal

\* A search reports what the pattern means and misses nothing that it means
\* (regex.c:228-303).
Searched == which = "regex" => X!Sound /\ X!Complete

\* A dot stands for any character (regex.h:18).
AnyMatches == which = "regex" => X!AnyMatches

\* What was written, as text or as bytes, is read back as it was, in whatever room
\* (string.c:329-1003, binary_serial.c:76-141), and what a text was put together from
\* is found in it (url.c:4-141, userinfo.c:4-29, query_string.c:5-56, percent.c:4-36,
\* csv.c:6-34, toml.c:5-88).
ReadBack ==
  /\ which = "format" => F!CutToFit /\ F!WideEnough /\ F!NumberReadBack
  /\ which = "serial" => S!RecordsReadBack
  /\ R!ReadBack

\* Clients are given every token once and in order (token_stream.c:8-47,
\* tokenizer.c:11-74, 422-487), and each is as long as its kind allows
\* (tokenizer.c:80-211, 262-327).
InOrder == R!InOrder

\* Every block belongs to one document, whatever step of a call failed, unless a
\* copy went on without a block (json.c:12-372, 488-575).
Owned == R!Owned

\* A document is the same when it is parsed from its text and when it is copied,
\* but for what the code does not write as it reads it (json.c:59-117, 187-277,
\* 536-707).
Reproduced == R!Reproduced

\* No text keeps a search from ending (regex.c:228-303).
Halts == which = "regex" ~> at \in {"over", "stopped"}
=============================================================================

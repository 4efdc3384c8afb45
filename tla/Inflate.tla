-------------------------------- MODULE Inflate --------------------------------
(***************************************************************************)
(* compression/deflate.c with the trees of compression/huffman.c: a stream *)
(* of bits is read block by block into an output buffer.  A stream may     *)
(* come in two parts, one per call.                                        *)
(***************************************************************************)
EXTENDS Integers, Sequences, FiniteSets, FiniteSetsExt

CONSTANTS Streams,  \* what clients decode: the parts, and what they hold
          Word,     \* bytes that memcpy moves at a time
          Unknown   \* what memcpy makes of bytes it has not written yet

VARIABLES stream, part, pos, \* the next bit of the part
          size,              \* bytes of the part the call reckons with
          out, cur_block, final_block,
          at,
          head,              \* of the block
          lens, last_code_len, litlen_tree, dist_tree
vars == <<stream, part, pos, size, out, cur_block, final_block, at, head, lens,
          last_code_len, litlen_tree, dist_tree>>
trees == <<lens, last_code_len, litlen_tree, dist_tree>>

NoHead == [final |-> 0, btype |-> 0, hlit |-> 0, hdist |-> 0, hclen |-> 0]

Init ==
  /\ stream \in Streams /\ part = 1 /\ pos = 0 /\ size = 0
  /\ out = <<>> /\ cur_block = 0 /\ final_block = 0 /\ at = "call" /\ head = NoHead
  /\ lens = <<>> /\ last_code_len = 0 /\ litlen_tree = <<>> /\ dist_tree = <<>>

-----------------------------------------------------------------------------
\* READ_BITS: n bits from bit p on, the lowest first.
Input     == stream.parts[part]
There(p, n) == p + n <= Len(Input)
Bits(p, n)  == MapThenSumSet(LAMBDA i : Input[p + i + 1] * 2 ^ i, 0 .. n - 1)
Byte(p)     == Bits(p, 8)

\* What is behind the part is not the client's: the model goes no further.
Stop(x) ==
  /\ at' = x
  /\ UNCHANGED <<stream, part, pos, size, out, cur_block, final_block, head, trees>>

-----------------------------------------------------------------------------
\* deflate_decode_codes: lengths[i] is that of symbol i - 1.  The codes of one
\* length follow each other, behind those of the shorter ones.
bl_count(lengths, n) == Cardinality({i \in DOMAIN lengths : lengths[i] = n})

next_code(lengths, max) ==
  LET f[b \in 0 .. max] ==
        IF b <= 1 THEN 0 ELSE (f[b - 1] + bl_count(lengths, b - 1)) * 2
  IN  f

\* huffman_populate follows the bits of a code from the highest.  A tree is what
\* its nodes with a value hold, by the way to them.
Way(code, n) == [k \in 1 .. n |-> (code \div 2 ^ (n - k)) % 2]

Populated(lengths, first) ==
  LET Used == {i \in DOMAIN lengths : lengths[i] > 0}
      at_(i) == Way(first[lengths[i]]
                      + Cardinality({j \in Used : j < i /\ lengths[j] = lengths[i]}),
                    lengths[i])
      ways == [i \in Used |-> at_(i)]
  IN  [w \in {ways[i] : i \in Used} |-> Max({i \in Used : ways[i] = w}) - 1]

deflate_decode_codes(max, lengths) == Populated(lengths, next_code(lengths, max))

IsPrefix(v, w) == Len(v) <= Len(w) /\ SubSeq(w, 1, Len(v)) = v
IsNode(tree, w) == w = <<>> \/ \E v \in DOMAIN tree : IsPrefix(w, v)
IsLeaf(tree, w) == IsNode(tree, w) /\ ~\E v \in DOMAIN tree : IsPrefix(w, v) /\ v # w
Entry(tree, w)  == IF w \in DOMAIN tree THEN tree[w] ELSE 0

\* The symbol whose code begins at p: at the first leaf, or nowhere in the tree,
\* or cut off by the end of the part.
Ways(p, n) == SubSeq(Input, p + 1, p + n)
Ends(tree, p, least) ==
  {n \in least .. 16 :
     There(p, n) /\ (IsLeaf(tree, Ways(p, n)) \/ ~IsNode(tree, Ways(p, n)))}
Symbol(tree, p, least) ==
  LET n == Min(Ends(tree, p, least))
  IN  IF Ends(tree, p, least) = {} THEN [is |-> "lost"]
      ELSE IF ~IsNode(tree, Ways(p, n)) THEN [is |-> "fail"]
      ELSE [is |-> "symbol", end |-> p + n, entry |-> Entry(tree, Ways(p, n))]

-----------------------------------------------------------------------------
\* deflate_decode: what is left of a stored block goes on in the next part.
Continue ==
  /\ at = "call" /\ cur_block > 0
  /\ LET had == Len(Input) \div 8
         n   == IF had < cur_block THEN had ELSE cur_block
     IN  /\ out' = out \o [i \in 1 .. n |-> Byte(8 * (i - 1))]
         /\ cur_block' = cur_block - n
         /\ at' = IF n >= had \/ final_block = 1 THEN "return" ELSE "block"
         /\ pos' = 8 * n /\ size' = had - n
  /\ head' = NoHead /\ UNCHANGED <<stream, part, final_block, trees>>

ZlibHeader ==
  /\ at = "call" /\ cur_block = 0
  /\ IF Bits(0, 4) # 8 THEN Stop("fail")
     ELSE /\ pos' = 16 /\ size' = (Len(Input) \div 8) - 2 /\ at' = "block" /\ head' = NoHead
          /\ UNCHANGED <<stream, part, out, cur_block, final_block, trees>>

\* The lengths of the trees are read whatever the type is, but for stored blocks.
Headed(p) ==
  LET b == Bits(p + 1, 2)
  IN  [final |-> Bits(p, 1), btype |-> b,
       hlit |-> Bits(p + 3, 5), hdist |-> Bits(p + 8, 5), hclen |-> Bits(p + 13, 4)]

Block ==
  /\ at = "block"
  /\ \/ head.final = 1 /\ Stop("return")
     \/ head.final = 0 /\ ~There(pos, 17) /\ Stop("lost")
     \/ /\ head.final = 0 /\ There(pos, 17)
        /\ head' = Headed(pos) /\ final_block' = head'.final
        /\ pos' = IF head'.btype = 0 THEN pos + 3 ELSE pos + 17
        /\ at' = CASE head'.btype = 0 -> "stored" [] head'.btype = 1 -> "static"
                   [] head'.btype = 2 -> "lengths" [] OTHER -> "fail"
        /\ UNCHANGED <<stream, part, size, out, cur_block, trees>>

\* deflate_uncommpressed: to the next byte, two lengths, and bytes.  What the
\* call reckons with is not less for what was read before.
Aligned(p) == ((p + 7) \div 8) * 8

Stored ==
  /\ at = "stored"
  /\ LET p    == Aligned(pos)
         max  == size - 4 - (IF p = pos THEN 0 ELSE 1)
         len  == Bits(p, 16)
         n    == IF len < max THEN len ELSE max
     IN  \/ ~There(p, 32) /\ Stop("lost")
         \/ There(p, 32) /\ len + Bits(p + 16, 16) # 65535 /\ Stop("fail")
         \/ /\ There(p, 32) /\ len + Bits(p + 16, 16) = 65535
            /\ IF ~There(p + 32, 8 * n) THEN Stop("lost")
               ELSE /\ out' = out \o [i \in 1 .. n |-> Byte(p + 24 + 8 * i)]
                    /\ pos' = p + 32 + 8 * n /\ cur_block' = len - n
                    /\ at' = CASE n = 0 -> "fail"
                               [] n > 0 /\ (head.final = 1 \/ len > n) -> "return"
                               [] OTHER -> "block"
                    /\ UNCHANGED <<stream, part, size, final_block, head, trees>>

-----------------------------------------------------------------------------
\* The code of the code lengths, whose own lengths come in this order.
code_order == <<16, 17, 18, 0, 8, 7, 9, 6, 10, 5, 11, 4, 12, 3, 13, 2, 14, 1, 15>>
Permuted(n) ==
  [c \in 1 .. 19 |->
     LET k == CHOOSE k \in 1 .. 19 : code_order[k] = c - 1
     IN  IF k <= n THEN Bits(pos + 3 * (k - 1), 3) ELSE 0]

Lengths ==
  /\ at = "lengths"
  /\ IF ~There(pos, 3 * (head.hclen + 4)) THEN Stop("lost")
     ELSE /\ litlen_tree' = deflate_decode_codes(8, Permuted(head.hclen + 4))
          /\ pos' = pos + 3 * (head.hclen + 4) /\ at' = "codes"
          /\ lens' = <<>> /\ last_code_len' = 0
          /\ UNCHANGED <<stream, part, size, out, cur_block, final_block, head, dist_tree>>

Again(n, x) == [i \in 1 .. n |-> x]

Total == head.hlit + head.hdist + 258

\* Code 16 repeats the last length that was written out.
Repeated(s) ==
  CASE s.entry = 16 -> Again(Bits(s.end, 2) + 3, last_code_len)
    [] s.entry = 17 -> Again(Bits(s.end, 3) + 3, 0)
    [] s.entry = 18 -> Again(Bits(s.end, 7) + 11, 0)
    [] OTHER -> <<s.entry>>
Extra(s) == CASE s.entry = 16 -> 2 [] s.entry = 17 -> 3 [] s.entry = 18 -> 7 [] OTHER -> 0

\* The tree of the code lengths is in the place of the one it is read for.
Codes ==
  /\ at = "codes" /\ Len(lens) < Total
  /\ \E s \in {Symbol(litlen_tree, pos, 1)} :
       IF s.is # "symbol" THEN Stop(s.is)
       ELSE IF ~There(s.end, Extra(s)) THEN Stop("lost")
       ELSE /\ lens' = lens \o Repeated(s)
            /\ last_code_len' = IF s.entry <= 15 THEN s.entry ELSE last_code_len
            /\ pos' = s.end + Extra(s)
            /\ UNCHANGED <<stream, part, size, out, cur_block, final_block, at, head,
                           litlen_tree, dist_tree>>

Built ==
  /\ at = "codes" /\ Len(lens) >= Total
  /\ IF Len(lens) > Total THEN Stop("lost")
     ELSE /\ litlen_tree' = deflate_decode_codes(15, SubSeq(lens, 1, head.hlit + 257))
          /\ dist_tree' = deflate_decode_codes(15, SubSeq(lens, head.hlit + 258, Total))
          /\ at' = "data" /\ lens' = <<>>
          /\ UNCHANGED <<stream, part, pos, size, out, cur_block, final_block, head,
                         last_code_len>>

\* Fixed codes.  The lengths of the distances are not all of one length, as they
\* are in the streams, and longer than the codes that are made: no tree stands
\* for them, and the model goes no further.
Static == at = "static" /\ Stop("lost")

-----------------------------------------------------------------------------
base_lengths == <<3, 4, 5, 6, 7, 8, 9, 10, 11, 13, 15, 17, 19, 23, 27, 31, 35, 43, 51, 59,
                  67, 83, 99, 115, 131, 163, 195, 227, 258>>
dist_bases == [d \in 0 .. 29 |-> IF d < 4 THEN d + 1
                                 ELSE (2 ^ ((d \div 2) - 1)) * (IF d % 2 = 0 THEN 2 ELSE 3) + 1]

ExtraToTheEnd(val) == IF val > 264 THEN (val - 261) \div 4 ELSE 0

ExtraLength(val) == IF val > 264 /\ val < 285 THEN (val - 261) \div 4 ELSE 0
ExtraDistance(d) == IF d > 3 THEN (d - 2) \div 2 ELSE 0

\* memcpy within the output.  Bytes that repeat what is only just written may be
\* read before that, where words are put together from two.
Copies(distance, length) ==
  LET from == Len(out) - distance
      over == [j \in 1 .. length |-> out[from + 1 + ((j - 1) % distance)]]
  IN  {out \o over}
      \cup (IF length > distance /\ length >= 2 * Word /\ distance % Word # 0
            THEN {out \o [over EXCEPT ![distance + 1] = Unknown]} ELSE {})

BackReference(val, p) ==
  LET xl == ExtraLength(val)
  IN  IF val > 285 \/ ~There(p, xl) THEN Stop("lost")
      ELSE \E d \in {Symbol(dist_tree, p + xl, 0)} :
        IF d.is # "symbol" THEN Stop(d.is)
        ELSE IF d.entry > 29 \/ ~There(d.end, ExtraDistance(d.entry)) THEN Stop("lost")
        ELSE LET length   == base_lengths[val - 256] + Bits(p, xl)
                 distance == dist_bases[d.entry] + Bits(d.end, ExtraDistance(d.entry))
             IN  IF distance > Len(out) THEN Stop("lost")
                 ELSE /\ out' \in Copies(distance, length)
                      /\ pos' = d.end + ExtraDistance(d.entry)
                      /\ UNCHANGED <<stream, part, size, cur_block, final_block, at, head,
                                     trees>>

\* deflate_block
Data ==
  /\ at = "data"
  /\ \E s \in {Symbol(litlen_tree, pos, 1)} :
       \/ s.is # "symbol" /\ Stop(s.is)
       \/ /\ s.is = "symbol" /\ s.entry < 256 /\ out' = Append(out, s.entry) /\ pos' = s.end
          /\ UNCHANGED <<stream, part, size, cur_block, final_block, at, head, trees>>
       \/ /\ s.is = "symbol" /\ s.entry = 256 /\ pos' = s.end /\ at' = "block"
          /\ litlen_tree' = <<>> /\ dist_tree' = <<>>
          /\ UNCHANGED <<stream, part, size, out, cur_block, final_block, head, lens,
                         last_code_len>>
       \/ s.is = "symbol" /\ s.entry > 256 /\ BackReference(s.entry, s.end)

\* A client with more of the stream calls again.
Return ==
  /\ at = "return"
  /\ IF part = Len(stream.parts) THEN Stop("done")
     ELSE /\ part' = part + 1 /\ at' = "call"
          /\ UNCHANGED <<stream, pos, size, out, cur_block, final_block, head, trees>>

Next ==
  \/ Continue \/ ZlibHeader \/ Block \/ Stored \/ Lengths \/ Codes \/ Built \/ Static
  \/ Data \/ Return

Spec == Init /\ [][Next]_vars

-----------------------------------------------------------------------------
\* What a stream of stored and dynamic blocks holds comes out whole, with every
\* shape of code, run of lengths, extra bit and reference back, and cut in two
\* anywhere in a first stored block: without fixed codes, empty stored blocks, a
\* length repeated after a run of zeros, and long repetitions
\* (deflate.c:21-66, 95-182, 186-346).
Over == at \in {"done", "fail", "lost"}
Inflated == Over /\ stream.plain => at = "done" /\ out = stream.text
=============================================================================

-------------------------------- MODULE Huffman --------------------------------
(***************************************************************************)
(* The queue of data/struct/p_queue.c as a value, an array in the order of *)
(* insertion that remembers the place of its least value, and its clients: *)
(* one of no special order, and the Huffman trees of                       *)
(* compression/huffman.c, which are built from the counts of the bytes of  *)
(* an input.                                                               *)
(***************************************************************************)
EXTENDS Integers, Sequences, SequencesExt, FiniteSets, FiniteSetsExt

CONSTANTS Most,      \* UINT64_MAX
          Room,      \* max_size
          Values,    \* what a client inserts
          Inputs,    \* how often the bytes come in an input, for each byte in it
          EntrySpan  \* the numbers a uint16_t holds

VARIABLES entries, heap, root, at, out
vars == <<entries, heap, root, at, out>>

\* The array without what is behind its size; places are counted from 0.
p_queue_create ==
  [array |-> <<>>, max_priority |-> Most, max_priority_index |-> 0]

Count(h) == Len(h.array)

p_queue_insert(h, ptr, value) ==
  IF Count(h) = Room THEN h
  ELSE [array |-> Append(h.array, [ptr |-> ptr, val |-> value]),
        max_priority |-> IF value < h.max_priority THEN value ELSE h.max_priority,
        max_priority_index |-> IF value < h.max_priority THEN Count(h)
                               ELSE h.max_priority_index]

LastLeast(a, had) ==
  LET S == {i \in DOMAIN a : \A j \in DOMAIN a : a[i].val <= a[j].val}
  IN  IF S = {} THEN had ELSE (CHOOSE i \in S : \A j \in S : i >= j) - 1

\* The first place of a least value below most, else the place it had.
FirstLeast(a, had) ==
  LET S == {i \in DOMAIN a : a[i].val < Most /\ \A j \in DOMAIN a : a[i].val <= a[j].val}
  IN  IF S = {} THEN had ELSE (CHOOSE i \in S : \A j \in S : i <= j) - 1

\* Of a queue that is not empty: the item, and the queue without it.
p_queue_pop(h) ==
  LET a == RemoveAt(h.array, h.max_priority_index + 1)
      i == FirstLeast(a, h.max_priority_index)
  IN  [item  |-> h.array[h.max_priority_index + 1].ptr,
       queue |-> [array |-> a, max_priority_index |-> i,
                  max_priority |-> IF i + 1 \in DOMAIN a THEN a[i + 1].val ELSE Most]]

\* The least value is looked for from one that was never set.
p_queue_peek(h) == {0, FirstLeast(h.array, 0)}

-----------------------------------------------------------------------------
Leaf(b, n) == [entry |-> n, byte |-> b, sons |-> <<>>]

Init ==
  /\ heap = p_queue_create /\ root = <<>> /\ out = <<>>
  /\ \/ at = "queue" /\ entries = <<>>
     \/ at = "leaves" /\ entries \in Inputs

\* The number of an item is its order of insertion.
Insert ==
  /\ at = "queue" /\ Len(entries) < Room + 1
  /\ \E v \in Values : /\ heap' = p_queue_insert(heap, Len(entries) + 1, v)
                       /\ entries' = Append(entries, v)
  /\ UNCHANGED <<root, at, out>>

Pop ==
  /\ at = "queue" /\ Count(heap) > 0
  /\ \E p \in {p_queue_pop(heap)} : heap' = p.queue /\ out' = <<p.item>>
  /\ UNCHANGED <<entries, root, at>>

Peek ==
  /\ at = "queue" /\ Count(heap) > 0
  /\ \E i \in p_queue_peek(heap) : out' = <<heap.array[i + 1].ptr>>
  /\ UNCHANGED <<entries, heap, root, at>>

-----------------------------------------------------------------------------
\* huff_build_tree: a leaf for each byte, in the order of the bytes.
Leaves ==
  /\ at = "leaves"
  /\ heap' = FoldLeft(LAMBDA h, b : p_queue_insert(h, Leaf(b, entries[b] % EntrySpan),
                                                   entries[b]),
                      heap, [b \in DOMAIN entries |-> b])
  /\ at' = "join" /\ UNCHANGED <<entries, root, out>>

\* huff_make_node
Node(l, r) == [entry |-> (l.entry + r.entry) % EntrySpan, byte |-> 0, sons |-> <<l, r>>]

Join ==
  /\ at = "join" /\ Count(heap) > 1
  /\ \E p \in {p_queue_pop(heap)} : \E q \in {p_queue_pop(p.queue)} :
       \E n \in {Node(p.item, q.item)} : heap' = p_queue_insert(q.queue, n, n.entry)
  /\ UNCHANGED <<entries, root, at, out>>

Root ==
  /\ at = "join" /\ Count(heap) = 1
  /\ \E p \in {p_queue_pop(heap)} : heap' = p.queue /\ root' = p.item
  /\ at' = "codes" /\ UNCHANGED <<entries, out>>

\* huff_calc_code, of a node at a depth with a value of eight bits: what is
\* printed for each byte.
RECURSIVE huff_calc_code(_, _, _)
huff_calc_code(n, value, depth) ==
  IF n.sons = <<>> THEN {[byte |-> n.byte, code |-> value \div 2, depth |-> depth]}
  ELSE huff_calc_code(n.sons[1], (value * 2) % 256, depth + 1)
         \cup huff_calc_code(n.sons[2], ((value + 1) * 2) % 256, depth + 1)

Codes ==
  /\ at = "codes" /\ out' = huff_calc_code(root, 0, 0) /\ at' = "done"
  /\ UNCHANGED <<entries, heap, root>>

Next == Insert \/ Pop \/ Peek \/ Leaves \/ Join \/ Root \/ Codes

Spec == Init /\ [][Next]_vars

-----------------------------------------------------------------------------
\* The place that is remembered is that of the item to serve next: the first of
\* the least, however insertions and pops were mixed (p_queue.c:4-41).
Remembers ==
  Count(heap) > 0 =>
    /\ heap.max_priority_index = FirstLeast(heap.array, 0)
    /\ heap.max_priority = heap.array[heap.max_priority_index + 1].val

\* The codes that are printed tell bytes apart, and no code makes an input
\* shorter, as long as its length can be counted in a node (huffman.c:71-110).
Total  == MapThenSumSet(LAMBDA b : entries[b], DOMAIN entries)
Depths == {d \in [DOMAIN entries -> 0 .. Len(entries) - 1] :
             MapThenSumSet(LAMBDA b : 2 ^ (Len(entries) - d[b]), DOMAIN entries)
               <= 2 ^ Len(entries)}
Cost(d) == MapThenSumSet(LAMBDA b : entries[b] * d[b], DOMAIN entries)
Optimal ==
  at = "done" =>
    /\ \A c, e \in out :
         c # e /\ c.depth <= e.depth => c.code # e.code \div 2 ^ (e.depth - c.depth)
    /\ Total < EntrySpan =>
         \A d \in Depths :
           MapThenSumSet(LAMBDA c : entries[c.byte] * c.depth, out) <= Cost(d)
=============================================================================

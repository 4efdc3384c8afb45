--------------------------------- MODULE Ring ---------------------------------
(***************************************************************************)
(* The ring buffers: CRingBuffer of data/struct/ring_buffer.c and the      *)
(* template RingBuffer of data/struct/ring_buffer.hpp, which adds the      *)
(* copies of many elements at once, in up to two segments.  head = tail    *)
(* says that the ring is empty or full; the flag says which.               *)
(***************************************************************************)
EXTENDS Integers, Sequences

CONSTANTS Items,     \* the elements
          Unset,     \* what is in a slot nobody wrote yet
          Capacity,
          MaxBatch   \* bound of the model: elements per call of push_buf

VARIABLES data, head, tail, full,
          offered,   \* the argument of the last push
          out        \* what the last pop gave
vars == <<data, head, tail, full, offered, out>>

Min(a, b) == IF a < b THEN a ELSE b

Init ==
  /\ data = [i \in 0 .. Capacity - 1 |-> Unset]
  /\ head = 0 /\ tail = 0 /\ full = FALSE
  /\ offered = <<>> /\ out = <<>>

is_empty == ~full /\ head = tail

size == IF full THEN Capacity
        ELSE IF head >= tail THEN head - tail ELSE Capacity + head - tail

\* An end of the ring moves on by n slots.
AdvancedUnwrapped(at, n) == at + n

Advanced(at, n) == (at + n) % Capacity

\* memcpy into the slots from `at` on.
Copy(d, at, s) ==
  [i \in DOMAIN d |-> IF i \in at .. at + Len(s) - 1 THEN s[i - at + 1] ELSE d[i]]

Slice(at, n) == [i \in 1 .. n |-> data[at + i - 1]]

-----------------------------------------------------------------------------
push(x) ==
  /\ ~full
  /\ data' = [data EXCEPT ![head] = x]
  /\ head' = Advanced(head, 1)
  /\ full' = (head' = tail)
  /\ offered' = <<x>> /\ UNCHANGED <<tail, out>>

pop ==
  /\ ~is_empty
  /\ out' = <<data[tail]>>
  /\ tail' = Advanced(tail, 1) /\ full' = FALSE
  /\ UNCHANGED <<data, head, offered>>

\* The room up to the end of the array, or up to tail.
RoomAhead == IF ~full /\ head < tail THEN tail - head ELSE Capacity - head

push_buf(s) ==
  LET to    == Min(Len(s), Capacity - size)
      first == Min(to, RoomAhead)
      mid   == Advanced(head, first)
      rem   == to - first
  IN  /\ s # <<>> /\ size < Capacity
      /\ data' = Copy(Copy(data, head, SubSeq(s, 1, first)),
                      mid, SubSeq(s, first + 1, to))
      /\ head' = Advanced(mid, rem)
      /\ full' = (head' = tail)
      /\ offered' = s /\ UNCHANGED <<tail, out>>

\* The elements up to the end of the array, or up to head.
Run == IF full \/ tail >= head THEN Capacity - tail ELSE head - tail

pop_buf(n) ==
  LET to    == Min(n, size)
      first == Min(to, Run)
      mid   == Advanced(tail, first)
      rem   == to - first
  IN  /\ n # 0 /\ size # 0
      /\ out' = Slice(tail, first) \o Slice(mid, rem)
      /\ tail' = Advanced(mid, rem) /\ full' = FALSE
      /\ UNCHANGED <<data, head, offered>>

clear ==
  /\ head' = 0 /\ tail' = 0 /\ full' = FALSE
  /\ UNCHANGED <<data, offered, out>>

Push    == \E x \in Items : push(x)
PushBuf == \E n \in 1 .. MaxBatch : \E s \in [1 .. n -> Items] : push_buf(s)
PopBuf  == \E n \in 1 .. Capacity + 1 : pop_buf(n)

Next == Push \/ pop \/ PushBuf \/ PopBuf \/ clear

Spec == Init /\ [][Next]_vars

-----------------------------------------------------------------------------
\* The type invariant: the two ends stay on the array, and no path leaves the
\* flag of a full ring behind once an element is taken out.
TypeOK ==
  /\ data \in [0 .. Capacity - 1 -> Items \cup {Unset}]
  /\ head \in 0 .. Capacity - 1 /\ tail \in 0 .. Capacity - 1
  /\ full \in BOOLEAN /\ (full => head = tail)

\* Clients see a queue, whatever calls of the two kinds they mix and however
\* the copies wrap around the end of the array (ring_buffer.hpp:17-64); no slot
\* that was never written is ever read.
items == [i \in 1 .. size |-> data[Advanced(tail, i - 1)]]

FifoSpec == INSTANCE Fifo WITH bound <- Capacity, scarce <- FALSE
ImplementsFifo == FifoSpec!Spec
=============================================================================

-------------------------------- MODULE CQueue --------------------------------
(***************************************************************************)
(* The queue of data/struct/queue.c: a circular buffer that either has a   *)
(* fixed capacity or grows when it is full.  Memory may run out at any     *)
(* request for it.                                                         *)
(***************************************************************************)
EXTENDS Integers, Sequences

CONSTANTS Items,        \* the elements
          Unset,        \* what is in a slot nobody wrote yet
          Limits,       \* max_capacity of a queue, 0 for one that grows
          LengthBound   \* bound of the model: elements in a queue that grows

VARIABLES q,       \* the fields of struct CQueue
          offered, \* the argument of the last enqueue
          out      \* what the last dequeue gave
vars == <<q, offered, out>>

Null     == <<>>
Fresh(n) == [i \in 0 .. n - 1 |-> Unset]
Empty(b, n, m) ==
  [buffer |-> b, capacity |-> n, max_capacity |-> m,
   head |-> 0, tail |-> 0, length |-> 0]

\* cqueue_init: a fixed queue takes its memory at once, and may not get it.
Init ==
  /\ \E m \in Limits : \E b \in {Fresh(m), Null} : q = Empty(b, m, m)
  /\ offered = <<>> /\ out = <<>>

\* The larger buffer starts with the oldest element.
UnrolledInPlace(n) ==
  [i \in 0 .. n - 1 |-> IF i < q.length THEN q.buffer[i] ELSE Unset]

Unrolled(n) ==
  [i \in 0 .. n - 1 |->
     IF i < q.length THEN q.buffer[(q.tail + i) % q.capacity] ELSE Unset]

Grown ==
  LET n == IF q.capacity = 0 THEN 4 ELSE q.capacity * 2
  IN  [q EXCEPT !.buffer = Unrolled(n), !.capacity = n,
                !.head = q.length, !.tail = 0]

\* The queue with room for one more, if there is a way to have one.
Ready ==
  IF q.length # q.capacity THEN {q} ELSE IF q.max_capacity > 0 THEN {} ELSE {Grown}

Written(r, x) ==
  [r EXCEPT !.buffer = [@ EXCEPT ![r.head] = x],
            !.head = (@ + 1) % r.capacity, !.length = @ + 1]

\* A queue that grows is refused the memory, or a fixed one has none.
NoMemory == q.length = q.capacity \/ q.buffer = Null

cqueue_enqueue(x) ==
  /\ offered' = <<x>> /\ out' = out
  /\ \/ \E r \in Ready : r.buffer # Null /\ q' = Written(r, x)
     \/ NoMemory /\ q' = q

Enqueue == q.length < LengthBound /\ \E x \in Items : cqueue_enqueue(x)

cqueue_dequeue ==
  /\ q.length # 0 /\ q.buffer # Null
  /\ out' = <<q.buffer[q.tail]>> /\ offered' = offered
  /\ q' = [q EXCEPT !.tail = (@ + 1) % q.capacity, !.length = @ - 1]

cqueue_clear ==
  /\ q' = [q EXCEPT !.head = 0, !.tail = 0, !.length = 0]
  /\ UNCHANGED <<offered, out>>

cqueue_destroy == q' = Empty(Null, 0, q.max_capacity) /\ UNCHANGED <<offered, out>>

Next == Enqueue \/ cqueue_dequeue \/ cqueue_clear \/ cqueue_destroy

Spec == Init /\ [][Next]_vars

-----------------------------------------------------------------------------
\* The type invariant: the slots and the two ends fit together: between tail and
\* head lie length elements, and no index ever leaves the buffer.
TypeOK ==
  /\ q.buffer # Null => /\ q.buffer \in [0 .. q.capacity - 1 -> Items \cup {Unset}]
                        /\ q.head < q.capacity /\ q.tail < q.capacity
                        /\ q.head = (q.tail + q.length) % q.capacity
  /\ q.buffer = Null => q.head = 0 /\ q.tail = 0 /\ q.length = 0
  /\ {q.capacity, q.max_capacity, q.head, q.tail, q.length} \subseteq Nat
  /\ q.length <= q.capacity

\* Clients see a queue: growing while the elements are wrapped around the end
\* of the buffer neither loses nor reorders any (queue.c:39-56).
items == [i \in 1 .. q.length |-> q.buffer[(q.tail + i - 1) % q.capacity]]

FifoSpec == INSTANCE Fifo WITH
              bound <- IF q.max_capacity = 0 THEN LengthBound ELSE q.max_capacity,
              scarce <- TRUE
ImplementsFifo == FifoSpec!Spec
=============================================================================

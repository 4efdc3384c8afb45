------------------------------ MODULE DoubleList ------------------------------
(***************************************************************************)
(* The circular doubly linked list of data/struct/double_linked_list.c.    *)
(* Any request for a node may fail.                                        *)
(***************************************************************************)
EXTENDS Integers, Sequences, FiniteSets, FiniteSetsExt

CONSTANTS Nodes, Nil, Data

VARIABLES list, out
vars == <<list, out>>

EmptyList ==
  [head |-> Nil, tail |-> Nil, length |-> 0,
   next |-> [n \in Nodes |-> Nil], prev |-> [n \in Nodes |-> Nil],
   data |-> [n \in Nodes |-> Nil]]

Init == list = EmptyList /\ out = [op |-> "none"]

\* The first k nodes met from n on, one way or the other.
Walk(f, n, k) ==
  LET node[i \in 1 .. k] ==
        IF i = 1 THEN n ELSE IF node[i - 1] = Nil THEN Nil ELSE f[node[i - 1]]
  IN  [i \in 1 .. k |-> node[i]]
InOrder(l) == Walk(l.next, l.head, l.length)

\* The first place of a node or a value in a sequence, 0 if it has none.
Place(s, x) == IF x \in Range(s) THEN Min({i \in DOMAIN s : s[i] = x}) ELSE 0

Free(l)   == Nodes \ Range(InOrder(l))
Fresh(l)  == CHOOSE n \in Free(l) : TRUE
DataOf(l) == [i \in DOMAIN InOrder(l) |-> l.data[InOrder(l)[i]]]
contents  == DataOf(list)

\* The node that zalloc gives, or Nil.
Spare(l) == IF Free(l) = {} THEN {Nil} ELSE {Nil, Fresh(l)}

Freed(l, n) == [l EXCEPT !.next[n] = Nil, !.prev[n] = Nil, !.data[n] = Nil]

-----------------------------------------------------------------------------
First(l, new, d) ==
  [l EXCEPT !.data[new] = d, !.next[new] = new, !.prev[new] = new,
            !.head = new, !.tail = new, !.length = 1]

\* A new node between the tail and the head of a list that is not empty.
Around(l, new, d) ==
  [l EXCEPT !.data[new] = d, !.next[new] = l.head, !.prev[new] = l.tail,
            !.prev[l.head] = new, !.next[l.tail] = new, !.length = @ + 1]

push_front(l, new, d) ==
  IF l.length = 0 THEN First(l, new, d) ELSE [Around(l, new, d) EXCEPT !.head = new]

push_back(l, new, d) ==
  IF l.length = 0 THEN First(l, new, d) ELSE [Around(l, new, d) EXCEPT !.tail = new]

\* The last node still followed by the one that was the first.
ClosedBehind(l) == [l EXCEPT !.prev[l.head] = l.tail]

\* The links across the ends of the list.
Closed(l) == [l EXCEPT !.prev[l.head] = l.tail, !.next[l.tail] = l.head]

pop_front(l) ==
  Freed(IF l.length = 1 THEN [l EXCEPT !.head = Nil, !.tail = Nil, !.length = 0]
        ELSE Closed([l EXCEPT !.head = l.next[l.head], !.length = @ - 1]), l.head)

pop_back(l) ==
  Freed(IF l.length = 1 THEN [l EXCEPT !.head = Nil, !.tail = Nil, !.length = 0]
        ELSE Closed([l EXCEPT !.tail = l.prev[l.tail], !.length = @ - 1]), l.tail)

insert_after(l, n, new, d) ==
  IF n = Nil THEN push_front(l, new, d)
  ELSE LET u == [l EXCEPT !.prev[l.next[n]] = new]
       IN  [u EXCEPT !.data[new] = d, !.next[new] = l.next[n], !.prev[new] = n,
                     !.next[n] = new,
                     !.tail = IF @ = n THEN new ELSE @, !.length = @ + 1]

\* Before the head is after the tail, which becomes the new node.
insert_before(l, n, new, d) ==
  IF n = Nil THEN push_back(l, new, d) ELSE insert_after(l, l.prev[n], new, d)

remove(l, n) ==
  IF n = l.head THEN pop_front(l)
  ELSE IF n = l.tail THEN pop_back(l)
  ELSE LET u == [l EXCEPT !.next[l.prev[n]] = l.next[n]]
       IN  Freed([u EXCEPT !.prev[l.next[n]] = l.prev[n], !.length = @ - 1], n)

-----------------------------------------------------------------------------
NoNode == list' = list /\ out' = [op |-> "miss"]

PushFront ==
  \E d \in Data, m \in Spare(list) :
    IF m = Nil THEN NoNode
    ELSE /\ list' = push_front(list, m, d)
         /\ out' = [op |-> "insert", at |-> 0, data |-> d]

PushBack ==
  \E d \in Data, m \in Spare(list) :
    IF m = Nil THEN NoNode
    ELSE /\ list' = push_back(list, m, d)
         /\ out' = [op |-> "insert", at |-> list.length, data |-> d]

InsertAfter ==
  \E d \in Data, m \in Spare(list), n \in Range(InOrder(list)) :
    IF m = Nil THEN NoNode
    ELSE /\ list' = insert_after(list, n, m, d)
         /\ out' = [op |-> "insert", at |-> Place(InOrder(list), n), data |-> d]

\* What is inserted before the head ends up last: it becomes the tail.
InsertBefore ==
  \E d \in Data, m \in Spare(list), n \in Range(InOrder(list)) :
    IF m = Nil THEN NoNode
    ELSE /\ list' = insert_before(list, n, m, d)
         /\ out' = [op |-> "insert", data |-> d,
                    at |-> IF n = list.head THEN list.length ELSE Place(InOrder(list), n) - 1]

PopFront ==
  IF list.length = 0 THEN NoNode
  ELSE /\ list' = pop_front(list)
       /\ out' = [op |-> "remove", at |-> 1, data |-> list.data[list.head]]

PopBack ==
  IF list.length = 0 THEN NoNode
  ELSE /\ list' = pop_back(list)
       /\ out' = [op |-> "remove", at |-> list.length, data |-> list.data[list.tail]]

TakeOut ==
  \E n \in Range(InOrder(list)) :
    /\ list' = remove(list, n)
    /\ out' = [op |-> "remove", at |-> Place(InOrder(list), n), data |-> list.data[n]]

Update ==
  \E n \in Range(InOrder(list)), d \in Data :
    /\ list' = [list EXCEPT !.data[n] = d]
    /\ out' = [op |-> "update", at |-> Place(InOrder(list), n), data |-> d]

Find ==
  \E d \in Data :
    list' = list /\ out' = [op |-> "find", at |-> Place(contents, d), data |-> d]

\* A clone leaves out the elements it gets no node for.
Appended(s, had) ==
  LET clone[i \in 0 .. Len(s)] ==
        IF i = 0 THEN EmptyList
        ELSE LET l == clone[i - 1] IN IF i \in had THEN push_back(l, Fresh(l), s[i]) ELSE l
  IN  clone[Len(s)]

Clone ==
  \E had \in SUBSET DOMAIN contents :
    /\ list' = Appended(contents, had)
    /\ out' = [op |-> "copy", data |-> list'.length]

Destroy == list' = EmptyList /\ out' = [op |-> "clear"]

Next ==
  PushFront \/ PushBack \/ InsertAfter \/ InsertBefore \/ PopFront \/ PopBack
    \/ TakeOut \/ Update \/ Find \/ Clone \/ Destroy

Spec == Init /\ [][Next]_vars

-----------------------------------------------------------------------------
\* The type invariant: both ways round the circle meet the same nodes, each once,
\* and the ends are where the circle closes (double_linked_list.c:51-159).
TypeOK ==
  LET s == InOrder(list)
  IN  /\ list.length = Cardinality(Range(s))
      /\ (list.length = 0) = (list.head = Nil) /\ (list.length = 0) = (list.tail = Nil)
      /\ list.length > 0 => s[Len(s)] = list.tail /\ list.next[list.tail] = list.head
      /\ Walk(list.prev, list.tail, list.length) = [i \in DOMAIN s |-> s[Len(s) - i + 1]]
=============================================================================

------------------------------ MODULE LinkedList ------------------------------
(***************************************************************************)
(* The singly linked list of data/struct/linked_list.c.  Every node that   *)
(* is asked for is had.                                                    *)
(***************************************************************************)
EXTENDS Integers, Sequences, FiniteSets, FiniteSetsExt

CONSTANTS Nodes, Nil,
          Data          \* what clients keep in a list, ordered for sorting

VARIABLES list, out
vars == <<list, out>>

EmptyList ==
  [head |-> Nil, tail |-> Nil, length |-> 0,
   next |-> [n \in Nodes |-> Nil], data |-> [n \in Nodes |-> Nil]]

Init == list = EmptyList /\ out = [op |-> "none"]

\* The nodes from the head on, until there is no next one.
InOrder(l) ==
  LET node[i \in 1 .. Cardinality(Nodes) + 1] ==
        IF i = 1 THEN l.head
        ELSE LET n == node[i - 1] IN IF n = Nil THEN Nil ELSE l.next[n]
  IN  [i \in 1 .. Cardinality({j \in 1 .. Cardinality(Nodes) : node[j] # Nil}) |-> node[i]]

\* The first place of a node or a value in a sequence, 0 if it has none.
Place(s, x) == IF x \in Range(s) THEN Min({i \in DOMAIN s : s[i] = x}) ELSE 0

Free(l)     == Nodes \ Range(InOrder(l))
Spare(l)    == CHOOSE n \in Free(l) : TRUE
DataOf(l)   == [i \in DOMAIN InOrder(l) |-> l.data[InOrder(l)[i]]]
contents    == DataOf(list)

\* A node goes back to the heap.
Freed(l, n) == [l EXCEPT !.next[n] = Nil, !.data[n] = Nil]

-----------------------------------------------------------------------------
linked_list_push_front(l, new, d) ==
  [l EXCEPT !.data[new] = d, !.next[new] = l.head, !.head = new,
            !.tail = IF @ = Nil THEN new ELSE @, !.length = @ + 1]

linked_list_pop_front(l) ==
  Freed([l EXCEPT !.head = l.next[l.head], !.length = @ - 1,
                  !.tail = IF l.next[l.head] = Nil THEN Nil ELSE @], l.head)

linked_list_insert_after(l, n, new, d) ==
  IF n = Nil THEN linked_list_push_front(l, new, d)
  ELSE [l EXCEPT !.data[new] = d, !.next[new] = l.next[n], !.next[n] = new,
                 !.tail = IF @ = n THEN new ELSE @, !.length = @ + 1]

\* The list may be asked for a node that it does not have.
Has(l, n) == n \in Range(InOrder(l))

linked_list_remove(l, n) ==
  IF ~Has(l, n) THEN l
  ELSE IF n = l.head THEN linked_list_pop_front(l)
  ELSE LET prev == CHOOSE p \in Range(InOrder(l)) : l.next[p] = n
       IN  Freed([l EXCEPT !.next[prev] = l.next[n], !.length = @ - 1,
                           !.tail = IF @ = n THEN prev ELSE @], n)

\* The loop of linked_list_clone.
Appended(s) ==
  LET clone[i \in 0 .. Len(s)] ==
        IF i = 0 THEN EmptyList
        ELSE LET l == clone[i - 1] IN linked_list_insert_after(l, l.tail, Spare(l), s[i])
  IN  clone[Len(s)]

-----------------------------------------------------------------------------
\* linked_list_sort.  Nil stands for the dummy node before the head.
After(l, p)   == IF p = Nil THEN l.head ELSE l.next[p]
Link(l, p, n) == IF p = Nil THEN [l EXCEPT !.head = n] ELSE [l EXCEPT !.next[p] = n]

less(l, a, b) == l.data[a] < l.data[b]

\* Where n goes in: in front of the first node that it is not less than.
Slot(l, n) ==
  LET s == InOrder(l)
      i == Min({j \in DOMAIN s : s[j] = n \/ ~less(l, n, s[j])})
  IN  IF i = 1 THEN Nil ELSE s[i - 1]

Moved(l, current, n) ==
  LET p == Slot(l, n)
      u == [l EXCEPT !.next[current] = l.next[n]]
  IN  Link([u EXCEPT !.next[n] = After(u, p)], p, n)

\* The loop, once round.
SortOne(at) ==
  LET l == at.list
      n == at.node
  IN  IF n = Nil THEN at
      ELSE IF less(l, n, at.current) THEN [at EXCEPT !.current = n, !.node = l.next[n]]
      ELSE LET v == Moved(l, at.current, n)
           IN  [at EXCEPT !.list = v, !.node = v.next[at.current]]

\* It looks at each node once.
Sorting(l) ==
  LET loop[i \in 0 .. Cardinality(Nodes)] ==
        IF i = 0 THEN [list |-> l, current |-> l.head, node |-> l.next[l.head]]
        ELSE SortOne(loop[i - 1])
  IN  loop[Cardinality(Nodes)].list

linked_list_sort(l) ==
  IF l.head = Nil \/ l.head = l.tail THEN l
  ELSE LET u == Sorting(l)
           s == InOrder(u)
       IN  [u EXCEPT !.tail = s[Len(s)]]

-----------------------------------------------------------------------------
PushFront ==
  \E d \in Data :
    /\ Free(list) # {}
    /\ list' = linked_list_push_front(list, Spare(list), d)
    /\ out' = [op |-> "insert", at |-> 0, data |-> d]

\* linked_list_push inserts after the tail.
InsertAfter ==
  \E d \in Data, n \in Range(InOrder(list)) \cup {Nil, list.tail} :
    /\ Free(list) # {}
    /\ list' = linked_list_insert_after(list, n, Spare(list), d)
    /\ out' = [op |-> "insert", at |-> Place(InOrder(list), n), data |-> d]

PopFront ==
  IF list.head = Nil THEN list' = list /\ out' = [op |-> "miss"]
  ELSE /\ list' = linked_list_pop_front(list)
       /\ out' = [op |-> "remove", at |-> 1, data |-> list.data[list.head]]

TakeOut ==
  \E n \in Nodes :
    /\ list' = linked_list_remove(list, n)
    /\ out' = IF Has(list, n)
              THEN [op |-> "remove", at |-> Place(InOrder(list), n), data |-> list.data[n]]
              ELSE [op |-> "miss"]

Update ==
  \E n \in Range(InOrder(list)), d \in Data :
    /\ list' = [list EXCEPT !.data[n] = d]
    /\ out' = [op |-> "update", at |-> Place(InOrder(list), n), data |-> d]

\* linked_list_get, whose index begins with 0.
Get ==
  \E i \in 1 .. Cardinality(Nodes) + 1 :
    /\ list' = list
    /\ out' = [op |-> "get", at |-> i,
               data |-> IF i \in DOMAIN contents THEN contents[i] ELSE Nil]

\* linked_list_find
Find ==
  \E d \in Data :
    list' = list /\ out' = [op |-> "find", at |-> Place(contents, d), data |-> d]

Sort == list' = linked_list_sort(list) /\ out' = [op |-> "sort"]

\* The client goes on with a clone, which has nodes of its own.
Clone == list' = Appended(contents) /\ out' = [op |-> "copy", data |-> list'.length]

\* linked_list_clear removes the tail until there is none.
Cleared(l) ==
  LET left[i \in 0 .. Cardinality(Nodes)] ==
        IF i = 0 THEN l
        ELSE LET u == left[i - 1] IN IF u.tail = Nil THEN u ELSE linked_list_remove(u, u.tail)
  IN  left[Cardinality(Nodes)]

Clear == list' = Cleared(list) /\ out' = [op |-> "clear"]

Next ==
  PushFront \/ InsertAfter \/ PopFront \/ TakeOut \/ Update \/ Get \/ Find \/ Sort
    \/ Clone \/ Clear

Spec == Init /\ [][Next]_vars

-----------------------------------------------------------------------------
\* The type invariant: the tail is the last node, which no node follows, and the
\* length the number of nodes, however the list was edited and sorted
\* (linked_list.c:63-188).
TypeOK ==
  LET s == InOrder(list)
  IN  /\ list.head \in Nodes \cup {Nil}
      /\ list.tail = (IF s = <<>> THEN Nil ELSE s[Len(s)])
      /\ s # <<>> => list.next[list.tail] = Nil
      /\ list.length = Len(s)
=============================================================================

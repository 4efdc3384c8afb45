------------------------------ MODULE ChunkArray ------------------------------
(***************************************************************************)
(* The array of chunks of data/struct/chunk_array.c, which stack.h takes   *)
(* for its stacks: chunks of a fixed size, each behind the one before.     *)
(* Every chunk that is asked for is had.                                   *)
(***************************************************************************)
EXTENDS Integers, Sequences, FiniteSetsExt

CONSTANTS Capacity,  \* chunk_capacity
          Data, Nil,
          MaxChunks  \* bound of the model

VARIABLES list,      \* the chunks in order
          out
vars == <<list, out>>

Chunk == [count |-> 0, items |-> [i \in 1 .. Capacity |-> Nil]]

Init == list = <<Chunk>> /\ out = [op |-> "none"]

\* A chunk whose count fell keeps what it held.
Held(c) == SubSeq(c.items, 1, c.count)
DataOf(a) ==
  LET from[i \in 1 .. Len(a) + 1] == IF i > Len(a) THEN <<>> ELSE Held(a[i]) \o from[i + 1]
  IN  from[1]
contents == DataOf(list)

\* The first place of a value in a sequence, 0 if it has none.
Place(s, x) == IF x \in Range(s) THEN Min({i \in DOMAIN s : s[i] = x}) ELSE 0

-----------------------------------------------------------------------------
Full(c) == c.count = Capacity

HasRoom(a, i) == ~Full(a[i]) /\ \A j \in 1 .. i - 1 : Full(a[j])

chunk_array_push(a, d) ==
  LET u == IF \A i \in DOMAIN a : Full(a[i]) THEN Append(a, Chunk) ELSE a
      i == CHOOSE j \in DOMAIN u : HasRoom(u, j)
  IN  [u EXCEPT ![i].items[u[i].count + 1] = d, ![i].count = @ + 1]

chunk_array_count(a) ==
  LET from[i \in 1 .. Len(a) + 1] == IF i > Len(a) THEN 0 ELSE a[i].count + from[i + 1]
  IN  from[1]

\* The number chunk_array_push gives: that of the elements up to the first chunk
\* with room.
Before(a) ==
  LET from[i \in 1 .. Len(a) + 1] ==
        IF i > Len(a) THEN 0
        ELSE IF Full(a[i]) THEN a[i].count + from[i + 1] ELSE a[i].count
  IN  from[1]

chunk_array_getByCount(a, index) ==
  LET from[i \in 1 .. Len(a) + 1] ==
        [x \in 0 .. index |->
           IF i > Len(a) THEN Nil
           ELSE IF x <= a[i].count THEN IF x < a[i].count THEN a[i].items[x + 1] ELSE Nil
           ELSE from[i + 1][x - a[i].count]]
  IN  from[1][index]

chunk_array_get(a, index) ==
  LET from[i \in 1 .. Len(a) + 1] ==
        [x \in 0 .. index |->
           IF i > Len(a) THEN Nil
           ELSE IF x < Capacity THEN IF x < a[i].count THEN a[i].items[x + 1] ELSE Nil
           ELSE from[i + 1][x - a[i].count]]
  IN  from[1][index]

\* How many of n elements that are to go the chunks from each on give up, the
\* last ones first.  A chunk without elements ends the array.
Taken(a, n) ==
  LET from[i \in 1 .. Len(a) + 1] ==
        IF i > Len(a) \/ a[i].count = 0 THEN 0
        ELSE LET behind == from[i + 1]
             IN  behind + (IF n - behind < a[i].count THEN n - behind ELSE a[i].count)
  IN  from

chunk_array_remove(a, n) ==
  LET taken == Taken(a, n)
  IN  [i \in DOMAIN a |->
         IF \A j \in 1 .. i : a[j].count > 0
         THEN [a[i] EXCEPT !.count = @ - (taken[i] - taken[i + 1])] ELSE a[i]]

-----------------------------------------------------------------------------
Push ==
  \E d \in Data :
    /\ \E c \in Range(list) : ~Full(c) \/ Len(list) < MaxChunks
    /\ list' = chunk_array_push(list, d)
    /\ out' = [op |-> "insert", at |-> Before(list), data |-> d]

Get ==
  \E index \in 0 .. MaxChunks * Capacity :
    /\ list' = list
    /\ out' = [op |-> "get", at |-> index + 1, data |-> chunk_array_get(list, index)]

TakeOff ==
  \E n \in 0 .. MaxChunks * Capacity :
    /\ list' = chunk_array_remove(list, n)
    /\ out' = [op |-> "drop", at |-> n, data |-> Taken(list, n)[1]]

\* chunk_array_find looks into the chunks in order.
Find ==
  \E d \in Data :
    list' = list /\ out' = [op |-> "find", at |-> Place(contents, d), data |-> d]

Reset ==
  /\ list' = [i \in DOMAIN list |-> [list[i] EXCEPT !.count = 0]]
  /\ out' = [op |-> "clear"]

Next == Push \/ Get \/ TakeOff \/ Find \/ Reset

Spec == Init /\ [][Next]_vars

-----------------------------------------------------------------------------
\* The type invariant: every chunk is full up to the one that is not, and the
\* ones behind it are empty (chunk_array.c:21-63, 80-84).
TypeOK ==
  /\ list # <<>> /\ \A i \in DOMAIN list : list[i].count \in 0 .. Capacity
  /\ \A i \in 2 .. Len(list) : list[i].count > 0 => Full(list[i - 1])
=============================================================================

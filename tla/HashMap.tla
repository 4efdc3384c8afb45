------------------------------- MODULE HashMap -------------------------------
(***************************************************************************)
(* A hash map of data/struct/hashmap.c and the calls of its clients.       *)
(***************************************************************************)
EXTENDS HashTable

VARIABLES map,  \* the hash_map_t
          out   \* what the last call returned
vars == <<map, out>>

Init == (\E c \in Requested : map = Created(c)) /\ out = None

Put ==
  \E k \in Keys, v \in Values : \E o \in hash_map_put(map, k, v) :
    map' = o.map /\ out' = o.ret

Get == \E k \in Keys : out' = hash_map_get(map, k) /\ map' = map

TakeOut ==
  \E k \in Keys :
    map' = hash_map_remove(map, k) /\ out' = hash_map_get(map, k)

\* hash_map_destroy, and a new map.
Recreate == (\E c \in Requested : map' = Created(c)) /\ out' = None

Next == Put \/ Get \/ TakeOut \/ Recreate

Spec == Init /\ [][Next]_vars

-----------------------------------------------------------------------------
\* The type invariant: what hash_map_put, hash_map_remove and the resizes leave
\* in the buckets are entries of inserted keys, once and under their hash, and
\* however puts, overwrites, removals and failures are mixed, chains stay short
\* (hashmap.c:147).
TypeOK ==
  /\ IsTable(map) /\ Consistent(map) /\ Loaded(map)
  /\ out \in Values \cup {None, -1, 0, 1}

\* Clients see a dictionary, whatever shares a bucket, before and after the
\* table grows, and when memory runs out half-way (hashmap.c:144-182).
contents == ContentsOf(map)
DictSpec == INSTANCE Dict
ImplementsDict == DictSpec!Spec
=============================================================================

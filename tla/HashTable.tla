------------------------------ MODULE HashTable ------------------------------
(***************************************************************************)
(* The chained hash map of data/struct/hashmap.c as a value: what each     *)
(* call makes of a map.  A bucket is the set of its entries: as no key is  *)
(* ever there twice, their order in the chain decides nothing.  Memory may *)
(* run out at any request for it.                                          *)
(***************************************************************************)
EXTENDS Integers, FiniteSets

CONSTANTS Keys, Values,
          None,       \* what a look-up of an absent key gives
          Hash,       \* hash_fn of each key
          Requested,  \* the initial capacities clients ask for
          Capacities  \* powers of two from 8: the greatest is a bound of the model

ASSUME HashAssumption == Hash \in [Keys -> Nat]
ASSUME CapacityAssumption ==
  /\ 8 \in Capacities /\ Capacities \subseteq Nat
  /\ \A c \in Capacities \ {8} : \E half \in Capacities : c = 2 * half
  /\ \A c \in Capacities : c >= 8
  /\ Requested \subseteq Nat
  /\ \A r \in Requested : \E c \in Capacities : r <= c

\* Bit tricks in the code: the least power of two, and 8 at least.
chm_next_pow2(x) ==
  CHOOSE c \in Capacities : x <= c /\ \A d \in Capacities : x <= d => c <= d

Threshold(cap) == (cap * 3) \div 4

Entry(k, v) == [key |-> k, hash |-> Hash[k], value |-> v]

\* hash_map_create: the map, once both of its blocks are there.
Created(requested) ==
  LET cap == chm_next_pow2(requested)
  IN  [buckets |-> [i \in 0 .. cap - 1 |-> {}], capacity |-> cap, size |-> 0,
       resize_threshold |-> Threshold(cap)]

Bucket(m, k) == m.buckets[Hash[k] % m.capacity]

\* The entry of key k, if it has one.
At(m, k) == {e \in Bucket(m, k) : e.hash = Hash[k] /\ e.key = k}

WithBucket(m, k, entries) == [m EXCEPT !.buckets[Hash[k] % m.capacity] = entries]

\* Doubling sends an entry of bucket i to i or to i + capacity.
MovedInPlace(m, j) == IF j < m.capacity THEN m.buckets[j] ELSE {}

MovedTo(m, j) == {e \in m.buckets[j % m.capacity] : e.hash % (2 * m.capacity) = j}

chm_resizeKeepingCapacity(m) ==
  LET cap == 2 * m.capacity
  IN  [m EXCEPT !.buckets = [j \in 0 .. cap - 1 |-> MovedTo(m, j)],
                !.resize_threshold = Threshold(cap)]

chm_resize(m) ==
  LET cap == 2 * m.capacity
  IN  [m EXCEPT !.buckets  = [j \in 0 .. cap - 1 |-> MovedTo(m, j)],
                !.capacity = cap,
                !.resize_threshold = Threshold(cap)]

Crowded(m) == m.size >= m.resize_threshold

\* The table grows before the key is looked up, and stays grown whatever
\* becomes of the request.
Roomy(m) ==
  IF ~Crowded(m) THEN {m}
  ELSE IF 2 * m.capacity \in Capacities THEN {chm_resize(m)} ELSE {}

\* What can come of a put into a table with room.
PutIn(m, k, v) ==
  IF At(m, k) # {}
  THEN {[map |-> WithBucket(m, k, (Bucket(m, k) \ At(m, k)) \cup {Entry(k, v)}),
         ret |-> 0]}
  ELSE {[map |-> [WithBucket(m, k, Bucket(m, k) \cup {Entry(k, v)})
                    EXCEPT !.size = @ + 1], ret |-> 1],
        [map |-> m, ret |-> -1]}

\* The results hash_map_put can have, with the map it leaves.
hash_map_put(m, k, v) ==
  (UNION {PutIn(r, k, v) : r \in Roomy(m)})
    \cup (IF Crowded(m) THEN {[map |-> m, ret |-> -1]} ELSE {})

hash_map_get(m, k) ==
  IF At(m, k) = {} THEN None ELSE (CHOOSE e \in At(m, k) : TRUE).value

hash_map_remove(m, k) ==
  IF At(m, k) = {} THEN m
  ELSE [WithBucket(m, k, Bucket(m, k) \ At(m, k)) EXCEPT !.size = @ - 1]

-----------------------------------------------------------------------------
EntriesOf(m) == UNION {m.buckets[i] : i \in 0 .. m.capacity - 1}

\* The dictionary that a table is to its clients.
ContentsOf(m) ==
  [k \in {e.key : e \in EntriesOf(m)} |-> (CHOOSE e \in EntriesOf(m) : e.key = k).value]

\* A table as the operations need it: every entry in the bucket of its hash, and
\* no key twice.
Consistent(m) ==
  \A i \in 0 .. m.capacity - 1 : \A e \in m.buckets[i] :
    /\ e.hash = Hash[e.key] /\ e.hash % m.capacity = i
    /\ \A f \in m.buckets[i] : f.key = e.key => f = e

\* The count that decides when the table grows is the number of entries, and
\* there are never more than three entries to four buckets.
Loaded(m) ==
  /\ m.resize_threshold = Threshold(m.capacity)
  /\ m.size = Cardinality(EntriesOf(m)) /\ m.size <= m.resize_threshold

Entries == [key : Keys, hash : Nat, value : Values]

IsTable(m) ==
  m \in [buckets  : [0 .. m.capacity - 1 -> SUBSET Entries], capacity : Capacities,
         size : Nat, resize_threshold : Nat]
=============================================================================

---------------------------- MODULE HashTableProofs ----------------------------
(***************************************************************************)
(* What the calls on a table do to its entries, for any keys, any hash and *)
(* any sizes, and that a map used through them alone stays a table.        *)
(***************************************************************************)
EXTENDS HashMap, FiniteSetTheorems, WellFoundedInduction, TLAPS

-----------------------------------------------------------------------------
\* Remainders, which the SMT solver knows only with the quotient spelt out.

LEMMA Quotient ==
  ASSUME NEW a \in Nat, NEW n \in Nat \ {0}
  PROVE  \E d \in Nat, r \in 0 .. n - 1 : a = n * d + r /\ a % n = r
OBVIOUS

LEMMA Remainder ==
  ASSUME NEW n \in Nat \ {0}, NEW d \in Nat, NEW r \in 0 .. n - 1
  PROVE  (n * d + r) % n = r
OBVIOUS

\* What is left by twice n leaves by n what all did.
LEMMA RemainderByHalf ==
  ASSUME NEW a \in Nat, NEW n \in Nat \ {0}
  PROVE  (a % (2 * n)) % n = a % n
<1>1. PICK d \in Nat, r \in 0 .. 2 * n - 1 : a = (2 * n) * d + r /\ a % (2 * n) = r
  BY Quotient
<1>2. CASE r < n
  <2>1. a = n * (2 * d) + r /\ r \in 0 .. n - 1 /\ 2 * d \in Nat
    BY <1>1, <1>2
  <2>2. a % n = r
    BY <2>1, Remainder
  <2>3. r % n = r
    BY <2>1, Remainder
  <2> QED
    BY <1>1, <2>2, <2>3
<1>3. CASE r >= n
  <2>1. a = n * (2 * d + 1) + (r - n) /\ r - n \in 0 .. n - 1 /\ 2 * d + 1 \in Nat
    BY <1>1, <1>3
  <2>2. a % n = r - n
    BY <2>1, Remainder
  <2>3. r = n * 1 + (r - n)
    BY <1>1
  <2>4. r % n = r - n
    BY <2>1, <2>3, Remainder
  <2> QED
    BY <1>1, <2>2, <2>4
<1> QED
  BY <1>1, <1>2, <1>3

\* A set of numbers that is not empty has a least one.
LEMMA LeastNumber ==
  ASSUME NEW S \in SUBSET Nat, S # {}
  PROVE  \E n \in S : \A m \in S : n <= m
<1> DEFINE T == {0 .. n : n \in S}
<1>1. T \subseteq FiniteSubsetsOf(Nat) /\ T # {}
  <2>1. \A n \in S : IsFiniteSet(0 .. n) /\ 0 .. n \subseteq Nat
    BY FS_Interval
  <2>2. \A x \in T : IsFiniteSet(x) /\ x \subseteq Nat
    BY <2>1
  <2> QED
    BY <2>2 DEF FiniteSubsetsOf
<1>2. PICK x \in T : \A y \in T : <<y, x>> \notin StrictSubsetOrdering(Nat)
  <2> HIDE DEF T
  <2> QED
    BY <1>1, WFMin, FS_StrictSubsetOrderingWellFounded
<1>3. PICK n \in S : x = 0 .. n
  OBVIOUS
<1>4. ASSUME NEW m \in S, m < n PROVE FALSE
  <2>1. 0 .. m \subseteq 0 .. n /\ 0 .. m # 0 .. n /\ 0 .. m \in T
    <3>1. n \in 0 .. n /\ n \notin 0 .. m
      BY <1>4
    <3> QED
      BY <1>4, <3>1
  <2>2. <<0 .. m, 0 .. n>> \in StrictSubsetOrdering(Nat)
    BY <2>1 DEF StrictSubsetOrdering
  <2> QED
    BY <1>2, <1>3, <2>1, <2>2
<1> QED
  BY <1>4

LEMMA NextPow2 ==
  ASSUME NEW x \in Nat, \E c \in Capacities : x <= c
  PROVE  chm_next_pow2(x) \in Capacities /\ x <= chm_next_pow2(x)
<1> DEFINE S == {c \in Capacities : x <= c}
<1>1. PICK c \in S : \A d \in S : c <= d
  BY LeastNumber, CapacityAssumption
<1>2. \E e \in Capacities : x <= e /\ \A d \in Capacities : x <= d => e <= d
  BY <1>1
<1> QED
  BY <1>2 DEF chm_next_pow2

-----------------------------------------------------------------------------
\* What a table is between two calls.
Good(m) == IsTable(m) /\ Consistent(m) /\ Loaded(m) /\ IsFiniteSet(EntriesOf(m))

LEMMA Sizes ==
  ASSUME NEW m, IsTable(m)
  PROVE  /\ m.capacity \in Nat /\ m.capacity >= 8 /\ m.capacity \in Capacities
         /\ m.size \in Nat /\ m.resize_threshold \in Nat
         /\ m.buckets \in [0 .. m.capacity - 1 -> SUBSET Entries]
BY CapacityAssumption DEF IsTable

LEMMA Place ==
  ASSUME NEW m, IsTable(m), NEW h \in Nat
  PROVE  h % m.capacity \in 0 .. m.capacity - 1
BY Sizes

\* What is looked up is the entry that has the key, and there is one at most.
LEMMA Lookup ==
  ASSUME NEW m, IsTable(m), Consistent(m), NEW k \in Keys
  PROVE  /\ At(m, k) = {e \in EntriesOf(m) : e.key = k}
         /\ \A e, f \in At(m, k) : e = f
         /\ At(m, k) \subseteq Bucket(m, k) /\ Bucket(m, k) \subseteq Entries
<1> DEFINE i == Hash[k] % m.capacity
<1>1. Hash[k] \in Nat
  BY HashAssumption
<1>2. i \in 0 .. m.capacity - 1
  BY <1>1, Place
<1>3. Bucket(m, k) = m.buckets[i] /\ m.buckets[i] \subseteq Entries
  BY <1>2, Sizes DEF Bucket
<1>4. m.buckets[i] \subseteq EntriesOf(m)
  BY <1>2 DEF EntriesOf
<1>5. ASSUME NEW e \in EntriesOf(m), e.key = k PROVE e \in At(m, k)
  <2>1. PICK j \in 0 .. m.capacity - 1 : e \in m.buckets[j]
    BY DEF EntriesOf
  <2>2. e.hash = Hash[k] /\ j = i
    BY <1>5, <2>1 DEF Consistent
  <2> QED
    BY <1>3, <1>5, <2>1, <2>2 DEF At
<1>6. \A e, f \in At(m, k) : e = f
  BY <1>2, <1>3 DEF At, Consistent
<1> QED
  BY <1>3, <1>4, <1>5, <1>6 DEF At

\* A look-up sees nothing of a table but the entries of its key.
LEMMA SameLookup ==
  ASSUME NEW m, IsTable(m), Consistent(m), NEW n, IsTable(n), Consistent(n),
         NEW k \in Keys,
         {e \in EntriesOf(m) : e.key = k} = {e \in EntriesOf(n) : e.key = k}
  PROVE  hash_map_get(m, k) = hash_map_get(n, k)
<1>1. At(m, k) = At(n, k)
  BY Lookup
<1> QED
  BY <1>1 DEF hash_map_get

LEMMA Got ==
  ASSUME NEW m, IsTable(m), Consistent(m), NEW k \in Keys
  PROVE  /\ (\A e \in EntriesOf(m) : e.key # k) => hash_map_get(m, k) = None
         /\ \A e \in EntriesOf(m) : e.key = k => hash_map_get(m, k) = e.value
<1>1. At(m, k) = {e \in EntriesOf(m) : e.key = k} /\ \A e, f \in At(m, k) : e = f
  BY Lookup
<1> QED
  BY <1>1 DEF hash_map_get

-----------------------------------------------------------------------------
\* The table that a call leaves, and its entries.

LEMMA CreatedGood ==
  ASSUME NEW c \in Requested
  PROVE  Good(Created(c)) /\ EntriesOf(Created(c)) = {}
<1> DEFINE cap == chm_next_pow2(c)  m == Created(c)
<1>1. cap \in Capacities /\ cap \in Nat /\ cap >= 8
  BY NextPow2, CapacityAssumption
<1>2. /\ m.capacity = cap /\ m.size = 0 /\ m.resize_threshold = Threshold(cap)
      /\ m.buckets = [i \in 0 .. cap - 1 |-> {}]
  BY DEF Created
<1>3. m = [buckets |-> [i \in 0 .. cap - 1 |-> {}], capacity |-> cap, size |-> 0,
           resize_threshold |-> Threshold(cap)]
  BY DEF Created
<1>4. EntriesOf(m) = {}
  BY <1>2 DEF EntriesOf
<1>5. Threshold(cap) \in Nat
  BY <1>1 DEF Threshold
<1> HIDE DEF cap, m
<1>6. IsTable(m)
  BY <1>1, <1>2, <1>3, <1>5 DEF IsTable
<1>7. Consistent(m)
  BY <1>2 DEF Consistent
<1>8. Loaded(m) /\ IsFiniteSet(EntriesOf(m))
  BY <1>2, <1>4, <1>5, FS_EmptySet DEF Loaded
<1> QED
  BY <1>4, <1>6, <1>7, <1>8 DEF Good, m

\* A bucket that is given other entries, all of the same place.
LEMMA EntriesWithBucket ==
  ASSUME NEW m, IsTable(m), Consistent(m), NEW k \in Keys,
         NEW B \in SUBSET Entries,
         \A e \in B : /\ e.hash = Hash[e.key]
                     /\ e.hash % m.capacity = Hash[k] % m.capacity
                     /\ \A f \in B : f.key = e.key => f = e,
         NEW n, IsTable(n), n.capacity = m.capacity,
         n.buckets = WithBucket(m, k, B).buckets
  PROVE  Consistent(n) /\ EntriesOf(n) = (EntriesOf(m) \ Bucket(m, k)) \cup B
<1> DEFINE i == Hash[k] % m.capacity
<1>1. i \in 0 .. m.capacity - 1
  BY HashAssumption, Place
<1>2. n.buckets = [m.buckets EXCEPT ![i] = B]
  BY DEF WithBucket, IsTable
<1>3. /\ n.buckets[i] = B
      /\ \A j \in 0 .. m.capacity - 1 : j # i => n.buckets[j] = m.buckets[j]
  BY <1>1, <1>2, Sizes
<1>4. Consistent(n)
  BY <1>1, <1>3 DEF Consistent
<1>5. \A j \in 0 .. m.capacity - 1 : j # i => m.buckets[j] \cap m.buckets[i] = {}
  BY <1>1 DEF Consistent
<1>6. Bucket(m, k) = m.buckets[i]
  BY DEF Bucket
<1>7. EntriesOf(n) = (EntriesOf(m) \ Bucket(m, k)) \cup B
  BY <1>1, <1>3, <1>5, <1>6 DEF EntriesOf
<1> QED
  BY <1>4, <1>7

\* Growing sends every entry to the bucket of its hash, and loses none.
LEMMA Resized ==
  ASSUME NEW m, Good(m), 2 * m.capacity \in Capacities
  PROVE  /\ Good(chm_resize(m)) /\ EntriesOf(chm_resize(m)) = EntriesOf(m)
         /\ ~Crowded(chm_resize(m))
<1> DEFINE cap == 2 * m.capacity  n == chm_resize(m)
<1>1. IsTable(m) /\ Consistent(m) /\ Loaded(m)
  BY DEF Good
<1>2. /\ n.buckets = [j \in 0 .. cap - 1 |-> MovedTo(m, j)] /\ n.capacity = cap
      /\ n.resize_threshold = Threshold(cap) /\ n.size = m.size
  BY <1>1 DEF chm_resize, IsTable
<1>3. m.capacity \in Nat /\ m.capacity >= 8 /\ cap \in Nat /\ m.size \in Nat
  BY <1>1, Sizes
<1>4. Threshold(cap) \in Nat /\ m.size < Threshold(cap)
  BY <1>1, <1>3 DEF Loaded, Threshold
<1>5. \A j \in 0 .. cap - 1 : /\ j % m.capacity \in 0 .. m.capacity - 1
                              /\ MovedTo(m, j) \subseteq m.buckets[j % m.capacity]
  BY <1>1, Place DEF MovedTo
<1>6. IsTable(n)
  <2> DEFINE b == [j \in 0 .. cap - 1 |-> MovedTo(m, j)]  t == Threshold(cap)
  <2>1. b \in [0 .. cap - 1 -> SUBSET Entries]
    BY <1>1, <1>5, Sizes
  <2>2. n = [m EXCEPT !.buckets = b, !.capacity = cap, !.resize_threshold = t]
    BY DEF chm_resize
  <2>3. cap \in Capacities /\ t \in Nat
    BY <1>4
  <2> HIDE DEF n, cap, b, t
  <2> QED
    BY <1>1, <2>1, <2>2, <2>3 DEF IsTable
<1>7. Consistent(n)
  <2> SUFFICES ASSUME NEW j \in 0 .. cap - 1, NEW e \in MovedTo(m, j), NEW f \in MovedTo(m, j)
               PROVE  /\ e.hash = Hash[e.key] /\ e.hash % cap = j
                      /\ f.key = e.key => f = e
    BY <1>2 DEF Consistent
  <2> QED
    BY <1>1, <1>5 DEF MovedTo, Consistent
<1>8. EntriesOf(n) = EntriesOf(m)
  <2>1. EntriesOf(n) \subseteq EntriesOf(m)
    BY <1>2, <1>5 DEF EntriesOf
  <2>2. ASSUME NEW i \in 0 .. m.capacity - 1, NEW e \in m.buckets[i]
        PROVE  e \in EntriesOf(n)
    <3>1. e.hash \in Nat /\ e.hash % m.capacity = i
      BY <1>1, <2>2, Sizes DEF Consistent, Entries
    <3>2. e.hash % cap \in 0 .. cap - 1
      BY <1>3, <3>1
    <3>3. (e.hash % cap) % m.capacity = i
      <4>1. m.capacity \in Nat \ {0}
        BY <1>3
      <4>2. (e.hash % (2 * m.capacity)) % m.capacity = e.hash % m.capacity
        BY <3>1, <4>1, RemainderByHalf
      <4> QED
        BY <3>1, <4>2
    <3>4. e \in MovedTo(m, e.hash % cap)
      BY <2>2, <3>3 DEF MovedTo
    <3> QED
      BY <1>2, <3>2, <3>4 DEF EntriesOf
  <2> QED
    BY <2>1, <2>2 DEF EntriesOf
<1>9. Loaded(n)
  BY <1>1, <1>2, <1>3, <1>4, <1>8 DEF Loaded
<1> HIDE DEF n, cap
<1> QED
  BY <1>1, <1>2, <1>3, <1>4, <1>6, <1>7, <1>8, <1>9 DEF Good, Crowded, n

LEMMA BucketChanged ==
  ASSUME NEW m, IsTable(m), NEW k \in Keys, NEW B \in SUBSET Entries
  PROVE  LET n == WithBucket(m, k, B)
         IN  /\ IsTable(n) /\ n.capacity = m.capacity /\ n.size = m.size
             /\ n.resize_threshold = m.resize_threshold
<1>1. Hash[k] % m.capacity \in 0 .. m.capacity - 1
  BY HashAssumption, Place
<1> QED
  BY <1>1 DEF WithBucket, IsTable

LEMMA SizeChanged ==
  ASSUME NEW m, IsTable(m), NEW s \in Nat
  PROVE  LET n == [m EXCEPT !.size = s]
         IN  /\ IsTable(n) /\ n.capacity = m.capacity /\ n.size = s
             /\ n.resize_threshold = m.resize_threshold /\ n.buckets = m.buckets
BY DEF IsTable

\* A put into a table with room.
LEMMA PutInRoom ==
  ASSUME NEW m, Good(m), ~Crowded(m), NEW k \in Keys, NEW v \in Values,
         NEW o \in PutIn(m, k, v)
  PROVE  /\ Good(o.map) /\ o.ret \in {-1, 0, 1}
         /\ o.ret = -1 => EntriesOf(o.map) = EntriesOf(m)
         /\ o.ret = 0 => \E e \in EntriesOf(m) : e.key = k
         /\ o.ret = 1 => \A e \in EntriesOf(m) : e.key # k
         /\ o.ret # -1 => EntriesOf(o.map) =
                            {e \in EntriesOf(m) : e.key # k} \cup {Entry(k, v)}
<1> DEFINE i == Hash[k] % m.capacity  new == Entry(k, v)
           Others == {e \in EntriesOf(m) : e.key # k}
           B == (Bucket(m, k) \ At(m, k)) \cup {new}
<1>1. IsTable(m) /\ Consistent(m) /\ Loaded(m) /\ IsFiniteSet(EntriesOf(m))
  BY DEF Good
<1>2. /\ At(m, k) = {e \in EntriesOf(m) : e.key = k}
      /\ \A e, f \in At(m, k) : e = f
      /\ At(m, k) \subseteq Bucket(m, k) /\ Bucket(m, k) \subseteq Entries
  BY <1>1, Lookup
<1>3. new \in Entries /\ new.key = k /\ new.hash = Hash[k]
  BY HashAssumption DEF Entry, Entries
<1>4. i \in 0 .. m.capacity - 1 /\ Bucket(m, k) = m.buckets[i]
  BY <1>1, HashAssumption, Place DEF Bucket
<1>5. Bucket(m, k) \subseteq EntriesOf(m)
  BY <1>4 DEF EntriesOf
<1>6. B \subseteq Entries
  BY <1>2, <1>3
<1>7. \A e \in B : /\ e.hash = Hash[e.key] /\ e.hash % m.capacity = i
                  /\ \A f \in B : f.key = e.key => f = e
  <2>1. \A e \in Bucket(m, k) : /\ e.hash = Hash[e.key] /\ e.hash % m.capacity = i
                               /\ \A f \in Bucket(m, k) : f.key = e.key => f = e
    BY <1>1, <1>4 DEF Consistent
  <2>2. \A e \in Bucket(m, k) \ At(m, k) : e.key # k
    BY <1>2, <1>5
  <2> QED
    BY <1>3, <2>1, <2>2
<1>8. (EntriesOf(m) \ Bucket(m, k)) \cup B = Others \cup {new}
  BY <1>2, <1>5
<1>9. IsFiniteSet(Others) /\ IsFiniteSet(Others \cup {new}) /\ new \notin Others
  BY <1>1, <1>3, FS_Subset, FS_AddElement
<1>10. CASE At(m, k) # {}
  <2> DEFINE n == WithBucket(m, k, B)
  <2>1. o.map = n /\ o.ret = 0
    BY <1>10 DEF PutIn
  <2>2. /\ n.capacity = m.capacity /\ n.size = m.size
        /\ n.resize_threshold = m.resize_threshold
    BY <1>1, <1>6, BucketChanged
  <2>3. IsTable(n)
    BY <1>1, <1>6, BucketChanged
  <2>4. Consistent(n) /\ EntriesOf(n) = Others \cup {new}
    <3>1. n.buckets = WithBucket(m, k, B).buckets
      OBVIOUS
    <3> HIDE DEF n, B, Others, new
    <3> QED
      BY <1>1, <1>6, <1>7, <1>8, <2>2, <2>3, <3>1, EntriesWithBucket
  <2>5. PICK old \in At(m, k) : At(m, k) = {old}
    BY <1>2, <1>10
  <2>6. EntriesOf(m) = Others \cup {old} /\ old \notin Others
    BY <1>2, <2>5
  <2>7. Cardinality(EntriesOf(n)) = Cardinality(EntriesOf(m))
    <3> HIDE DEF n, B, Others, new
    <3>1. Cardinality(Others \cup {new}) = Cardinality(Others) + 1
      BY <1>9, FS_AddElement
    <3>2. Cardinality(Others \cup {old}) = Cardinality(Others) + 1
      BY <1>9, <2>6, FS_AddElement
    <3> QED
      BY <2>4, <2>6, <3>1, <3>2
  <2>8. Loaded(n)
    BY <1>1, <2>2, <2>7 DEF Loaded
  <2> HIDE DEF n, B, Others, new
  <2> QED
    BY <1>2, <1>9, <2>1, <2>3, <2>4, <2>5, <2>8 DEF Good, new, Others
<1>11. CASE At(m, k) = {}
  <2> DEFINE w == WithBucket(m, k, Bucket(m, k) \cup {new})
             n == [w EXCEPT !.size = @ + 1]
  <2>1. o = [map |-> n, ret |-> 1] \/ o = [map |-> m, ret |-> -1]
    BY <1>11 DEF PutIn
  <2>2. Others = EntriesOf(m) /\ B = Bucket(m, k) \cup {new}
    BY <1>2, <1>11
  <2>3. CASE o = [map |-> m, ret |-> -1]
    BY <2>3
  <2>4. CASE o = [map |-> n, ret |-> 1]
    <3>0. /\ IsTable(w) /\ w.capacity = m.capacity /\ w.size = m.size
          /\ w.resize_threshold = m.resize_threshold
      BY <1>1, <1>6, <2>2, BucketChanged
    <3>1. /\ n.capacity = m.capacity /\ n.size = m.size + 1
          /\ n.resize_threshold = m.resize_threshold
          /\ n.buckets = WithBucket(m, k, B).buckets
      <4> HIDE DEF w
      <4>1. n.buckets = w.buckets
        BY <3>0, <1>1, Sizes, SizeChanged
      <4>2. w.buckets = WithBucket(m, k, B).buckets
        BY <2>2 DEF w
      <4> QED
        BY <3>0, <1>1, <4>1, <4>2, Sizes, SizeChanged
    <3>2. IsTable(n)
      <4> HIDE DEF w
      <4> QED
        BY <3>0, Sizes, SizeChanged
    <3>3. Consistent(n) /\ EntriesOf(n) = Others \cup {new}
      <4> HIDE DEF n
      <4> QED
        BY <1>1, <1>6, <1>7, <1>8, <3>1, <3>2, EntriesWithBucket
    <3>4. Cardinality(EntriesOf(n)) = Cardinality(EntriesOf(m)) + 1
      BY <1>9, <2>2, <3>3, FS_AddElement
    <3>5. Loaded(n)
      BY <1>1, <3>1, <3>4, Sizes DEF Loaded, Crowded
    <3>6. Good(n)
      <4> HIDE DEF n, Others, new
      <4> QED
        BY <1>9, <3>2, <3>3, <3>5 DEF Good
    <3>7. o.map = n /\ o.ret = 1
      BY <2>4
    <3>8. \A e \in EntriesOf(m) : e.key # k
      BY <1>2, <1>11
    <3> HIDE DEF n
    <3> QED
      BY <3>3, <3>6, <3>7, <3>8
  <2> QED
    BY <2>1, <2>3, <2>4
<1> QED
  BY <1>10, <1>11

\* The results of hash_map_put: whatever becomes of the memory, the table is one,
\* with the new entry in place of the old one, or with the same entries.
LEMMA PutGood ==
  ASSUME NEW m, Good(m), NEW k \in Keys, NEW v \in Values,
         NEW o \in hash_map_put(m, k, v)
  PROVE  /\ Good(o.map) /\ o.ret \in {-1, 0, 1}
         /\ o.ret = -1 => EntriesOf(o.map) = EntriesOf(m)
         /\ o.ret = 0 => \E e \in EntriesOf(m) : e.key = k
         /\ o.ret = 1 => \A e \in EntriesOf(m) : e.key # k
         /\ o.ret # -1 => EntriesOf(o.map) =
                            {e \in EntriesOf(m) : e.key # k} \cup {Entry(k, v)}
<1>1. CASE o = [map |-> m, ret |-> -1]
  BY <1>1
<1>2. CASE \E r \in Roomy(m) : o \in PutIn(r, k, v)
  <2>1. PICK r \in Roomy(m) : o \in PutIn(r, k, v)
    BY <1>2
  <2>2. Good(r) /\ ~Crowded(r) /\ EntriesOf(r) = EntriesOf(m)
    BY <2>1, Resized DEF Roomy
  <2> QED
    BY <2>1, <2>2, PutInRoom
<1> QED
  BY <1>1, <1>2 DEF hash_map_put

LEMMA RemoveGood ==
  ASSUME NEW m, Good(m), NEW k \in Keys
  PROVE  /\ Good(hash_map_remove(m, k))
         /\ EntriesOf(hash_map_remove(m, k)) = {e \in EntriesOf(m) : e.key # k}
<1> DEFINE i == Hash[k] % m.capacity  B == Bucket(m, k) \ At(m, k)
           Others == {e \in EntriesOf(m) : e.key # k}
<1>1. IsTable(m) /\ Consistent(m) /\ Loaded(m) /\ IsFiniteSet(EntriesOf(m))
  BY DEF Good
<1>2. /\ At(m, k) = {e \in EntriesOf(m) : e.key = k}
      /\ \A e, f \in At(m, k) : e = f
      /\ At(m, k) \subseteq Bucket(m, k) /\ Bucket(m, k) \subseteq Entries
  BY <1>1, Lookup
<1>3. CASE At(m, k) = {}
  BY <1>2, <1>3 DEF hash_map_remove
<1>4. CASE At(m, k) # {}
  <2> DEFINE w == WithBucket(m, k, B)  n == [w EXCEPT !.size = @ - 1]
  <2>1. hash_map_remove(m, k) = n
    BY <1>4 DEF hash_map_remove
  <2>2. i \in 0 .. m.capacity - 1 /\ Bucket(m, k) = m.buckets[i]
    BY <1>1, HashAssumption, Place DEF Bucket
  <2>3. PICK old \in At(m, k) : At(m, k) = {old}
    BY <1>2, <1>4
  <2>4. Others = EntriesOf(m) \ {old} /\ old \in EntriesOf(m)
    BY <1>2, <2>3
  <2>5. /\ IsFiniteSet(Others) /\ Cardinality(Others) = m.size - 1
        /\ Cardinality(Others) \in Nat
    BY <1>1, <2>4, FS_RemoveElement, FS_CardinalityType DEF Loaded
  <2>6. /\ IsTable(w) /\ w.capacity = m.capacity /\ w.size = m.size
        /\ w.resize_threshold = m.resize_threshold
    <3>1. B \in SUBSET Entries
      BY <1>2
    <3> QED
      BY <1>1, <3>1, BucketChanged
  <2>7. /\ IsTable(n) /\ n.capacity = m.capacity /\ n.size = m.size - 1
        /\ n.resize_threshold = m.resize_threshold
        /\ n.buckets = w.buckets
    <3> HIDE DEF w
    <3>1. m.size - 1 \in Nat
      BY <1>1, <2>5
    <3> QED
      BY <2>6, <3>1, SizeChanged
  <2>8. \A e \in B : /\ e.hash = Hash[e.key] /\ e.hash % m.capacity = i
                    /\ \A f \in B : f.key = e.key => f = e
    BY <1>1, <2>2 DEF Consistent
  <2>9. Consistent(n) /\ EntriesOf(n) = (EntriesOf(m) \ Bucket(m, k)) \cup B
    <3> HIDE DEF n
    <3>1. B \in SUBSET Entries
      BY <1>2
    <3> QED
      BY <1>1, <2>7, <2>8, <3>1, EntriesWithBucket
  <2>10. EntriesOf(n) = Others
    <3>1. Bucket(m, k) \subseteq EntriesOf(m)
      BY <2>2 DEF EntriesOf
    <3> HIDE DEF n
    <3> QED
      BY <1>2, <2>9, <3>1
  <2> HIDE DEF n, w, B, Others
  <2>11. Loaded(n)
    <3>1. m.size - 1 <= m.resize_threshold
      BY <1>1, Sizes DEF Loaded
    <3> QED
      BY <1>1, <2>5, <2>7, <2>10, <3>1 DEF Loaded
  <2> QED
    BY <2>1, <2>5, <2>7, <2>9, <2>10, <2>11 DEF Good, Others
<1> QED
  BY <1>3, <1>4

\* A walk over the table that drops the entries of some of its keys.
Filtered(m, K) ==
  [m EXCEPT !.buckets = [i \in DOMAIN @ |-> {e \in @[i] : e.key \notin K}],
            !.size = @ - Cardinality(K)]

LEMMA FilterGood ==
  ASSUME NEW m, Good(m), NEW K \in SUBSET {e.key : e \in EntriesOf(m)},
         NEW n, n = Filtered(m, K)
  PROVE  Good(n) /\ EntriesOf(n) = {e \in EntriesOf(m) : e.key \notin K}
<1> DEFINE Dropped == {e \in EntriesOf(m) : e.key \in K}
           Kept(i) == {e \in m.buckets[i] : e.key \notin K}
           b == [i \in 0 .. m.capacity - 1 |-> Kept(i)]
           c == m.size - Cardinality(K)
<1>1. IsTable(m) /\ Consistent(m) /\ Loaded(m) /\ IsFiniteSet(EntriesOf(m))
  BY DEF Good
<1>2. m.buckets \in [0 .. m.capacity - 1 -> SUBSET Entries]
  BY <1>1, Sizes
<1>3. \A e, f \in EntriesOf(m) : e.key = f.key => e = f
  <2> SUFFICES ASSUME NEW e \in EntriesOf(m), NEW f \in EntriesOf(m), e.key = f.key
               PROVE  e = f
    OBVIOUS
  <2>1. e.key \in Keys
    <3>1. PICK i \in 0 .. m.capacity - 1 : e \in m.buckets[i]
      BY DEF EntriesOf
    <3>2. e \in Entries
      BY <1>2, <3>1
    <3> QED
      BY <3>2 DEF Entries
  <2>2. e \in At(m, e.key) /\ f \in At(m, e.key)
    BY <1>1, <2>1, Lookup
  <2> QED
    BY <1>1, <2>1, <2>2, Lookup
<1>4. IsFiniteSet(Dropped)
  BY <1>1, FS_Subset
<1>5. Cardinality(K) = Cardinality(Dropped)
  <2> DEFINE f == [e \in Dropped |-> e.key]
  <2>1. f \in Bijection(Dropped, K)
    BY <1>3 DEF Bijection, Injection, Surjection, IsInjective
  <2> QED
    BY <1>4, <2>1, FS_Bijection DEF ExistsBijection
<1>6. EntriesOf(m) \ Dropped = {e \in EntriesOf(m) : e.key \notin K}
  OBVIOUS
<1>7. /\ IsFiniteSet(EntriesOf(m) \ Dropped)
      /\ Cardinality(EntriesOf(m) \ Dropped) = c
  <2>1. EntriesOf(m) \cap Dropped = Dropped
    OBVIOUS
  <2> HIDE DEF Dropped
  <2>2. Cardinality(EntriesOf(m) \ Dropped) = Cardinality(EntriesOf(m)) - Cardinality(Dropped)
    BY <1>1, <2>1, FS_Difference
  <2>3. IsFiniteSet(EntriesOf(m) \ Dropped)
    BY <1>1, FS_Difference
  <2> QED
    BY <1>1, <1>5, <2>2, <2>3 DEF Loaded
<1>8. c \in Nat /\ c <= m.resize_threshold
  <2>1. Cardinality(K) \in Nat
    BY <1>4, <1>5, FS_CardinalityType
  <2>2. c \in Nat
    BY <1>7, FS_CardinalityType
  <2> QED
    BY <1>1, <2>1, <2>2, Sizes DEF Loaded
<1>9. n = [m EXCEPT !.buckets = b, !.size = c]
  <2>1. DOMAIN m.buckets = 0 .. m.capacity - 1
    BY <1>2
  <2> QED
    BY <1>1, <2>1 DEF IsTable, Filtered
<1>10. b \in [0 .. m.capacity - 1 -> SUBSET Entries]
  BY <1>2
<1>11. /\ n.buckets = b /\ n.capacity = m.capacity /\ n.size = c
       /\ n.resize_threshold = m.resize_threshold /\ IsTable(n)
  <2> HIDE DEF b, c
  <2> QED
    BY <1>1, <1>8, <1>9, <1>10 DEF IsTable
<1>12. \A i \in 0 .. n.capacity - 1 : n.buckets[i] = Kept(i)
  BY <1>11
<1>13. Consistent(n)
  BY <1>1, <1>11, <1>12 DEF Consistent
<1>14. EntriesOf(n) = EntriesOf(m) \ Dropped
  <2>1. ASSUME NEW e \in EntriesOf(n) PROVE e \in EntriesOf(m) \ Dropped
    <3>1. PICK i \in 0 .. n.capacity - 1 : e \in n.buckets[i]
      BY DEF EntriesOf
    <3>2. e \in m.buckets[i] /\ e.key \notin K
      BY <1>12, <3>1
    <3> QED
      BY <1>11, <3>1, <3>2 DEF EntriesOf
  <2>2. ASSUME NEW e \in EntriesOf(m) \ Dropped PROVE e \in EntriesOf(n)
    <3>1. PICK i \in 0 .. m.capacity - 1 : e \in m.buckets[i]
      BY DEF EntriesOf
    <3>2. e \in n.buckets[i]
      BY <1>11, <1>12, <3>1
    <3> QED
      BY <1>11, <3>1, <3>2 DEF EntriesOf
  <2> QED
    BY <2>1, <2>2
<1> HIDE DEF Dropped, b, c
<1>15. Loaded(n)
  BY <1>1, <1>7, <1>8, <1>11, <1>14 DEF Loaded
<1> QED
  BY <1>6, <1>7, <1>11, <1>13, <1>14, <1>15 DEF Good

\* What look-ups give after a call: another value for its key alone.
LEMMA GotAfterPut ==
  ASSUME NEW m, Good(m), NEW k \in Keys, NEW v \in Values,
         NEW o \in hash_map_put(m, k, v), NEW l \in Keys
  PROVE  hash_map_get(o.map, l) = IF l = k /\ o.ret # -1 THEN v ELSE hash_map_get(m, l)
<1>1. Good(o.map)
  BY PutGood
<1>2. Entry(k, v).key = k /\ Entry(k, v).value = v
  BY DEF Entry
<1>3. CASE o.ret = -1
  <2>1. EntriesOf(o.map) = EntriesOf(m)
    BY <1>3, PutGood
  <2> QED
    BY <1>1, <1>3, <2>1, SameLookup DEF Good
<1>4. CASE o.ret # -1
  <2>1. EntriesOf(o.map) = {e \in EntriesOf(m) : e.key # k} \cup {Entry(k, v)}
    BY <1>4, PutGood
  <2>2. CASE l = k
    <3>1. Entry(k, v) \in EntriesOf(o.map)
      BY <2>1
    <3>2. hash_map_get(o.map, k) = Entry(k, v).value
      BY <1>1, <1>2, <3>1, Got DEF Good
    <3> QED
      BY <1>2, <1>4, <2>2, <3>2
  <2>3. CASE l # k
    <3>1. {e \in EntriesOf(m) : e.key = l} = {e \in EntriesOf(o.map) : e.key = l}
      BY <1>2, <2>1, <2>3
    <3> QED
      BY <1>1, <2>3, <3>1, SameLookup DEF Good
  <2> QED
    BY <2>2, <2>3
<1> QED
  BY <1>3, <1>4

LEMMA GotAfterRemove ==
  ASSUME NEW m, Good(m), NEW k \in Keys, NEW l \in Keys
  PROVE  hash_map_get(hash_map_remove(m, k), l) =
           IF l = k THEN None ELSE hash_map_get(m, l)
<1> DEFINE n == hash_map_remove(m, k)
<1>1. Good(n) /\ EntriesOf(n) = {e \in EntriesOf(m) : e.key # k}
  BY RemoveGood
<1> HIDE DEF n
<1>2. CASE l = k
  BY <1>1, <1>2, Got DEF Good, n
<1>3. CASE l # k
  <2>1. {e \in EntriesOf(m) : e.key = l} = {e \in EntriesOf(n) : e.key = l}
    BY <1>1, <1>3
  <2> QED
    BY <1>1, <1>3, <2>1, SameLookup DEF Good, n
<1> QED
  BY <1>2, <1>3

LEMMA GotAfterFilter ==
  ASSUME NEW m, Good(m), NEW n, Good(n), NEW K,
         EntriesOf(n) = {e \in EntriesOf(m) : e.key \notin K}, NEW l \in Keys
  PROVE  hash_map_get(n, l) = IF l \in K THEN None ELSE hash_map_get(m, l)
<1>1. CASE l \in K
  <2>1. \A e \in EntriesOf(n) : e.key # l
    BY <1>1
  <2> QED
    BY <1>1, <2>1, Got DEF Good
<1>2. CASE l \notin K
  <2>1. {e \in EntriesOf(m) : e.key = l} = {e \in EntriesOf(n) : e.key = l}
    BY <1>2
  <2> QED
    BY <1>2, <2>1, SameLookup DEF Good
<1> QED
  BY <1>1, <1>2

\* What is found is a value that was put in.
LEMMA GotValue ==
  ASSUME NEW m, Good(m), NEW k \in Keys
  PROVE  hash_map_get(m, k) \in Values \cup {None}
<1>1. EntriesOf(m) \subseteq Entries
  BY Sizes DEF EntriesOf, Good
<1> QED
  BY <1>1, Got DEF Good, Entries

-----------------------------------------------------------------------------
\* The map and its clients.

\* Strengthens the type invariant by what counting needs: as many entries as a
\* number can say.
MInv == TypeOK /\ IsFiniteSet(EntriesOf(map))

LEMMA MInvGood == MInv <=> Good(map) /\ out \in Values \cup {None, -1, 0, 1}
BY DEF MInv, Good, TypeOK

LEMMA MInvInit == Init => MInv
BY CreatedGood, MInvGood DEF Init

LEMMA MInvNext == MInv /\ [Next]_vars => MInv'
<1> SUFFICES ASSUME MInv, [Next]_vars PROVE Good(map') /\ out' \in Values \cup {None, -1, 0, 1}
  BY DEF MInv, Good, TypeOK
<1>1. Good(map) /\ out \in Values \cup {None, -1, 0, 1}
  BY MInvGood
<1>2. CASE Put
  BY <1>1, <1>2, PutGood DEF Put
<1>3. CASE Get
  BY <1>1, <1>3, GotValue DEF Get
<1>4. CASE TakeOut
  BY <1>1, <1>4, GotValue, RemoveGood DEF TakeOut
<1>5. CASE Recreate
  BY <1>5, CreatedGood DEF Recreate
<1>6. CASE UNCHANGED vars
  BY <1>1, <1>6 DEF vars
<1> QED
  BY <1>2, <1>3, <1>4, <1>5, <1>6 DEF Next

\* Whatever is put in, overwritten and removed and whenever memory runs out, the
\* entries of a map are under their hash, no key twice, and never more of them
\* than three to four buckets.
THEOREM MapTypeCorrect == Spec => []TypeOK
<1>1. MInv => TypeOK
  BY DEF MInv
<1> QED
  BY <1>1, MInvInit, MInvNext, PTL DEF Spec

-----------------------------------------------------------------------------
\* The map as a dictionary.

LEMMA ContentsGot ==
  ASSUME NEW m, Good(m)
  PROVE  /\ ContentsOf(m) = [k \in {e.key : e \in EntriesOf(m)} |-> hash_map_get(m, k)]
         /\ {e.key : e \in EntriesOf(m)} \subseteq Keys
<1>1. \A e \in EntriesOf(m) : e.key \in Keys
  BY Sizes DEF EntriesOf, Good, Entries
<1>2. ASSUME NEW k \in {e.key : e \in EntriesOf(m)}
      PROVE  (CHOOSE e \in EntriesOf(m) : e.key = k).value = hash_map_get(m, k)
  <2>1. PICK e \in EntriesOf(m) : e.key = k
    OBVIOUS
  <2>2. LET f == CHOOSE f \in EntriesOf(m) : f.key = k
        IN  f \in EntriesOf(m) /\ f.key = k
    BY <2>1
  <2> QED
    BY <1>1, <2>1, <2>2, Got DEF Good
<1> QED
  BY <1>1, <1>2 DEF ContentsOf

LEMMA ContentsAfterPut ==
  ASSUME NEW m, Good(m), NEW k \in Keys, NEW v \in Values,
         NEW o \in hash_map_put(m, k, v)
  PROVE  LET c == ContentsOf(m)
         IN  \/ o.ret = -1 /\ ContentsOf(o.map) = c
             \/ /\ o.ret = (IF k \in DOMAIN c THEN 0 ELSE 1)
                /\ ContentsOf(o.map) =
                     [l \in DOMAIN c \cup {k} |-> IF l = k THEN v ELSE c[l]]
<1> DEFINE P(n) == {e.key : e \in EntriesOf(n)}
<1>1. Good(o.map) /\ o.ret \in {-1, 0, 1}
  BY PutGood
<1>2. /\ ContentsOf(m) = [l \in P(m) |-> hash_map_get(m, l)]
      /\ ContentsOf(o.map) = [l \in P(o.map) |-> hash_map_get(o.map, l)]
      /\ P(m) \subseteq Keys
  BY <1>1, ContentsGot
<1>3. CASE o.ret = -1
  <2>1. EntriesOf(o.map) = EntriesOf(m)
    BY <1>3, PutGood
  <2> QED
    BY <1>3, <2>1 DEF ContentsOf
<1>4. CASE o.ret # -1
  <2>1. EntriesOf(o.map) = {e \in EntriesOf(m) : e.key # k} \cup {Entry(k, v)}
    BY <1>4, PutGood
  <2>2. Entry(k, v).key = k
    BY DEF Entry
  <2>3. P(o.map) = P(m) \cup {k}
    BY <2>1, <2>2
  <2>4. o.ret = (IF k \in P(m) THEN 0 ELSE 1)
    BY <1>1, <1>4, PutGood
  <2>5. \A l \in P(m) \cup {k} :
          hash_map_get(o.map, l) = IF l = k THEN v ELSE hash_map_get(m, l)
    BY <1>2, <1>4, GotAfterPut
  <2> HIDE DEF P
  <2> QED
    BY <1>2, <2>3, <2>4, <2>5
<1> QED
  BY <1>3, <1>4

LEMMA ContentsAfterRemove ==
  ASSUME NEW m, Good(m), NEW k \in Keys
  PROVE  LET c == ContentsOf(m)
         IN  ContentsOf(hash_map_remove(m, k)) = [l \in DOMAIN c \ {k} |-> c[l]]
<1> DEFINE P(n) == {e.key : e \in EntriesOf(n)}  n == hash_map_remove(m, k)
<1>1. Good(n) /\ EntriesOf(n) = {e \in EntriesOf(m) : e.key # k}
  BY RemoveGood
<1>2. \A l \in Keys \ {k} : hash_map_get(n, l) = hash_map_get(m, l)
  BY GotAfterRemove
<1>3. P(n) = P(m) \ {k}
  BY <1>1
<1>4. /\ ContentsOf(m) = [l \in P(m) |-> hash_map_get(m, l)]
      /\ ContentsOf(n) = [l \in P(n) |-> hash_map_get(n, l)]
      /\ P(m) \subseteq Keys
  <2> HIDE DEF n
  <2> QED
    BY <1>1, ContentsGot
<1> HIDE DEF P, n
<1> QED
  BY <1>2, <1>3, <1>4 DEF n

LEMMA ValueGot ==
  ASSUME NEW m, Good(m), NEW k \in Keys
  PROVE  LET c == ContentsOf(m)
         IN  hash_map_get(m, k) = IF k \in DOMAIN c THEN c[k] ELSE None
<1> DEFINE P == {e.key : e \in EntriesOf(m)}
<1>1. ContentsOf(m) = [l \in P |-> hash_map_get(m, l)]
  BY ContentsGot
<1>2. k \notin P => hash_map_get(m, k) = None
  BY Got DEF Good
<1> HIDE DEF P
<1> QED
  BY <1>1, <1>2

LEMMA DictInit == Init => DictSpec!Init
<1>1. \A c \in Requested : ContentsOf(Created(c)) = <<>>
  <2> SUFFICES ASSUME NEW c \in Requested PROVE ContentsOf(Created(c)) = <<>>
    OBVIOUS
  <2>1. EntriesOf(Created(c)) = {}
    BY CreatedGood
  <2> QED
    BY <2>1 DEF ContentsOf
<1> QED
  BY <1>1 DEF Init, DictSpec!Init, contents

LEMMA DictNext == MInv /\ [Next]_vars => [DictSpec!Next]_DictSpec!vars
<1> SUFFICES ASSUME MInv, [Next]_vars PROVE [DictSpec!Next]_DictSpec!vars
  OBVIOUS
<1>1. Good(map)
  BY MInvGood
<1>2. contents = ContentsOf(map) /\ contents' = ContentsOf(map')
  BY DEF contents
<1>3. CASE Put
  <2>1. PICK k \in Keys, v \in Values : \E o \in hash_map_put(map, k, v) :
          map' = o.map /\ out' = o.ret
    BY <1>3 DEF Put
  <2>2. DictSpec!Put(k, v) \/ DictSpec!Fail
    BY <1>1, <1>2, <2>1, ContentsAfterPut DEF DictSpec!Put, DictSpec!Fail, DictSpec!Given
  <2> QED
    BY <2>2 DEF DictSpec!Next
<1>4. CASE Get
  BY <1>1, <1>2, <1>4, ValueGot DEF Get, DictSpec!Next, DictSpec!Get, DictSpec!Value
<1>5. CASE TakeOut
  <2>1. PICK k \in Keys : map' = hash_map_remove(map, k) /\ out' = hash_map_get(map, k)
    BY <1>5 DEF TakeOut
  <2>2. out' = DictSpec!Value(k)
    BY <1>1, <1>2, <2>1, ValueGot DEF DictSpec!Value
  <2>3. contents' = [l \in DOMAIN contents \ {k} |-> contents[l]]
    <3>1. ContentsOf(hash_map_remove(map, k)) =
            [l \in DOMAIN ContentsOf(map) \ {k} |-> ContentsOf(map)[l]]
      BY <1>1, ContentsAfterRemove
    <3> QED
      BY <1>2, <2>1, <3>1
  <2> QED
    BY <2>2, <2>3 DEF DictSpec!Next, DictSpec!Remove, DictSpec!Restrict
<1>6. CASE Recreate
  <2>1. PICK c \in Requested : map' = Created(c) /\ out' = None
    BY <1>6 DEF Recreate
  <2>2. EntriesOf(map') = {}
    BY <2>1, CreatedGood
  <2>3. contents' = <<>>
    BY <1>2, <2>2 DEF ContentsOf
  <2> QED
    BY <2>1, <2>3 DEF DictSpec!Next, DictSpec!Reset
<1>7. CASE UNCHANGED vars
  BY <1>7 DEF vars, DictSpec!vars, contents
<1> QED
  BY <1>3, <1>4, <1>5, <1>6, <1>7 DEF Next

\* Clients of a map see a dictionary: every call is a step of one, or none.
THEOREM MapIsDictionary == Spec => ImplementsDict
BY DictInit, DictNext, MInvInit, MInvNext, PTL DEF Spec, ImplementsDict, DictSpec!Spec
=============================================================================

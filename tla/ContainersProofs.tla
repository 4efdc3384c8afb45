--------------------------- MODULE ContainersProofs ---------------------------
(***************************************************************************)
(* The queues are queues, the map is a dictionary, the lists are sequences *)
(* and the cache keeps its blocks and times, for any elements, keys,       *)
(* hashes, nodes, sizes and times.                                         *)
(***************************************************************************)
EXTENDS MCContainers, FiniteSetTheorems, SequenceTheorems, WellFoundedInduction, TLAPS

-----------------------------------------------------------------------------
\* The lists.  Least numbers, and what is gone round.

LEMMA LeastNumber ==
  ASSUME NEW S \in SUBSET Nat, S # {}
  PROVE  \E n \in S : \A m \in S : n <= m
<1> DEFINE T == {0 .. n : n \in S}
<1>1. T \subseteq FiniteSubsetsOf(Nat) /\ T # {}
  <2>1. \A n \in S : IsFiniteSet(0 .. n) /\ 0 .. n \subseteq Nat
    BY FS_Interval
  <2>2. \A x \in T : IsFiniteSet(x) /\ x \subseteq Nat
    BY <2>1
  <2> QED
    BY <2>2 DEF FiniteSubsetsOf
<1>2. PICK x \in T : \A y \in T : <<y, x>> \notin StrictSubsetOrdering(Nat)
  <2> HIDE DEF T
  <2> QED
    BY <1>1, WFMin, FS_StrictSubsetOrderingWellFounded
<1>3. PICK n \in S : x = 0 .. n
  OBVIOUS
<1>4. ASSUME NEW m \in S, m < n PROVE FALSE
  <2>1. 0 .. m \subseteq 0 .. n /\ 0 .. m # 0 .. n /\ 0 .. m \in T
    <3>1. n \in 0 .. n /\ n \notin 0 .. m
      BY <1>4
    <3> QED
      BY <1>4, <3>1
  <2>2. <<0 .. m, 0 .. n>> \in StrictSubsetOrdering(Nat)
    <3>1. IsFiniteSet(0 .. m) /\ IsFiniteSet(0 .. n) /\ 0 .. m \subseteq Nat /\ 0 .. n \subseteq Nat
      BY FS_Interval
    <3> QED
      BY <2>1, <3>1 DEF StrictSubsetOrdering, FiniteSubsetsOf
  <2> QED
    BY <1>2, <1>3, <2>1, <2>2
<1> QED
  BY <1>4

\* What stays in S[i] after round i does so to the end.
LEMMA Arrives ==
  ASSUME NEW N \in Nat, NEW S, NEW f, f[0] \in S[0],
         \A i \in 1 .. N : f[i - 1] \in S[i - 1] => f[i] \in S[i]
  PROVE  \A i \in 0 .. N : f[i] \in S[i]
<1> DEFINE B == {i \in 0 .. N : f[i] \notin S[i]}
<1>1. SUFFICES ASSUME B # {} PROVE FALSE
  OBVIOUS
<1>2. PICK i \in B : \A j \in B : i <= j
  <2>1. B \in SUBSET Nat
    OBVIOUS
  <2> HIDE DEF B
  <2> QED
    BY <1>1, <2>1, LeastNumber
<1>3. i \in 1 .. N /\ i - 1 \in 0 .. N /\ ~(i <= i - 1)
  BY <1>2
<1>4. i - 1 \notin B
  BY <1>2, <1>3
<1> QED
  BY <1>2, <1>3, <1>4

\* A loop whose round i takes x in S[i - 1] to F[i][x] in S[i].
Rounds(g, S, x, F, n) ==
  /\ DOMAIN g = 0 .. n /\ g = [i \in 0 .. n |-> g[i]]
  /\ g[0] = x /\ \A i \in 1 .. n : g[i] = F[i][g[i - 1]]
  /\ \A i \in 0 .. n : g[i] \in S[i]

LEMMA GoneRound ==
  ASSUME NEW N \in Nat, NEW S, NEW x \in S[0], NEW F,
         \A i \in 1 .. N : F[i] \in [S[i - 1] -> S[i]]
  PROVE  \E g : Rounds(g, S, x, F, N)
<1> DEFINE B == {n \in 0 .. N : \A g : ~Rounds(g, S, x, F, n)}
<1>1. B = {}
  <2>1. SUFFICES ASSUME B # {} PROVE FALSE
    OBVIOUS
  <2>2. PICK n \in B : \A m \in B : n <= m
    <3>1. B \in SUBSET Nat
      OBVIOUS
    <3> HIDE DEF B
    <3> QED
      BY <2>1, <3>1, LeastNumber
  <2>3. n # 0
    <3>1. Rounds([i \in 0 .. 0 |-> x], S, x, F, 0)
      BY DEF Rounds
    <3> QED
      BY <2>2, <3>1
  <2>4. n - 1 \in 0 .. N /\ n - 1 \notin B /\ n \in 1 .. N
    <3>1. n \in 0 .. N
      BY <2>2
    <3>2. n - 1 \in 0 .. N /\ ~(n <= n - 1) /\ n \in 1 .. N
      BY <3>1, <2>3
    <3> QED
      BY <2>2, <3>2
  <2>5. PICK g : Rounds(g, S, x, F, n - 1)
    BY <2>4
  <2> DEFINE k == [i \in 0 .. n |-> IF i = n THEN F[n][g[n - 1]] ELSE g[i]]
  <2>6. n - 1 \in 0 .. n - 1 /\ 0 \in 0 .. n - 1
    BY <2>4
  <2>7. \A i \in 0 .. n : i # n => i \in 0 .. n - 1
    BY <2>4
  <2>8. F[n][g[n - 1]] \in S[n]
    <3>1. g[n - 1] \in S[n - 1]
      BY <2>5, <2>6 DEF Rounds
    <3>2. F[n] \in [S[n - 1] -> S[n]]
      BY <2>4
    <3> QED
      BY <3>1, <3>2
  <2>9. k[0] = x
    BY <2>3, <2>4, <2>5, <2>6 DEF Rounds
  <2>10. ASSUME NEW i \in 1 .. n PROVE k[i] = F[i][k[i - 1]]
    <3>1. i \in 0 .. n /\ i - 1 \in 0 .. n /\ i - 1 # n /\ (i # n => i \in 1 .. n - 1)
      BY <2>4
    <3>2. k[i - 1] = g[i - 1]
      BY <3>1
    <3> QED
      BY <2>5, <3>1, <3>2 DEF Rounds
  <2>11. \A i \in 0 .. n : k[i] \in S[i]
    BY <2>5, <2>7, <2>8 DEF Rounds
  <2>12. DOMAIN k = 0 .. n /\ k = [i \in 0 .. n |-> k[i]]
    OBVIOUS
  <2> HIDE DEF k
  <2>13. Rounds(k, S, x, F, n)
    BY <2>9, <2>10, <2>11, <2>12 DEF Rounds
  <2> QED
    BY <2>2, <2>13
<1> QED
  BY <1>1

-----------------------------------------------------------------------------
\* The nodes of a list, in order.

Once(s, k) ==
  /\ k \in Nat /\ s \in [1 .. k -> Nodes]
  /\ \A i, j \in 1 .. k : s[i] = s[j] => i = j

Has(s, k, n) == \E i \in 1 .. k : s[i] = n

\* The node at a place, or none behind the last.
NodeAt(s, k, i) == IF i <= k THEN s[i] ELSE None

LEMMA NoMoreThanNodes ==
  ASSUME NEW s, NEW k, Once(s, k)
  PROVE  Cardinality(Nodes) \in Nat /\ k <= Cardinality(Nodes)
<1>1. s \in Injection(1 .. k, Nodes)
  BY DEF Once, Injection, IsInjective
<1>2. Cardinality(1 .. k) = k
  BY FS_Interval DEF Once
<1> QED
  BY <1>1, <1>2, FS_Injection, FS_CardinalityType, ListsAssumption

LEMMA RangeSize ==
  ASSUME NEW s, NEW k, Once(s, k)
  PROVE  Cardinality({s[i] : i \in 1 .. k}) = k
<1>1. s \in Bijection(1 .. k, {s[i] : i \in 1 .. k})
  BY DEF Once, Bijection, Injection, Surjection, IsInjective
<1>2. Cardinality(1 .. k) = k /\ IsFiniteSet(1 .. k)
  BY FS_Interval DEF Once
<1> QED
  BY <1>1, <1>2, FS_Bijection DEF ExistsBijection

\* A node behind place i, and the node at place i out.
Inserted(s, k, i, x) ==
  [j \in 1 .. k + 1 |-> IF j <= i THEN s[j] ELSE IF j = i + 1 THEN x ELSE s[j - 1]]
Without(s, k, i) == [j \in 1 .. k - 1 |-> IF j < i THEN s[j] ELSE s[j + 1]]

LEMMA PutOnce ==
  ASSUME NEW s, NEW k, Once(s, k), NEW i \in 0 .. k, NEW x \in Nodes, ~Has(s, k, x)
  PROVE  Once(Inserted(s, k, i, x), k + 1)
BY DEF Once, Has, Inserted

LEMMA TakenOnce ==
  ASSUME NEW s, NEW k, Once(s, k), NEW i \in 1 .. k
  PROVE  Once(Without(s, k, i), k - 1) /\ ~Has(Without(s, k, i), k - 1, s[i])
BY DEF Once, Has, Without

\* What is kept at the places.
Told(d, s, k) == [i \in 1 .. k |-> d[s[i]]]

-----------------------------------------------------------------------------
\* The singly linked list.

\* The nodes s, of which there are k, are those from h on by the links f.
Links(h, f, s, k) ==
  h = NodeAt(s, k, 1) /\ \A i \in 1 .. k : f[s[i]] = NodeAt(s, k, i + 1)

LEMMA SingleOrder ==
  ASSUME NEW l, NEW s, NEW k, Once(s, k), Links(l.head, l.next, s, k)
  PROVE  Single!InOrder(l) = s
<1> DEFINE N == Cardinality(Nodes)
           Is(f) == f = [i \in 1 .. N + 1 |->
                           IF i = 1 THEN l.head
                           ELSE LET n == f[i - 1] IN IF n = None THEN None ELSE l.next[n]]
           node == CHOOSE f : Is(f)
           g == [i \in 1 .. N + 1 |-> NodeAt(s, k, i)]
<1>1. N \in Nat /\ k \in Nat /\ k <= N
  BY NoMoreThanNodes DEF Once
<1>2. \A i \in 1 .. k : s[i] \in Nodes /\ s[i] # None
  BY ListsAssumption DEF Once
<1> HIDE DEF N
<1>3. Is(g)
  <2>1. ASSUME NEW i \in 1 .. N + 1
        PROVE  g[i] = (IF i = 1 THEN l.head
                       ELSE LET n == g[i - 1] IN IF n = None THEN None ELSE l.next[n])
    <3>1. CASE i = 1
      BY <1>1, <3>1 DEF Links
    <3>2. CASE i # 1
      <4>1. i - 1 \in 1 .. N + 1 /\ (i - 1) + 1 = i
        BY <1>1, <3>2
      <4>2. CASE i - 1 \in 1 .. k
        BY <1>1, <1>2, <3>2, <4>1, <4>2 DEF Links, NodeAt
      <4>3. CASE i - 1 \notin 1 .. k
        BY <1>1, <3>2, <4>1, <4>3 DEF NodeAt
      <4> QED
        BY <4>2, <4>3
    <3> QED
      BY <3>1, <3>2
  <2> QED
    BY <2>1
<1>4. Is(node)
  BY <1>3
<1>5. ASSUME NEW f, Is(f) PROVE \A i \in 1 .. N + 1 : f[i] = g[i]
  <2> DEFINE B == {i \in 1 .. N + 1 : f[i] # g[i]}
  <2>1. SUFFICES ASSUME B # {} PROVE FALSE
    OBVIOUS
  <2>2. PICK i \in B : \A j \in B : i <= j
    <3>1. B \in SUBSET Nat
      BY <1>1
    <3> HIDE DEF B
    <3> QED
      BY <2>1, <3>1, LeastNumber
  <2>3. i # 1
    BY <1>3, <1>5
  <2>4. i \in 1 .. N + 1 /\ i - 1 \in 1 .. N + 1 /\ i - 1 \notin B
    <3>1. i \in 1 .. N + 1
      BY <2>2
    <3>2. i - 1 \in 1 .. N + 1 /\ ~(i <= i - 1)
      BY <1>1, <2>3, <3>1
    <3> QED
      BY <2>2, <3>1, <3>2
  <2>5. f[i - 1] = g[i - 1]
    BY <2>4
  <2>6. f[i] = g[i]
    <3> HIDE DEF g
    <3> QED
      BY <1>3, <1>5, <2>3, <2>4, <2>5
  <2> QED
    BY <2>2, <2>6
<1>6. \A i \in 1 .. N + 1 : node[i] = g[i]
  <2> HIDE DEF node, g, Is
  <2> QED
    BY <1>4, <1>5
<1>7. {j \in 1 .. N : node[j] # None} = 1 .. k
  <2>1. \A j \in 1 .. N : node[j] # None <=> j \in 1 .. k
    <3>1. \A j \in 1 .. N : j \in 1 .. N + 1
      BY <1>1
    <3> HIDE DEF node
    <3> QED
      BY <1>1, <1>2, <1>6, <3>1 DEF NodeAt
  <2> HIDE DEF node
  <2> QED
    BY <1>1, <2>1
<1>8. Cardinality({j \in 1 .. N : node[j] # None}) = k
  <2>1. Cardinality(1 .. k) = k
    BY <1>1, FS_Interval
  <2> HIDE DEF node
  <2> QED
    BY <1>7, <2>1
<1>9. Single!InOrder(l) = [i \in 1 .. Cardinality({j \in 1 .. N : node[j] # None}) |-> node[i]]
  BY DEF Single!InOrder, N, Cardinality, Single!Cardinality
<1>10. \A i \in 1 .. k : node[i] = s[i]
  <2>1. \A i \in 1 .. k : i \in 1 .. N + 1
    BY <1>1
  <2> HIDE DEF node
  <2> QED
    BY <1>1, <1>6, <2>1 DEF NodeAt
<1> HIDE DEF node, g
<1>11. [i \in 1 .. k |-> node[i]] = s
  BY <1>10 DEF Once
<1> QED
  BY <1>8, <1>9, <1>11

-----------------------------------------------------------------------------
SLists ==
  [head : Nodes \cup {None}, tail : Nodes \cup {None}, length : Nat,
   next : [Nodes -> Nodes \cup {None}], data : [Nodes -> Data \cup {None}]]

\* The list l has the nodes s, and its tail and length are theirs.
SLinked(l, s, k) ==
  /\ l \in SLists /\ Once(s, k) /\ Links(l.head, l.next, s, k)
  /\ l.tail = (IF k = 0 THEN None ELSE s[k]) /\ l.length = k
  /\ \A i \in 1 .. k : l.data[s[i]] \in Data

LEMMA SingleViews ==
  ASSUME NEW l, NEW s, NEW k, Once(s, k), Links(l.head, l.next, s, k)
  PROVE  /\ Single!InOrder(l) = s /\ Single!DataOf(l) = Told(l.data, s, k)
         /\ Single!Free(l) = {n \in Nodes : ~Has(s, k, n)}
         /\ \A n : Single!Has(l, n) <=> Has(s, k, n)
<1>1. Single!InOrder(l) = s
  BY SingleOrder
<1>2. DOMAIN s = 1 .. k
  BY DEF Once
<1>3. Single!DataOf(l) = Told(l.data, s, k)
  BY <1>1, <1>2 DEF Single!DataOf, Told
<1>4. Single!Range(s) = {s[i] : i \in 1 .. k}
  BY <1>2 DEF Single!Range
<1> QED
  BY <1>1, <1>3, <1>4 DEF Single!Free, Single!Has, Has

\* Where a node or a value is.
LEMMA PlaceOf ==
  ASSUME NEW k \in Nat, NEW s, DOMAIN s = 1 .. k, NEW x
  PROVE  IF \E i \in 1 .. k : s[i] = x
         THEN /\ Single!Place(s, x) \in 1 .. k /\ s[Single!Place(s, x)] = x
              /\ \A j \in 1 .. Single!Place(s, x) - 1 : s[j] # x
         ELSE Single!Place(s, x) = 0
<1> DEFINE I == {i \in 1 .. k : s[i] = x}
           p == Single!Place(s, x)
<1>1. p = IF I # {} THEN CHOOSE i \in I : \A j \in I : i <= j ELSE 0
  BY DEF Single!Place, Single!Range, Single!Min
<1>2. I \in SUBSET Nat /\ I \subseteq 1 .. k
  OBVIOUS
<1>3. CASE I # {}
  <2> HIDE DEF I, p
  <2>1. \E i \in I : \A j \in I : i <= j
    BY <1>2, <1>3, LeastNumber
  <2>2. p \in I /\ \A j \in I : p <= j
    BY <1>1, <1>3, <2>1
  <2>3. \A j \in 1 .. p - 1 : j \notin I /\ j \in 1 .. k
    BY <1>2, <2>2
  <2>4. /\ p \in 1 .. k /\ s[p] = x
        /\ \A j \in 1 .. p - 1 : s[j] # x
    BY <2>2, <2>3 DEF I
  <2>5. \E i \in 1 .. k : s[i] = x
    BY <2>4
  <2> QED
    BY <2>4, <2>5 DEF p
<1>4. CASE I = {}
  BY <1>1, <1>4
<1> QED
  BY <1>3, <1>4

-----------------------------------------------------------------------------
\* What each operation does to the links, the ends and the values.

LEMMA SInsertIs ==
  ASSUME NEW l \in SLists, NEW new \in Nodes, NEW d \in Data, NEW n \in Nodes \cup {None}, n # new
  PROVE  LET u == Single!linked_list_insert_after(l, n, new, d)
         IN  /\ u \in SLists /\ u.head = (IF n = None THEN new ELSE l.head)
             /\ u.tail = (IF n = None THEN IF l.tail = None THEN new ELSE l.tail
                          ELSE IF l.tail = n THEN new ELSE l.tail)
             /\ u.length = l.length + 1
             /\ \A m \in Nodes :
                  /\ u.next[m] = (IF m = new THEN IF n = None THEN l.head ELSE l.next[n]
                                  ELSE IF m = n THEN new ELSE l.next[m])
                  /\ u.data[m] = (IF m = new THEN d ELSE l.data[m])
<1> DEFINE u == Single!linked_list_insert_after(l, n, new, d)
           f == [l.next EXCEPT ![new] = IF n = None THEN l.head ELSE l.next[n]]
           g == IF n = None THEN f ELSE [f EXCEPT ![n] = new]
           e == [l.data EXCEPT ![new] = d]
           h == IF n = None THEN new ELSE l.head
           b == IF n = None THEN IF l.tail = None THEN new ELSE l.tail
                ELSE IF l.tail = n THEN new ELSE l.tail
<1>1. u = [head |-> h, tail |-> b, length |-> l.length + 1, next |-> g, data |-> e]
  <2>1. CASE n = None
    BY <2>1 DEF SLists, Single!linked_list_insert_after, Single!linked_list_push_front
  <2>2. CASE n # None
    BY <2>2 DEF SLists, Single!linked_list_insert_after
  <2> QED
    BY <2>1, <2>2
<1>2. g \in [Nodes -> Nodes \cup {None}]
  BY DEF SLists
<1>3. e \in [Nodes -> Data \cup {None}]
  BY DEF SLists
<1>4. \A m \in Nodes : g[m] = (IF m = new THEN IF n = None THEN l.head ELSE l.next[n]
                               ELSE IF m = n THEN new ELSE l.next[m])
  BY ListsAssumption DEF SLists
<1>5. \A m \in Nodes : e[m] = (IF m = new THEN d ELSE l.data[m])
  BY DEF SLists
<1>6. h \in Nodes \cup {None} /\ b \in Nodes \cup {None} /\ l.length + 1 \in Nat
  BY DEF SLists
<1> HIDE DEF u, g, e
<1>7. u \in SLists
  BY <1>1, <1>2, <1>3, <1>6 DEF SLists
<1> QED
  BY <1>1, <1>4, <1>5, <1>7 DEF u

LEMMA SFreedIs ==
  ASSUME NEW v \in SLists, NEW n \in Nodes
  PROVE  LET u == Single!Freed(v, n)
         IN  /\ u \in SLists /\ u.head = v.head /\ u.tail = v.tail /\ u.length = v.length
             /\ \A m \in Nodes : m # n => u.next[m] = v.next[m] /\ u.data[m] = v.data[m]
<1> DEFINE u == Single!Freed(v, n)
<1>1. u \in SLists
  BY DEF SLists, Single!Freed
<1>2. /\ u.head = v.head /\ u.tail = v.tail /\ u.length = v.length
      /\ u.next = [v.next EXCEPT ![n] = None] /\ u.data = [v.data EXCEPT ![n] = None]
  BY DEF SLists, Single!Freed
<1>3. \A m \in Nodes : m # n => u.next[m] = v.next[m] /\ u.data[m] = v.data[m]
  <2> HIDE DEF u
  <2> QED
    BY <1>2 DEF SLists
<1> QED
  BY <1>1, <1>2, <1>3

LEMMA SPopIs ==
  ASSUME NEW l \in SLists, l.head \in Nodes, l.length > 0
  PROVE  LET u == Single!linked_list_pop_front(l)
         IN  /\ u \in SLists /\ u.head = l.next[l.head]
             /\ u.tail = (IF l.next[l.head] = None THEN None ELSE l.tail)
             /\ u.length = l.length - 1
             /\ \A m \in Nodes : m # l.head => u.next[m] = l.next[m] /\ u.data[m] = l.data[m]
<1> DEFINE v == [l EXCEPT !.head = l.next[l.head], !.length = @ - 1,
                          !.tail = IF l.next[l.head] = None THEN None ELSE @]
<1>1. l.length - 1 \in Nat /\ l.next[l.head] \in Nodes \cup {None}
  BY DEF SLists
<1>2. /\ v \in SLists /\ v.head = l.next[l.head] /\ v.next = l.next /\ v.data = l.data
      /\ v.length = l.length - 1 /\ v.tail = IF l.next[l.head] = None THEN None ELSE l.tail
  BY <1>1 DEF SLists
<1>3. Single!linked_list_pop_front(l) = Single!Freed(v, l.head)
  BY DEF Single!linked_list_pop_front
<1> HIDE DEF v
<1> QED
  BY <1>2, <1>3, SFreedIs

SUnlinked(l, n, prev) ==
  Single!Freed([l EXCEPT !.next[prev] = l.next[n], !.length = @ - 1,
                         !.tail = IF @ = n THEN prev ELSE @], n)

LEMMA SUnlinkedIs ==
  ASSUME NEW l \in SLists, NEW n \in Nodes, NEW prev \in Nodes, n # prev, l.length > 0
  PROVE  LET u == SUnlinked(l, n, prev)
         IN  /\ u \in SLists /\ u.head = l.head
             /\ u.tail = (IF l.tail = n THEN prev ELSE l.tail)
             /\ u.length = l.length - 1
             /\ \A m \in Nodes :
                  m # n => /\ u.next[m] = (IF m = prev THEN l.next[n] ELSE l.next[m])
                           /\ u.data[m] = l.data[m]
<1> DEFINE v == [l EXCEPT !.next[prev] = l.next[n], !.length = @ - 1,
                          !.tail = IF @ = n THEN prev ELSE @]
<1>1. l.length - 1 \in Nat /\ l.next[n] \in Nodes \cup {None}
  BY DEF SLists
<1>2. /\ v \in SLists /\ v.head = l.head /\ v.next = [l.next EXCEPT ![prev] = l.next[n]]
      /\ v.data = l.data /\ v.length = l.length - 1
      /\ v.tail = IF l.tail = n THEN prev ELSE l.tail
  BY <1>1 DEF SLists
<1>3. SUnlinked(l, n, prev) = Single!Freed(v, n)
  BY DEF SUnlinked
<1> HIDE DEF v
<1>4. \A m \in Nodes : v.next[m] = IF m = prev THEN l.next[n] ELSE l.next[m]
  BY <1>2 DEF SLists
<1> DEFINE u == Single!Freed(v, n)
<1>5. /\ u \in SLists /\ u.head = v.head /\ u.tail = v.tail /\ u.length = v.length
      /\ \A m \in Nodes : m # n => u.next[m] = v.next[m] /\ u.data[m] = v.data[m]
  BY <1>2, SFreedIs
<1> HIDE DEF u
<1>6. SUnlinked(l, n, prev) = u
  BY <1>3 DEF u
<1> HIDE DEF u
<1>7. \A m \in Nodes : m # n => /\ u.next[m] = (IF m = prev THEN l.next[n] ELSE l.next[m])
                                 /\ u.data[m] = l.data[m]
  BY <1>2, <1>4, <1>5
<1>8. /\ u \in SLists /\ u.head = l.head /\ u.length = l.length - 1
      /\ u.tail = (IF l.tail = n THEN prev ELSE l.tail)
  BY <1>2, <1>5
<1> QED
  BY <1>6, <1>7, <1>8

LEMMA NodesOf ==
  ASSUME NEW s, NEW k, Once(s, k)
  PROVE  k \in Nat /\ \A i \in 1 .. k : s[i] \in Nodes /\ s[i] # None
BY ListsAssumption DEF Once

\* A node put in, of a list that has room.
SInserted(u, l, s, k, i, new, d) ==
  /\ SLinked(u, Inserted(s, k, i, new), k + 1)
  /\ Told(u.data, Inserted(s, k, i, new), k + 1) = Inserted(Told(l.data, s, k), k, i, d)

LEMMA SInsert ==
  ASSUME NEW l, NEW s, NEW k, SLinked(l, s, k), NEW new \in Nodes, ~Has(s, k, new),
         NEW d \in Data, NEW i \in 0 .. k, NEW n, n = (IF i = 0 THEN None ELSE s[i])
  PROVE  SInserted(Single!linked_list_insert_after(l, n, new, d), l, s, k, i, new, d)
<1> DEFINE u == Single!linked_list_insert_after(l, n, new, d)
           t == Inserted(s, k, i, new)
<1>1. /\ l \in SLists /\ Once(s, k) /\ Links(l.head, l.next, s, k)
      /\ l.tail = (IF k = 0 THEN None ELSE s[k]) /\ l.length = k
      /\ \A j \in 1 .. k : l.data[s[j]] \in Data
  BY DEF SLinked
<1>2. k \in Nat /\ \A j \in 1 .. k : s[j] \in Nodes /\ s[j] # None /\ s[j] # new
  BY <1>1, NodesOf DEF Has
<1>3. n \in Nodes \cup {None} /\ n # new /\ (n = None <=> i = 0)
  BY <1>2, ListsAssumption
<1>4. /\ u \in SLists /\ u.head = (IF n = None THEN new ELSE l.head)
      /\ u.tail = (IF n = None THEN IF l.tail = None THEN new ELSE l.tail
                   ELSE IF l.tail = n THEN new ELSE l.tail)
      /\ u.length = l.length + 1
      /\ \A m \in Nodes :
           /\ u.next[m] = (IF m = new THEN IF n = None THEN l.head ELSE l.next[n]
                           ELSE IF m = n THEN new ELSE l.next[m])
           /\ u.data[m] = (IF m = new THEN d ELSE l.data[m])
  BY <1>1, <1>3, SInsertIs
<1>5. Once(t, k + 1)
  BY <1>1, PutOnce
<1> HIDE DEF u
<1>6. \A j \in 1 .. k + 1 : t[j] = IF j <= i THEN s[j] ELSE IF j = i + 1 THEN new ELSE s[j - 1]
  BY DEF Inserted
<1> HIDE DEF t
<1>7. Links(u.head, u.next, t, k + 1)
  <2>1. u.head = NodeAt(t, k + 1, 1)
    BY <1>1, <1>2, <1>3, <1>4, <1>6 DEF Links, NodeAt
  <2>2. ASSUME NEW j \in 1 .. k + 1 PROVE u.next[t[j]] = NodeAt(t, k + 1, j + 1)
    <3>1. CASE j = i + 1
      <4>1. t[j] = new /\ u.next[new] = IF n = None THEN l.head ELSE l.next[n]
        BY <1>2, <1>4, <1>6, <3>1
      <4>2. u.next[new] = NodeAt(s, k, i + 1)
        BY <1>1, <1>2, <1>3, <4>1 DEF Links
      <4>3. NodeAt(t, k + 1, j + 1) = NodeAt(s, k, i + 1)
        BY <1>2, <1>6, <3>1 DEF NodeAt
      <4> QED
        BY <4>1, <4>2, <4>3
    <3>2. CASE j <= i
      <4>1. t[j] = s[j] /\ j \in 1 .. k /\ i \in 1 .. k
        BY <1>2, <1>6, <3>2
      <4>2. CASE j = i
        <5>1. u.next[s[j]] = new
          BY <1>2, <1>3, <1>4, <4>1, <4>2
        <5>2. NodeAt(t, k + 1, j + 1) = new
          BY <1>2, <1>6, <4>1, <4>2 DEF NodeAt
        <5> QED
          BY <4>1, <5>1, <5>2
      <4>3. CASE j # i
        <5>1. s[j] # n
          BY <1>1, <1>2, <4>1, <4>3 DEF Once
        <5>2. u.next[s[j]] = NodeAt(s, k, j + 1)
          BY <1>1, <1>2, <1>4, <4>1, <5>1 DEF Links
        <5>3. NodeAt(t, k + 1, j + 1) = NodeAt(s, k, j + 1)
          BY <1>2, <1>6, <3>2, <4>1, <4>3 DEF NodeAt
        <5> QED
          BY <4>1, <5>2, <5>3
      <4> QED
        BY <4>2, <4>3
    <3>3. CASE j > i + 1
      <4>1. t[j] = s[j - 1] /\ j - 1 \in 1 .. k /\ j - 1 # i
        BY <1>2, <1>6, <3>3
      <4>2. s[j - 1] # n
        BY <1>1, <1>2, <4>1 DEF Once
      <4>3. u.next[s[j - 1]] = NodeAt(s, k, (j - 1) + 1)
        BY <1>1, <1>2, <1>4, <4>1, <4>2 DEF Links
      <4>4. NodeAt(t, k + 1, j + 1) = NodeAt(s, k, (j - 1) + 1)
        BY <1>2, <1>6, <3>3 DEF NodeAt
      <4> QED
        BY <4>1, <4>3, <4>4
    <3> QED
      BY <1>2, <3>1, <3>2, <3>3
  <2> QED
    BY <2>1, <2>2 DEF Links
<1>8. u.tail = t[k + 1] /\ u.length = k + 1
  <2>1. CASE i = k
    BY <1>1, <1>2, <1>3, <1>4, <1>6, <2>1
  <2>2. CASE i # k
    <3>1. t[k + 1] = s[k] /\ k # 0 /\ l.tail = s[k] /\ k \in 1 .. k
      BY <1>1, <1>2, <1>6, <2>2
    <3>2. s[k] # n
      BY <1>1, <1>2, <2>2, <3>1 DEF Once
    <3> QED
      BY <1>1, <1>2, <1>4, <3>1, <3>2
  <2> QED
    BY <2>1, <2>2
<1>9. \A j \in 1 .. k + 1 :
        u.data[t[j]] = IF j <= i THEN l.data[s[j]] ELSE IF j = i + 1 THEN d ELSE l.data[s[j - 1]]
  BY <1>2, <1>4, <1>6
<1>10. \A j \in 1 .. k + 1 : u.data[t[j]] \in Data
  BY <1>1, <1>2, <1>9
<1>11. Told(u.data, t, k + 1) = Inserted(Told(l.data, s, k), k, i, d)
  <2>1. \A j \in 1 .. k + 1 : j <= i => j \in 1 .. k
    BY <1>2
  <2>2. \A j \in 1 .. k + 1 : j > i + 1 => j - 1 \in 1 .. k
    BY <1>2
  <2>3. \A j \in 1 .. k + 1 : Inserted(Told(l.data, s, k), k, i, d)[j] = u.data[t[j]]
    BY <1>2, <1>9, <2>1, <2>2 DEF Inserted, Told
  <2> QED
    BY <2>3 DEF Inserted, Told
<1>12. SLinked(u, t, k + 1)
  BY <1>2, <1>4, <1>5, <1>7, <1>8, <1>10 DEF SLinked
<1> QED
  BY <1>11, <1>12 DEF SInserted, t, u
\* A node taken out of a list.
SRemoved(u, l, s, k, i) ==
  /\ SLinked(u, Without(s, k, i), k - 1)
  /\ Told(u.data, Without(s, k, i), k - 1) = Without(Told(l.data, s, k), k, i)

\* What the list is left with once node i was passed by.
PassedBy(u, l, s, k, i) ==
  /\ u \in SLists /\ u.length = k - 1
  /\ u.head = (IF i = 1 THEN l.next[s[1]] ELSE l.head)
  /\ u.tail = (IF i = 1 THEN IF l.next[s[1]] = None THEN None ELSE l.tail
               ELSE IF l.tail = s[i] THEN s[i - 1] ELSE l.tail)
  /\ \A m \in Nodes :
       m # s[i] => /\ u.next[m] = (IF i # 1 /\ m = s[i - 1] THEN l.next[s[i]] ELSE l.next[m])
                   /\ u.data[m] = l.data[m]

LEMMA SPassedBy ==
  ASSUME NEW u, NEW l, NEW s, NEW k, SLinked(l, s, k), NEW i \in 1 .. k, PassedBy(u, l, s, k, i)
  PROVE  SRemoved(u, l, s, k, i)
<1> DEFINE t == Without(s, k, i)
<1>1. /\ l \in SLists /\ Once(s, k) /\ Links(l.head, l.next, s, k)
      /\ l.tail = (IF k = 0 THEN None ELSE s[k]) /\ l.length = k
      /\ \A j \in 1 .. k : l.data[s[j]] \in Data
  BY DEF SLinked
<1>2. k \in Nat /\ \A j \in 1 .. k : s[j] \in Nodes /\ s[j] # None
  BY <1>1, NodesOf
<1>3. Once(t, k - 1)
  BY <1>1, TakenOnce
<1>4. \A j \in 1 .. k - 1 : t[j] = IF j < i THEN s[j] ELSE s[j + 1]
  BY DEF Without
<1> HIDE DEF t
<1>5. \A j \in 1 .. k : s[j] = s[i] => j = i
  BY <1>1 DEF Once
<1>6. u.head = NodeAt(t, k - 1, 1)
  <2>1. l.next[s[1]] = NodeAt(s, k, 2) /\ l.head = s[1]
    BY <1>1, <1>2 DEF Links, NodeAt
  <2>2. CASE i = 1
    BY <1>2, <1>4, <2>1, <2>2 DEF PassedBy, NodeAt
  <2>3. CASE i # 1
    BY <1>2, <1>4, <2>1, <2>3 DEF PassedBy, NodeAt
  <2> QED
    BY <2>2, <2>3
<1>7. ASSUME NEW j \in 1 .. k - 1 PROVE u.next[t[j]] = NodeAt(t, k - 1, j + 1)
  <2>1. CASE j < i - 1
    <3>1. t[j] = s[j] /\ j \in 1 .. k /\ j # i /\ NodeAt(t, k - 1, j + 1) = NodeAt(s, k, j + 1)
      BY <1>2, <1>4, <2>1 DEF NodeAt
    <3>2. s[j] # s[i] /\ (i # 1 => s[j] # s[i - 1])
      BY <1>1, <1>2, <2>1, <3>1 DEF Once
    <3>3. u.next[s[j]] = l.next[s[j]]
      BY <1>2, <3>1, <3>2 DEF PassedBy
    <3> QED
      BY <1>1, <3>1, <3>3 DEF Links
  <2>2. CASE j = i - 1
    <3>1. t[j] = s[j] /\ j \in 1 .. k /\ j # i /\ i # 1
          /\ NodeAt(t, k - 1, j + 1) = NodeAt(s, k, i + 1)
      BY <1>2, <1>4, <2>2 DEF NodeAt
    <3>2. s[j] # s[i]
      BY <1>5, <3>1
    <3>3. u.next[s[j]] = l.next[s[i]]
      BY <1>2, <2>2, <3>1, <3>2 DEF PassedBy
    <3> QED
      BY <1>1, <3>1, <3>3 DEF Links
  <2>3. CASE j >= i
    <3>1. t[j] = s[j + 1] /\ j + 1 \in 1 .. k /\ j + 1 # i
          /\ NodeAt(t, k - 1, j + 1) = NodeAt(s, k, (j + 1) + 1)
      BY <1>2, <1>4, <2>3 DEF NodeAt
    <3>2. s[j + 1] # s[i] /\ (i # 1 => s[j + 1] # s[i - 1])
      BY <1>1, <1>2, <2>3, <3>1 DEF Once
    <3>3. u.next[s[j + 1]] = l.next[s[j + 1]]
      BY <1>2, <3>1, <3>2 DEF PassedBy
    <3> QED
      BY <1>1, <3>1, <3>3 DEF Links
  <2> QED
    BY <1>2, <2>1, <2>2, <2>3
<1>8. u.tail = (IF k - 1 = 0 THEN None ELSE t[k - 1])
  <2>1. CASE i = 1
    <3>1. l.next[s[1]] = NodeAt(s, k, 2) /\ l.tail = s[k]
      BY <1>1, <1>2 DEF Links
    <3> QED
      BY <1>2, <1>4, <2>1, <3>1 DEF PassedBy, NodeAt
  <2>2. CASE i # 1
    <3>1. l.tail = s[k] /\ (s[k] = s[i] <=> i = k) /\ k - 1 # 0
      BY <1>1, <1>2, <1>5, <2>2
    <3> QED
      BY <1>2, <1>4, <2>2, <3>1 DEF PassedBy
  <2> QED
    BY <2>1, <2>2
<1>9. \A j \in 1 .. k - 1 : u.data[t[j]] = IF j < i THEN l.data[s[j]] ELSE l.data[s[j + 1]]
  <2> SUFFICES ASSUME NEW j \in 1 .. k - 1
               PROVE  u.data[t[j]] = IF j < i THEN l.data[s[j]] ELSE l.data[s[j + 1]]
    OBVIOUS
  <2>1. t[j] \in Nodes /\ t[j] # s[i] /\ t[j] = (IF j < i THEN s[j] ELSE s[j + 1])
    BY <1>2, <1>4, <1>5
  <2> QED
    BY <2>1 DEF PassedBy
<1>10. \A j \in 1 .. k - 1 : u.data[t[j]] \in Data
  BY <1>1, <1>2, <1>9
<1>11. Told(u.data, t, k - 1) = Without(Told(l.data, s, k), k, i)
  <2>1. \A j \in 1 .. k - 1 : j \in 1 .. k /\ j + 1 \in 1 .. k
    BY <1>2
  <2>2. \A j \in 1 .. k - 1 : Without(Told(l.data, s, k), k, i)[j] = u.data[t[j]]
    BY <1>9, <2>1 DEF Without, Told
  <2> QED
    BY <2>2 DEF Without, Told
<1>12. Links(u.head, u.next, t, k - 1)
  BY <1>6, <1>7 DEF Links
<1>13. SLinked(u, t, k - 1)
  BY <1>3, <1>8, <1>10, <1>12 DEF SLinked, PassedBy
<1> QED
  BY <1>11, <1>13 DEF SRemoved, t

LEMMA SRemove ==
  ASSUME NEW l, NEW s, NEW k, SLinked(l, s, k), NEW i \in 1 .. k
  PROVE  SRemoved(Single!linked_list_remove(l, s[i]), l, s, k, i)
<1>1. /\ l \in SLists /\ Once(s, k) /\ Links(l.head, l.next, s, k) /\ l.length = k
  BY DEF SLinked
<1>2. k \in Nat /\ \A j \in 1 .. k : s[j] \in Nodes /\ s[j] # None
  BY <1>1, NodesOf
<1>3. l.head = s[1] /\ l.length > 0 /\ 1 \in 1 .. k
  BY <1>1, <1>2 DEF Links, NodeAt
<1>4. Single!Has(l, s[i]) /\ Single!InOrder(l) = s
  BY <1>1, SingleViews DEF Has
<1>5. CASE i = 1
  <2> DEFINE u == Single!linked_list_pop_front(l)
  <2>1. Single!linked_list_remove(l, s[i]) = u
    BY <1>3, <1>4, <1>5 DEF Single!linked_list_remove
  <2>2. /\ u \in SLists /\ u.head = l.next[l.head]
        /\ u.tail = (IF l.next[l.head] = None THEN None ELSE l.tail)
        /\ u.length = l.length - 1
        /\ \A m \in Nodes : m # l.head => u.next[m] = l.next[m] /\ u.data[m] = l.data[m]
    BY <1>1, <1>2, <1>3, SPopIs
  <2> HIDE DEF u
  <2>3. PassedBy(u, l, s, k, i)
    BY <1>1, <1>3, <1>5, <2>2 DEF PassedBy
  <2> QED
    BY <2>1, <2>3, SPassedBy
<1>6. CASE i # 1
  <2>1. s[i] # l.head
    BY <1>1, <1>2, <1>3, <1>6 DEF Once
  <2>2. i - 1 \in 1 .. k /\ (i - 1) + 1 = i
    BY <1>2, <1>6
  <2>3. s[i - 1] \in Single!Range(s) /\ l.next[s[i - 1]] = s[i]
    <3>1. l.next[s[i - 1]] = s[i]
      BY <1>1, <1>2, <2>2 DEF Links, NodeAt
    <3> QED
      BY <1>1, <2>2, <3>1 DEF Single!Range, Once
  <2>4. ASSUME NEW p \in Single!Range(s), l.next[p] = s[i] PROVE p = s[i - 1]
    <3>1. PICK j \in 1 .. k : p = s[j]
      BY <1>1, <2>4 DEF Single!Range, Once
    <3>2. NodeAt(s, k, j + 1) = s[i]
      BY <1>1, <2>4, <3>1 DEF Links
    <3>3. j + 1 \in 1 .. k /\ s[j + 1] = s[i]
      BY <1>2, <3>2 DEF NodeAt
    <3>4. j + 1 = i
      BY <1>1, <3>3 DEF Once
    <3>5. j = i - 1
      BY <1>2, <3>4
    <3> QED
      BY <3>1, <3>5
  <2> DEFINE prev == CHOOSE p \in Single!Range(s) : l.next[p] = s[i]
  <2>9. prev = s[i - 1]
    BY <2>3, <2>4
  <2> DEFINE u == SUnlinked(l, s[i], s[i - 1])
  <2>5. Single!linked_list_remove(l, s[i]) = u
    <3>1. Single!linked_list_remove(l, s[i]) = SUnlinked(l, s[i], prev)
      BY <1>4, <2>1 DEF Single!linked_list_remove, SUnlinked
    <3> HIDE DEF prev
    <3> QED
      BY <2>9, <3>1
  <2>6. s[i] # s[i - 1] /\ s[i] \in Nodes /\ s[i - 1] \in Nodes
    BY <1>1, <1>2, <2>2 DEF Once
  <2>7. /\ u \in SLists /\ u.head = l.head
        /\ u.tail = (IF l.tail = s[i] THEN s[i - 1] ELSE l.tail)
        /\ u.length = l.length - 1
        /\ \A m \in Nodes :
             m # s[i] => /\ u.next[m] = (IF m = s[i - 1] THEN l.next[s[i]] ELSE l.next[m])
                         /\ u.data[m] = l.data[m]
    BY <1>1, <1>3, <2>6, SUnlinkedIs
  <2> HIDE DEF u
  <2>8. PassedBy(u, l, s, k, i)
    BY <1>1, <1>6, <2>7 DEF PassedBy
  <2> QED
    BY <2>5, <2>8, SPassedBy
<1> QED
  BY <1>5, <1>6

LEMMA SUpdate ==
  ASSUME NEW l, NEW s, NEW k, SLinked(l, s, k), NEW i \in 1 .. k, NEW d \in Data
  PROVE  LET u == [l EXCEPT !.data[s[i]] = d]
         IN  SLinked(u, s, k) /\ Told(u.data, s, k) = [Told(l.data, s, k) EXCEPT ![i] = d]
<1> DEFINE u == [l EXCEPT !.data[s[i]] = d]
<1>1. /\ l \in SLists /\ Once(s, k) /\ Links(l.head, l.next, s, k) /\ l.length = k
      /\ l.tail = (IF k = 0 THEN None ELSE s[k]) /\ \A j \in 1 .. k : l.data[s[j]] \in Data
  BY DEF SLinked
<1>2. k \in Nat /\ \A j \in 1 .. k : s[j] \in Nodes /\ (s[j] = s[i] <=> j = i)
  BY <1>1 DEF Once
<1>3. s[i] \in Nodes
  BY <1>2
<1>4. /\ u \in SLists /\ u.head = l.head /\ u.next = l.next /\ u.tail = l.tail
      /\ u.length = l.length /\ u.data = [l.data EXCEPT ![s[i]] = d]
  BY <1>1, <1>3 DEF SLists
<1>5. \A m \in Nodes : u.data[m] = IF m = s[i] THEN d ELSE l.data[m]
  BY <1>1, <1>4 DEF SLists
<1> HIDE DEF u
<1>6. \A j \in 1 .. k : u.data[s[j]] = IF j = i THEN d ELSE l.data[s[j]]
  BY <1>2, <1>5
<1>7. SLinked(u, s, k)
  BY <1>1, <1>4, <1>6 DEF SLinked
<1>8. Told(u.data, s, k) = [Told(l.data, s, k) EXCEPT ![i] = d]
  BY <1>6 DEF Told
<1> QED
  BY <1>7, <1>8 DEF u

-----------------------------------------------------------------------------
\* What a call has to do with the sequence that clients see.

LEMMA InsertedAt ==
  ASSUME NEW k \in Nat, NEW v \in [1 .. k -> Data], NEW i \in 0 .. k, NEW d \in Data
  PROVE  SequenceSpec!InsertAt(v, i + 1, d) = Inserted(v, k, i, d)
<1>1. v \in Seq(Data) /\ Len(v) = k
  OBVIOUS
<1> DEFINE a == SubSeq(v, 1, (i + 1) - 1)
           b == SubSeq(v, i + 1, Len(v))
           c == a \o <<d>>
           r == c \o b
<1>2. a \in Seq(Data) /\ Len(a) = i /\ \A j \in 1 .. i : a[j] = v[j]
  BY <1>1
<1>3. b \in Seq(Data) /\ Len(b) = k - i /\ \A j \in 1 .. k - i : b[j] = v[j + i]
  <2>1. b \in Seq(Data)
    BY <1>1
  <2>2. Len(b) = k - i
    BY <1>1
  <2>3. \A j \in 1 .. k - i : b[j] = v[j + i]
    BY <1>1
  <2> QED
    BY <2>1, <2>2, <2>3
<1> HIDE DEF a, b
<1>4. c \in Seq(Data) /\ Len(c) = i + 1 /\ \A j \in 1 .. i : c[j] = v[j]
  BY <1>2
<1>5. c[i + 1] = d
  BY <1>2
<1> HIDE DEF c
<1>6. r \in Seq(Data) /\ Len(r) = k + 1
  <2>1. r \in Seq(Data) /\ Len(r) = Len(c) + Len(b)
    BY <1>3, <1>4
  <2> HIDE DEF r
  <2> QED
    BY <1>3, <1>4, <2>1
<1>7. \A j \in 1 .. i + 1 : r[j] = c[j]
  BY <1>3, <1>4
<1>8. \A j \in i + 2 .. k + 1 : r[j] = v[j - 1]
  <2> SUFFICES ASSUME NEW j \in i + 2 .. k + 1 PROVE r[j] = v[j - 1]
    OBVIOUS
  <2>1. j - (i + 1) \in 1 .. k - i /\ (j - (i + 1)) + i = j - 1
    OBVIOUS
  <2>2. r[j] = b[j - (i + 1)]
    BY <1>3, <1>4, <2>1
  <2> QED
    BY <1>3, <2>1, <2>2
<1> HIDE DEF r
<1>9. \A j \in 1 .. k + 1 : r[j] = Inserted(v, k, i, d)[j]
  <2> SUFFICES ASSUME NEW j \in 1 .. k + 1 PROVE r[j] = Inserted(v, k, i, d)[j]
    OBVIOUS
  <2>1. j <= i => j \in 1 .. i /\ j \in 1 .. i + 1
    OBVIOUS
  <2>2. j > i + 1 => j \in i + 2 .. k + 1
    OBVIOUS
  <2> QED
    BY <1>4, <1>5, <1>7, <1>8, <2>1, <2>2 DEF Inserted
<1>10. r = Inserted(v, k, i, d)
  BY <1>6, <1>9 DEF Inserted
<1>11. SequenceSpec!InsertAt(v, i + 1, d) = r
  BY DEF SequenceSpec!InsertAt, a, b, c, r
<1> QED
  BY <1>10, <1>11

LEMMA RemovedAt ==
  ASSUME NEW k \in Nat, NEW v \in [1 .. k -> Data], NEW i \in 1 .. k
  PROVE  SequenceSpec!RemoveAt(v, i) = Without(v, k, i)
<1>1. v \in Seq(Data) /\ Len(v) = k
  OBVIOUS
<1> DEFINE a == SubSeq(v, 1, i - 1)
           b == SubSeq(v, i + 1, Len(v))
           r == a \o b
<1>2. a \in Seq(Data) /\ Len(a) = i - 1 /\ \A j \in 1 .. i - 1 : a[j] = v[j]
  BY <1>1
<1>3. b \in Seq(Data) /\ Len(b) = k - i /\ \A j \in 1 .. k - i : b[j] = v[j + i]
  <2>1. b \in Seq(Data)
    BY <1>1
  <2>2. Len(b) = k - i
    BY <1>1
  <2>3. \A j \in 1 .. k - i : b[j] = v[j + i]
    BY <1>1
  <2> QED
    BY <2>1, <2>2, <2>3
<1> HIDE DEF a, b
<1>6. r \in Seq(Data) /\ Len(r) = k - 1
  <2>1. r \in Seq(Data) /\ Len(r) = Len(a) + Len(b)
    BY <1>2, <1>3
  <2> HIDE DEF r
  <2> QED
    BY <1>2, <1>3, <2>1
<1>7. \A j \in 1 .. i - 1 : r[j] = v[j]
  BY <1>2, <1>3
<1>8. \A j \in i .. k - 1 : r[j] = v[j + 1]
  <2> SUFFICES ASSUME NEW j \in i .. k - 1 PROVE r[j] = v[j + 1]
    OBVIOUS
  <2>1. j - (i - 1) \in 1 .. k - i /\ (j - (i - 1)) + i = j + 1
    OBVIOUS
  <2>2. r[j] = b[j - (i - 1)]
    BY <1>2, <1>3, <2>1
  <2> QED
    BY <1>3, <2>1, <2>2
<1> HIDE DEF r
<1>9. r = Without(v, k, i)
  BY <1>6, <1>7, <1>8 DEF Without
<1>10. SequenceSpec!RemoveAt(v, i) = r
  BY DEF SequenceSpec!RemoveAt, a, b, r
<1> QED
  BY <1>9, <1>10

\* One of the lists shows clients the k values v.
Shown(v, k) == IsList /\ k \in Nat /\ v \in [1 .. k -> Data] /\ sequence = v

LEMMA InsertCall ==
  ASSUME NEW v, NEW k, Shown(v, k), IsList', NEW i \in 0 .. k, NEW d \in Data,
         sequence' = Inserted(v, k, i, d), out' = [op |-> "insert", at |-> i, data |-> d]
  PROVE  SequenceSpec!Next
<1>1. k \in Nat /\ v \in [1 .. k -> Data] /\ sequence = v /\ Len(v) = k
  BY DEF Shown
<1>2. sequence' = SequenceSpec!InsertAt(sequence, i + 1, d)
  BY <1>1, InsertedAt
<1> QED
  BY <1>1, <1>2 DEF SequenceSpec!Next, SequenceSpec!Insert

LEMMA RemoveCall ==
  ASSUME NEW v, NEW k, Shown(v, k), IsList', NEW i \in 1 .. k,
         sequence' = Without(v, k, i), out' = [op |-> "remove", at |-> i, data |-> v[i]]
  PROVE  SequenceSpec!Next
<1>1. k \in Nat /\ v \in [1 .. k -> Data] /\ sequence = v /\ Len(v) = k
  BY DEF Shown
<1>2. sequence' = SequenceSpec!RemoveAt(sequence, i)
  BY <1>1, RemovedAt
<1> QED
  BY <1>1, <1>2 DEF SequenceSpec!Next, SequenceSpec!TakeOut

LEMMA DropCall ==
  ASSUME NEW v, NEW k, Shown(v, k), IsList', NEW n \in Nat, NEW m,
         m = (IF n < k THEN n ELSE k),
         sequence' = [j \in 1 .. k - m |-> v[j]],
         out' = [op |-> "drop", at |-> n, data |-> m]
  PROVE  SequenceSpec!Next
<1>1. k \in Nat /\ v \in [1 .. k -> Data] /\ sequence = v /\ Len(v) = k
  BY DEF Shown
<1>2. v \in Seq(Data) /\ m \in 0 .. k
  BY <1>1
<1>3. SubSeq(v, 1, k - m) = [j \in 1 .. k - m |-> v[j]]
  BY <1>1, <1>2
<1>4. out'.op = "drop" /\ out'.at = n /\ out'.data = m
  OBVIOUS
<1> QED
  BY <1>1, <1>3, <1>4 DEF SequenceSpec!Next, SequenceSpec!Drop

LEMMA UpdateCall ==
  ASSUME NEW v, NEW k, Shown(v, k), IsList', NEW i \in 1 .. k, NEW d \in Data,
         sequence' = [v EXCEPT ![i] = d], out' = [op |-> "update", at |-> i, data |-> d]
  PROVE  SequenceSpec!Next
<1>1. k \in Nat /\ v \in [1 .. k -> Data] /\ sequence = v /\ Len(v) = k
  BY DEF Shown
<1> QED
  BY <1>1 DEF SequenceSpec!Next, SequenceSpec!Update

LEMMA GetCall ==
  ASSUME NEW v, NEW k, Shown(v, k), IsList', NEW i \in Nat, sequence' = v,
         out' = [op |-> "get", at |-> i, data |-> IF i \in 1 .. k THEN v[i] ELSE None]
  PROVE  SequenceSpec!Next
<1>1. k \in Nat /\ v \in [1 .. k -> Data] /\ sequence = v /\ DOMAIN v = 1 .. k
  BY DEF Shown
<1>2. out'.op = "get" /\ out'.at = i /\ out'.data = IF i \in 1 .. k THEN v[i] ELSE None
  OBVIOUS
<1> QED
  BY <1>1, <1>2 DEF SequenceSpec!Next, SequenceSpec!Get

LEMMA FindCall ==
  ASSUME NEW v, NEW k, Shown(v, k), IsList', NEW d \in Data, sequence' = v,
         out' = [op |-> "find", at |-> Single!Place(v, d), data |-> d]
  PROVE  SequenceSpec!Next
<1>1. k \in Nat /\ v \in [1 .. k -> Data] /\ sequence = v /\ DOMAIN v = 1 .. k /\ Len(v) = k
  BY DEF Shown
<1> DEFINE i == Single!Place(v, d)
<1>2. IF \E j \in 1 .. k : v[j] = d
      THEN i \in 1 .. k /\ v[i] = d /\ \A j \in 1 .. i - 1 : v[j] # d
      ELSE i = 0
  BY <1>1, PlaceOf
<1> HIDE DEF i
<1>3. i \in 0 .. k
  BY <1>1, <1>2
<1>4. IF i = 0 THEN d \notin SequenceSpec!Range(v)
      ELSE v[i] = d /\ \A j \in 1 .. i - 1 : v[j] # d
  BY <1>1, <1>2 DEF SequenceSpec!Range
<1>5. out' = [op |-> "find", at |-> i, data |-> d]
  BY DEF i
<1>6. \E j \in 0 .. k :
        /\ IF j = 0 THEN d \notin SequenceSpec!Range(v)
           ELSE v[j] = d /\ \A a \in 1 .. j - 1 : v[a] # d
        /\ out' = [op |-> "find", at |-> j, data |-> d]
  BY <1>3, <1>4, <1>5
<1> QED
  BY <1>1, <1>6 DEF SequenceSpec!Next, SequenceSpec!Find

LEMMA MissCall ==
  ASSUME NEW v, NEW k, Shown(v, k), IsList', sequence' = v, out' = [op |-> "miss"]
  PROVE  SequenceSpec!Next
BY DEF Shown, SequenceSpec!Next, SequenceSpec!Miss

LEMMA ClearCall ==
  ASSUME NEW v, NEW k, Shown(v, k), IsList', sequence' = <<>>, out' = [op |-> "clear"]
  PROVE  SequenceSpec!Next
BY DEF SequenceSpec!Next, SequenceSpec!Clear

\* The same values, none before one that is greater.
IsSorted(v, w, k) ==
  /\ w \in [1 .. k -> Data] /\ \A i \in 2 .. k : w[i] <= w[i - 1]
  /\ \E p \in Bijection(1 .. k, 1 .. k) : \A i \in 1 .. k : w[i] = v[p[i]]

LEMMA SortCall ==
  ASSUME NEW v, NEW k, Shown(v, k), IsList', NEW w, IsSorted(v, w, k), sequence' = w,
         out' = [op |-> "sort"]
  PROVE  SequenceSpec!Next
<1>0. w \in [1 .. k -> Data] /\ \A i \in 2 .. k : w[i] <= w[i - 1]
  BY DEF IsSorted
<1>p. PICK p \in Bijection(1 .. k, 1 .. k) : \A i \in 1 .. k : w[i] = v[p[i]]
  BY DEF IsSorted
<1>1. /\ k \in Nat /\ v \in [1 .. k -> Data] /\ sequence = v
      /\ DOMAIN v = 1 .. k /\ DOMAIN w = 1 .. k /\ Len(v) = k
  BY <1>0 DEF Shown
<1>2. /\ p \in [1 .. k -> 1 .. k] /\ \A i, j \in 1 .. k : p[i] = p[j] => i = j
      /\ \A j \in 1 .. k : \E i \in 1 .. k : p[i] = j
  BY <1>p DEF Bijection, Injection, Surjection, IsInjective
<1>3. ASSUME NEW d \in Data
      PROVE  SequenceSpec!Cardinality({i \in 1 .. k : v[i] = d})
               = SequenceSpec!Cardinality({i \in 1 .. k : w[i] = d})
  <2> DEFINE S == {i \in 1 .. k : w[i] = d}
             T == {i \in 1 .. k : v[i] = d}
             f == [i \in S |-> p[i]]
  <2>1. IsFiniteSet(1 .. k) /\ S \subseteq 1 .. k
    BY <1>1, FS_Interval
  <2>2. IsFiniteSet(S)
    BY <2>1, FS_Subset
  <2>3. \A i \in 1 .. k : p[i] \in 1 .. k /\ (p[i] \in T <=> i \in S)
    BY <1>0, <1>1, <1>2, <1>p
  <2>4. f \in [S -> T] /\ \A i, j \in S : f[i] = f[j] => i = j
    BY <1>2, <2>3
  <2>5. \A j \in T : \E i \in S : f[i] = j
    BY <1>2, <2>3
  <2>6. f \in Bijection(S, T)
    BY <2>4, <2>5 DEF Bijection, Injection, Surjection, IsInjective
  <2> HIDE DEF S, T, f
  <2>7. Cardinality(T) = Cardinality(S)
    BY <2>2, <2>6, FS_Bijection DEF ExistsBijection
  <2>8. \A A : SequenceSpec!Cardinality(A) = Cardinality(A)
    BY DEF Cardinality, SequenceSpec!Cardinality
  <2> QED
    BY <2>7, <2>8 DEF S, T
<1>4. SequenceSpec!Occurrences(w) = SequenceSpec!Occurrences(v)
  BY <1>1, <1>3 DEF SequenceSpec!Occurrences
<1> QED
  BY <1>0, <1>1, <1>4 DEF SequenceSpec!Next, SequenceSpec!Sort

-----------------------------------------------------------------------------
\* The loops of the singly linked list.

LEMMA NodesCounted == Cardinality(Nodes) \in Nat /\ \A S : Single!Cardinality(S) = Cardinality(S)
BY FS_CardinalityType, ListsAssumption DEF Cardinality, Single!Cardinality

LEMMA SClear ==
  ASSUME NEW l, NEW s, NEW k, SLinked(l, s, k)
  PROVE  \E t : SLinked(Single!Cleared(l), t, 0)
<1> DEFINE N == Cardinality(Nodes)
           S == [i \in 0 .. N |-> {u \in SLists : /\ u.length <= N - i
                                                  /\ \E t, m : SLinked(u, t, m)}]
           body(u) == IF u.tail = None THEN u ELSE Single!linked_list_remove(u, u.tail)
           F == [i \in 1 .. N |-> [u \in S[i - 1] |-> body(u)]]
           Is(f) == f = [i \in 0 .. N |->
                           IF i = 0 THEN l
                           ELSE LET u == f[i - 1]
                                IN  IF u.tail = None THEN u
                                    ELSE Single!linked_list_remove(u, u.tail)]
           left == CHOOSE f : Is(f)
<1>1. N \in Nat
  BY NodesCounted
<1> HIDE DEF N
<1>2. \A i \in 1 .. N : i - 1 \in 0 .. N /\ i \in 0 .. N
  BY <1>1
<1>3. l \in S[0]
  <2>1. Once(s, k) /\ l \in SLists /\ l.length = k
    BY DEF SLinked
  <2>2. k <= N
    BY <2>1, NoMoreThanNodes DEF N
  <2>3. k <= N - 0 /\ 0 \in 0 .. N /\ k \in Nat
    BY <1>1, <2>1, <2>2 DEF Once
  <2> QED
    BY <2>1, <2>3
<1>4. ASSUME NEW i \in 1 .. N, NEW u \in S[i - 1] PROVE body(u) \in S[i]
  <2>1. PICK t, m : SLinked(u, t, m)
    BY <1>2
  <2>2. u \in SLists /\ u.length <= N - (i - 1) /\ u.length = m /\ m \in Nat
    BY <1>2, <2>1 DEF SLinked, Once
  <2>3. CASE m = 0
    <3>1. u.tail = None /\ u.length <= N - i
      BY <1>1, <2>1, <2>2, <2>3 DEF SLinked
    <3> QED
      BY <1>2, <2>1, <2>2, <3>1
  <2>4. CASE m # 0
    <3>1. m \in 1 .. m /\ u.tail = t[m] /\ Once(t, m)
      BY <2>1, <2>2, <2>4 DEF SLinked
    <3>2. u.tail # None
      BY <3>1, NodesOf
    <3>3. SLinked(body(u), Without(t, m, m), m - 1)
      BY <2>1, <3>1, <3>2, SRemove DEF SRemoved
    <3> DEFINE v == body(u)
    <3> HIDE DEF v
    <3>4. SLinked(v, Without(t, m, m), m - 1)
      BY <3>3 DEF v
    <3>5. v \in SLists /\ v.length <= N - i
      BY <1>1, <2>2, <3>4 DEF SLinked
    <3>6. v \in S[i]
      BY <1>2, <3>4, <3>5
    <3> QED
      BY <3>6 DEF v
  <2> QED
    BY <2>3, <2>4
<1>5. \A i \in 1 .. N : F[i] \in [S[i - 1] -> S[i]]
  <2> HIDE DEF S, body
  <2> QED
    BY <1>4
<1>6. PICK g : Rounds(g, S, l, F, N)
  <2> HIDE DEF S, F
  <2> QED
    BY <1>1, <1>3, <1>5, GoneRound
<1>7. Is(g)
  <2> HIDE DEF S
  <2>1. \A i \in 1 .. N : g[i] = body(g[i - 1])
    BY <1>2, <1>6 DEF Rounds
  <2> QED
    BY <1>1, <1>2, <1>6, <2>1 DEF Rounds
<1>8. Is(left)
  <2> HIDE DEF Is
  <2> QED
    BY <1>7
<1>9. Single!Cleared(l) = left[N]
  BY NodesCounted DEF Single!Cleared, N
<1>10. left[0] = l /\ \A i \in 1 .. N : left[i] = body(left[i - 1])
  <2> HIDE DEF left
  <2> QED
    BY <1>1, <1>2, <1>8
<1> HIDE DEF left, body, F, Is
<1>11. left[N] \in S[N]
  <2>1. \A i \in 1 .. N : left[i - 1] \in S[i - 1] => left[i] \in S[i]
    BY <1>4, <1>10
  <2> HIDE DEF S
  <2>2. \A i \in 0 .. N : left[i] \in S[i]
    BY <1>1, <1>3, <1>10, <2>1, Arrives
  <2> QED
    BY <1>1, <2>2
<1>12. PICK t, m : SLinked(left[N], t, m)
  BY <1>1, <1>11
<1>13. left[N].length <= 0 /\ left[N].length = m /\ m \in Nat
  BY <1>1, <1>11, <1>12 DEF SLinked, Once
<1>14. m = 0
  BY <1>13
<1> QED
  BY <1>9, <1>12, <1>14

LEMMA EmptyIsLinked == SLinked(Single!EmptyList, <<>>, 0)
<1>1. Single!EmptyList \in SLists
  BY DEF Single!EmptyList, SLists
<1>2. Once(<<>>, 0)
  BY DEF Once
<1> QED
  BY <1>1, <1>2 DEF SLinked, Links, NodeAt, Single!EmptyList

\* A list that has room gives a node that it does not have.
LEMMA SSpare ==
  ASSUME NEW l, NEW s, NEW k, SLinked(l, s, k), Single!Free(l) # {}
  PROVE  Single!Spare(l) \in Nodes /\ ~Has(s, k, Single!Spare(l))
<1>1. Single!Free(l) = {n \in Nodes : ~Has(s, k, n)}
  BY SingleViews DEF SLinked
<1>2. Single!Spare(l) \in Single!Free(l)
  BY DEF Single!Spare
<1> QED
  BY <1>1, <1>2

LEMMA SRoom ==
  ASSUME NEW l, NEW s, NEW k, SLinked(l, s, k), k < Cardinality(Nodes)
  PROVE  Single!Free(l) # {}
<1>1. Once(s, k) /\ Links(l.head, l.next, s, k)
  BY DEF SLinked
<1>2. Single!Free(l) = {n \in Nodes : ~Has(s, k, n)}
  BY <1>1, SingleViews
<1>3. SUFFICES ASSUME Single!Free(l) = {} PROVE FALSE
  OBVIOUS
<1>4. Nodes = {s[i] : i \in 1 .. k}
  BY <1>1, <1>2, <1>3 DEF Has, Once
<1>5. Cardinality({s[i] : i \in 1 .. k}) = k
  BY <1>1, RangeSize
<1> QED
  BY <1>1, <1>4, <1>5 DEF Once

\* The first places of a sequence.
Prefix(v, i) == [j \in 1 .. i |-> v[j]]

LEMMA SAppend ==
  ASSUME NEW v, NEW K \in Nat, v \in [1 .. K -> Data], NEW i \in 1 .. K, NEW u, NEW t,
         SLinked(u, t, i - 1), Told(u.data, t, i - 1) = Prefix(v, i - 1),
         K <= Cardinality(Nodes)
  PROVE  \E r : LET w == Single!linked_list_insert_after(u, u.tail, Single!Spare(u), v[i])
                IN  SLinked(w, r, i) /\ Told(w.data, r, i) = Prefix(v, i)
<1> DEFINE w == Single!linked_list_insert_after(u, u.tail, Single!Spare(u), v[i])
           r == Inserted(t, i - 1, i - 1, Single!Spare(u))
<1>1. i - 1 < Cardinality(Nodes) /\ i - 1 \in 0 .. i - 1 /\ v[i] \in Data /\ (i - 1) + 1 = i
  BY NodesCounted
<1>2. Single!Spare(u) \in Nodes /\ ~Has(t, i - 1, Single!Spare(u))
  BY <1>1, SRoom, SSpare
<1>3. u.tail = (IF i - 1 = 0 THEN None ELSE t[i - 1])
  BY DEF SLinked
<1>4. SInserted(w, u, t, i - 1, i - 1, Single!Spare(u), v[i])
  BY <1>1, <1>2, <1>3, SInsert
<1>5. SLinked(w, r, (i - 1) + 1)
  BY <1>4 DEF SInserted
<1>6. Told(w.data, r, (i - 1) + 1) = Inserted(Prefix(v, i - 1), i - 1, i - 1, v[i])
  BY <1>4 DEF SInserted
<1>7. Inserted(Prefix(v, i - 1), i - 1, i - 1, v[i]) = Prefix(v, i)
  BY <1>1 DEF Inserted, Prefix
<1> HIDE DEF w, r
<1>8. SLinked(w, r, i) /\ Told(w.data, r, i) = Prefix(v, i)
  BY <1>1, <1>5, <1>6, <1>7
<1> QED
  BY <1>8 DEF w

LEMMA SClone ==
  ASSUME NEW v, NEW K \in Nat, v \in [1 .. K -> Data], K <= Cardinality(Nodes)
  PROVE  \E t : LET u == Single!Appended(v) IN SLinked(u, t, K) /\ Told(u.data, t, K) = v
<1> DEFINE S == [i \in 0 .. K |->
                   {u \in SLists : \E t : SLinked(u, t, i) /\ Told(u.data, t, i) = Prefix(v, i)}]
           body(i, u) == Single!linked_list_insert_after(u, u.tail, Single!Spare(u), v[i])
           F == [i \in 1 .. K |-> [u \in S[i - 1] |-> body(i, u)]]
           Is(f) == f = [i \in 0 .. Len(v) |->
                           IF i = 0 THEN Single!EmptyList
                           ELSE LET l == f[i - 1]
                                IN  Single!linked_list_insert_after(l, l.tail, Single!Spare(l), v[i])]
           clone == CHOOSE f : Is(f)
<1>1. Len(v) = K
  OBVIOUS
<1>2. \A i \in 1 .. K : i - 1 \in 0 .. K /\ i \in 0 .. K
  OBVIOUS
<1>3. Single!EmptyList \in S[0]
  <2>1. Told(Single!EmptyList.data, <<>>, 0) = Prefix(v, 0)
    BY DEF Told, Prefix
  <2> QED
    BY <2>1, EmptyIsLinked DEF SLinked
<1>4. ASSUME NEW i \in 1 .. K, NEW u \in S[i - 1] PROVE body(i, u) \in S[i]
  <2>1. PICK t : SLinked(u, t, i - 1) /\ Told(u.data, t, i - 1) = Prefix(v, i - 1)
    BY <1>2
  <2>2. PICK r : SLinked(body(i, u), r, i) /\ Told(body(i, u).data, r, i) = Prefix(v, i)
    BY <2>1, SAppend
  <2> DEFINE w == body(i, u)
  <2>3. SLinked(w, r, i) /\ Told(w.data, r, i) = Prefix(v, i)
    BY <2>2
  <2> HIDE DEF w
  <2>4. w \in S[i]
    BY <1>2, <2>3 DEF SLinked
  <2> QED
    BY <2>4 DEF w
<1>5. \A i \in 1 .. K : F[i] \in [S[i - 1] -> S[i]]
  <2> HIDE DEF S, body
  <2> QED
    BY <1>4
<1>6. PICK g : Rounds(g, S, Single!EmptyList, F, K)
  <2> HIDE DEF S, F
  <2> QED
    BY <1>3, <1>5, GoneRound
<1>7. Is(g)
  <2> HIDE DEF S
  <2>1. \A i \in 1 .. K : g[i] = body(i, g[i - 1])
    BY <1>2, <1>6 DEF Rounds
  <2>2. g = [i \in 0 .. K |-> g[i]] /\ g[0] = Single!EmptyList
    BY <1>6 DEF Rounds
  <2>3. \A i \in 0 .. K : g[i] = IF i = 0 THEN Single!EmptyList ELSE body(i, g[i - 1])
    <3> HIDE DEF body
    <3>1. \A i \in 0 .. K : i # 0 => i \in 1 .. K
      OBVIOUS
    <3> QED
      BY <2>1, <2>2, <3>1
  <2>4. g = [i \in 0 .. K |-> IF i = 0 THEN Single!EmptyList ELSE body(i, g[i - 1])]
    <3> HIDE DEF body
    <3> QED
      BY <2>2, <2>3
  <2> QED
    BY <1>1, <2>4
<1>8. Is(clone)
  <2> HIDE DEF Is
  <2> QED
    BY <1>7
<1>9. Single!Appended(v) = clone[K]
  BY <1>1 DEF Single!Appended
<1>10. clone[0] = Single!EmptyList /\ \A i \in 1 .. K : clone[i] = body(i, clone[i - 1])
  <2> HIDE DEF clone
  <2> QED
    BY <1>1, <1>2, <1>8
<1> HIDE DEF clone, body, F, Is
<1>11. clone[K] \in S[K]
  <2>1. \A i \in 1 .. K : clone[i - 1] \in S[i - 1] => clone[i] \in S[i]
    BY <1>4, <1>10
  <2> HIDE DEF S
  <2>2. \A i \in 0 .. K : clone[i] \in S[i]
    BY <1>3, <1>10, <2>1, Arrives
  <2> QED
    BY <2>2
<1>12. PICK t : SLinked(clone[K], t, K) /\ Told(clone[K].data, t, K) = Prefix(v, K)
  BY <1>11
<1>13. Prefix(v, K) = v
  BY DEF Prefix
<1> QED
  BY <1>9, <1>12, <1>13

-----------------------------------------------------------------------------
\* Sorting: the nodes up to place j are in order, and node j + 1 comes next.

\* Node b comes to place a, and those between move back by one.
Shifted(t, k, a, b) ==
  [i \in 1 .. k |-> IF i < a THEN t[i] ELSE IF i = a THEN t[b]
                    ELSE IF i <= b THEN t[i - 1] ELSE t[i]]

LEMMA ShiftedOnce ==
  ASSUME NEW t, NEW k, Once(t, k), NEW a \in 1 .. k, NEW b \in 1 .. k, a <= b
  PROVE  /\ Once(Shifted(t, k, a, b), k)
         /\ \A n : Has(Shifted(t, k, a, b), k, n) <=> Has(t, k, n)
<1> DEFINE u == Shifted(t, k, a, b)
<1>1. k \in Nat /\ t \in [1 .. k -> Nodes] /\ \A i, j \in 1 .. k : t[i] = t[j] => i = j
  BY DEF Once
<1>2. \A i \in 1 .. k : u[i] = IF i < a THEN t[i] ELSE IF i = a THEN t[b]
                               ELSE IF i <= b THEN t[i - 1] ELSE t[i]
  BY DEF Shifted
<1>3. u = [i \in 1 .. k |-> u[i]]
  BY DEF Shifted
<1> HIDE DEF u
<1> DEFINE old(i) == IF i < a THEN i ELSE IF i = a THEN b ELSE IF i <= b THEN i - 1 ELSE i
<1>4. \A i \in 1 .. k : old(i) \in 1 .. k /\ u[i] = t[old(i)]
  BY <1>1, <1>2
<1>5. \A i, j \in 1 .. k : old(i) = old(j) => i = j
  BY <1>1
<1>6. \A j \in 1 .. k : \E i \in 1 .. k : old(i) = j
  <2> SUFFICES ASSUME NEW j \in 1 .. k PROVE \E i \in 1 .. k : old(i) = j
    OBVIOUS
  <2>1. CASE j < a \/ j > b
    BY <1>1, <2>1
  <2>2. CASE j = b
    BY <1>1, <2>2
  <2>3. CASE a <= j /\ j < b
    <3>1. j + 1 \in 1 .. k /\ old(j + 1) = j
      BY <1>1, <2>3
    <3> QED
      BY <3>1
  <2> QED
    BY <1>1, <2>1, <2>2, <2>3
<1> HIDE DEF old
<1>7. Once(u, k)
  <2>1. u \in [1 .. k -> Nodes]
    BY <1>1, <1>3, <1>4
  <2>2. \A i, j \in 1 .. k : u[i] = u[j] => i = j
    BY <1>1, <1>4, <1>5
  <2> QED
    BY <1>1, <2>1, <2>2 DEF Once
<1>8. \A n : Has(u, k, n) <=> Has(t, k, n)
  BY <1>4, <1>6 DEF Has
<1> QED
  BY <1>7, <1>8 DEF u

LEMMA SMovedIs ==
  ASSUME NEW l \in SLists, NEW current \in Nodes, NEW n \in Nodes, current # n,
         NEW p \in Nodes \cup {None}, p # current, p # n, p = Single!Slot(l, n)
  PROVE  LET v == Single!Moved(l, current, n)
         IN  /\ v \in SLists /\ v.head = (IF p = None THEN n ELSE l.head)
             /\ v.length = l.length /\ v.data = l.data
             /\ \A m \in Nodes :
                  v.next[m] = IF m = n THEN IF p = None THEN l.head ELSE l.next[p]
                              ELSE IF m = p THEN n
                              ELSE IF m = current THEN l.next[n] ELSE l.next[m]
<1> DEFINE u == [l EXCEPT !.next[current] = l.next[n]]
           w == [u EXCEPT !.next[n] = Single!After(u, p)]
           v == Single!Link(w, p, n)
<1>1. Single!Moved(l, current, n) = v
  BY DEF Single!Moved
<1>2. l.next[n] \in Nodes \cup {None}
  BY DEF SLists
<1>3. /\ u \in SLists /\ u.head = l.head /\ u.length = l.length /\ u.data = l.data
      /\ u.next = [l.next EXCEPT ![current] = l.next[n]]
  BY <1>2 DEF SLists
<1>4. \A m \in Nodes : u.next[m] = IF m = current THEN l.next[n] ELSE l.next[m]
  BY <1>3 DEF SLists
<1> HIDE DEF u
<1>5. Single!After(u, p) = (IF p = None THEN l.head ELSE l.next[p])
  BY <1>3, <1>4, ListsAssumption DEF Single!After
<1>6. Single!After(u, p) \in Nodes \cup {None}
  BY <1>5 DEF SLists
<1>7. /\ w \in SLists /\ w.head = l.head /\ w.length = l.length /\ w.data = l.data
      /\ w.next = [u.next EXCEPT ![n] = Single!After(u, p)]
  BY <1>3, <1>6 DEF SLists
<1>8. \A m \in Nodes : w.next[m] = IF m = n THEN Single!After(u, p) ELSE u.next[m]
  BY <1>3, <1>7 DEF SLists
<1> HIDE DEF w
<1>9. CASE p = None
  <2>1. v = [w EXCEPT !.head = n]
    BY <1>9 DEF Single!Link
  <2>2. /\ v \in SLists /\ v.head = n /\ v.length = l.length /\ v.data = l.data
        /\ v.next = w.next
    BY <1>7, <2>1 DEF SLists
  <2> HIDE DEF v
  <2>3. \A m \in Nodes : v.next[m] = IF m = n THEN l.head
                                     ELSE IF m = current THEN l.next[n] ELSE l.next[m]
    BY <1>4, <1>5, <1>8, <1>9, <2>2
  <2> QED
    BY <1>1, <1>9, <2>2, <2>3, ListsAssumption
<1>10. CASE p # None
  <2>1. v = [w EXCEPT !.next[p] = n]
    BY <1>10 DEF Single!Link
  <2>2. /\ v \in SLists /\ v.head = l.head /\ v.length = l.length /\ v.data = l.data
        /\ v.next = [w.next EXCEPT ![p] = n]
    BY <1>7, <1>10, <2>1 DEF SLists
  <2>3. \A m \in Nodes : v.next[m] = IF m = p THEN n ELSE w.next[m]
    BY <1>7, <1>10, <2>2 DEF SLists
  <2> HIDE DEF v
  <2>4. \A m \in Nodes : v.next[m] = IF m = n THEN l.next[p] ELSE IF m = p THEN n
                                     ELSE IF m = current THEN l.next[n] ELSE l.next[m]
    BY <1>4, <1>5, <1>8, <1>10, <2>3
  <2> QED
    BY <1>1, <1>10, <2>2, <2>4
<1> QED
  BY <1>9, <1>10

SortStates == [list : SLists, current : Nodes \cup {None}, node : Nodes \cup {None}]

Falling(d, t, j) == \A a, b \in 1 .. j : a < b => d[t[b]] <= d[t[a]]

SortedTo(r, d, k, t, j) ==
  /\ r \in SortStates /\ Once(t, k) /\ Links(r.list.head, r.list.next, t, k)
  /\ r.list.length = k /\ r.list.data = d
  /\ \A a \in 1 .. k : d[t[a]] \in Data
  /\ j \in 1 .. k /\ r.current = t[j] /\ r.node = NodeAt(t, k, j + 1)
  /\ Falling(d, t, j)

\* The place in front of which a node belongs.
SlotAt(d, t, j, n, m) ==
  /\ m \in 1 .. j /\ \A a \in 1 .. m - 1 : d[n] < d[t[a]]
  /\ d[t[m]] <= d[n]

LEMMA SSlot ==
  ASSUME NEW l, NEW d, NEW k, NEW t, NEW j, Once(t, k), Links(l.head, l.next, t, k),
         l.data = d, \A a \in 1 .. k : d[t[a]] \in Data,
         j \in 1 .. k - 1, ~(d[t[j + 1]] < d[t[j]])
  PROVE  \E m : /\ SlotAt(d, t, j, t[j + 1], m)
                /\ Single!Slot(l, t[j + 1]) = (IF m = 1 THEN None ELSE t[m - 1])
<1> DEFINE n == t[j + 1]
           I == {a \in 1 .. k : t[a] = n \/ ~Single!less(l, n, t[a])}
           m == CHOOSE a \in I : \A b \in I : a <= b
<1>1. Single!InOrder(l) = t
  BY SingleOrder
<1>2. k \in Nat /\ DOMAIN t = 1 .. k /\ j \in 1 .. k /\ j + 1 \in 1 .. k
  BY DEF Once
<1>3. \A a \in 1 .. k : d[t[a]] \in Int /\ (t[a] = n <=> a = j + 1)
  BY <1>2, ListsAssumption DEF Once
<1>4. Single!Slot(l, n) = (IF m = 1 THEN None ELSE t[m - 1])
  BY <1>1, <1>2 DEF Single!Slot, Single!Min
<1>5. j \in I
  BY <1>2 DEF Single!less
<1>6. m \in I /\ \A b \in I : m <= b
  <2>1. I \in SUBSET Nat /\ I # {}
    BY <1>5
  <2> HIDE DEF I
  <2>2. \E a \in I : \A b \in I : a <= b
    BY <2>1, LeastNumber
  <2> QED
    BY <2>2
<1> HIDE DEF m
<1>7. m \in 1 .. j
  BY <1>2, <1>5, <1>6
<1>8. \A a \in 1 .. m - 1 : d[n] < d[t[a]]
  <2> SUFFICES ASSUME NEW a \in 1 .. m - 1 PROVE d[n] < d[t[a]]
    OBVIOUS
  <2>1. a \in 1 .. k /\ ~(m <= a)
    BY <1>2, <1>7
  <2>2. a \notin I
    BY <1>6, <2>1
  <2> QED
    BY <2>1, <2>2 DEF Single!less
<1>9. d[t[m]] <= d[n]
  <2>1. m \in 1 .. k /\ m # j + 1 /\ j + 1 \in 1 .. k
    BY <1>2, <1>7
  <2>2. ~(d[n] < d[t[m]])
    BY <1>3, <1>6, <2>1 DEF Single!less
  <2> QED
    BY <1>3, <2>1, <2>2
<1>10. SlotAt(d, t, j, n, m)
  BY <1>7, <1>8, <1>9 DEF SlotAt
<1> QED
  BY <1>4, <1>10

LEMMA ShiftedFalls ==
  ASSUME NEW k, NEW t, Once(t, k), NEW d, \A a \in 1 .. k : d[t[a]] \in Int,
         NEW j \in 1 .. k - 1, Falling(d, t, j), NEW m, SlotAt(d, t, j, t[j + 1], m)
  PROVE  Falling(d, Shifted(t, k, m, j + 1), j + 1)
<1> DEFINE u == Shifted(t, k, m, j + 1)
<1>1. k \in Nat /\ m \in 1 .. j /\ j + 1 \in 1 .. k /\ j \in 1 .. k /\ m \in Nat
  BY DEF SlotAt, Once
<1>2. \A i \in 1 .. k : u[i] = IF i < m THEN t[i] ELSE IF i = m THEN t[j + 1]
                               ELSE IF i <= j + 1 THEN t[i - 1] ELSE t[i]
  BY DEF Shifted
<1> HIDE DEF u
<1>3. SUFFICES ASSUME NEW a \in 1 .. j + 1, NEW b \in 1 .. j + 1, a < b
               PROVE  d[u[b]] <= d[u[a]]
  BY DEF Falling, u
<1>4. a \in 1 .. k /\ b \in 1 .. k
  BY <1>1
<1>5. ASSUME NEW x \in 1 .. j, NEW y \in 1 .. j, x <= y PROVE d[t[y]] <= d[t[x]]
  <2>1. CASE x = y
    <3>1. d[t[x]] \in Int
      BY <1>1
    <3> QED
      BY <2>1, <3>1
  <2>2. CASE x # y
    BY <1>5, <2>2 DEF Falling
  <2> QED
    BY <2>1, <2>2
<1>6. CASE a = m
  <2>1. u[a] = t[j + 1] /\ u[b] = t[b - 1] /\ b - 1 \in 1 .. j /\ m <= b - 1
    BY <1>1, <1>2, <1>3, <1>4, <1>6
  <2>2. d[t[b - 1]] <= d[t[m]] /\ d[t[m]] <= d[t[j + 1]]
    BY <1>1, <1>5, <2>1 DEF SlotAt
  <2>3. d[t[b - 1]] \in Int /\ d[t[m]] \in Int /\ d[t[j + 1]] \in Int
    BY <1>1, <2>1
  <2> QED
    BY <2>1, <2>2, <2>3
<1>7. CASE b = m
  <2>1. u[b] = t[j + 1] /\ u[a] = t[a] /\ a \in 1 .. m - 1
    BY <1>1, <1>2, <1>3, <1>4, <1>7
  <2>2. d[t[j + 1]] < d[t[a]]
    BY <2>1 DEF SlotAt
  <2>3. d[t[a]] \in Int /\ d[t[j + 1]] \in Int
    BY <1>1, <1>4
  <2> QED
    BY <2>1, <2>2, <2>3
<1>8. CASE a # m /\ b # m
  <2> DEFINE x == IF a < m THEN a ELSE a - 1
             y == IF b < m THEN b ELSE b - 1
  <2>1. x \in 1 .. j /\ y \in 1 .. j /\ x <= y
    BY <1>1, <1>3, <1>8
  <2>2. u[a] = t[x] /\ u[b] = t[y]
    BY <1>1, <1>2, <1>3, <1>4, <1>8
  <2> HIDE DEF x, y
  <2> QED
    BY <1>5, <2>1, <2>2
<1> QED
  BY <1>6, <1>7, <1>8

\* The links f after node j + 1 came in front of node m.
Relinked(h, f, h0, f0, t, k, j, m) ==
  /\ h = (IF m = 1 THEN t[j + 1] ELSE h0)
  /\ \A n \in Nodes :
       f[n] = IF n = t[j + 1] THEN IF m = 1 THEN h0 ELSE f0[t[m - 1]]
              ELSE IF m # 1 /\ n = t[m - 1] THEN t[j + 1]
              ELSE IF n = t[j] THEN f0[t[j + 1]] ELSE f0[n]

LEMMA ShiftedLinks ==
  ASSUME NEW k, NEW t, Once(t, k), NEW h0, NEW f0, Links(h0, f0, t, k),
         NEW j \in 1 .. k - 1, NEW m \in 1 .. j, NEW h, NEW f,
         Relinked(h, f, h0, f0, t, k, j, m)
  PROVE  Links(h, f, Shifted(t, k, m, j + 1), k)
<1> DEFINE u == Shifted(t, k, m, j + 1)
<1>1. k \in Nat /\ j + 1 \in 1 .. k /\ j \in 1 .. k /\ m \in 1 .. k
  BY DEF Once
<1>2. \A i \in 1 .. k : u[i] = IF i < m THEN t[i] ELSE IF i = m THEN t[j + 1]
                               ELSE IF i <= j + 1 THEN t[i - 1] ELSE t[i]
  BY DEF Shifted
<1> HIDE DEF u
<1>3. \A a, b \in 1 .. k : t[a] = t[b] => a = b
  BY DEF Once
<1>4. \A a \in 1 .. k : t[a] \in Nodes /\ t[a] # None /\ f0[t[a]] = NodeAt(t, k, a + 1)
  BY NodesOf DEF Links
<1>5. h0 = t[1]
  BY <1>1 DEF Links, NodeAt
<1>6. h = NodeAt(u, k, 1)
  <2>1. 1 \in 1 .. k /\ NodeAt(u, k, 1) = u[1]
    BY <1>1 DEF NodeAt
  <2> QED
    BY <1>1, <1>2, <1>5, <2>1 DEF Relinked
<1>7. ASSUME NEW i \in 1 .. k PROVE f[u[i]] = NodeAt(u, k, i + 1)
  <2>1. CASE i < m - 1
    <3>1. u[i] = t[i] /\ NodeAt(u, k, i + 1) = NodeAt(t, k, i + 1)
      BY <1>1, <1>2, <2>1 DEF NodeAt
    <3>2. t[i] # t[j + 1] /\ t[i] # t[j]
      BY <1>1, <1>3, <2>1
    <3>3. m # 1 => t[i] # t[m - 1]
      BY <1>1, <1>3, <2>1
    <3>4. f[t[i]] = f0[t[i]]
      BY <1>4, <3>2, <3>3 DEF Relinked
    <3> QED
      BY <1>4, <3>1, <3>4
  <2>2. CASE i = m - 1
    <3>1. u[i] = t[i] /\ NodeAt(u, k, i + 1) = t[j + 1] /\ m # 1
      BY <1>1, <1>2, <2>2 DEF NodeAt
    <3>2. t[i] # t[j + 1]
      BY <1>1, <1>3, <2>2
    <3>4. f[t[i]] = t[j + 1]
      BY <1>4, <2>2, <3>1, <3>2 DEF Relinked
    <3> QED
      BY <3>1, <3>4
  <2>3. CASE i = m
    <3>1. u[i] = t[j + 1] /\ NodeAt(u, k, i + 1) = t[m]
      BY <1>1, <1>2, <2>3 DEF NodeAt
    <3>2. f[t[j + 1]] = IF m = 1 THEN h0 ELSE f0[t[m - 1]]
      BY <1>1, <1>4 DEF Relinked
    <3>3. m # 1 => m - 1 \in 1 .. k /\ NodeAt(t, k, (m - 1) + 1) = t[m]
      BY <1>1 DEF NodeAt
    <3> QED
      BY <1>4, <1>5, <3>1, <3>2, <3>3
  <2>4. CASE m < i /\ i < j + 1
    <3>1. u[i] = t[i - 1] /\ NodeAt(u, k, i + 1) = t[i] /\ i - 1 \in 1 .. k
      BY <1>1, <1>2, <2>4 DEF NodeAt
    <3>2. t[i - 1] # t[j + 1] /\ t[i - 1] # t[j]
      BY <1>1, <1>3, <2>4, <3>1
    <3>3. m # 1 => t[i - 1] # t[m - 1]
      BY <1>1, <1>3, <2>4, <3>1
    <3>4. f[t[i - 1]] = f0[t[i - 1]]
      BY <1>4, <3>1, <3>2, <3>3 DEF Relinked
    <3>5. NodeAt(t, k, (i - 1) + 1) = t[i]
      BY <1>1 DEF NodeAt
    <3> QED
      BY <1>4, <3>1, <3>4, <3>5
  <2>5. CASE i = j + 1
    <3>1. u[i] = t[j] /\ NodeAt(u, k, i + 1) = NodeAt(t, k, (j + 1) + 1)
      BY <1>1, <1>2, <2>5 DEF NodeAt
    <3>2. t[j] # t[j + 1]
      BY <1>1, <1>3
    <3>3. m # 1 => t[j] # t[m - 1]
      BY <1>1, <1>3
    <3>4. f[t[j]] = f0[t[j + 1]]
      BY <1>1, <1>4, <3>2, <3>3 DEF Relinked
    <3> QED
      BY <1>1, <1>4, <3>1, <3>4
  <2>6. CASE i > j + 1
    <3>1. u[i] = t[i] /\ NodeAt(u, k, i + 1) = NodeAt(t, k, i + 1)
      BY <1>1, <1>2, <2>6 DEF NodeAt
    <3>2. t[i] # t[j + 1] /\ t[i] # t[j]
      BY <1>1, <1>3, <2>6
    <3>3. m # 1 => t[i] # t[m - 1]
      BY <1>1, <1>3, <2>6
    <3>4. f[t[i]] = f0[t[i]]
      BY <1>4, <3>2, <3>3 DEF Relinked
    <3> QED
      BY <1>4, <3>1, <3>4
  <2> QED
    BY <1>1, <2>1, <2>2, <2>3, <2>4, <2>5, <2>6
<1> QED
  BY <1>6, <1>7 DEF Links, u

\* One round of the loop.
LEMMA SortStep ==
  ASSUME NEW r, NEW d, NEW k, NEW t, NEW j, SortedTo(r, d, k, t, j)
  PROVE  IF j = k THEN Single!SortOne(r) = r
         ELSE \E u : /\ SortedTo(Single!SortOne(r), d, k, u, j + 1)
                     /\ \A n : Has(u, k, n) <=> Has(t, k, n)
<1> DEFINE l == r.list
<1>1. /\ r \in SortStates /\ Once(t, k) /\ Links(l.head, l.next, t, k)
      /\ l.length = k /\ l.data = d /\ \A a \in 1 .. k : d[t[a]] \in Data
      /\ j \in 1 .. k /\ r.current = t[j] /\ r.node = NodeAt(t, k, j + 1)
      /\ Falling(d, t, j)
  BY DEF SortedTo
<1>2. l \in SLists
  BY <1>1 DEF SortStates
<1>3. k \in Nat /\ \A i \in 1 .. k : t[i] \in Nodes /\ t[i] # None
  BY <1>1, NodesOf
<1>4. \A a \in 1 .. k : d[t[a]] \in Int
  BY <1>1, ListsAssumption
<1>5. CASE j = k
  <2>1. r.node = None
    BY <1>1, <1>3, <1>5 DEF NodeAt
  <2> QED
    BY <1>5, <2>1 DEF Single!SortOne
<1>6. CASE j # k
  <2> DEFINE n == t[j + 1]
  <2>1. j \in 1 .. k - 1 /\ j + 1 \in 1 .. k /\ r.node = n
    BY <1>1, <1>3, <1>6 DEF NodeAt
  <2>2. n # None /\ n \in Nodes /\ r.current \in Nodes /\ r.current # n /\ r.current = t[j]
    BY <1>1, <1>3, <2>1 DEF Once
  <2>3. l.next[n] = NodeAt(t, k, (j + 1) + 1) /\ l.next[n] \in Nodes \cup {None}
    BY <1>1, <1>2, <2>1, <2>2 DEF Links, SLists
  <2>4. CASE Single!less(l, n, r.current)
    <3> DEFINE w == [r EXCEPT !.current = n, !.node = l.next[n]]
    <3>1. Single!SortOne(r) = w
      BY <2>1, <2>2, <2>4 DEF Single!SortOne
    <3>2. w \in SortStates /\ w.list = l /\ w.current = n /\ w.node = l.next[n]
      BY <1>1, <1>2, <2>2, <2>3 DEF SortStates
    <3>3. d[n] < d[t[j]]
      BY <1>1, <2>2, <2>4 DEF Single!less
    <3>4. Falling(d, t, j + 1)
      <4>1. SUFFICES ASSUME NEW a \in 1 .. j + 1, NEW b \in 1 .. j + 1, a < b
                     PROVE  d[t[b]] <= d[t[a]]
        BY DEF Falling
      <4>2. CASE b <= j
        <5>1. a \in 1 .. j /\ b \in 1 .. j
          BY <1>1, <4>1, <4>2
        <5> QED
          BY <1>1, <4>1, <5>1 DEF Falling
      <4>3. CASE b = j + 1
        <5>1. a \in 1 .. j /\ j \in 1 .. j /\ a \in 1 .. k
          BY <1>1, <1>3, <4>1, <4>3
        <5>2. a = j \/ d[t[j]] <= d[t[a]]
          BY <1>1, <5>1 DEF Falling
        <5>3. d[t[a]] \in Int /\ d[t[j]] \in Int /\ d[n] \in Int
          BY <1>1, <1>4, <2>1, <5>1
        <5> QED
          BY <3>3, <4>3, <5>2, <5>3
      <4> QED
        BY <1>1, <4>2, <4>3
    <3> HIDE DEF w
    <3>5. SortedTo(w, d, k, t, j + 1)
      BY <1>1, <2>1, <2>3, <3>2, <3>4 DEF SortedTo
    <3> QED
      BY <1>6, <3>1, <3>5
  <2>5. CASE ~Single!less(l, n, r.current)
    <3>1. ~(d[n] < d[t[j]])
      BY <1>1, <2>2, <2>5 DEF Single!less
    <3>2. PICK m : /\ SlotAt(d, t, j, n, m)
                   /\ Single!Slot(l, n) = (IF m = 1 THEN None ELSE t[m - 1])
      BY <1>1, <2>1, <3>1, SSlot
    <3>3. m \in 1 .. j
      BY <3>2 DEF SlotAt
    <3> DEFINE p == Single!Slot(l, n)
               v == Single!Moved(l, r.current, n)
               w == [r EXCEPT !.list = v, !.node = v.next[r.current]]
               u == Shifted(t, k, m, j + 1)
    <3>4. p \in Nodes \cup {None} /\ p # r.current /\ p # n /\ (p = None <=> m = 1)
      <4>1. CASE m = 1
        BY <2>2, <3>2, <4>1, ListsAssumption
      <4>2. CASE m # 1
        <5>1. m - 1 \in 1 .. k /\ m - 1 # j /\ m - 1 # j + 1
          BY <1>1, <1>3, <3>3, <4>2
        <5> QED
          BY <1>1, <1>3, <2>1, <2>2, <3>2, <4>2, <5>1 DEF Once
      <4> QED
        BY <4>1, <4>2
    <3>5. /\ v \in SLists /\ v.head = (IF p = None THEN n ELSE l.head)
          /\ v.length = l.length /\ v.data = l.data
          /\ \A x \in Nodes :
               v.next[x] = IF x = n THEN IF p = None THEN l.head ELSE l.next[p]
                           ELSE IF x = p THEN n
                           ELSE IF x = r.current THEN l.next[n] ELSE l.next[x]
      BY <1>2, <2>2, <3>4, SMovedIs
    <3> HIDE DEF v
    <3>6. Single!SortOne(r) = w
      BY <2>1, <2>2, <2>5 DEF Single!SortOne, v
    <3>7. Relinked(v.head, v.next, l.head, l.next, t, k, j, m)
      <4>1. p = (IF m = 1 THEN None ELSE t[m - 1])
        BY <3>2
      <4> HIDE DEF p
      <4>2. v.head = IF m = 1 THEN n ELSE l.head
        BY <3>4, <3>5
      <4>3. ASSUME NEW x \in Nodes
            PROVE v.next[x] = IF x = n THEN IF m = 1 THEN l.head ELSE l.next[t[m - 1]]
                              ELSE IF m # 1 /\ x = t[m - 1] THEN n
                              ELSE IF x = t[j] THEN l.next[n] ELSE l.next[x]
        BY <2>2, <3>4, <3>5, <4>1, ListsAssumption
      <4> QED
        BY <4>2, <4>3 DEF Relinked
    <3>8. Links(v.head, v.next, u, k)
      BY <1>1, <2>1, <3>3, <3>7, ShiftedLinks
    <3>9. Once(u, k) /\ \A x : Has(u, k, x) <=> Has(t, k, x)
      <4>1. m \in 1 .. k /\ m <= j + 1
        BY <1>1, <1>3, <3>3
      <4> QED
        BY <1>1, <2>1, <4>1, ShiftedOnce
    <3>10. Falling(d, u, j + 1)
      BY <1>1, <1>4, <2>1, <3>2, ShiftedFalls
    <3>11. u[j + 1] = t[j] /\ \A a \in 1 .. k : d[u[a]] \in Data
      <4>1. u[j + 1] = t[j]
        BY <1>1, <2>1, <3>3 DEF Shifted
      <4>2. \A a \in 1 .. k : \E b \in 1 .. k : u[a] = t[b]
        BY <3>9 DEF Has
      <4> QED
        BY <1>1, <4>1, <4>2
    <3> HIDE DEF u
    <3>12. v.next[r.current] \in Nodes \cup {None} /\ v.next[r.current] = NodeAt(u, k, (j + 1) + 1)
      BY <2>1, <2>2, <3>5, <3>8, <3>11 DEF Links, SLists
    <3>13. w \in SortStates /\ w.list = v /\ w.current = r.current /\ w.node = v.next[r.current]
      BY <1>1, <3>5, <3>12 DEF SortStates
    <3> HIDE DEF w
    <3>14. SortedTo(w, d, k, u, j + 1)
      <4>1. j + 1 \in 1 .. k /\ w.current = u[j + 1]
        BY <2>1, <2>2, <3>11, <3>13
      <4> QED
        BY <1>1, <3>5, <3>8, <3>9, <3>10, <3>11, <3>12, <3>13, <4>1 DEF SortedTo
    <3> QED
      BY <1>6, <3>6, <3>9, <3>14
  <2> QED
    BY <2>4, <2>5
<1> QED
  BY <1>5, <1>6

SameNodes(s, t, k) == \A n : Has(s, k, n) <=> Has(t, k, n)

\* As many rounds as there are nodes.
LEMMA SSorting ==
  ASSUME NEW l, NEW s, NEW k, SLinked(l, s, k), k > 0
  PROVE  \E r, t : /\ SortedTo(r, l.data, k, t, k) /\ SameNodes(s, t, k)
                   /\ Single!Sorting(l) = r.list
<1> DEFINE N == Cardinality(Nodes)
           d == l.data
           x == [list |-> l, current |-> l.head, node |-> l.next[l.head]]
           S == [i \in 0 .. N |->
                   {r \in SortStates : \E t, j : /\ SortedTo(r, d, k, t, j) /\ SameNodes(s, t, k)
                                                 /\ j = i + 1 \/ j = k}]
           F == [i \in 1 .. N |-> [r \in S[i - 1] |-> Single!SortOne(r)]]
           Is(f) == f = [i \in 0 .. N |->
                           IF i = 0 THEN [list |-> l, current |-> l.head, node |-> l.next[l.head]]
                           ELSE Single!SortOne(f[i - 1])]
           loop == CHOOSE f : Is(f)
<1>1. N \in Nat /\ k <= N
  BY NodesCounted, NoMoreThanNodes DEF SLinked
<1> HIDE DEF N
<1>2. \A i \in 1 .. N : i - 1 \in 0 .. N /\ i \in 0 .. N /\ (i - 1) + 1 = i
  BY <1>1
<1>3. x \in S[0]
  <2>1. /\ l \in SLists /\ Once(s, k) /\ Links(l.head, l.next, s, k) /\ l.length = k
        /\ \A a \in 1 .. k : l.data[s[a]] \in Data
    BY DEF SLinked
  <2>2. k \in Nat /\ 1 \in 1 .. k /\ s[1] \in Nodes /\ l.head = s[1]
    BY <2>1 DEF Once, Links, NodeAt
  <2>3. l.next[l.head] \in Nodes \cup {None} /\ l.next[l.head] = NodeAt(s, k, 1 + 1)
    BY <2>1, <2>2 DEF Links, SLists
  <2>4. x \in SortStates /\ x.list = l /\ x.current = s[1] /\ x.node = NodeAt(s, k, 1 + 1)
    BY <2>1, <2>2, <2>3 DEF SortStates
  <2> HIDE DEF x
  <2>5. SortedTo(x, d, k, s, 1)
    BY <2>1, <2>2, <2>4 DEF SortedTo, Falling
  <2>6. SameNodes(s, s, k) /\ 1 = 0 + 1 /\ 0 \in 0 .. N
    BY <1>1 DEF SameNodes
  <2> HIDE DEF d
  <2> QED
    BY <2>4, <2>5, <2>6
<1>4. ASSUME NEW i \in 1 .. N, NEW r \in S[i - 1] PROVE Single!SortOne(r) \in S[i]
  <2>1. PICK t, j : /\ SortedTo(r, d, k, t, j) /\ SameNodes(s, t, k)
                    /\ j = (i - 1) + 1 \/ j = k
    BY <1>2
  <2>2. r \in SortStates
    BY <2>1 DEF SortedTo
  <2>3. CASE j = k
    <3>1. Single!SortOne(r) = r
      BY <2>1, <2>3, SortStep
    <3> HIDE DEF d
    <3> QED
      BY <1>2, <2>1, <2>2, <2>3, <3>1
  <2>4. CASE j # k
    <3>1. PICK u : /\ SortedTo(Single!SortOne(r), d, k, u, j + 1)
                   /\ \A n : Has(u, k, n) <=> Has(t, k, n)
      <4> HIDE DEF d
      <4> QED
        BY <2>1, <2>4, SortStep
    <3>2. SameNodes(s, u, k)
      BY <2>1, <3>1 DEF SameNodes
    <3>3. j = i
      BY <1>2, <2>1, <2>4
    <3> DEFINE v == Single!SortOne(r)
    <3> HIDE DEF v, d
    <3>4. SortedTo(v, d, k, u, i + 1)
      BY <3>1, <3>3 DEF v
    <3>5. v \in SortStates
      BY <3>4 DEF SortedTo
    <3>6. v \in S[i]
      BY <1>2, <3>2, <3>4, <3>5
    <3> QED
      BY <3>6 DEF v
  <2> QED
    BY <2>3, <2>4
<1>5. \A i \in 1 .. N : F[i] \in [S[i - 1] -> S[i]]
  <2> HIDE DEF S
  <2> QED
    BY <1>4
<1>6. PICK g : Rounds(g, S, x, F, N)
  <2> HIDE DEF S, F, x
  <2> QED
    BY <1>1, <1>3, <1>5, GoneRound
<1>7. Is(g)
  <2> HIDE DEF S
  <2>1. \A i \in 1 .. N : g[i] = Single!SortOne(g[i - 1])
    BY <1>2, <1>6 DEF Rounds
  <2>2. g = [i \in 0 .. N |-> g[i]] /\ g[0] = x
    BY <1>6 DEF Rounds
  <2>3. \A i \in 0 .. N : g[i] = IF i = 0 THEN x ELSE Single!SortOne(g[i - 1])
    <3> HIDE DEF x
    <3>1. \A i \in 0 .. N : i # 0 => i \in 1 .. N
      BY <1>1
    <3> QED
      BY <2>1, <2>2, <3>1
  <2>4. g = [i \in 0 .. N |-> IF i = 0 THEN x ELSE Single!SortOne(g[i - 1])]
    <3> HIDE DEF x
    <3> QED
      BY <2>2, <2>3
  <2> QED
    BY <2>4
<1>8. Is(loop)
  <2> HIDE DEF Is
  <2> QED
    BY <1>7
<1>9. Single!Sorting(l) = loop[N].list
  BY NodesCounted DEF Single!Sorting, N
<1>10. loop[0] = x /\ \A i \in 1 .. N : loop[i] = Single!SortOne(loop[i - 1])
  <2> DEFINE f == loop
  <2>1. f = [i \in 0 .. N |-> IF i = 0 THEN x ELSE Single!SortOne(f[i - 1])]
    BY <1>8
  <2> HIDE DEF f, x
  <2>2. f[0] = x
    BY <1>1, <2>1
  <2>3. \A i \in 1 .. N : f[i] = Single!SortOne(f[i - 1])
    BY <1>1, <1>2, <2>1
  <2> QED
    BY <2>2, <2>3 DEF f
<1> HIDE DEF loop, F, Is, x
<1>11. loop[N] \in S[N]
  <2> HIDE DEF S
  <2>1. \A i \in 1 .. N : loop[i - 1] \in S[i - 1] => loop[i] \in S[i]
    BY <1>4, <1>10
  <2>2. \A i \in 0 .. N : loop[i] \in S[i]
    BY <1>1, <1>3, <1>10, <2>1, Arrives
  <2> QED
    BY <1>1, <2>2
<1>12. PICK t, j : /\ SortedTo(loop[N], d, k, t, j) /\ SameNodes(s, t, k)
                   /\ j = N + 1 \/ j = k
  BY <1>1, <1>11
<1>13. j = k
  <2>1. j \in 1 .. k /\ k \in Nat
    BY <1>12 DEF SortedTo, Once
  <2> QED
    BY <1>1, <1>12, <2>1
<1> QED
  BY <1>9, <1>12, <1>13

\* The list once it is sorted.
SSorted(u, l, s, k, t) ==
  SLinked(u, t, k) /\ u.data = l.data /\ Falling(l.data, t, k) /\ SameNodes(s, t, k)

LEMMA SSort ==
  ASSUME NEW l, NEW s, NEW k, SLinked(l, s, k)
  PROVE  \E t : SSorted(Single!linked_list_sort(l), l, s, k, t)
<1>1. /\ l \in SLists /\ Once(s, k) /\ Links(l.head, l.next, s, k) /\ l.length = k
      /\ l.tail = (IF k = 0 THEN None ELSE s[k])
      /\ \A a \in 1 .. k : l.data[s[a]] \in Data
  BY DEF SLinked
<1>2. k \in Nat /\ \A i \in 1 .. k : s[i] \in Nodes /\ s[i] # None
  BY <1>1, NodesOf
<1>3. l.head = NodeAt(s, k, 1)
  BY <1>1 DEF Links
<1>4. CASE l.head = None \/ l.head = l.tail
  <2>1. k <= 1
    <3>1. CASE k # 0
      <4>1. 1 \in 1 .. k /\ k \in 1 .. k /\ s[1] = s[k]
        BY <1>1, <1>2, <1>3, <1>4, <3>1 DEF NodeAt
      <4>2. 1 = k
        BY <1>1, <4>1 DEF Once
      <4> QED
        BY <1>2, <4>2
    <3> QED
      BY <1>2, <3>1
  <2>2. Falling(l.data, s, k)
    BY <1>2, <2>1 DEF Falling
  <2>3. Single!linked_list_sort(l) = l /\ SameNodes(s, s, k)
    BY <1>4 DEF Single!linked_list_sort, SameNodes
  <2> QED
    BY <2>2, <2>3 DEF SSorted
<1>5. CASE ~(l.head = None \/ l.head = l.tail)
  <2>1. k > 0 /\ k \in 1 .. k
    BY <1>2, <1>3, <1>5 DEF NodeAt
  <2>2. PICK r, t : /\ SortedTo(r, l.data, k, t, k) /\ SameNodes(s, t, k)
                    /\ Single!Sorting(l) = r.list
    BY <2>1, SSorting
  <2> DEFINE v == r.list
             u == [v EXCEPT !.tail = Single!InOrder(v)[Len(Single!InOrder(v))]]
  <2>3. Single!linked_list_sort(l) = u
    BY <1>5, <2>2 DEF Single!linked_list_sort
  <2>4. /\ v \in SLists /\ Once(t, k) /\ Links(v.head, v.next, t, k) /\ v.length = k
        /\ v.data = l.data /\ \A a \in 1 .. k : l.data[t[a]] \in Data
        /\ Falling(l.data, t, k)
    BY <2>2 DEF SortedTo, SortStates
  <2> HIDE DEF v
  <2>5. Single!InOrder(v) = t /\ Len(t) = k /\ t[k] \in Nodes
    BY <1>2, <2>1, <2>4, SingleOrder DEF Once
  <2>6. Single!InOrder(v)[Len(Single!InOrder(v))] = t[k]
    BY <2>5
  <2>7. /\ u \in SLists /\ u.tail = t[k] /\ u.head = v.head /\ u.next = v.next
        /\ u.length = v.length /\ u.data = v.data
    BY <2>4, <2>5, <2>6 DEF SLists
  <2> HIDE DEF u
  <2>8. SLinked(u, t, k)
    BY <2>1, <2>4, <2>7 DEF SLinked
  <2> QED
    BY <2>2, <2>3, <2>4, <2>7, <2>8 DEF SSorted
<1> QED
  BY <1>4, <1>5

LEMMA Permuted ==
  ASSUME NEW s, NEW t, NEW k, Once(s, k), Once(t, k), SameNodes(s, t, k)
  PROVE  \E p \in Bijection(1 .. k, 1 .. k) : \A i \in 1 .. k : t[i] = s[p[i]]
<1> DEFINE p == [i \in 1 .. k |-> CHOOSE j \in 1 .. k : s[j] = t[i]]
<1>1. \A i \in 1 .. k : \E j \in 1 .. k : s[j] = t[i]
  BY DEF SameNodes, Has
<1>2. \A i \in 1 .. k : p[i] \in 1 .. k /\ s[p[i]] = t[i]
  BY <1>1
<1>3. p \in [1 .. k -> 1 .. k]
  BY <1>1
<1> HIDE DEF p
<1>4. \A i, j \in 1 .. k : p[i] = p[j] => i = j
  BY <1>2 DEF Once
<1>5. \A j \in 1 .. k : \E i \in 1 .. k : p[i] = j
  <2> SUFFICES ASSUME NEW j \in 1 .. k PROVE \E i \in 1 .. k : p[i] = j
    OBVIOUS
  <2>1. PICK i \in 1 .. k : t[i] = s[j]
    BY DEF SameNodes, Has
  <2>2. p[i] = j
    BY <1>2, <2>1 DEF Once
  <2> QED
    BY <2>2
<1>6. p \in Bijection(1 .. k, 1 .. k)
  BY <1>3, <1>4, <1>5 DEF Bijection, Injection, Surjection, IsInjective
<1> QED
  BY <1>2, <1>6

-----------------------------------------------------------------------------
\* What clients see of the singly linked list.

LEMMA SValues ==
  ASSUME NEW l, NEW s, NEW k, SLinked(l, s, k)
  PROVE  Told(l.data, s, k) \in [1 .. k -> Data] /\ Single!DataOf(l) = Told(l.data, s, k)
BY SingleViews DEF SLinked, Told

LEMMA SShown ==
  ASSUME which = "single", NEW s, NEW k, SLinked(list, s, k)
  PROVE  Shown(Told(list.data, s, k), k)
<1>1. sequence = Single!DataOf(list)
  BY DEF sequence, Single!contents
<1>2. k \in Nat
  BY DEF SLinked, Once
<1> QED
  BY <1>1, <1>2, SValues DEF Shown, IsList

LEMMA SShownNext ==
  ASSUME which' = "single", NEW s, NEW k, SLinked(list', s, k)
  PROVE  IsList' /\ sequence' = Told(list'.data, s, k)
<1>1. sequence' = Single!DataOf(list')
  BY DEF sequence, Single!contents, Single!DataOf, Single!InOrder
<1> QED
  BY <1>1, SValues DEF IsList

\* What is kept of a sequence, place by place.
UptoIs(g, v, k, P) ==
  /\ g[0] = <<>>
  /\ \A i \in 1 .. k : g[i] = IF i \in P THEN Append(g[i - 1], v[i]) ELSE g[i - 1]
  /\ \A i \in 0 .. k : g[i] \in Seq(Data)

LEMMA KeptUpto ==
  ASSUME NEW k \in Nat, NEW v \in [1 .. k -> Data], NEW P \in SUBSET (1 .. k)
  PROVE  \E g : UptoIs(g, v, k, P) /\ SequenceSpec!Kept(v, P) = g[k]
<1> DEFINE S == [i \in 0 .. k |-> Seq(Data)]
           body(i, w) == IF i \in P THEN Append(w, v[i]) ELSE w
           F == [i \in 1 .. k |-> [w \in S[i - 1] |-> body(i, w)]]
           Is(f) == f = [i \in 0 .. Len(v) |->
                           IF i = 0 THEN <<>>
                           ELSE IF i \in P THEN Append(f[i - 1], v[i]) ELSE f[i - 1]]
           upto == CHOOSE f : Is(f)
<1>1. Len(v) = k
  OBVIOUS
<1>2. \A i \in 1 .. k : i - 1 \in 0 .. k /\ i \in 0 .. k
  OBVIOUS
<1>3. <<>> \in S[0]
  OBVIOUS
<1>4. ASSUME NEW i \in 1 .. k, NEW w \in S[i - 1] PROVE body(i, w) \in S[i]
  <2>1. w \in Seq(Data) /\ v[i] \in Data
    BY <1>2
  <2>2. Append(w, v[i]) \in Seq(Data)
    BY <2>1
  <2>3. body(i, w) \in Seq(Data)
    BY <2>1, <2>2
  <2> HIDE DEF body
  <2> QED
    BY <1>2, <2>3
<1>5. \A i \in 1 .. k : F[i] \in [S[i - 1] -> S[i]]
  <2> HIDE DEF S, body
  <2> QED
    BY <1>4
<1>6. PICK g : Rounds(g, S, <<>>, F, k)
  <2> HIDE DEF S, F
  <2> QED
    BY <1>3, <1>5, GoneRound
<1>7. Is(g)
  <2>1. \A i \in 1 .. k : g[i] = body(i, g[i - 1])
    <3> HIDE DEF S, body
    <3> QED
      BY <1>2, <1>6 DEF Rounds
  <2>2. g = [i \in 0 .. k |-> g[i]] /\ g[0] = <<>>
    BY <1>6 DEF Rounds
  <2>3. \A i \in 0 .. k : g[i] = IF i = 0 THEN <<>> ELSE body(i, g[i - 1])
    <3> HIDE DEF body
    <3>1. \A i \in 0 .. k : i # 0 => i \in 1 .. k
      OBVIOUS
    <3> QED
      BY <2>1, <2>2, <3>1
  <2>4. g = [i \in 0 .. k |-> IF i = 0 THEN <<>> ELSE body(i, g[i - 1])]
    <3> HIDE DEF body
    <3> QED
      BY <2>2, <2>3
  <2> QED
    BY <1>1, <2>4
<1>8. Is(upto)
  <2> HIDE DEF Is
  <2> QED
    BY <1>7
<1>9. SequenceSpec!Kept(v, P) = upto[k]
  BY <1>1 DEF SequenceSpec!Kept
<1>10. upto[0] = <<>> /\ \A i \in 1 .. k : upto[i] = body(i, upto[i - 1])
  <2> DEFINE f == upto
  <2>1. f = [i \in 0 .. k |-> IF i = 0 THEN <<>> ELSE body(i, f[i - 1])]
    BY <1>1, <1>8
  <2> HIDE DEF f, body
  <2>2. f[0] = <<>>
    BY <2>1
  <2>3. \A i \in 1 .. k : f[i] = body(i, f[i - 1])
    BY <1>2, <2>1
  <2> QED
    BY <2>2, <2>3 DEF f
<1> HIDE DEF upto
<1>11. \A i \in 0 .. k : upto[i] \in S[i]
  <2>1. \A i \in 1 .. k : upto[i - 1] \in S[i - 1] => upto[i] \in S[i]
    <3> HIDE DEF S, body
    <3> QED
      BY <1>4, <1>10
  <2> HIDE DEF S
  <2> QED
    BY <1>3, <1>10, <2>1, Arrives
<1>12. UptoIs(upto, v, k, P)
  BY <1>10, <1>11 DEF UptoIs
<1> QED
  BY <1>9, <1>12

LEMMA KeptAll ==
  ASSUME NEW k \in Nat, NEW v \in [1 .. k -> Data]
  PROVE  SequenceSpec!Kept(v, 1 .. k) = v
<1>1. PICK g : UptoIs(g, v, k, 1 .. k) /\ SequenceSpec!Kept(v, 1 .. k) = g[k]
  BY KeptUpto
<1> DEFINE S == [i \in 0 .. k |-> {Prefix(v, i)}]
<1>2. g[0] \in S[0]
  <2>1. Prefix(v, 0) = <<>>
    BY DEF Prefix
  <2> QED
    BY <1>1, <2>1 DEF UptoIs
<1>3. ASSUME NEW i \in 1 .. k, g[i - 1] \in S[i - 1] PROVE g[i] \in S[i]
  <2>1. i - 1 \in 0 .. k /\ i \in 0 .. k
    OBVIOUS
  <2>2. g[i - 1] = Prefix(v, i - 1)
    BY <1>3, <2>1
  <2>3. g[i] = Append(Prefix(v, i - 1), v[i])
    BY <1>1, <2>2 DEF UptoIs
  <2>4. Append(Prefix(v, i - 1), v[i]) = Prefix(v, i)
    <3>1. Prefix(v, i - 1) \in Seq(Data) /\ Len(Prefix(v, i - 1)) = i - 1
      BY DEF Prefix
    <3>2. v[i] \in Data /\ \A j \in 1 .. i - 1 : Prefix(v, i - 1)[j] = v[j]
      BY DEF Prefix
    <3> DEFINE p == Prefix(v, i - 1)
               a == Append(p, v[i])
    <3> HIDE DEF p
    <3>3. a \in Seq(Data) /\ Len(a) = i /\ a[i] = v[i] /\ \A j \in 1 .. i - 1 : a[j] = v[j]
      BY <3>1, <3>2 DEF p
    <3> HIDE DEF a
    <3>4. a = Prefix(v, i)
      BY <3>3 DEF Prefix
    <3> QED
      BY <3>4 DEF a, p
  <2> QED
    BY <2>1, <2>3, <2>4
<1>4. g[k] \in S[k]
  <2> HIDE DEF S
  <2>1. \A i \in 0 .. k : g[i] \in S[i]
    BY <1>2, <1>3, Arrives
  <2> QED
    BY <2>1
<1>5. Prefix(v, k) = v
  BY DEF Prefix
<1> QED
  BY <1>1, <1>4, <1>5

LEMMA CopyCall ==
  ASSUME NEW v, NEW k, Shown(v, k), IsList', NEW P \in SUBSET (1 .. k),
         sequence' = SequenceSpec!Kept(v, P),
         out' = [op |-> "copy", data |-> Cardinality(P)]
  PROVE  SequenceSpec!Next
<1>1. k \in Nat /\ sequence = v /\ DOMAIN v = 1 .. k
  BY DEF Shown
<1>2. SequenceSpec!Cardinality(P) = Cardinality(P)
  BY DEF Cardinality, SequenceSpec!Cardinality
<1> QED
  BY <1>1, <1>2 DEF SequenceSpec!Next, SequenceSpec!Copy

-----------------------------------------------------------------------------
\* A step of the singly linked list.

SStepped == SequenceSpec!Next /\ \E t, m : SLinked(list', t, m)

\* Where a node is, none being before the first.
LEMMA SPlace ==
  ASSUME NEW l, NEW s, NEW k, SLinked(l, s, k), NEW n, NEW i \in 0 .. k,
         n = (IF i = 0 THEN None ELSE s[i])
  PROVE  Single!Place(Single!InOrder(l), n) = i
<1>1. Once(s, k) /\ Single!InOrder(l) = s
  BY SingleViews DEF SLinked
<1>2. k \in Nat /\ DOMAIN s = 1 .. k /\ \A j \in 1 .. k : s[j] \in Nodes /\ s[j] # None
  BY <1>1, NodesOf DEF Once
<1> DEFINE p == Single!Place(s, n)
<1>3. IF \E j \in 1 .. k : s[j] = n
      THEN p \in 1 .. k /\ s[p] = n /\ \A j \in 1 .. p - 1 : s[j] # n
      ELSE p = 0
  BY <1>2, PlaceOf
<1> HIDE DEF p
<1>4. CASE i = 0
  BY <1>2, <1>3, <1>4, <1>1 DEF p
<1>5. CASE i # 0
  <2>1. i \in 1 .. k /\ s[i] = n
    BY <1>5
  <2>2. p \in 1 .. k /\ s[p] = n
    BY <1>3, <2>1
  <2>3. p = i
    BY <1>1, <2>1, <2>2 DEF Once
  <2> QED
    BY <1>1, <2>3 DEF p
<1> QED
  BY <1>4, <1>5

LEMMA SInsertStep ==
  ASSUME which = "single", which' = "single", NEW s, NEW k, SLinked(list, s, k),
         NEW d \in Data, NEW n, NEW i \in 0 .. k, n = (IF i = 0 THEN None ELSE s[i]),
         Single!Free(list) # {},
         list' = Single!linked_list_insert_after(list, n, Single!Spare(list), d),
         out' = [op |-> "insert", at |-> i, data |-> d]
  PROVE  SStepped
<1> DEFINE new == Single!Spare(list)
           v == Told(list.data, s, k)
           t == Inserted(s, k, i, new)
<1>1. new \in Nodes /\ ~Has(s, k, new)
  BY SSpare
<1>2. SInserted(list', list, s, k, i, new, d)
  <2> HIDE DEF new
  <2>1. list' = Single!linked_list_insert_after(list, n, new, d)
    BY DEF new
  <2>2. SInserted(Single!linked_list_insert_after(list, n, new, d), list, s, k, i, new, d)
    BY <1>1, SInsert
  <2> QED
    BY <2>1, <2>2
<1>3. SLinked(list', t, k + 1) /\ Told(list'.data, t, k + 1) = Inserted(v, k, i, d)
  BY <1>2 DEF SInserted
<1>4. IsList' /\ sequence' = Told(list'.data, t, k + 1)
  <2> HIDE DEF t
  <2> QED
    BY <1>3, SShownNext
<1>5. Shown(v, k)
  BY SShown
<1> HIDE DEF v, t
<1>6. SequenceSpec!Next
  BY <1>3, <1>4, <1>5, InsertCall
<1> QED
  BY <1>3, <1>6 DEF SStepped

LEMMA SRemoveStep ==
  ASSUME which = "single", which' = "single", NEW s, NEW k, SLinked(list, s, k),
         NEW i \in 1 .. k, SRemoved(list', list, s, k, i),
         out' = [op |-> "remove", at |-> i, data |-> list.data[s[i]]]
  PROVE  SStepped
<1> DEFINE v == Told(list.data, s, k)
           t == Without(s, k, i)
<1>3. SLinked(list', t, k - 1) /\ Told(list'.data, t, k - 1) = Without(v, k, i)
  BY DEF SRemoved
<1>4. IsList' /\ sequence' = Told(list'.data, t, k - 1)
  <2> HIDE DEF t
  <2> QED
    BY <1>3, SShownNext
<1>5. Shown(v, k) /\ v[i] = list.data[s[i]]
  BY SShown DEF Told
<1> HIDE DEF v, t
<1>6. SequenceSpec!Next
  BY <1>3, <1>4, <1>5, RemoveCall
<1> QED
  BY <1>3, <1>6 DEF SStepped

\* The list, and what it shows, as they were.
LEMMA SSame ==
  ASSUME which = "single", which' = "single", NEW s, NEW k, SLinked(list, s, k), list' = list
  PROVE  IsList' /\ sequence' = Told(list.data, s, k) /\ SLinked(list', s, k)
<1>1. SLinked(list', s, k) /\ list'.data = list.data
  OBVIOUS
<1> QED
  BY <1>1, SShownNext

LEMMA SingleStep ==
  ASSUME which = "single", which' = "single", \E s, k : SLinked(list, s, k), Single!Next
  PROVE  SStepped
<1>1. PICK s, k : SLinked(list, s, k)
  OBVIOUS
<1> DEFINE v == Told(list.data, s, k)
<1>2. /\ list \in SLists /\ Once(s, k) /\ Links(list.head, list.next, s, k)
      /\ list.tail = (IF k = 0 THEN None ELSE s[k]) /\ list.length = k
      /\ \A i \in 1 .. k : list.data[s[i]] \in Data
  BY <1>1 DEF SLinked
<1>3. k \in Nat /\ DOMAIN s = 1 .. k /\ \A i \in 1 .. k : s[i] \in Nodes /\ s[i] # None
  BY <1>2, NodesOf DEF Once
<1>4. /\ Single!InOrder(list) = s /\ Single!DataOf(list) = v
      /\ \A n : Single!Has(list, n) <=> Has(s, k, n)
  BY <1>2, SingleViews
<1>5. Shown(v, k)
  BY <1>1, SShown
<1>6. v \in [1 .. k -> Data] /\ DOMAIN v = 1 .. k /\ Len(v) = k
  BY <1>5 DEF Shown
<1>7. list.head = NodeAt(s, k, 1)
  BY <1>2 DEF Links
<1>8. \A i \in 0 .. k : \A n : n = (IF i = 0 THEN None ELSE s[i]) =>
        Single!Place(Single!InOrder(list), n) = i
  BY <1>1, SPlace
<1>9. Single!Range(Single!InOrder(list)) = {s[i] : i \in 1 .. k}
  BY <1>3, <1>4 DEF Single!Range
<1>10. Single!contents = v
  BY <1>4 DEF Single!contents
<1>11. CASE Single!PushFront
  <2>1. PICK d \in Data :
          /\ Single!Free(list) # {}
          /\ list' = Single!linked_list_push_front(list, Single!Spare(list), d)
          /\ out' = [op |-> "insert", at |-> 0, data |-> d]
    BY <1>11 DEF Single!PushFront
  <2>2. list' = Single!linked_list_insert_after(list, None, Single!Spare(list), d)
    BY <2>1 DEF Single!linked_list_insert_after
  <2>3. 0 \in 0 .. k
    BY <1>3
  <2> QED
    BY <1>1, <2>1, <2>2, <2>3, SInsertStep
<1>12. CASE Single!InsertAfter
  <2>1. PICK d \in Data, n \in Single!Range(Single!InOrder(list)) \cup {None, list.tail} :
          /\ Single!Free(list) # {}
          /\ list' = Single!linked_list_insert_after(list, n, Single!Spare(list), d)
          /\ out' = [op |-> "insert", at |-> Single!Place(Single!InOrder(list), n), data |-> d]
    BY <1>12 DEF Single!InsertAfter
  <2>2. PICK i \in 0 .. k : n = (IF i = 0 THEN None ELSE s[i])
    <3>1. CASE n = None
      <4>1. 0 \in 0 .. k
        BY <1>3
      <4> QED
        BY <3>1, <4>1
    <3>2. CASE n # None
      <4>1. n \in {s[i] : i \in 1 .. k}
        <5>1. n = list.tail => k \in 1 .. k /\ n = s[k]
          BY <1>2, <1>3, <3>2
        <5> QED
          BY <1>9, <3>2, <5>1
      <4>2. PICK i \in 1 .. k : n = s[i]
        BY <4>1
      <4>3. i \in 0 .. k /\ i # 0
        OBVIOUS
      <4> QED
        BY <4>2, <4>3
    <3> QED
      BY <3>1, <3>2
  <2>3. Single!Place(Single!InOrder(list), n) = i
    BY <1>8, <2>2
  <2>4. out' = [op |-> "insert", at |-> i, data |-> d]
    BY <2>1, <2>3
  <2> QED
    BY <1>1, <2>1, <2>2, <2>4, SInsertStep
<1>13. CASE Single!PopFront
  <2>1. CASE list.head = None
    <3>1. list' = list /\ out' = [op |-> "miss"]
      BY <1>13, <2>1 DEF Single!PopFront
    <3>2. IsList' /\ sequence' = v /\ SLinked(list', s, k)
      BY <1>1, <3>1, SSame
    <3> HIDE DEF v
    <3>3. SequenceSpec!Next
      BY <1>5, <3>1, <3>2, MissCall
    <3> QED
      BY <3>2, <3>3 DEF SStepped
  <2>2. CASE list.head # None
    <3>1. list' = Single!linked_list_pop_front(list)
          /\ out' = [op |-> "remove", at |-> 1, data |-> list.data[list.head]]
      BY <1>13, <2>2 DEF Single!PopFront
    <3>2. 1 \in 1 .. k /\ list.head = s[1]
      BY <1>3, <1>7, <2>2 DEF NodeAt
    <3>3. Single!linked_list_remove(list, s[1]) = Single!linked_list_pop_front(list)
      BY <1>4, <3>2 DEF Single!linked_list_remove, Has
    <3>4. SRemoved(Single!linked_list_remove(list, s[1]), list, s, k, 1)
      BY <1>1, <3>2, SRemove
    <3>5. SRemoved(list', list, s, k, 1)
      BY <3>1, <3>3, <3>4
    <3>6. out' = [op |-> "remove", at |-> 1, data |-> list.data[s[1]]]
      BY <3>1, <3>2
    <3> QED
      BY <1>1, <3>2, <3>5, <3>6, SRemoveStep
  <2> QED
    BY <2>1, <2>2
<1>14. CASE Single!TakeOut
  <2>1. PICK n \in Nodes :
          /\ list' = Single!linked_list_remove(list, n)
          /\ out' = IF Single!Has(list, n)
                    THEN [op |-> "remove", at |-> Single!Place(Single!InOrder(list), n),
                          data |-> list.data[n]]
                    ELSE [op |-> "miss"]
    BY <1>14 DEF Single!TakeOut
  <2>2. CASE ~Single!Has(list, n)
    <3>1. list' = list /\ out' = [op |-> "miss"]
      BY <2>1, <2>2 DEF Single!linked_list_remove
    <3>2. IsList' /\ sequence' = v /\ SLinked(list', s, k)
      BY <1>1, <3>1, SSame
    <3> HIDE DEF v
    <3>3. SequenceSpec!Next
      BY <1>5, <3>1, <3>2, MissCall
    <3> QED
      BY <3>2, <3>3 DEF SStepped
  <2>3. CASE Single!Has(list, n)
    <3>1. PICK i \in 1 .. k : n = s[i]
      BY <1>4, <2>3 DEF Has
    <3>2. Single!Place(Single!InOrder(list), n) = i
      <4>1. i \in 0 .. k /\ i # 0
        OBVIOUS
      <4> QED
        BY <1>8, <3>1, <4>1
    <3>3. out' = [op |-> "remove", at |-> i, data |-> list.data[s[i]]]
      BY <2>1, <2>3, <3>1, <3>2
    <3>4. SRemoved(list', list, s, k, i)
      BY <1>1, <2>1, <3>1, SRemove
    <3> QED
      BY <1>1, <3>3, <3>4, SRemoveStep
  <2> QED
    BY <2>2, <2>3
<1>15. CASE Single!Update
  <2>1. PICK n \in Single!Range(Single!InOrder(list)), d \in Data :
          /\ list' = [list EXCEPT !.data[n] = d]
          /\ out' = [op |-> "update", at |-> Single!Place(Single!InOrder(list), n), data |-> d]
    BY <1>15 DEF Single!Update
  <2>2. PICK i \in 1 .. k : n = s[i]
    BY <1>9
  <2>3. Single!Place(Single!InOrder(list), n) = i
    <3>1. i \in 0 .. k /\ i # 0
      OBVIOUS
    <3> QED
      BY <1>8, <2>2, <3>1
  <2>4. SLinked(list', s, k) /\ Told(list'.data, s, k) = [v EXCEPT ![i] = d]
    BY <1>1, <2>1, <2>2, SUpdate
  <2>5. IsList' /\ sequence' = Told(list'.data, s, k)
    BY <2>4, SShownNext
  <2>6. out' = [op |-> "update", at |-> i, data |-> d]
    BY <2>1, <2>3
  <2> HIDE DEF v
  <2>7. SequenceSpec!Next
    BY <1>5, <2>4, <2>5, <2>6, UpdateCall
  <2> QED
    BY <2>4, <2>7 DEF SStepped
<1>16. CASE Single!Get
  <2>1. PICK i \in 1 .. Cardinality(Nodes) + 1 :
          /\ list' = list
          /\ out' = [op |-> "get", at |-> i,
                     data |-> IF i \in DOMAIN Single!contents THEN Single!contents[i] ELSE None]
    BY <1>16, NodesCounted DEF Single!Get
  <2>2. i \in Nat
    BY NodesCounted
  <2>3. IsList' /\ sequence' = v /\ SLinked(list', s, k)
    BY <1>1, <2>1, SSame
  <2> HIDE DEF v
  <2>4. out' = [op |-> "get", at |-> i, data |-> IF i \in 1 .. k THEN v[i] ELSE None]
    BY <1>6, <1>10, <2>1
  <2>5. SequenceSpec!Next
    BY <1>5, <2>2, <2>3, <2>4, GetCall
  <2> QED
    BY <2>3, <2>5 DEF SStepped
<1>17. CASE Single!Find
  <2>1. PICK d \in Data : /\ list' = list
                          /\ out' = [op |-> "find", at |-> Single!Place(v, d), data |-> d]
    BY <1>10, <1>17 DEF Single!Find
  <2>2. IsList' /\ sequence' = v /\ SLinked(list', s, k)
    BY <1>1, <2>1, SSame
  <2> HIDE DEF v
  <2>3. SequenceSpec!Next
    BY <1>5, <2>1, <2>2, FindCall
  <2> QED
    BY <2>2, <2>3 DEF SStepped
<1>18. CASE Single!Sort
  <2>1. list' = Single!linked_list_sort(list) /\ out' = [op |-> "sort"]
    BY <1>18 DEF Single!Sort
  <2>2. PICK t : SSorted(list', list, s, k, t)
    BY <1>1, <2>1, SSort
  <2> DEFINE w == Told(list'.data, t, k)
  <2>3. /\ SLinked(list', t, k) /\ list'.data = list.data
        /\ Falling(list.data, t, k) /\ SameNodes(s, t, k)
    BY <2>2 DEF SSorted
  <2>4. IsList' /\ sequence' = w
    BY <2>3, SShownNext
  <2>5. w \in [1 .. k -> Data]
    BY <2>3, SValues
  <2>6. \A i \in 2 .. k : w[i] <= w[i - 1]
    <3> SUFFICES ASSUME NEW i \in 2 .. k PROVE w[i] <= w[i - 1]
      OBVIOUS
    <3>1. i \in 1 .. k /\ i - 1 \in 1 .. k /\ i - 1 < i
      BY <1>3
    <3>2. list.data[t[i]] <= list.data[t[i - 1]]
      BY <2>3, <3>1 DEF Falling
    <3> QED
      BY <2>3, <3>1, <3>2 DEF Told
  <2>7. PICK p \in Bijection(1 .. k, 1 .. k) : \A i \in 1 .. k : t[i] = s[p[i]]
    BY <1>2, <2>3, Permuted DEF SLinked
  <2>8. \A i \in 1 .. k : w[i] = v[p[i]]
    <3>1. \A i \in 1 .. k : p[i] \in 1 .. k
      BY <2>7 DEF Bijection, Injection
    <3> QED
      BY <2>3, <2>7, <3>1 DEF Told
  <2> HIDE DEF v, w
  <2>9. IsSorted(v, w, k)
    BY <2>5, <2>6, <2>7, <2>8 DEF IsSorted
  <2>10. SequenceSpec!Next
    BY <1>5, <2>1, <2>4, <2>9, SortCall
  <2> QED
    BY <2>3, <2>10 DEF SStepped
<1>19. CASE Single!Clone
  <2>1. list' = Single!Appended(v) /\ out' = [op |-> "copy", data |-> list'.length]
    BY <1>10, <1>19 DEF Single!Clone
  <2>2. k <= Cardinality(Nodes)
    BY <1>2, NoMoreThanNodes
  <2>3. PICK t : SLinked(list', t, k) /\ Told(list'.data, t, k) = v
    <3> HIDE DEF v
    <3> QED
      BY <1>3, <1>6, <2>1, <2>2, SClone
  <2>4. IsList' /\ sequence' = v
    BY <2>3, SShownNext
  <2> HIDE DEF v
  <2>5. sequence' = SequenceSpec!Kept(v, 1 .. k)
    BY <1>3, <1>6, <2>4, KeptAll
  <2>6. out' = [op |-> "copy", data |-> Cardinality(1 .. k)]
    <3>1. list'.length = k
      BY <2>3 DEF SLinked
    <3>2. Cardinality(1 .. k) = k
      BY <1>3, FS_Interval
    <3> QED
      BY <2>1, <3>1, <3>2
  <2>7. SequenceSpec!Next
    BY <1>5, <2>4, <2>5, <2>6, CopyCall
  <2> QED
    BY <2>3, <2>7 DEF SStepped
<1>20. CASE Single!Clear
  <2>1. list' = Single!Cleared(list) /\ out' = [op |-> "clear"]
    BY <1>20 DEF Single!Clear
  <2>2. PICK t : SLinked(list', t, 0)
    BY <1>1, <2>1, SClear
  <2>3. IsList' /\ sequence' = Told(list'.data, t, 0)
    BY <2>2, SShownNext
  <2>4. Told(list'.data, t, 0) = <<>>
    BY DEF Told
  <2> HIDE DEF v
  <2>5. SequenceSpec!Next
    BY <1>5, <2>1, <2>3, <2>4, ClearCall
  <2> QED
    BY <2>2, <2>5 DEF SStepped
<1> QED
  BY <1>11, <1>12, <1>13, <1>14, <1>15, <1>16, <1>17, <1>18, <1>19, <1>20 DEF Single!Next

-----------------------------------------------------------------------------
\* The doubly linked list.

LEMMA WalkIs ==
  ASSUME NEW k \in Nat, NEW s, NEW f, NEW n, \A i \in 1 .. k : s[i] # None,
         k > 0 => n = s[1], \A i \in 1 .. k - 1 : f[s[i]] = s[i + 1]
  PROVE  Double!Walk(f, n, k) = [i \in 1 .. k |-> s[i]]
<1> DEFINE Is(g) == g = [i \in 1 .. k |->
                           IF i = 1 THEN n ELSE IF g[i - 1] = None THEN None ELSE f[g[i - 1]]]
           node == CHOOSE g : Is(g)
           h == [i \in 1 .. k |-> s[i]]
<1>1. Is(h)
  <2>1. ASSUME NEW i \in 1 .. k
        PROVE  h[i] = IF i = 1 THEN n ELSE IF h[i - 1] = None THEN None ELSE f[h[i - 1]]
    <3>1. CASE i = 1
      BY <3>1
    <3>2. CASE i # 1
      <4>1. i - 1 \in 1 .. k - 1 /\ i - 1 \in 1 .. k /\ (i - 1) + 1 = i
        BY <3>2
      <4> QED
        BY <3>2, <4>1
    <3> QED
      BY <3>1, <3>2
  <2> QED
    BY <2>1
<1>2. Is(node)
  <2> HIDE DEF Is
  <2> QED
    BY <1>1
<1>3. ASSUME NEW g, Is(g) PROVE \A i \in 1 .. k : g[i] = s[i]
  <2> DEFINE B == {i \in 1 .. k : g[i] # s[i]}
  <2>1. SUFFICES ASSUME B # {} PROVE FALSE
    OBVIOUS
  <2>2. PICK i \in B : \A j \in B : i <= j
    <3>1. B \in SUBSET Nat
      OBVIOUS
    <3> HIDE DEF B
    <3> QED
      BY <2>1, <3>1, LeastNumber
  <2>3. i \in 1 .. k /\ i # 1
    BY <1>3
  <2>4. i - 1 \in 1 .. k - 1 /\ i - 1 \in 1 .. k /\ (i - 1) + 1 = i /\ ~(i <= i - 1)
    BY <2>3
  <2>5. i - 1 \notin B
    BY <2>2, <2>4
  <2>6. g[i - 1] = s[i - 1]
    BY <2>4, <2>5
  <2>7. g[i] = s[i]
    BY <1>3, <2>3, <2>4, <2>6
  <2> QED
    BY <2>2, <2>7
<1>4. \A i \in 1 .. k : node[i] = s[i]
  <2> HIDE DEF node, Is
  <2> QED
    BY <1>2, <1>3
<1>5. Double!Walk(f, n, k) = [i \in 1 .. k |-> node[i]]
  BY DEF Double!Walk
<1> HIDE DEF node
<1> QED
  BY <1>4, <1>5

DLists ==
  [head : Nodes \cup {None}, tail : Nodes \cup {None}, length : Nat,
   next : [Nodes -> Nodes \cup {None}], prev : [Nodes -> Nodes \cup {None}],
   data : [Nodes -> Data \cup {None}]]

\* The places before and after a place of a circle.
Onward(k, i) == IF i = k THEN 1 ELSE i + 1
Back(k, i)   == IF i = 1 THEN k ELSE i - 1

\* The nodes s, of which there are k, form the circle of the list l.
DLinked(l, s, k) ==
  /\ l \in DLists /\ Once(s, k) /\ l.length = k
  /\ l.head = (IF k = 0 THEN None ELSE s[1]) /\ l.tail = (IF k = 0 THEN None ELSE s[k])
  /\ \A i \in 1 .. k : l.next[s[i]] = s[Onward(k, i)] /\ l.prev[s[i]] = s[Back(k, i)]
  /\ \A i \in 1 .. k : l.data[s[i]] \in Data

LEMMA DoubleViews ==
  ASSUME NEW l, NEW s, NEW k, DLinked(l, s, k)
  PROVE  /\ Double!InOrder(l) = s /\ Double!DataOf(l) = Told(l.data, s, k)
         /\ Double!Free(l) = {n \in Nodes : ~Has(s, k, n)}
         /\ Double!Range(s) = {s[i] : i \in 1 .. k}
<1>1. k \in Nat /\ Once(s, k) /\ DOMAIN s = 1 .. k /\ s = [i \in 1 .. k |-> s[i]]
  BY DEF DLinked, Once
<1>2. \A i \in 1 .. k : s[i] # None
  BY <1>1, NodesOf
<1>3. \A i \in 1 .. k - 1 : l.next[s[i]] = s[i + 1]
  <2> SUFFICES ASSUME NEW i \in 1 .. k - 1 PROVE l.next[s[i]] = s[i + 1]
    OBVIOUS
  <2>1. i \in 1 .. k /\ i # k
    BY <1>1
  <2> QED
    BY <2>1 DEF DLinked, Onward
<1>4. l.length = k
  BY DEF DLinked
<1>5. Double!Walk(l.next, l.head, k) = [i \in 1 .. k |-> s[i]]
  <2>1. k > 0 => l.head = s[1]
    BY <1>1 DEF DLinked
  <2>2. k \in Nat
    BY <1>1
  <2> QED
    BY <1>2, <1>3, <2>1, <2>2, WalkIs
<1>6. Double!InOrder(l) = s
  BY <1>1, <1>4, <1>5 DEF Double!InOrder
<1>7. Double!DataOf(l) = Told(l.data, s, k)
  BY <1>1, <1>6 DEF Double!DataOf, Told
<1>8. Double!Range(s) = {s[i] : i \in 1 .. k}
  BY <1>1 DEF Double!Range
<1> QED
  BY <1>6, <1>7, <1>8 DEF Double!Free, Has

\* The circle may be gone round the other way.
LEMMA DoubleBack ==
  ASSUME NEW l, NEW s, NEW k, DLinked(l, s, k)
  PROVE  Double!Walk(l.prev, l.tail, k) = [i \in DOMAIN s |-> s[Len(s) - i + 1]]
<1>1. k \in Nat /\ Once(s, k) /\ Len(s) = k
  BY DEF DLinked, Once
<1> DEFINE r == [i \in 1 .. k |-> s[(k - i) + 1]]
<1>2. \A i \in 1 .. k : (k - i) + 1 \in 1 .. k
  BY <1>1
<1>3. \A i \in 1 .. k : r[i] # None
  BY <1>1, <1>2, NodesOf
<1>4. \A i \in 1 .. k - 1 : l.prev[r[i]] = r[i + 1]
  <2> SUFFICES ASSUME NEW i \in 1 .. k - 1 PROVE l.prev[r[i]] = r[i + 1]
    OBVIOUS
  <2> DEFINE j == (k - i) + 1
  <2>1. /\ j \in 1 .. k /\ j # 1 /\ i \in 1 .. k /\ i + 1 \in 1 .. k
        /\ (k - (i + 1)) + 1 = j - 1
    BY <1>1
  <2>2. r[i] = s[j] /\ r[i + 1] = s[j - 1]
    BY <2>1
  <2> HIDE DEF j, r
  <2>3. l.prev[s[j]] = s[j - 1]
    BY <2>1 DEF DLinked, Back
  <2> QED
    BY <2>2, <2>3
<1>5. k > 0 => l.tail = r[1]
  BY <1>1 DEF DLinked
<1> HIDE DEF r
<1>6. Double!Walk(l.prev, l.tail, k) = [i \in 1 .. k |-> r[i]]
  <2> DEFINE f == l.prev
             n == l.tail
  <2>1. k \in Nat /\ (k > 0 => n = r[1])
    BY <1>1, <1>5
  <2>2. \A i \in 1 .. k - 1 : f[r[i]] = r[i + 1]
    BY <1>4
  <2> HIDE DEF f, n
  <2>3. Double!Walk(f, n, k) = [i \in 1 .. k |-> r[i]]
    BY <1>3, <2>1, <2>2, WalkIs
  <2> QED
    BY <2>3 DEF f, n
<1> QED
  <2>1. DOMAIN s = 1 .. k /\ \A i \in 1 .. k : Len(s) - i + 1 = (k - i) + 1
    BY <1>1 DEF Once
  <2> QED
    BY <1>6, <2>1 DEF r

\* A node put in behind place i of the circle, or before its first node.
Put(u, l, s, k, i, new, d) ==
  /\ u \in DLists /\ u.length = k + 1
  /\ u.head = (IF i = 0 THEN new ELSE l.head)
  /\ u.tail = (IF i = k THEN new ELSE l.tail)
  /\ \A m \in Nodes :
       /\ u.data[m] = (IF m = new THEN d ELSE l.data[m])
       /\ u.next[m] = (IF m = new THEN IF k = 0 THEN new ELSE s[IF i = k THEN 1 ELSE i + 1]
                       ELSE IF k # 0 /\ m = s[IF i = 0 THEN k ELSE i] THEN new ELSE l.next[m])
       /\ u.prev[m] = (IF m = new THEN IF k = 0 THEN new ELSE s[IF i = 0 THEN k ELSE i]
                       ELSE IF k # 0 /\ m = s[IF i = k THEN 1 ELSE i + 1] THEN new
                       ELSE l.prev[m])

DInserted(u, l, s, k, i, new, d) ==
  /\ DLinked(u, Inserted(s, k, i, new), k + 1)
  /\ Told(u.data, Inserted(s, k, i, new), k + 1) = Inserted(Told(l.data, s, k), k, i, d)

LEMMA DPut ==
  ASSUME NEW u, NEW l, NEW s, NEW k, DLinked(l, s, k), NEW new \in Nodes, ~Has(s, k, new),
         NEW d \in Data, NEW i \in 0 .. k, Put(u, l, s, k, i, new, d)
  PROVE  DInserted(u, l, s, k, i, new, d)
<1> DEFINE t == Inserted(s, k, i, new)
<1>1. /\ l \in DLists /\ Once(s, k) /\ l.length = k
      /\ l.head = (IF k = 0 THEN None ELSE s[1]) /\ l.tail = (IF k = 0 THEN None ELSE s[k])
  BY DEF DLinked
<1>2. /\ k \in Nat
      /\ \A j \in 1 .. k : s[j] \in Nodes /\ s[j] # None /\ s[j] # new
  BY <1>1, NodesOf DEF Has
<1>3. \A a, b \in 1 .. k : s[a] = s[b] => a = b
  BY <1>1 DEF Once
<1>4. \A j \in 1 .. k : /\ l.next[s[j]] = s[Onward(k, j)] /\ l.prev[s[j]] = s[Back(k, j)]
                        /\ l.data[s[j]] \in Data
  BY DEF DLinked
<1>5. Once(t, k + 1)
  BY <1>1, PutOnce
<1>6. \A j \in 1 .. k + 1 : t[j] = IF j <= i THEN s[j] ELSE IF j = i + 1 THEN new ELSE s[j - 1]
  BY DEF Inserted
<1> HIDE DEF t
<1>7. ASSUME NEW j \in 1 .. k + 1 PROVE u.next[t[j]] = t[Onward(k + 1, j)]
  <2>1. CASE j = i + 1
    <3>1. t[j] = new /\ u.next[new] = IF k = 0 THEN new ELSE s[IF i = k THEN 1 ELSE i + 1]
      BY <1>2, <1>6, <2>1 DEF Put
    <3>2. t[Onward(k + 1, j)] = IF k = 0 THEN new ELSE s[IF i = k THEN 1 ELSE i + 1]
      BY <1>2, <1>6, <2>1 DEF Onward
    <3> QED
      BY <3>1, <3>2
  <2>2. CASE j <= i
    <3>1. t[j] = s[j] /\ j \in 1 .. k /\ k # 0 /\ i # 0
      BY <1>2, <1>6, <2>2
    <3>2. u.next[s[j]] = IF j = i THEN new ELSE l.next[s[j]]
      BY <1>2, <1>3, <3>1 DEF Put
    <3>3. t[Onward(k + 1, j)] = IF j = i THEN new ELSE s[j + 1]
      BY <1>2, <1>6, <2>2, <3>1 DEF Onward
    <3>4. j # i => l.next[s[j]] = s[j + 1]
      BY <1>2, <1>4, <2>2, <3>1 DEF Onward
    <3> QED
      BY <3>1, <3>2, <3>3, <3>4
  <2>3. CASE j > i + 1
    <3>1. t[j] = s[j - 1] /\ j - 1 \in 1 .. k /\ k # 0
      BY <1>2, <1>6, <2>3
    <3>2. u.next[s[j - 1]] = IF i = 0 /\ j = k + 1 THEN new ELSE l.next[s[j - 1]]
      <4>1. j - 1 # i /\ (i = 0 => (j - 1 = k <=> j = k + 1)) /\ k \in 1 .. k
        BY <1>2, <2>3, <3>1
      <4>2. (s[j - 1] = s[IF i = 0 THEN k ELSE i]) <=> (i = 0 /\ j = k + 1)
        BY <1>2, <1>3, <3>1, <4>1
      <4> QED
        BY <1>2, <3>1, <4>2 DEF Put
    <3>3. l.next[s[j - 1]] = s[IF j = k + 1 THEN 1 ELSE j]
      BY <1>2, <1>4, <3>1 DEF Onward
    <3>4. t[Onward(k + 1, j)] = IF j = k + 1 THEN IF i = 0 THEN new ELSE s[1] ELSE s[j]
      BY <1>2, <1>6, <2>3 DEF Onward
    <3> QED
      BY <3>1, <3>2, <3>3, <3>4
  <2> QED
    BY <1>2, <2>1, <2>2, <2>3
<1>8. ASSUME NEW j \in 1 .. k + 1 PROVE u.prev[t[j]] = t[Back(k + 1, j)]
  <2>1. CASE j = i + 1
    <3>1. t[j] = new /\ u.prev[new] = IF k = 0 THEN new ELSE s[IF i = 0 THEN k ELSE i]
      BY <1>2, <1>6, <2>1 DEF Put
    <3>2. t[Back(k + 1, j)] = IF k = 0 THEN new ELSE s[IF i = 0 THEN k ELSE i]
      BY <1>2, <1>6, <2>1 DEF Back
    <3> QED
      BY <3>1, <3>2
  <2>2. CASE j <= i
    <3>1. t[j] = s[j] /\ j \in 1 .. k /\ k # 0 /\ i # 0
      BY <1>2, <1>6, <2>2
    <3>2. u.prev[s[j]] = IF i = k /\ j = 1 THEN new ELSE l.prev[s[j]]
      <4>1. (s[j] = s[IF i = k THEN 1 ELSE i + 1]) <=> (i = k /\ j = 1)
        BY <1>2, <1>3, <2>2, <3>1
      <4> QED
        BY <1>2, <3>1, <4>1 DEF Put
    <3>3. l.prev[s[j]] = s[IF j = 1 THEN k ELSE j - 1]
      BY <1>2, <1>4, <3>1 DEF Back
    <3>4. t[Back(k + 1, j)] = IF j = 1 THEN IF i = k THEN new ELSE s[k] ELSE s[j - 1]
      BY <1>2, <1>6, <2>2, <3>1 DEF Back
    <3> QED
      BY <3>1, <3>2, <3>3, <3>4
  <2>3. CASE j > i + 1
    <3>1. t[j] = s[j - 1] /\ j - 1 \in 1 .. k /\ k # 0 /\ i # k
      BY <1>2, <1>6, <2>3
    <3>2. u.prev[s[j - 1]] = IF j = i + 2 THEN new ELSE l.prev[s[j - 1]]
      <4>1. (s[j - 1] = s[i + 1]) <=> (j = i + 2)
        BY <1>2, <1>3, <2>3, <3>1
      <4> QED
        BY <1>2, <3>1, <4>1 DEF Put
    <3>3. j # i + 2 => l.prev[s[j - 1]] = s[j - 2]
      BY <1>2, <1>4, <2>3, <3>1 DEF Back
    <3>4. t[Back(k + 1, j)] = IF j = i + 2 THEN new ELSE s[j - 2]
      BY <1>2, <1>6, <2>3 DEF Back
    <3> QED
      BY <3>1, <3>2, <3>3, <3>4
  <2> QED
    BY <1>2, <2>1, <2>2, <2>3
<1>9. u.head = t[1] /\ u.tail = t[k + 1] /\ u.length = k + 1 /\ k + 1 # 0 /\ u \in DLists
  BY <1>1, <1>2, <1>6 DEF Put
<1>10. \A j \in 1 .. k + 1 :
         u.data[t[j]] = IF j <= i THEN l.data[s[j]] ELSE IF j = i + 1 THEN d ELSE l.data[s[j - 1]]
  <2> SUFFICES ASSUME NEW j \in 1 .. k + 1
               PROVE  u.data[t[j]] = IF j <= i THEN l.data[s[j]]
                                     ELSE IF j = i + 1 THEN d ELSE l.data[s[j - 1]]
    OBVIOUS
  <2>1. \A m \in Nodes : u.data[m] = (IF m = new THEN d ELSE l.data[m])
    BY DEF Put
  <2> QED
    BY <1>2, <1>6, <2>1
<1>11. \A j \in 1 .. k + 1 : u.data[t[j]] \in Data
  BY <1>2, <1>4, <1>10
<1>12. Told(u.data, t, k + 1) = Inserted(Told(l.data, s, k), k, i, d)
  <2>1. \A j \in 1 .. k + 1 : j <= i => j \in 1 .. k
    BY <1>2
  <2>2. \A j \in 1 .. k + 1 : j > i + 1 => j - 1 \in 1 .. k
    BY <1>2
  <2>3. \A j \in 1 .. k + 1 : Inserted(Told(l.data, s, k), k, i, d)[j] = u.data[t[j]]
    BY <1>2, <1>10, <2>1, <2>2 DEF Inserted, Told
  <2> QED
    BY <2>3 DEF Inserted, Told
<1>13. DLinked(u, t, k + 1)
  BY <1>5, <1>7, <1>8, <1>9, <1>11 DEF DLinked
<1> QED
  BY <1>12, <1>13 DEF DInserted, t

\* Node i of the circle taken out, those around it linked.
Cut(u, l, s, k, i) ==
  /\ u \in DLists /\ u.length = k - 1
  /\ u.head = (IF k = 1 THEN None ELSE IF i = 1 THEN s[2] ELSE s[1])
  /\ u.tail = (IF k = 1 THEN None ELSE IF i = k THEN s[k - 1] ELSE s[k])
  /\ \A m \in Nodes :
       m # s[i] => /\ u.data[m] = l.data[m]
                   /\ u.next[m] = (IF k # 1 /\ m = s[Back(k, i)] THEN s[Onward(k, i)] ELSE l.next[m])
                   /\ u.prev[m] = (IF k # 1 /\ m = s[Onward(k, i)] THEN s[Back(k, i)] ELSE l.prev[m])

DRemoved(u, l, s, k, i) ==
  /\ DLinked(u, Without(s, k, i), k - 1)
  /\ Told(u.data, Without(s, k, i), k - 1) = Without(Told(l.data, s, k), k, i)

LEMMA DCut ==
  ASSUME NEW u, NEW l, NEW s, NEW k, DLinked(l, s, k), NEW i \in 1 .. k, Cut(u, l, s, k, i)
  PROVE  DRemoved(u, l, s, k, i)
<1> DEFINE t == Without(s, k, i)
<1>1. l \in DLists /\ Once(s, k) /\ l.length = k
  BY DEF DLinked
<1>2. k \in Nat /\ \A j \in 1 .. k : s[j] \in Nodes /\ s[j] # None
  BY <1>1, NodesOf
<1>3. \A a, b \in 1 .. k : s[a] = s[b] => a = b
  BY <1>1 DEF Once
<1>4. \A j \in 1 .. k : /\ l.next[s[j]] = s[Onward(k, j)] /\ l.prev[s[j]] = s[Back(k, j)]
                        /\ l.data[s[j]] \in Data
  BY DEF DLinked
<1>5. Once(t, k - 1)
  BY <1>1, TakenOnce
<1>6. \A j \in 1 .. k - 1 : t[j] = IF j < i THEN s[j] ELSE s[j + 1]
  BY DEF Without
<1> HIDE DEF t
<1> DEFINE old(j) == IF j < i THEN j ELSE j + 1
<1>7. \A j \in 1 .. k - 1 : old(j) \in 1 .. k /\ old(j) # i /\ t[j] = s[old(j)]
  BY <1>2, <1>6
<1>8. \A j \in 1 .. k - 1 : s[old(j)] # s[i] /\ s[old(j)] \in Nodes
  BY <1>2, <1>3, <1>7
<1>9. ASSUME NEW j \in 1 .. k - 1
      PROVE /\ old(Onward(k - 1, j)) = (IF old(j) = Back(k, i) THEN Onward(k, i) ELSE Onward(k, old(j)))
            /\ Onward(k - 1, j) \in 1 .. k - 1
  BY <1>2 DEF Onward, Back
<1>10. ASSUME NEW j \in 1 .. k - 1
       PROVE /\ old(Back(k - 1, j)) = (IF old(j) = Onward(k, i) THEN Back(k, i) ELSE Back(k, old(j)))
             /\ Back(k - 1, j) \in 1 .. k - 1
  BY <1>2 DEF Onward, Back
<1>11. Back(k, i) \in 1 .. k /\ Onward(k, i) \in 1 .. k
  BY <1>2 DEF Onward, Back
<1>12. ASSUME NEW j \in 1 .. k - 1
       PROVE  u.next[t[j]] = t[Onward(k - 1, j)] /\ u.prev[t[j]] = t[Back(k - 1, j)]
  <2> DEFINE o == old(j)
  <2>1. o \in 1 .. k /\ o # i /\ t[j] = s[o] /\ s[o] # s[i] /\ s[o] \in Nodes
    BY <1>7, <1>8
  <2>2. k # 1
    BY <1>2
  <2>3. t[Onward(k - 1, j)] = s[IF o = Back(k, i) THEN Onward(k, i) ELSE Onward(k, o)]
    BY <1>7, <1>9
  <2>4. t[Back(k - 1, j)] = s[IF o = Onward(k, i) THEN Back(k, i) ELSE Back(k, o)]
    BY <1>7, <1>10
  <2> HIDE DEF o, old
  <2>5. (s[o] = s[Back(k, i)] <=> o = Back(k, i)) /\ (s[o] = s[Onward(k, i)] <=> o = Onward(k, i))
    BY <1>3, <1>11, <2>1
  <2>6. u.next[s[o]] = (IF o = Back(k, i) THEN s[Onward(k, i)] ELSE l.next[s[o]])
    BY <2>1, <2>2, <2>5 DEF Cut
  <2>7. u.prev[s[o]] = (IF o = Onward(k, i) THEN s[Back(k, i)] ELSE l.prev[s[o]])
    BY <2>1, <2>2, <2>5 DEF Cut
  <2> QED
    BY <1>4, <2>1, <2>3, <2>4, <2>6, <2>7
<1>13. /\ u.head = (IF k - 1 = 0 THEN None ELSE t[1])
       /\ u.tail = (IF k - 1 = 0 THEN None ELSE t[k - 1])
       /\ u.length = k - 1 /\ u \in DLists
  BY <1>2, <1>6 DEF Cut
<1>14. \A j \in 1 .. k - 1 : u.data[t[j]] = IF j < i THEN l.data[s[j]] ELSE l.data[s[j + 1]]
  <2> SUFFICES ASSUME NEW j \in 1 .. k - 1
               PROVE  u.data[t[j]] = IF j < i THEN l.data[s[j]] ELSE l.data[s[j + 1]]
    OBVIOUS
  <2>1. t[j] \in Nodes /\ t[j] # s[i] /\ t[j] = (IF j < i THEN s[j] ELSE s[j + 1])
    BY <1>6, <1>7, <1>8
  <2> QED
    BY <2>1 DEF Cut
<1>15. \A j \in 1 .. k - 1 : u.data[t[j]] \in Data
  BY <1>2, <1>4, <1>14
<1>16. Told(u.data, t, k - 1) = Without(Told(l.data, s, k), k, i)
  <2>1. \A j \in 1 .. k - 1 : j \in 1 .. k /\ j + 1 \in 1 .. k
    BY <1>2
  <2>2. \A j \in 1 .. k - 1 : Without(Told(l.data, s, k), k, i)[j] = u.data[t[j]]
    BY <1>14, <2>1 DEF Without, Told
  <2> QED
    BY <2>2 DEF Without, Told
<1>17. DLinked(u, t, k - 1)
  BY <1>5, <1>12, <1>13, <1>15 DEF DLinked
<1> QED
  BY <1>16, <1>17 DEF DRemoved, t

-----------------------------------------------------------------------------
\* What each operation does to the links, the ends and the values.

LEMMA DFreedIs ==
  ASSUME NEW v \in DLists, NEW n \in Nodes
  PROVE  LET u == Double!Freed(v, n)
         IN  /\ u \in DLists /\ u.head = v.head /\ u.tail = v.tail /\ u.length = v.length
             /\ \A m \in Nodes : m # n => /\ u.next[m] = v.next[m] /\ u.prev[m] = v.prev[m]
                                          /\ u.data[m] = v.data[m]
<1> DEFINE u == Double!Freed(v, n)
<1>1. u \in DLists
  BY DEF DLists, Double!Freed
<1>2. /\ u.head = v.head /\ u.tail = v.tail /\ u.length = v.length
      /\ u.next = [v.next EXCEPT ![n] = None] /\ u.prev = [v.prev EXCEPT ![n] = None]
      /\ u.data = [v.data EXCEPT ![n] = None]
  BY DEF DLists, Double!Freed
<1>3. \A m \in Nodes : m # n => /\ u.next[m] = v.next[m] /\ u.prev[m] = v.prev[m]
                                /\ u.data[m] = v.data[m]
  <2> HIDE DEF u
  <2> QED
    BY <1>2 DEF DLists
<1> QED
  BY <1>1, <1>2, <1>3

LEMMA DFirst ==
  ASSUME NEW l, NEW s, DLinked(l, s, 0), NEW new \in Nodes, NEW d \in Data
  PROVE  Put(Double!First(l, new, d), l, s, 0, 0, new, d)
<1> DEFINE u == Double!First(l, new, d)
<1>1. l \in DLists
  BY DEF DLinked
<1>2. u \in DLists /\ u.length = 1 /\ u.head = new /\ u.tail = new
  BY <1>1 DEF DLists, Double!First
<1>3. /\ u.data = [l.data EXCEPT ![new] = d] /\ u.next = [l.next EXCEPT ![new] = new]
      /\ u.prev = [l.prev EXCEPT ![new] = new]
  BY <1>1 DEF DLists, Double!First
<1> HIDE DEF u
<1>4. \A m \in Nodes : /\ u.data[m] = (IF m = new THEN d ELSE l.data[m])
                       /\ u.next[m] = (IF m = new THEN new ELSE l.next[m])
                       /\ u.prev[m] = (IF m = new THEN new ELSE l.prev[m])
  BY <1>1, <1>3 DEF DLists
<1> QED
  BY <1>2, <1>4 DEF Put, u

\* A node between the one before it, a, and the one after it, b.
Joins(u, l, a, b, new, d) ==
  \A m \in Nodes :
    /\ u.data[m] = (IF m = new THEN d ELSE l.data[m])
    /\ u.next[m] = (IF m = new THEN b ELSE IF m = a THEN new ELSE l.next[m])
    /\ u.prev[m] = (IF m = new THEN a ELSE IF m = b THEN new ELSE l.prev[m])

LEMMA DAroundIs ==
  ASSUME NEW l \in DLists, l.head \in Nodes, l.tail \in Nodes, NEW new \in Nodes, NEW d \in Data,
         new # l.head, new # l.tail
  PROVE  LET u == Double!Around(l, new, d)
         IN  /\ u \in DLists /\ u.head = l.head /\ u.tail = l.tail /\ u.length = l.length + 1
             /\ Joins(u, l, l.tail, l.head, new, d)
<1> DEFINE u == Double!Around(l, new, d)
<1>1. u \in DLists
  <2>1. l.length + 1 \in Nat
    BY DEF DLists
  <2> QED
    BY <2>1 DEF DLists, Double!Around
<1>2. /\ u.head = l.head /\ u.tail = l.tail /\ u.length = l.length + 1
      /\ u.data = [l.data EXCEPT ![new] = d]
      /\ u.next = [l.next EXCEPT ![new] = l.head, ![l.tail] = new]
      /\ u.prev = [l.prev EXCEPT ![new] = l.tail, ![l.head] = new]
  BY DEF DLists, Double!Around
<1> HIDE DEF u
<1>3. Joins(u, l, l.tail, l.head, new, d)
  BY <1>2 DEF DLists, Joins
<1> QED
  BY <1>1, <1>2, <1>3 DEF u

LEMMA DInsertAfterIs ==
  ASSUME NEW l \in DLists, NEW n \in Nodes, l.next[n] \in Nodes, NEW new \in Nodes, NEW d \in Data,
         new # n, new # l.next[n]
  PROVE  LET u == Double!insert_after(l, n, new, d)
         IN  /\ u \in DLists /\ u.head = l.head /\ u.length = l.length + 1
             /\ u.tail = (IF l.tail = n THEN new ELSE l.tail)
             /\ Joins(u, l, n, l.next[n], new, d)
<1> DEFINE w == [l EXCEPT !.prev[l.next[n]] = new]
           u == [w EXCEPT !.data[new] = d, !.next[new] = l.next[n], !.prev[new] = n,
                          !.next[n] = new,
                          !.tail = IF @ = n THEN new ELSE @, !.length = @ + 1]
<1>0. Double!insert_after(l, n, new, d) = u
  BY ListsAssumption DEF Double!insert_after
<1>1. /\ w \in DLists /\ w.head = l.head /\ w.tail = l.tail /\ w.length = l.length
      /\ w.data = l.data /\ w.next = l.next /\ w.prev = [l.prev EXCEPT ![l.next[n]] = new]
  BY DEF DLists
<1> DEFINE b == l.next[n]
<1>2. b \in Nodes /\ new # b
  OBVIOUS
<1> HIDE DEF w, b
<1>3. w.length + 1 \in Nat
  BY <1>1 DEF DLists
<1>4. u = [w EXCEPT !.data[new] = d, !.next[new] = b, !.prev[new] = n,
                    !.next[n] = new,
                    !.tail = IF @ = n THEN new ELSE @, !.length = @ + 1]
  BY DEF b
<1>5. u \in DLists
  <2> HIDE DEF u
  <2> QED
    BY <1>1, <1>2, <1>3, <1>4 DEF DLists
<1>6. /\ u.head = l.head /\ u.tail = (IF l.tail = n THEN new ELSE l.tail)
      /\ u.length = l.length + 1
      /\ u.data = [l.data EXCEPT ![new] = d]
      /\ u.next = [l.next EXCEPT ![new] = b, ![n] = new]
      /\ u.prev = [w.prev EXCEPT ![new] = n]
  <2> HIDE DEF u
  <2> QED
    BY <1>1, <1>4 DEF DLists
<1> HIDE DEF u
<1>7. \A m \in Nodes : w.prev[m] = IF m = b THEN new ELSE l.prev[m]
  BY <1>1 DEF DLists, b
<1>8. Joins(u, l, n, b, new, d)
  BY <1>1, <1>2, <1>6, <1>7 DEF DLists, Joins
<1> QED
  BY <1>0, <1>5, <1>6, <1>8 DEF b

LEMMA DClosedIs ==
  ASSUME NEW l \in DLists, l.head \in Nodes, l.tail \in Nodes
  PROVE  LET u == Double!Closed(l)
         IN  /\ u \in DLists /\ u.head = l.head /\ u.tail = l.tail /\ u.length = l.length
             /\ u.data = l.data
             /\ \A m \in Nodes : /\ u.next[m] = (IF m = l.tail THEN l.head ELSE l.next[m])
                                 /\ u.prev[m] = (IF m = l.head THEN l.tail ELSE l.prev[m])
<1> DEFINE u == Double!Closed(l)
<1>1. u \in DLists
  BY DEF DLists, Double!Closed
<1>2. /\ u.head = l.head /\ u.tail = l.tail /\ u.length = l.length /\ u.data = l.data
      /\ u.next = [l.next EXCEPT ![l.tail] = l.head]
      /\ u.prev = [l.prev EXCEPT ![l.head] = l.tail]
  BY DEF DLists, Double!Closed
<1> HIDE DEF u
<1>3. \A m \in Nodes : /\ u.next[m] = (IF m = l.tail THEN l.head ELSE l.next[m])
                       /\ u.prev[m] = (IF m = l.head THEN l.tail ELSE l.prev[m])
  BY <1>2 DEF DLists
<1> QED
  BY <1>1, <1>2, <1>3 DEF u

\* What a linked list is.
LEMMA DFacts ==
  ASSUME NEW l, NEW s, NEW k, DLinked(l, s, k)
  PROVE  /\ l \in DLists /\ Once(s, k) /\ l.length = k /\ k \in Nat /\ DOMAIN s = 1 .. k
         /\ l.head = (IF k = 0 THEN None ELSE s[1]) /\ l.tail = (IF k = 0 THEN None ELSE s[k])
         /\ \A i \in 1 .. k : s[i] \in Nodes /\ s[i] # None
         /\ \A i, j \in 1 .. k : s[i] = s[j] => i = j
         /\ \A i \in 1 .. k : /\ l.next[s[i]] = s[Onward(k, i)] /\ l.prev[s[i]] = s[Back(k, i)]
                              /\ l.data[s[i]] \in Data
<1>1. Once(s, k)
  BY DEF DLinked
<1>2. k \in Nat /\ \A i \in 1 .. k : s[i] \in Nodes /\ s[i] # None
  BY <1>1, NodesOf
<1>3. DOMAIN s = 1 .. k /\ \A i, j \in 1 .. k : s[i] = s[j] => i = j
  BY <1>1 DEF Once
<1> QED
  BY <1>1, <1>2, <1>3 DEF DLinked

LEMMA DAround ==
  ASSUME NEW l, NEW s, NEW k, DLinked(l, s, k), k # 0, NEW new \in Nodes, ~Has(s, k, new),
         NEW d \in Data
  PROVE  LET u == Double!Around(l, new, d)
         IN  /\ u \in DLists /\ u.head = s[1] /\ u.tail = s[k] /\ u.length = k + 1
             /\ Joins(u, l, s[k], s[1], new, d)
<1>1. /\ l \in DLists /\ l.length = k /\ k \in Nat /\ l.head = s[1] /\ l.tail = s[k]
      /\ \A i \in 1 .. k : s[i] \in Nodes
  BY DFacts
<1>2. 1 \in 1 .. k /\ k \in 1 .. k
  BY <1>1
<1>3. l.head \in Nodes /\ l.tail \in Nodes /\ new # l.head /\ new # l.tail
  BY <1>1, <1>2 DEF Has
<1> DEFINE u == Double!Around(l, new, d)
<1>4. /\ u \in DLists /\ u.head = l.head /\ u.tail = l.tail /\ u.length = l.length + 1
      /\ Joins(u, l, l.tail, l.head, new, d)
  BY <1>1, <1>3, DAroundIs
<1> HIDE DEF u
<1> QED
  BY <1>1, <1>4 DEF u

LEMMA DPushFront ==
  ASSUME NEW l, NEW s, NEW k, DLinked(l, s, k), NEW new \in Nodes, ~Has(s, k, new), NEW d \in Data
  PROVE  Put(Double!push_front(l, new, d), l, s, k, 0, new, d)
<1>1. l \in DLists /\ l.length = k /\ k \in Nat /\ (k # 0 => l.tail = s[k])
  BY DFacts
<1>2. CASE k = 0
  <2>1. Double!push_front(l, new, d) = Double!First(l, new, d)
    BY <1>1, <1>2 DEF Double!push_front
  <2> QED
    BY <1>2, <2>1, DFirst
<1>3. CASE k # 0
  <2> DEFINE w == Double!Around(l, new, d)
             u == [w EXCEPT !.head = new]
  <2>1. Double!push_front(l, new, d) = u
    BY <1>1, <1>3 DEF Double!push_front
  <2>2. /\ w \in DLists /\ w.head = s[1] /\ w.tail = s[k] /\ w.length = k + 1
        /\ Joins(w, l, s[k], s[1], new, d)
    BY <1>3, DAround
  <2> HIDE DEF w
  <2>3. /\ u \in DLists /\ u.head = new /\ u.tail = w.tail /\ u.length = w.length
        /\ u.next = w.next /\ u.prev = w.prev /\ u.data = w.data
    BY <2>2 DEF DLists
  <2> HIDE DEF u
  <2>4. Joins(u, l, s[k], s[1], new, d)
    BY <2>2, <2>3 DEF Joins
  <2>5. (IF 0 = k THEN 1 ELSE 0 + 1) = 1 /\ (IF 0 = 0 THEN k ELSE 0) = k /\ 0 # k
    BY <1>1, <1>3
  <2>6. Put(u, l, s, k, 0, new, d)
    BY <1>1, <1>3, <2>2, <2>3, <2>4, <2>5 DEF Put, Joins
  <2> QED
    BY <2>1, <2>6
<1> QED
  BY <1>2, <1>3

LEMMA DPushBack ==
  ASSUME NEW l, NEW s, NEW k, DLinked(l, s, k), NEW new \in Nodes, ~Has(s, k, new), NEW d \in Data
  PROVE  Put(Double!push_back(l, new, d), l, s, k, k, new, d)
<1>1. l \in DLists /\ l.length = k /\ k \in Nat /\ (k # 0 => l.head = s[1])
  BY DFacts
<1>2. CASE k = 0
  <2>1. Double!push_back(l, new, d) = Double!First(l, new, d)
    BY <1>1, <1>2 DEF Double!push_back
  <2> QED
    BY <1>2, <2>1, DFirst
<1>3. CASE k # 0
  <2> DEFINE w == Double!Around(l, new, d)
             u == [w EXCEPT !.tail = new]
  <2>1. Double!push_back(l, new, d) = u
    BY <1>1, <1>3 DEF Double!push_back
  <2>2. /\ w \in DLists /\ w.head = s[1] /\ w.tail = s[k] /\ w.length = k + 1
        /\ Joins(w, l, s[k], s[1], new, d)
    BY <1>3, DAround
  <2> HIDE DEF w
  <2>3. /\ u \in DLists /\ u.tail = new /\ u.head = w.head /\ u.length = w.length
        /\ u.next = w.next /\ u.prev = w.prev /\ u.data = w.data
    BY <2>2 DEF DLists
  <2> HIDE DEF u
  <2>4. Joins(u, l, s[k], s[1], new, d)
    BY <2>2, <2>3 DEF Joins
  <2>6. Put(u, l, s, k, k, new, d)
    BY <1>1, <1>3, <2>2, <2>3, <2>4 DEF Put, Joins
  <2> QED
    BY <2>1, <2>6
<1> QED
  BY <1>2, <1>3

LEMMA DInsertAfter ==
  ASSUME NEW l, NEW s, NEW k, DLinked(l, s, k), NEW new \in Nodes, ~Has(s, k, new), NEW d \in Data,
         NEW i \in 1 .. k
  PROVE  Put(Double!insert_after(l, s[i], new, d), l, s, k, i, new, d)
<1>1. /\ l \in DLists /\ l.length = k /\ k \in Nat /\ l.head = (IF k = 0 THEN None ELSE s[1])
      /\ l.tail = (IF k = 0 THEN None ELSE s[k])
  BY DFacts
<1>2. /\ \A j \in 1 .. k : s[j] \in Nodes /\ s[j] # new
      /\ \A a, b \in 1 .. k : s[a] = s[b] => a = b
      /\ l.next[s[i]] = s[Onward(k, i)]
  BY DFacts DEF Has
<1>3. Onward(k, i) \in 1 .. k /\ k # 0 /\ i # 0 /\ k \in 1 .. k
  BY <1>1 DEF Onward
<1>4. s[i] \in Nodes /\ l.next[s[i]] \in Nodes /\ new # s[i] /\ new # l.next[s[i]]
  BY <1>2, <1>3
<1> DEFINE u == Double!insert_after(l, s[i], new, d)
<1>5. /\ u \in DLists /\ u.head = l.head /\ u.length = l.length + 1
      /\ u.tail = (IF l.tail = s[i] THEN new ELSE l.tail)
      /\ Joins(u, l, s[i], l.next[s[i]], new, d)
  BY <1>1, <1>4, DInsertAfterIs
<1> HIDE DEF u
<1>6. u.tail = IF i = k THEN new ELSE l.tail
  BY <1>1, <1>2, <1>3, <1>5
<1>7. Joins(u, l, s[i], s[Onward(k, i)], new, d)
  BY <1>2, <1>5
<1>8. (IF i = k THEN 1 ELSE i + 1) = Onward(k, i) /\ (IF i = 0 THEN k ELSE i) = i
  BY <1>3 DEF Onward
<1> QED
  BY <1>1, <1>3, <1>5, <1>6, <1>7, <1>8 DEF Put, Joins, u

LEMMA DPopFront ==
  ASSUME NEW l, NEW s, NEW k, DLinked(l, s, k), k # 0
  PROVE  Cut(Double!pop_front(l), l, s, k, 1)
<1>1. /\ l \in DLists /\ l.length = k /\ k \in Nat /\ l.head = s[1] /\ l.tail = s[k]
      /\ \A i \in 1 .. k : s[i] \in Nodes /\ l.next[s[i]] = s[Onward(k, i)]
  BY DFacts
<1>2. 1 \in 1 .. k /\ k \in 1 .. k /\ s[1] \in Nodes
  BY <1>1
<1>3. CASE k = 1
  <2> DEFINE v == [l EXCEPT !.head = None, !.tail = None, !.length = 0]
             u == Double!Freed(v, s[1])
  <2>1. Double!pop_front(l) = u
    BY <1>1, <1>3 DEF Double!pop_front
  <2>2. /\ v \in DLists /\ v.head = None /\ v.tail = None /\ v.length = 0
        /\ v.next = l.next /\ v.prev = l.prev /\ v.data = l.data
    BY <1>1 DEF DLists
  <2> HIDE DEF v
  <2>3. /\ u \in DLists /\ u.head = v.head /\ u.tail = v.tail /\ u.length = v.length
        /\ \A m \in Nodes : m # s[1] => /\ u.next[m] = v.next[m] /\ u.prev[m] = v.prev[m]
                                        /\ u.data[m] = v.data[m]
    BY <1>2, <2>2, DFreedIs
  <2> HIDE DEF u
  <2>4. Cut(u, l, s, k, 1)
    BY <1>3, <2>2, <2>3 DEF Cut
  <2> QED
    BY <2>1, <2>4
<1>4. CASE k # 1
  <2> DEFINE v == [l EXCEPT !.head = l.next[l.head], !.length = @ - 1]
             w == Double!Closed(v)
             u == Double!Freed(w, s[1])
  <2>1. Double!pop_front(l) = u
    BY <1>1, <1>4 DEF Double!pop_front
  <2>2. 2 \in 1 .. k /\ Onward(k, 1) = 2 /\ Back(k, 1) = k
    BY <1>1, <1>2, <1>4 DEF Onward, Back
  <2>3. l.next[l.head] = s[2] /\ s[2] \in Nodes /\ l.length - 1 \in Nat /\ s[k] \in Nodes
    BY <1>1, <1>2, <2>2
  <2>4. /\ v \in DLists /\ v.head = s[2] /\ v.tail = s[k] /\ v.length = k - 1
        /\ v.next = l.next /\ v.prev = l.prev /\ v.data = l.data
    BY <1>1, <2>3 DEF DLists
  <2> HIDE DEF v
  <2>5. /\ w \in DLists /\ w.head = v.head /\ w.tail = v.tail /\ w.length = v.length
        /\ w.data = v.data
        /\ \A m \in Nodes : /\ w.next[m] = (IF m = v.tail THEN v.head ELSE v.next[m])
                            /\ w.prev[m] = (IF m = v.head THEN v.tail ELSE v.prev[m])
    BY <2>3, <2>4, DClosedIs
  <2> HIDE DEF w
  <2>6. /\ u \in DLists /\ u.head = w.head /\ u.tail = w.tail /\ u.length = w.length
        /\ \A m \in Nodes : m # s[1] => /\ u.next[m] = w.next[m] /\ u.prev[m] = w.prev[m]
                                        /\ u.data[m] = w.data[m]
    BY <1>2, <2>5, DFreedIs
  <2> HIDE DEF u
  <2>7. Cut(u, l, s, k, 1)
    <3>1. \A m \in Nodes : m # s[1] =>
             /\ u.data[m] = l.data[m]
             /\ u.next[m] = (IF m = s[Back(k, 1)] THEN s[Onward(k, 1)] ELSE l.next[m])
             /\ u.prev[m] = (IF m = s[Onward(k, 1)] THEN s[Back(k, 1)] ELSE l.prev[m])
      BY <2>2, <2>4, <2>5, <2>6
    <3> QED
      BY <1>4, <2>4, <2>5, <2>6, <3>1 DEF Cut
  <2> QED
    BY <2>1, <2>7
<1> QED
  BY <1>3, <1>4

LEMMA DPopBack ==
  ASSUME NEW l, NEW s, NEW k, DLinked(l, s, k), k # 0
  PROVE  Cut(Double!pop_back(l), l, s, k, k)
<1>1. /\ l \in DLists /\ l.length = k /\ k \in Nat /\ l.head = s[1] /\ l.tail = s[k]
      /\ \A i \in 1 .. k : s[i] \in Nodes /\ l.prev[s[i]] = s[Back(k, i)]
  BY DFacts
<1>2. 1 \in 1 .. k /\ k \in 1 .. k /\ s[1] \in Nodes /\ s[k] \in Nodes
  BY <1>1
<1>3. CASE k = 1
  <2> DEFINE v == [l EXCEPT !.head = None, !.tail = None, !.length = 0]
             u == Double!Freed(v, s[k])
  <2>1. Double!pop_back(l) = u
    BY <1>1, <1>3 DEF Double!pop_back
  <2>2. /\ v \in DLists /\ v.head = None /\ v.tail = None /\ v.length = 0
        /\ v.next = l.next /\ v.prev = l.prev /\ v.data = l.data
    BY <1>1 DEF DLists
  <2> HIDE DEF v
  <2>3. /\ u \in DLists /\ u.head = v.head /\ u.tail = v.tail /\ u.length = v.length
        /\ \A m \in Nodes : m # s[k] => /\ u.next[m] = v.next[m] /\ u.prev[m] = v.prev[m]
                                        /\ u.data[m] = v.data[m]
    BY <1>2, <2>2, DFreedIs
  <2> HIDE DEF u
  <2>4. Cut(u, l, s, k, k)
    BY <1>3, <2>2, <2>3 DEF Cut
  <2> QED
    BY <2>1, <2>4
<1>4. CASE k # 1
  <2> DEFINE v == [l EXCEPT !.tail = l.prev[l.tail], !.length = @ - 1]
             w == Double!Closed(v)
             u == Double!Freed(w, s[k])
  <2>1. Double!pop_back(l) = u
    BY <1>1, <1>4 DEF Double!pop_back
  <2>2. k - 1 \in 1 .. k /\ Onward(k, k) = 1 /\ Back(k, k) = k - 1
    BY <1>1, <1>2, <1>4 DEF Onward, Back
  <2>3. l.prev[l.tail] = s[k - 1] /\ s[k - 1] \in Nodes /\ l.length - 1 \in Nat
    BY <1>1, <1>2, <2>2
  <2>4. /\ v \in DLists /\ v.head = s[1] /\ v.tail = s[k - 1] /\ v.length = k - 1
        /\ v.next = l.next /\ v.prev = l.prev /\ v.data = l.data
    BY <1>1, <2>3 DEF DLists
  <2> HIDE DEF v
  <2>5. /\ w \in DLists /\ w.head = v.head /\ w.tail = v.tail /\ w.length = v.length
        /\ w.data = v.data
        /\ \A m \in Nodes : /\ w.next[m] = (IF m = v.tail THEN v.head ELSE v.next[m])
                            /\ w.prev[m] = (IF m = v.head THEN v.tail ELSE v.prev[m])
    BY <1>2, <2>3, <2>4, DClosedIs
  <2> HIDE DEF w
  <2>6. /\ u \in DLists /\ u.head = w.head /\ u.tail = w.tail /\ u.length = w.length
        /\ \A m \in Nodes : m # s[k] => /\ u.next[m] = w.next[m] /\ u.prev[m] = w.prev[m]
                                        /\ u.data[m] = w.data[m]
    BY <1>2, <2>5, DFreedIs
  <2> HIDE DEF u
  <2>7. Cut(u, l, s, k, k)
    <3>1. \A m \in Nodes : m # s[k] =>
             /\ u.data[m] = l.data[m]
             /\ u.next[m] = (IF m = s[Back(k, k)] THEN s[Onward(k, k)] ELSE l.next[m])
             /\ u.prev[m] = (IF m = s[Onward(k, k)] THEN s[Back(k, k)] ELSE l.prev[m])
      BY <2>2, <2>4, <2>5, <2>6
    <3> QED
      BY <1>4, <2>4, <2>5, <2>6, <3>1 DEF Cut
  <2> QED
    BY <2>1, <2>7
<1> QED
  BY <1>3, <1>4

LEMMA DRemove ==
  ASSUME NEW l, NEW s, NEW k, DLinked(l, s, k), NEW i \in 1 .. k
  PROVE  DRemoved(Double!remove(l, s[i]), l, s, k, i)
<1>1. /\ l \in DLists /\ l.length = k /\ k \in Nat /\ l.head = (IF k = 0 THEN None ELSE s[1])
      /\ l.tail = (IF k = 0 THEN None ELSE s[k])
  BY DFacts
<1>2. /\ \A j \in 1 .. k : s[j] \in Nodes
      /\ \A a, b \in 1 .. k : s[a] = s[b] => a = b
      /\ l.next[s[i]] = s[Onward(k, i)] /\ l.prev[s[i]] = s[Back(k, i)]
  BY DFacts
<1>3. k # 0 /\ 1 \in 1 .. k /\ k \in 1 .. k
  BY <1>1
<1>4. CASE i = 1
  <2>1. Double!remove(l, s[i]) = Double!pop_front(l)
    BY <1>1, <1>3, <1>4 DEF Double!remove
  <2> QED
    BY <1>3, <1>4, <2>1, DPopFront, DCut
<1>5. CASE i # 1 /\ i = k
  <2>1. s[i] # l.head /\ s[i] = l.tail
    BY <1>1, <1>2, <1>3, <1>5
  <2>2. Double!remove(l, s[i]) = Double!pop_back(l)
    BY <2>1 DEF Double!remove
  <2> QED
    BY <1>3, <1>5, <2>2, DPopBack, DCut
<1>6. CASE i # 1 /\ i # k
  <2>1. s[i] # l.head /\ s[i] # l.tail
    BY <1>1, <1>2, <1>3, <1>6
  <2> DEFINE n == s[i]
             a == l.prev[n]
             b == l.next[n]
             v == [l EXCEPT !.next[a] = b]
             w == [v EXCEPT !.prev[b] = a, !.length = @ - 1]
             u == Double!Freed(w, n)
  <2>2. Double!remove(l, s[i]) = u
    BY <2>1 DEF Double!remove
  <2>3. Back(k, i) \in 1 .. k /\ Onward(k, i) \in 1 .. k
    BY <1>1 DEF Back, Onward
  <2>4. n \in Nodes /\ a \in Nodes /\ b \in Nodes /\ a = s[Back(k, i)] /\ b = s[Onward(k, i)]
    BY <1>2, <2>3
  <2> HIDE DEF a, b, n
  <2>5. /\ v \in DLists /\ v.head = l.head /\ v.tail = l.tail /\ v.length = l.length
        /\ v.next = [l.next EXCEPT ![a] = b] /\ v.prev = l.prev /\ v.data = l.data
    BY <1>1, <2>4 DEF DLists
  <2> HIDE DEF v
  <2>6. v.length - 1 \in Nat
    BY <1>1, <1>3, <2>5
  <2>7. /\ w \in DLists /\ w.head = v.head /\ w.tail = v.tail /\ w.length = v.length - 1
        /\ w.next = v.next /\ w.prev = [v.prev EXCEPT ![b] = a] /\ w.data = v.data
    BY <2>4, <2>5, <2>6 DEF DLists
  <2> HIDE DEF w
  <2>8. \A m \in Nodes : /\ w.next[m] = (IF m = a THEN b ELSE l.next[m])
                         /\ w.prev[m] = (IF m = b THEN a ELSE l.prev[m])
    BY <1>1, <2>5, <2>7 DEF DLists
  <2>9. /\ u \in DLists /\ u.head = w.head /\ u.tail = w.tail /\ u.length = w.length
        /\ \A m \in Nodes : m # n => /\ u.next[m] = w.next[m] /\ u.prev[m] = w.prev[m]
                                     /\ u.data[m] = w.data[m]
    BY <2>4, <2>7, DFreedIs
  <2> HIDE DEF u
  <2>10. Cut(u, l, s, k, i)
    <3>1. k # 1
      BY <1>1, <1>6
    <3>2. \A m \in Nodes : m # s[i] =>
             /\ u.data[m] = l.data[m]
             /\ u.next[m] = (IF m = s[Back(k, i)] THEN s[Onward(k, i)] ELSE l.next[m])
             /\ u.prev[m] = (IF m = s[Onward(k, i)] THEN s[Back(k, i)] ELSE l.prev[m])
      BY <2>4, <2>5, <2>7, <2>8, <2>9 DEF n
    <3> QED
      BY <1>1, <1>3, <1>6, <2>5, <2>7, <2>9, <3>1, <3>2 DEF Cut
  <2> QED
    BY <2>2, <2>10, DCut
<1> QED
  BY <1>4, <1>5, <1>6

LEMMA DUpdate ==
  ASSUME NEW l, NEW s, NEW k, DLinked(l, s, k), NEW i \in 1 .. k, NEW d \in Data
  PROVE  LET u == [l EXCEPT !.data[s[i]] = d]
         IN  DLinked(u, s, k) /\ Told(u.data, s, k) = [Told(l.data, s, k) EXCEPT ![i] = d]
<1> DEFINE u == [l EXCEPT !.data[s[i]] = d]
<1>1. l \in DLists /\ Once(s, k) /\ \A j \in 1 .. k : l.data[s[j]] \in Data
  BY DEF DLinked
<1>2. k \in Nat /\ \A j \in 1 .. k : s[j] \in Nodes /\ (s[j] = s[i] <=> j = i)
  BY <1>1 DEF Once
<1>3. s[i] \in Nodes
  BY <1>2
<1>4. /\ u \in DLists /\ u.head = l.head /\ u.next = l.next /\ u.prev = l.prev /\ u.tail = l.tail
      /\ u.length = l.length /\ u.data = [l.data EXCEPT ![s[i]] = d]
  BY <1>1, <1>3 DEF DLists
<1>5. \A m \in Nodes : u.data[m] = IF m = s[i] THEN d ELSE l.data[m]
  BY <1>1, <1>4 DEF DLists
<1> HIDE DEF u
<1>6. \A j \in 1 .. k : u.data[s[j]] = IF j = i THEN d ELSE l.data[s[j]]
  BY <1>2, <1>5
<1>7. DLinked(u, s, k)
  BY <1>1, <1>4, <1>6 DEF DLinked
<1>8. Told(u.data, s, k) = [Told(l.data, s, k) EXCEPT ![i] = d]
  BY <1>6 DEF Told
<1> QED
  BY <1>7, <1>8 DEF u

LEMMA DFresh ==
  ASSUME NEW l, NEW s, NEW k, DLinked(l, s, k), Double!Free(l) # {}
  PROVE  Double!Fresh(l) \in Nodes /\ ~Has(s, k, Double!Fresh(l))
<1>1. Double!Free(l) = {n \in Nodes : ~Has(s, k, n)}
  BY DoubleViews
<1>2. Double!Fresh(l) \in Double!Free(l)
  BY DEF Double!Fresh
<1> QED
  BY <1>1, <1>2

LEMMA DRoom ==
  ASSUME NEW l, NEW s, NEW k, DLinked(l, s, k), k < Cardinality(Nodes)
  PROVE  Double!Free(l) # {}
<1>1. Once(s, k)
  BY DEF DLinked
<1>2. Double!Free(l) = {n \in Nodes : ~Has(s, k, n)}
  BY DoubleViews
<1>3. SUFFICES ASSUME Double!Free(l) = {} PROVE FALSE
  OBVIOUS
<1>4. Nodes = {s[i] : i \in 1 .. k}
  BY <1>1, <1>2, <1>3 DEF Has, Once
<1>5. Cardinality({s[i] : i \in 1 .. k}) = k
  BY <1>1, RangeSize
<1> QED
  BY <1>1, <1>4, <1>5 DEF Once

LEMMA DEmpty == DLinked(Double!EmptyList, <<>>, 0)
<1>1. Double!EmptyList \in DLists
  BY DEF Double!EmptyList, DLists
<1>2. Once(<<>>, 0)
  BY DEF Once
<1> QED
  BY <1>1, <1>2 DEF DLinked, Double!EmptyList

LEMMA AppendInserted ==
  ASSUME NEW k \in Nat, NEW v \in [1 .. k -> Data], NEW d \in Data
  PROVE  Inserted(v, k, k, d) = Append(v, d)
<1>1. v \in Seq(Data) /\ Len(v) = k
  OBVIOUS
<1> DEFINE a == Append(v, d)
<1>2. a \in Seq(Data) /\ Len(a) = k + 1 /\ a[k + 1] = d /\ \A j \in 1 .. k : a[j] = v[j]
  BY <1>1
<1> HIDE DEF a
<1>3. \A j \in 1 .. k + 1 : a[j] = Inserted(v, k, k, d)[j]
  BY <1>2 DEF Inserted
<1>4. a = Inserted(v, k, k, d)
  BY <1>2, <1>3 DEF Inserted
<1> QED
  BY <1>4 DEF a

\* What a copy has after i elements.
CopiedTo(u, g, had, i) ==
  \E t, m : /\ DLinked(u, t, m) /\ Told(u.data, t, m) = g[i]
            /\ m = Cardinality(had \cap 1 .. i) /\ m <= i

LEMMA DCopyStep ==
  ASSUME NEW k \in Nat, NEW v \in [1 .. k -> Data], NEW had \in SUBSET (1 .. k), NEW g,
         UptoIs(g, v, k, had), k <= Cardinality(Nodes), NEW i \in 1 .. k, NEW u,
         CopiedTo(u, g, had, i - 1)
  PROVE  CopiedTo(IF i \in had THEN Double!push_back(u, Double!Fresh(u), v[i]) ELSE u, g, had, i)
<1>1. PICK t, m : /\ DLinked(u, t, m) /\ Told(u.data, t, m) = g[i - 1]
                  /\ m = Cardinality(had \cap 1 .. i - 1) /\ m <= i - 1
  BY DEF CopiedTo
<1>2. m \in Nat /\ v[i] \in Data /\ m < Cardinality(Nodes) /\ m \in 0 .. m
  BY <1>1, DFacts, NodesCounted
<1>3. Told(u.data, t, m) \in [1 .. m -> Data]
  <2>1. \A j \in 1 .. m : u.data[t[j]] \in Data
    BY <1>1 DEF DLinked
  <2> QED
    BY <2>1 DEF Told
<1>4. CASE i \in had
  <2> DEFINE new == Double!Fresh(u)
             w == Double!push_back(u, new, v[i])
             r == Inserted(t, m, m, new)
  <2>1. new \in Nodes /\ ~Has(t, m, new)
    BY <1>1, <1>2, DRoom, DFresh
  <2>2. Put(w, u, t, m, m, new, v[i])
    <3> HIDE DEF new
    <3> QED
      BY <1>1, <1>2, <2>1, DPushBack
  <2>3. DInserted(w, u, t, m, m, new, v[i])
    <3> HIDE DEF new, w
    <3> QED
      BY <1>1, <1>2, <2>1, <2>2, DPut
  <2>4. DLinked(w, r, m + 1) /\ Told(w.data, r, m + 1) = Append(g[i - 1], v[i])
    <3>1. Inserted(Told(u.data, t, m), m, m, v[i]) = Append(g[i - 1], v[i])
      <4> DEFINE x == Told(u.data, t, m)
      <4>1. x \in [1 .. m -> Data] /\ x = g[i - 1]
        BY <1>1, <1>3
      <4> HIDE DEF x
      <4>2. Inserted(x, m, m, v[i]) = Append(x, v[i])
        BY <1>2, <4>1, AppendInserted
      <4> QED
        BY <4>1, <4>2 DEF x
    <3> QED
      BY <2>3, <3>1 DEF DInserted
  <2>5. g[i] = Append(g[i - 1], v[i])
    BY <1>4 DEF UptoIs
  <2>6. m + 1 = Cardinality(had \cap 1 .. i) /\ m + 1 <= i
    <3>1. had \cap 1 .. i = (had \cap 1 .. i - 1) \cup {i} /\ i \notin had \cap 1 .. i - 1
      BY <1>4
    <3>2. IsFiniteSet(had \cap 1 .. i - 1)
      <4>1. IsFiniteSet(1 .. i - 1)
        BY FS_Interval
      <4> QED
        BY <4>1, FS_Subset
    <3>3. Cardinality((had \cap 1 .. i - 1) \cup {i}) = Cardinality(had \cap 1 .. i - 1) + 1
      BY <3>1, <3>2, FS_AddElement
    <3>4. m + 1 = Cardinality(had \cap 1 .. i)
      BY <1>1, <3>1, <3>3
    <3>5. m + 1 <= i
      BY <1>1, <1>2
    <3> QED
      BY <3>4, <3>5
  <2> HIDE DEF w, r
  <2>7. CopiedTo(w, g, had, i)
    BY <2>4, <2>5, <2>6 DEF CopiedTo
  <2> QED
    BY <1>4, <2>7 DEF w
<1>5. CASE i \notin had
  <2>1. g[i] = g[i - 1]
    BY <1>5 DEF UptoIs
  <2>2. had \cap 1 .. i = had \cap 1 .. i - 1
    BY <1>5
  <2>3. m <= i
    BY <1>1, <1>2
  <2>4. CopiedTo(u, g, had, i)
    BY <1>1, <2>1, <2>2, <2>3 DEF CopiedTo
  <2> QED
    BY <1>5, <2>4
<1> QED
  BY <1>4, <1>5

LEMMA DClone ==
  ASSUME NEW k \in Nat, NEW v \in [1 .. k -> Data], NEW had \in SUBSET (1 .. k), NEW g,
         UptoIs(g, v, k, had), k <= Cardinality(Nodes)
  PROVE  CopiedTo(Double!Appended(v, had), g, had, k)
<1> DEFINE S == [i \in 0 .. k |-> {u \in DLists : CopiedTo(u, g, had, i)}]
           body(i, u) == IF i \in had THEN Double!push_back(u, Double!Fresh(u), v[i]) ELSE u
           F == [i \in 1 .. k |-> [u \in S[i - 1] |-> body(i, u)]]
           Is(f) == f = [i \in 0 .. Len(v) |->
                           IF i = 0 THEN Double!EmptyList
                           ELSE LET l == f[i - 1]
                                IN  IF i \in had THEN Double!push_back(l, Double!Fresh(l), v[i]) ELSE l]
           clone == CHOOSE f : Is(f)
<1>1. Len(v) = k
  OBVIOUS
<1>2. \A i \in 1 .. k : i - 1 \in 0 .. k /\ i \in 0 .. k
  OBVIOUS
<1>3. Double!EmptyList \in S[0]
  <2>1. Told(Double!EmptyList.data, <<>>, 0) = g[0]
    BY DEF Told, UptoIs
  <2>2. had \cap 1 .. 0 = {} /\ Cardinality({}) = 0
    BY FS_EmptySet
  <2>3. CopiedTo(Double!EmptyList, g, had, 0)
    BY <2>1, <2>2, DEmpty DEF CopiedTo
  <2> QED
    BY <2>3, DEmpty DEF DLinked
<1>4. ASSUME NEW i \in 1 .. k, NEW u \in S[i - 1] PROVE body(i, u) \in S[i]
  <2>1. CopiedTo(u, g, had, i - 1)
    BY <1>2
  <2>2. CopiedTo(body(i, u), g, had, i)
    BY <2>1, DCopyStep
  <2> DEFINE w == body(i, u)
  <2>3. CopiedTo(w, g, had, i)
    BY <2>2
  <2> HIDE DEF w
  <2>4. w \in DLists
    BY <2>3 DEF CopiedTo, DLinked
  <2>5. w \in S[i]
    BY <1>2, <2>3, <2>4
  <2> QED
    BY <2>5 DEF w
<1>5. \A i \in 1 .. k : F[i] \in [S[i - 1] -> S[i]]
  <2> HIDE DEF S, body
  <2> QED
    BY <1>4
<1>6. PICK h : Rounds(h, S, Double!EmptyList, F, k)
  <2> HIDE DEF S, F
  <2> QED
    BY <1>3, <1>5, GoneRound
<1>7. Is(h)
  <2>1. \A i \in 1 .. k : h[i] = body(i, h[i - 1])
    <3> HIDE DEF S, body
    <3> QED
      BY <1>2, <1>6 DEF Rounds
  <2>2. h = [i \in 0 .. k |-> h[i]] /\ h[0] = Double!EmptyList
    BY <1>6 DEF Rounds
  <2>3. \A i \in 0 .. k : h[i] = IF i = 0 THEN Double!EmptyList ELSE body(i, h[i - 1])
    <3> HIDE DEF body
    <3>1. \A i \in 0 .. k : i # 0 => i \in 1 .. k
      OBVIOUS
    <3> QED
      BY <2>1, <2>2, <3>1
  <2>4. h = [i \in 0 .. k |-> IF i = 0 THEN Double!EmptyList ELSE body(i, h[i - 1])]
    <3> HIDE DEF body
    <3> QED
      BY <2>2, <2>3
  <2> QED
    BY <1>1, <2>4
<1>8. Is(clone)
  <2> HIDE DEF Is
  <2> QED
    BY <1>7
<1>9. Double!Appended(v, had) = clone[k]
  BY <1>1 DEF Double!Appended
<1>10. clone[0] = Double!EmptyList /\ \A i \in 1 .. k : clone[i] = body(i, clone[i - 1])
  <2> DEFINE f == clone
  <2>1. f = [i \in 0 .. k |-> IF i = 0 THEN Double!EmptyList ELSE body(i, f[i - 1])]
    BY <1>1, <1>8
  <2> HIDE DEF f, body
  <2>2. f[0] = Double!EmptyList
    BY <2>1
  <2>3. \A i \in 1 .. k : f[i] = body(i, f[i - 1])
    BY <1>2, <2>1
  <2> QED
    BY <2>2, <2>3 DEF f
<1> HIDE DEF clone
<1>11. clone[k] \in S[k]
  <2>1. \A i \in 1 .. k : clone[i - 1] \in S[i - 1] => clone[i] \in S[i]
    <3> HIDE DEF S, body
    <3> QED
      BY <1>4, <1>10
  <2> HIDE DEF S
  <2>2. \A i \in 0 .. k : clone[i] \in S[i]
    BY <1>3, <1>10, <2>1, Arrives
  <2> QED
    BY <2>2
<1> QED
  BY <1>9, <1>11

-----------------------------------------------------------------------------
\* What clients see of the doubly linked list.

LEMMA DValues ==
  ASSUME NEW l, NEW s, NEW k, DLinked(l, s, k)
  PROVE  Told(l.data, s, k) \in [1 .. k -> Data] /\ Double!DataOf(l) = Told(l.data, s, k)
<1>1. \A i \in 1 .. k : l.data[s[i]] \in Data
  BY DEF DLinked
<1>2. Double!DataOf(l) = Told(l.data, s, k)
  BY DoubleViews
<1> QED
  BY <1>1, <1>2 DEF Told

LEMMA DShown ==
  ASSUME which = "double", NEW s, NEW k, DLinked(list, s, k)
  PROVE  Shown(Told(list.data, s, k), k)
<1>1. sequence = Double!DataOf(list)
  BY DEF sequence, Double!contents
<1>2. k \in Nat
  BY DEF DLinked, Once
<1> QED
  BY <1>1, <1>2, DValues DEF Shown, IsList

LEMMA DShownNext ==
  ASSUME which' = "double", NEW s, NEW k, DLinked(list', s, k)
  PROVE  IsList' /\ sequence' = Told(list'.data, s, k)
<1>1. sequence' = Double!DataOf(list')
  BY DEF sequence, Double!contents, Double!DataOf, Double!InOrder, Double!Walk
<1> QED
  BY <1>1, DValues DEF IsList

\* Where a node is.
LEMMA DPlace ==
  ASSUME NEW l, NEW s, NEW k, DLinked(l, s, k), NEW i \in 1 .. k
  PROVE  Double!Place(Double!InOrder(l), s[i]) = i
<1>1. Double!InOrder(l) = s
  BY DoubleViews
<1>2. k \in Nat /\ DOMAIN s = 1 .. k /\ \A a, b \in 1 .. k : s[a] = s[b] => a = b
  BY DFacts
<1> DEFINE p == Single!Place(s, s[i])
<1>3. Double!Place(s, s[i]) = p
  BY DEF Double!Place, Single!Place, Double!Range, Single!Range, Double!Min, Single!Min
<1>4. p \in 1 .. k /\ s[p] = s[i]
  BY <1>2, PlaceOf
<1> QED
  BY <1>1, <1>2, <1>3, <1>4

-----------------------------------------------------------------------------
\* A step of the doubly linked list.

DStepped == SequenceSpec!Next /\ \E t, m : DLinked(list', t, m)

LEMMA DInsertStep ==
  ASSUME which = "double", which' = "double", NEW s, NEW k, DLinked(list, s, k),
         NEW d \in Data, NEW i \in 0 .. k, NEW new \in Nodes, ~Has(s, k, new),
         Put(list', list, s, k, i, new, d),
         out' = [op |-> "insert", at |-> i, data |-> d]
  PROVE  DStepped
<1> DEFINE v == Told(list.data, s, k)
           t == Inserted(s, k, i, new)
<1>1. DInserted(list', list, s, k, i, new, d)
  BY DPut
<1>2. DLinked(list', t, k + 1) /\ Told(list'.data, t, k + 1) = Inserted(v, k, i, d)
  BY <1>1 DEF DInserted
<1>3. IsList' /\ sequence' = Told(list'.data, t, k + 1)
  <2> HIDE DEF t
  <2> QED
    BY <1>2, DShownNext
<1>4. Shown(v, k)
  BY DShown
<1> HIDE DEF v, t
<1>5. SequenceSpec!Next
  BY <1>2, <1>3, <1>4, InsertCall
<1> QED
  BY <1>2, <1>5 DEF DStepped

LEMMA DRemoveStep ==
  ASSUME which = "double", which' = "double", NEW s, NEW k, DLinked(list, s, k),
         NEW i \in 1 .. k, DRemoved(list', list, s, k, i),
         out' = [op |-> "remove", at |-> i, data |-> list.data[s[i]]]
  PROVE  DStepped
<1> DEFINE v == Told(list.data, s, k)
           t == Without(s, k, i)
<1>3. DLinked(list', t, k - 1) /\ Told(list'.data, t, k - 1) = Without(v, k, i)
  BY DEF DRemoved
<1>4. IsList' /\ sequence' = Told(list'.data, t, k - 1)
  <2> HIDE DEF t
  <2> QED
    BY <1>3, DShownNext
<1>5. Shown(v, k) /\ v[i] = list.data[s[i]]
  BY DShown DEF Told
<1> HIDE DEF v, t
<1>6. SequenceSpec!Next
  BY <1>3, <1>4, <1>5, RemoveCall
<1> QED
  BY <1>3, <1>6 DEF DStepped

LEMMA DSame ==
  ASSUME which = "double", which' = "double", NEW s, NEW k, DLinked(list, s, k), list' = list
  PROVE  IsList' /\ sequence' = Told(list.data, s, k) /\ DLinked(list', s, k)
<1>1. DLinked(list', s, k) /\ list'.data = list.data
  OBVIOUS
<1> QED
  BY <1>1, DShownNext

LEMMA DMissStep ==
  ASSUME which = "double", which' = "double", NEW s, NEW k, DLinked(list, s, k), Double!NoNode
  PROVE  DStepped
<1> DEFINE v == Told(list.data, s, k)
<1>1. list' = list /\ out' = [op |-> "miss"]
  BY DEF Double!NoNode
<1>2. IsList' /\ sequence' = v /\ DLinked(list', s, k)
  BY <1>1, DSame
<1>3. Shown(v, k)
  BY DShown
<1> HIDE DEF v
<1>4. SequenceSpec!Next
  BY <1>1, <1>2, <1>3, MissCall
<1> QED
  BY <1>2, <1>4 DEF DStepped

LEMMA DSpare ==
  ASSUME NEW l, NEW s, NEW k, DLinked(l, s, k), NEW m \in Double!Spare(l), m # None
  PROVE  m \in Nodes /\ ~Has(s, k, m)
<1>1. Double!Free(l) # {} /\ m = Double!Fresh(l)
  BY DEF Double!Spare
<1> QED
  BY <1>1, DFresh

LEMMA DoubleStep ==
  ASSUME which = "double", which' = "double", \E s, k : DLinked(list, s, k), Double!Next
  PROVE  DStepped
<1>1. PICK s, k : DLinked(list, s, k)
  OBVIOUS
<1> DEFINE v == Told(list.data, s, k)
<1>2. /\ list \in DLists /\ Once(s, k) /\ list.length = k /\ k \in Nat /\ DOMAIN s = 1 .. k
      /\ list.head = (IF k = 0 THEN None ELSE s[1]) /\ list.tail = (IF k = 0 THEN None ELSE s[k])
      /\ \A i \in 1 .. k : s[i] \in Nodes /\ s[i] # None
      /\ \A i, j \in 1 .. k : s[i] = s[j] => i = j
  BY <1>1, DFacts
<1>3. \A i \in 1 .. k : list.prev[s[i]] = s[Back(k, i)]
  BY <1>1, DFacts
<1>4. Double!contents = v
  BY <1>1, DoubleViews DEF Double!contents
<1>5. Shown(v, k)
  BY <1>1, DShown
<1>6. v \in [1 .. k -> Data] /\ DOMAIN v = 1 .. k /\ Len(v) = k
  BY <1>5 DEF Shown
<1>7. \A i \in 1 .. k : Double!Place(Double!InOrder(list), s[i]) = i
  BY <1>1, DPlace
<1>8. Double!Range(Double!InOrder(list)) = {s[i] : i \in 1 .. k}
  BY <1>1, DoubleViews
<1>9. \A m \in Double!Spare(list) : m # None => m \in Nodes /\ ~Has(s, k, m)
  BY <1>1, DSpare
<1>10. 0 \in 0 .. k /\ k \in 0 .. k /\ \A i \in 1 .. k : i \in 0 .. k
  BY <1>2
<1>11. CASE Double!PushFront
  <2>1. PICK d \in Data, m \in Double!Spare(list) :
          IF m = None THEN Double!NoNode
          ELSE /\ list' = Double!push_front(list, m, d)
               /\ out' = [op |-> "insert", at |-> 0, data |-> d]
    BY <1>11 DEF Double!PushFront
  <2>2. CASE m = None
    BY <1>1, <2>1, <2>2, DMissStep
  <2>3. CASE m # None
    <3>1. m \in Nodes /\ ~Has(s, k, m)
      BY <1>9, <2>3
    <3>2. Put(list', list, s, k, 0, m, d)
      BY <1>1, <2>1, <2>3, <3>1, DPushFront
    <3> QED
      BY <1>1, <1>10, <2>1, <2>3, <3>1, <3>2, DInsertStep
  <2> QED
    BY <2>2, <2>3
<1>12. CASE Double!PushBack
  <2>1. PICK d \in Data, m \in Double!Spare(list) :
          IF m = None THEN Double!NoNode
          ELSE /\ list' = Double!push_back(list, m, d)
               /\ out' = [op |-> "insert", at |-> list.length, data |-> d]
    BY <1>12 DEF Double!PushBack
  <2>2. CASE m = None
    BY <1>1, <2>1, <2>2, DMissStep
  <2>3. CASE m # None
    <3>1. m \in Nodes /\ ~Has(s, k, m)
      BY <1>9, <2>3
    <3>2. Put(list', list, s, k, k, m, d)
      BY <1>1, <2>1, <2>3, <3>1, DPushBack
    <3>3. out' = [op |-> "insert", at |-> k, data |-> d]
      BY <1>2, <2>1, <2>3
    <3> QED
      BY <1>1, <1>10, <3>1, <3>2, <3>3, DInsertStep
  <2> QED
    BY <2>2, <2>3
<1>13. CASE Double!InsertAfter
  <2>1. PICK d \in Data, m \in Double!Spare(list), n \in Double!Range(Double!InOrder(list)) :
          IF m = None THEN Double!NoNode
          ELSE /\ list' = Double!insert_after(list, n, m, d)
               /\ out' = [op |-> "insert", at |-> Double!Place(Double!InOrder(list), n), data |-> d]
    BY <1>13 DEF Double!InsertAfter
  <2>2. CASE m = None
    BY <1>1, <2>1, <2>2, DMissStep
  <2>3. CASE m # None
    <3>1. m \in Nodes /\ ~Has(s, k, m)
      BY <1>9, <2>3
    <3>2. PICK i \in 1 .. k : n = s[i]
      BY <1>8
    <3>3. Put(list', list, s, k, i, m, d)
      BY <1>1, <2>1, <2>3, <3>1, <3>2, DInsertAfter
    <3>4. out' = [op |-> "insert", at |-> i, data |-> d]
      BY <1>7, <2>1, <2>3, <3>2
    <3> QED
      BY <1>1, <1>10, <3>1, <3>3, <3>4, DInsertStep
  <2> QED
    BY <2>2, <2>3
<1>14. CASE Double!InsertBefore
  <2>1. PICK d \in Data, m \in Double!Spare(list), n \in Double!Range(Double!InOrder(list)) :
          IF m = None THEN Double!NoNode
          ELSE /\ list' = Double!insert_before(list, n, m, d)
               /\ out' = [op |-> "insert", data |-> d,
                          at |-> IF n = list.head THEN list.length
                                 ELSE Double!Place(Double!InOrder(list), n) - 1]
    BY <1>14 DEF Double!InsertBefore
  <2>2. CASE m = None
    BY <1>1, <2>1, <2>2, DMissStep
  <2>3. CASE m # None
    <3>1. m \in Nodes /\ ~Has(s, k, m)
      BY <1>9, <2>3
    <3>2. PICK i \in 1 .. k : n = s[i]
      BY <1>8
    <3>3. Back(k, i) \in 1 .. k /\ list.prev[n] = s[Back(k, i)] /\ n # None
      BY <1>2, <1>3, <3>2 DEF Back
    <3>4. list' = Double!insert_after(list, s[Back(k, i)], m, d)
      BY <2>1, <2>3, <3>3 DEF Double!insert_before
    <3>5. Put(list', list, s, k, Back(k, i), m, d)
      BY <1>1, <3>1, <3>3, <3>4, DInsertAfter
    <3>6. (IF n = list.head THEN list.length ELSE Double!Place(Double!InOrder(list), n) - 1) = Back(k, i)
      <4>1. 1 \in 1 .. k /\ (n = list.head <=> i = 1)
        BY <1>2, <3>2
      <4> QED
        BY <1>2, <1>7, <3>2, <4>1 DEF Back
    <3>7. out' = [op |-> "insert", at |-> Back(k, i), data |-> d]
      BY <2>1, <2>3, <3>6
    <3> QED
      BY <1>1, <1>10, <3>1, <3>3, <3>5, <3>7, DInsertStep
  <2> QED
    BY <2>2, <2>3
<1>15. CASE Double!PopFront
  <2>1. CASE k = 0
    <3>1. Double!NoNode
      BY <1>2, <1>15, <2>1 DEF Double!PopFront
    <3> QED
      BY <1>1, <3>1, DMissStep
  <2>2. CASE k # 0
    <3>1. list' = Double!pop_front(list)
          /\ out' = [op |-> "remove", at |-> 1, data |-> list.data[s[1]]]
      BY <1>2, <1>15, <2>2 DEF Double!PopFront
    <3>2. 1 \in 1 .. k
      BY <1>2, <2>2
    <3>3. DRemoved(list', list, s, k, 1)
      BY <1>1, <2>2, <3>1, <3>2, DPopFront, DCut
    <3> QED
      BY <1>1, <3>1, <3>2, <3>3, DRemoveStep
  <2> QED
    BY <2>1, <2>2
<1>16. CASE Double!PopBack
  <2>1. CASE k = 0
    <3>1. Double!NoNode
      BY <1>2, <1>16, <2>1 DEF Double!PopBack
    <3> QED
      BY <1>1, <3>1, DMissStep
  <2>2. CASE k # 0
    <3>1. list' = Double!pop_back(list)
          /\ out' = [op |-> "remove", at |-> k, data |-> list.data[s[k]]]
      BY <1>2, <1>16, <2>2 DEF Double!PopBack
    <3>2. k \in 1 .. k
      BY <1>2, <2>2
    <3>3. DRemoved(list', list, s, k, k)
      BY <1>1, <2>2, <3>1, <3>2, DPopBack, DCut
    <3> QED
      BY <1>1, <3>1, <3>2, <3>3, DRemoveStep
  <2> QED
    BY <2>1, <2>2
<1>17. CASE Double!TakeOut
  <2>1. PICK n \in Double!Range(Double!InOrder(list)) :
          /\ list' = Double!remove(list, n)
          /\ out' = [op |-> "remove", at |-> Double!Place(Double!InOrder(list), n),
                     data |-> list.data[n]]
    BY <1>17 DEF Double!TakeOut
  <2>2. PICK i \in 1 .. k : n = s[i]
    BY <1>8
  <2>3. DRemoved(list', list, s, k, i)
    BY <1>1, <2>1, <2>2, DRemove
  <2>4. out' = [op |-> "remove", at |-> i, data |-> list.data[s[i]]]
    BY <1>7, <2>1, <2>2
  <2> QED
    BY <1>1, <2>3, <2>4, DRemoveStep
<1>18. CASE Double!Update
  <2>1. PICK n \in Double!Range(Double!InOrder(list)), d \in Data :
          /\ list' = [list EXCEPT !.data[n] = d]
          /\ out' = [op |-> "update", at |-> Double!Place(Double!InOrder(list), n), data |-> d]
    BY <1>18 DEF Double!Update
  <2>2. PICK i \in 1 .. k : n = s[i]
    BY <1>8
  <2>3. DLinked(list', s, k) /\ Told(list'.data, s, k) = [v EXCEPT ![i] = d]
    BY <1>1, <2>1, <2>2, DUpdate
  <2>4. IsList' /\ sequence' = Told(list'.data, s, k)
    BY <2>3, DShownNext
  <2>5. out' = [op |-> "update", at |-> i, data |-> d]
    BY <1>7, <2>1, <2>2
  <2> HIDE DEF v
  <2>6. SequenceSpec!Next
    BY <1>5, <2>3, <2>4, <2>5, UpdateCall
  <2> QED
    BY <2>3, <2>6 DEF DStepped
<1>19. CASE Double!Find
  <2>1. PICK d \in Data : /\ list' = list
                          /\ out' = [op |-> "find", at |-> Double!Place(v, d), data |-> d]
    BY <1>4, <1>19 DEF Double!Find
  <2>2. IsList' /\ sequence' = v /\ DLinked(list', s, k)
    BY <1>1, <2>1, DSame
  <2> HIDE DEF v
  <2>3. Double!Place(v, d) = Single!Place(v, d)
    BY DEF Double!Place, Single!Place, Double!Range, Single!Range, Double!Min, Single!Min
  <2>4. SequenceSpec!Next
    BY <1>5, <2>1, <2>2, <2>3, FindCall
  <2> QED
    BY <2>2, <2>4 DEF DStepped
<1>20. CASE Double!Clone
  <2>1. PICK had \in SUBSET (1 .. k) :
          /\ list' = Double!Appended(v, had)
          /\ out' = [op |-> "copy", data |-> list'.length]
    BY <1>4, <1>6, <1>20 DEF Double!Clone
  <2>2. k <= Cardinality(Nodes)
    BY <1>2, NoMoreThanNodes
  <2> HIDE DEF v
  <2>3. PICK g : UptoIs(g, v, k, had) /\ SequenceSpec!Kept(v, had) = g[k]
    BY <1>2, <1>6, KeptUpto
  <2>4. CopiedTo(Double!Appended(v, had), g, had, k)
    BY <1>2, <1>6, <2>2, <2>3, DClone
  <2>5. PICK t, m : /\ DLinked(list', t, m) /\ Told(list'.data, t, m) = g[k]
                    /\ m = Cardinality(had \cap 1 .. k)
    BY <2>1, <2>4 DEF CopiedTo
  <2>6. IsList' /\ sequence' = SequenceSpec!Kept(v, had)
    BY <2>3, <2>5, DShownNext
  <2>7. out' = [op |-> "copy", data |-> Cardinality(had)]
    <3>1. had \cap 1 .. k = had
      OBVIOUS
    <3>2. list'.length = m
      BY <2>5 DEF DLinked
    <3> QED
      BY <2>1, <2>5, <3>1, <3>2
  <2>8. SequenceSpec!Next
    BY <1>5, <2>6, <2>7, CopyCall
  <2> QED
    BY <2>5, <2>8 DEF DStepped
<1>21. CASE Double!Destroy
  <2>1. list' = Double!EmptyList /\ out' = [op |-> "clear"]
    BY <1>21 DEF Double!Destroy
  <2>2. DLinked(list', <<>>, 0)
    BY <2>1, DEmpty
  <2>3. IsList' /\ sequence' = Told(list'.data, <<>>, 0)
    BY <2>2, DShownNext
  <2>4. Told(list'.data, <<>>, 0) = <<>>
    BY DEF Told
  <2> HIDE DEF v
  <2>5. SequenceSpec!Next
    BY <1>5, <2>1, <2>3, <2>4, ClearCall
  <2> QED
    BY <2>2, <2>5 DEF DStepped
<1> QED
  BY <1>11, <1>12, <1>13, <1>14, <1>15, <1>16, <1>17, <1>18, <1>19, <1>20, <1>21 DEF Double!Next

-----------------------------------------------------------------------------
\* The array of chunks.  Loops that go from the last chunk to the first.

LEMMA Downward ==
  ASSUME NEW N \in Nat, NEW B, N + 1 \in B, \A i \in 1 .. N : i + 1 \in B => i \in B
  PROVE  \A i \in 1 .. N + 1 : i \in B
<1> DEFINE S == [i \in 0 .. N |-> B]
           f == [i \in 0 .. N |-> (N + 1) - i]
<1>1. f[0] \in S[0]
  OBVIOUS
<1>2. ASSUME NEW i \in 1 .. N, f[i - 1] \in S[i - 1] PROVE f[i] \in S[i]
  <2>1. i - 1 \in 0 .. N /\ i \in 0 .. N /\ (N + 1) - i \in 1 .. N
        /\ ((N + 1) - i) + 1 = (N + 1) - (i - 1)
    OBVIOUS
  <2> QED
    BY <1>2, <2>1
<1>3. \A i \in 0 .. N : f[i] \in S[i]
  <2> HIDE DEF f, S
  <2> QED
    BY <1>1, <1>2, Arrives
<1>4. ASSUME NEW i \in 1 .. N + 1 PROVE i \in B
  <2>1. (N + 1) - i \in 0 .. N /\ (N + 1) - ((N + 1) - i) = i
    OBVIOUS
  <2>2. f[(N + 1) - i] = i /\ S[(N + 1) - i] = B
    BY <2>1
  <2> QED
    BY <1>3, <2>1, <2>2
<1> QED
  BY <1>4

\* Chunk i makes F[i][x] of what those behind it made, x.
Upward(g, S, x, F, n) ==
  /\ g = [i \in 1 .. n + 1 |-> g[i]] /\ g[n + 1] = x
  /\ \A i \in 1 .. n : g[i] = F[i][g[i + 1]]
  /\ \A i \in 1 .. n + 1 : g[i] \in S

LEMMA GoneUp ==
  ASSUME NEW N \in Nat, NEW S, NEW x \in S, NEW F, \A i \in 1 .. N : F[i] \in [S -> S]
  PROVE  \E g : Upward(g, S, x, F, N)
<1> DEFINE T == [i \in 0 .. N |-> S]
           G == [i \in 1 .. N |-> F[(N + 1) - i]]
<1>1. x \in T[0]
  OBVIOUS
<1>2. \A i \in 1 .. N : G[i] \in [T[i - 1] -> T[i]]
  <2> SUFFICES ASSUME NEW i \in 1 .. N PROVE G[i] \in [T[i - 1] -> T[i]]
    OBVIOUS
  <2>1. i - 1 \in 0 .. N /\ i \in 0 .. N /\ (N + 1) - i \in 1 .. N
    OBVIOUS
  <2> QED
    BY <2>1
<1>3. PICK h : Rounds(h, T, x, G, N)
  <2> HIDE DEF T, G
  <2> QED
    BY <1>1, <1>2, GoneRound
<1> DEFINE g == [i \in 1 .. N + 1 |-> h[(N + 1) - i]]
<1>4. \A i \in 1 .. N + 1 : (N + 1) - i \in 0 .. N
  OBVIOUS
<1>5. \A i \in 1 .. N + 1 : g[i] \in S
  BY <1>3, <1>4 DEF Rounds
<1>6. g[N + 1] = x
  BY <1>3 DEF Rounds
<1>7. ASSUME NEW i \in 1 .. N PROVE g[i] = F[i][g[i + 1]]
  <2>1. /\ (N + 1) - i \in 1 .. N /\ i \in 1 .. N + 1 /\ i + 1 \in 1 .. N + 1
        /\ ((N + 1) - i) - 1 = (N + 1) - (i + 1) /\ (N + 1) - ((N + 1) - i) = i
    OBVIOUS
  <2>2. h[(N + 1) - i] = G[(N + 1) - i][h[((N + 1) - i) - 1]]
    <3> HIDE DEF G
    <3> QED
      BY <1>3, <2>1 DEF Rounds
  <2>3. G[(N + 1) - i] = F[i]
    BY <2>1
  <2>4. g[i] = h[(N + 1) - i] /\ g[i + 1] = h[(N + 1) - (i + 1)]
    BY <2>1
  <2> HIDE DEF g, G
  <2> QED
    BY <2>1, <2>2, <2>3, <2>4
<1>8. g = [i \in 1 .. N + 1 |-> g[i]]
  OBVIOUS
<1> HIDE DEF g
<1> QED
  BY <1>5, <1>6, <1>7, <1>8 DEF Upward

-----------------------------------------------------------------------------
ChunkSet == [count : 0 .. ChunkSize, items : [1 .. ChunkSize -> Data \cup {None}]]

\* Chunks that hold what they count, each full if the next one holds anything.
Chunked(a, K) ==
  /\ K \in Nat \ {0} /\ a \in [1 .. K -> ChunkSet]
  /\ \A i \in 1 .. K : \A x \in 1 .. a[i].count : a[i].items[x] \in Data
  /\ \A i \in 2 .. K : a[i].count > 0 => a[i - 1].count = ChunkSize

LEMMA HeldIs ==
  ASSUME NEW c \in ChunkSet, \A x \in 1 .. c.count : c.items[x] \in Data
  PROVE  /\ Chunks!Held(c) \in Seq(Data) /\ Len(Chunks!Held(c)) = c.count
         /\ \A x \in 1 .. c.count : Chunks!Held(c)[x] = c.items[x]
<1>1. c.items \in Seq(Data \cup {None}) /\ Len(c.items) = ChunkSize /\ c.count \in 0 .. ChunkSize
      /\ ChunkSize \in Nat
  BY ListsAssumption DEF ChunkSet
<1> DEFINE h == SubSeq(c.items, 1, c.count)
<1>2. h \in Seq(Data \cup {None}) /\ Len(h) = c.count /\ \A x \in 1 .. c.count : h[x] = c.items[x]
  BY <1>1
<1>3. Chunks!Held(c) = h
  BY DEF Chunks!Held
<1> HIDE DEF h
<1>4. h \in Seq(Data)
  BY <1>1, <1>2
<1> QED
  BY <1>2, <1>3, <1>4

\* What the chunks from each on hold.
FromIs(f, a, K) ==
  /\ f[K + 1] = <<>> /\ \A i \in 1 .. K : f[i] = Chunks!Held(a[i]) \o f[i + 1]
  /\ \A i \in 1 .. K + 1 : f[i] \in Seq(Data)

LEMMA ChunkHeld ==
  ASSUME NEW a, NEW K, Chunked(a, K), NEW i \in 1 .. K
  PROVE  /\ Chunks!Held(a[i]) \in Seq(Data) /\ Len(Chunks!Held(a[i])) = a[i].count
         /\ \A x \in 1 .. a[i].count : Chunks!Held(a[i])[x] = a[i].items[x]
<1>1. a[i] \in ChunkSet /\ \A x \in 1 .. a[i].count : a[i].items[x] \in Data
  BY DEF Chunked
<1> QED
  BY <1>1, HeldIs

LEMMA ChunkValues ==
  ASSUME NEW a, NEW K, Chunked(a, K)
  PROVE  \E f : FromIs(f, a, K) /\ Chunks!DataOf(a) = f[1]
<1> DEFINE S == Seq(Data)
           F == [i \in 1 .. K |-> [w \in S |-> Chunks!Held(a[i]) \o w]]
           Is(f) == f = [i \in 1 .. Len(a) + 1 |->
                           IF i > Len(a) THEN <<>> ELSE Chunks!Held(a[i]) \o f[i + 1]]
           from == CHOOSE f : Is(f)
<1>1. K \in Nat /\ Len(a) = K
  BY DEF Chunked
<1>2. \A i \in 1 .. K : F[i] \in [S -> S]
  <2> SUFFICES ASSUME NEW i \in 1 .. K PROVE F[i] \in [S -> S]
    OBVIOUS
  <2>1. Chunks!Held(a[i]) \in Seq(Data)
    BY ChunkHeld
  <2>2. \A w \in S : Chunks!Held(a[i]) \o w \in S
    BY <2>1
  <2> QED
    BY <2>2
<1>3. <<>> \in S
  OBVIOUS
<1>4. PICK g : Upward(g, S, <<>>, F, K)
  <2> HIDE DEF S, F
  <2> QED
    BY <1>1, <1>2, <1>3, GoneUp
<1>5. \A i \in 1 .. K : g[i] = Chunks!Held(a[i]) \o g[i + 1]
  <2> SUFFICES ASSUME NEW i \in 1 .. K PROVE g[i] = Chunks!Held(a[i]) \o g[i + 1]
    OBVIOUS
  <2>1. i + 1 \in 1 .. K + 1
    BY <1>1
  <2>2. g[i + 1] \in S /\ g[i] = F[i][g[i + 1]]
    <3> HIDE DEF S, F
    <3> QED
      BY <1>4, <2>1 DEF Upward
  <2> QED
    BY <2>2
<1>6. g = [i \in 1 .. K + 1 |-> g[i]] /\ g[K + 1] = <<>>
  <2> HIDE DEF S, F
  <2> QED
    BY <1>4 DEF Upward
<1>7. Is(g)
  <2>1. \A i \in 1 .. K + 1 : g[i] = IF i > K THEN <<>> ELSE Chunks!Held(a[i]) \o g[i + 1]
    <3> SUFFICES ASSUME NEW i \in 1 .. K + 1
                 PROVE g[i] = IF i > K THEN <<>> ELSE Chunks!Held(a[i]) \o g[i + 1]
      OBVIOUS
    <3>1. i > K => i = K + 1
      BY <1>1
    <3>2. ~(i > K) => i \in 1 .. K
      BY <1>1
    <3> QED
      BY <1>5, <1>6, <3>1, <3>2
  <2>2. g = [i \in 1 .. K + 1 |-> IF i > K THEN <<>> ELSE Chunks!Held(a[i]) \o g[i + 1]]
    BY <1>6, <2>1
  <2> QED
    BY <1>1, <2>2
<1>8. Is(from)
  <2> HIDE DEF Is
  <2> QED
    BY <1>7
<1>9. Chunks!DataOf(a) = from[1]
  BY DEF Chunks!DataOf
<1>10. from[K + 1] = <<>> /\ \A i \in 1 .. K : from[i] = Chunks!Held(a[i]) \o from[i + 1]
  <2> DEFINE f == from
  <2>1. f = [i \in 1 .. K + 1 |-> IF i > K THEN <<>> ELSE Chunks!Held(a[i]) \o f[i + 1]]
    BY <1>1, <1>8
  <2> HIDE DEF f
  <2>2. f[K + 1] = <<>>
    <3>1. K + 1 \in 1 .. K + 1 /\ K + 1 > K
      BY <1>1
    <3> QED
      BY <2>1, <3>1
  <2>3. ASSUME NEW i \in 1 .. K PROVE f[i] = Chunks!Held(a[i]) \o f[i + 1]
    <3>1. i \in 1 .. K + 1 /\ ~(i > K)
      BY <1>1
    <3> QED
      BY <2>1, <3>1
  <2> QED
    BY <2>2, <2>3 DEF f
<1> HIDE DEF from
<1>11. \A i \in 1 .. K + 1 : from[i] \in Seq(Data)
  <2> DEFINE B == {i \in 1 .. K + 1 : from[i] \in Seq(Data)}
  <2>1. K + 1 \in B
    <3>1. K + 1 \in 1 .. K + 1
      BY <1>1
    <3>2. <<>> \in Seq(Data)
      OBVIOUS
    <3>3. from[K + 1] \in Seq(Data)
      BY <1>10, <3>2
    <3> QED
      BY <3>1, <3>3
  <2>2. \A i \in 1 .. K : i + 1 \in B => i \in B
    <3> SUFFICES ASSUME NEW i \in 1 .. K, i + 1 \in B PROVE i \in B
      OBVIOUS
    <3>1. from[i + 1] \in Seq(Data) /\ Chunks!Held(a[i]) \in Seq(Data) /\ i \in 1 .. K + 1
      BY <1>1, ChunkHeld
    <3>2. from[i] = Chunks!Held(a[i]) \o from[i + 1]
      BY <1>10
    <3>3. Chunks!Held(a[i]) \o from[i + 1] \in Seq(Data)
      BY <3>1
    <3> QED
      BY <3>1, <3>2, <3>3
  <2> HIDE DEF B
  <2>3. \A i \in 1 .. K + 1 : i \in B
    BY <1>1, <2>1, <2>2, Downward
  <2> QED
    BY <2>3 DEF B
<1> QED
  BY <1>9, <1>10, <1>11 DEF FromIs

-----------------------------------------------------------------------------
\* What the chunks from i on hold: what chunk i holds, and what those behind it do,
\* which is nothing if chunk i has room.

LEMMA ChunkFrom ==
  ASSUME NEW a, NEW K, Chunked(a, K), NEW f, FromIs(f, a, K), NEW i \in 1 .. K
  PROVE  /\ a[i].count \in 0 .. ChunkSize /\ f[i] \in Seq(Data) /\ f[i + 1] \in Seq(Data)
         /\ Len(f[i]) = a[i].count + Len(f[i + 1])
         /\ \A x \in 1 .. a[i].count : f[i][x] = a[i].items[x]
         /\ \A x \in 1 .. Len(f[i + 1]) : f[i][a[i].count + x] = f[i + 1][x]
<1> DEFINE h == Chunks!Held(a[i])
           c == a[i].count
<1>1. a[i] \in ChunkSet /\ K \in Nat
  BY DEF Chunked
<1>2. c \in 0 .. ChunkSize /\ ChunkSize \in Nat
  BY <1>1, ListsAssumption DEF ChunkSet
<1>3. h \in Seq(Data) /\ Len(h) = c /\ \A x \in 1 .. c : h[x] = a[i].items[x]
  BY ChunkHeld
<1>4. i \in 1 .. K + 1 /\ i + 1 \in 1 .. K + 1
  BY <1>1
<1>5. f[i] \in Seq(Data) /\ f[i + 1] \in Seq(Data) /\ f[i] = h \o f[i + 1]
  BY <1>4 DEF FromIs
<1> DEFINE g == f[i + 1]
           r == h \o g
<1>6. g \in Seq(Data) /\ f[i] = r
  BY <1>5
<1> HIDE DEF h, c, g
<1>7. Len(r) = Len(h) + Len(g)
  <2>1. h \in Seq(Data) /\ g \in Seq(Data)
    BY <1>3, <1>6
  <2> QED
    BY <2>1
<1>8. \A x \in 1 .. c : r[x] = h[x]
  BY <1>2, <1>3, <1>6
<1>9. \A x \in 1 .. Len(g) : r[c + x] = g[x]
  <2> SUFFICES ASSUME NEW x \in 1 .. Len(g) PROVE r[c + x] = g[x]
    OBVIOUS
  <2>1. Len(g) \in Nat /\ c + x \in 1 .. c + Len(g) /\ (c + x) - c = x /\ c + x > c
    BY <1>2, <1>6
  <2> QED
    BY <1>2, <1>3, <1>6, <2>1
<1> HIDE DEF r
<1>10. c = a[i].count /\ g = f[i + 1]
  BY DEF c, g
<1> QED
  BY <1>2, <1>3, <1>5, <1>6, <1>7, <1>8, <1>9, <1>10

LEMMA ChunkEnd ==
  ASSUME NEW a, NEW K, Chunked(a, K), NEW f, FromIs(f, a, K)
  PROVE  \A i \in 1 .. K : a[i].count < ChunkSize => f[i + 1] = <<>>
<1> DEFINE B == {i \in 1 .. K + 1 : i <= K /\ a[i].count = 0 => f[i] = <<>>}
<1>1. K \in Nat /\ ChunkSize \in Nat \ {0} /\ f[K + 1] = <<>>
  BY ListsAssumption DEF Chunked, FromIs
<1>2. \A i \in 1 .. K : i + 1 \in 1 .. K /\ a[i + 1].count > 0 => a[i].count = ChunkSize
  <2> SUFFICES ASSUME NEW i \in 1 .. K, i + 1 \in 1 .. K, a[i + 1].count > 0
               PROVE a[i].count = ChunkSize
    OBVIOUS
  <2>1. i + 1 \in 2 .. K /\ (i + 1) - 1 = i
    BY <1>1
  <2> QED
    BY <2>1 DEF Chunked
<1>3. \A i \in 1 .. K : i + 1 \in B /\ a[i].count < ChunkSize => f[i + 1] = <<>>
  <2> SUFFICES ASSUME NEW i \in 1 .. K, i + 1 \in B, a[i].count < ChunkSize
               PROVE f[i + 1] = <<>>
    OBVIOUS
  <2>1. CASE i = K
    BY <1>1, <2>1
  <2>2. CASE i # K
    <3>1. i + 1 \in 1 .. K
      BY <1>1, <2>2
    <3>2. a[i + 1].count \in 0 .. ChunkSize
      BY <3>1, ChunkFrom
    <3>3. a[i + 1].count = 0
      BY <1>1, <1>2, <3>1, <3>2
    <3> QED
      BY <3>1, <3>3
  <2> QED
    BY <2>1, <2>2
<1>4. K + 1 \in B
  BY <1>1
<1>5. \A i \in 1 .. K : i + 1 \in B => i \in B
  <2> SUFFICES ASSUME NEW i \in 1 .. K, i + 1 \in B, a[i].count = 0 PROVE f[i] = <<>>
    BY <1>1
  <2>1. f[i + 1] = <<>>
    BY <1>1, <1>3
  <2>2. f[i] \in Seq(Data) /\ Len(f[i]) = 0
    BY <2>1, ChunkFrom
  <2> QED
    BY <2>2
<1>6. \A i \in 1 .. K + 1 : i \in B
  <2> HIDE DEF B
  <2> QED
    BY <1>1, <1>4, <1>5, Downward
<1>7. \A i \in 1 .. K : i + 1 \in 1 .. K + 1
  BY <1>1
<1> QED
  BY <1>3, <1>6, <1>7

\* The numbers of elements that the loops work with.
HeldFrom(f, i) == Len(f[i])

LEMMA ChunkLengths ==
  ASSUME NEW a, NEW K, Chunked(a, K), NEW f, FromIs(f, a, K)
  PROVE  /\ K \in Nat \ {0} /\ Len(a) = K /\ DOMAIN a = 1 .. K /\ HeldFrom(f, K + 1) = 0
         /\ \A i \in 1 .. K + 1 : HeldFrom(f, i) \in Nat
         /\ \A i \in 1 .. K : HeldFrom(f, i) = a[i].count + HeldFrom(f, i + 1)
         /\ \A i \in 1 .. K : a[i].count \in 0 .. ChunkSize
         /\ \A i \in 1 .. K : a[i].count < ChunkSize => HeldFrom(f, i + 1) = 0
<1>1. K \in Nat \ {0} /\ Len(a) = K /\ DOMAIN a = 1 .. K
  BY DEF Chunked
<1>2. f[K + 1] = <<>> /\ \A i \in 1 .. K + 1 : f[i] \in Seq(Data)
  BY DEF FromIs
<1>3. HeldFrom(f, K + 1) = 0 /\ \A i \in 1 .. K + 1 : HeldFrom(f, i) \in Nat
  BY <1>2 DEF HeldFrom
<1>4. \A i \in 1 .. K : HeldFrom(f, i) = a[i].count + HeldFrom(f, i + 1)
  BY ChunkFrom DEF HeldFrom
<1>5. \A i \in 1 .. K : a[i].count \in 0 .. ChunkSize
  BY ChunkFrom
<1>6. \A i \in 1 .. K : a[i].count < ChunkSize => HeldFrom(f, i + 1) = 0
  BY ChunkEnd DEF HeldFrom
<1> QED
  BY <1>1, <1>3, <1>4, <1>5, <1>6

LEMMA BeforeIs ==
  ASSUME NEW a, NEW K, Chunked(a, K), NEW f, FromIs(f, a, K)
  PROVE  Chunks!Before(a) = Len(f[1])
<1> DEFINE Is(g) == g = [i \in 1 .. Len(a) + 1 |->
                           IF i > Len(a) THEN 0
                           ELSE IF Chunks!Full(a[i]) THEN a[i].count + g[i + 1] ELSE a[i].count]
           from == CHOOSE g : Is(g)
           G == [i \in 1 .. K + 1 |-> HeldFrom(f, i)]
<1>1. /\ K \in Nat \ {0} /\ Len(a) = K /\ HeldFrom(f, K + 1) = 0
      /\ \A i \in 1 .. K + 1 : HeldFrom(f, i) \in Nat
      /\ \A i \in 1 .. K : HeldFrom(f, i) = a[i].count + HeldFrom(f, i + 1)
      /\ \A i \in 1 .. K : a[i].count \in 0 .. ChunkSize
      /\ \A i \in 1 .. K : a[i].count < ChunkSize => HeldFrom(f, i + 1) = 0
  BY ChunkLengths
<1>0. ChunkSize \in Nat \ {0} /\ \A c : Chunks!Full(c) <=> c.count = ChunkSize
  BY ListsAssumption DEF Chunks!Full
<1>2. \A i \in 1 .. K + 1 :
        G[i] = IF i > K THEN 0
               ELSE IF Chunks!Full(a[i]) THEN a[i].count + G[i + 1] ELSE a[i].count
  <2> SUFFICES ASSUME NEW i \in 1 .. K + 1
               PROVE G[i] = IF i > K THEN 0
                            ELSE IF Chunks!Full(a[i]) THEN a[i].count + G[i + 1] ELSE a[i].count
    OBVIOUS
  <2>1. CASE i > K
    <3>1. i = K + 1
      BY <1>1, <2>1
    <3> QED
      BY <1>1, <2>1, <3>1
  <2>2. CASE ~(i > K)
    <3>1. i \in 1 .. K /\ i + 1 \in 1 .. K + 1
      BY <1>1, <2>2
    <3>2. G[i] = HeldFrom(f, i) /\ G[i + 1] = HeldFrom(f, i + 1)
      BY <3>1
    <3>3. ~Chunks!Full(a[i]) => a[i].count < ChunkSize
      BY <1>0, <1>1, <3>1
    <3>4. ~Chunks!Full(a[i]) => HeldFrom(f, i) = a[i].count
      BY <1>0, <1>1, <3>1, <3>3
    <3> QED
      BY <1>1, <2>2, <3>1, <3>2, <3>4
  <2> QED
    BY <2>1, <2>2
<1>3. Is(G)
  <2> DEFINE g == G
  <2>1. g = [i \in 1 .. K + 1 |-> g[i]]
    OBVIOUS
  <2>2. \A i \in 1 .. K + 1 :
          g[i] = IF i > K THEN 0
                 ELSE IF Chunks!Full(a[i]) THEN a[i].count + g[i + 1] ELSE a[i].count
    BY <1>2
  <2> HIDE DEF g, G
  <2>3. g = [i \in 1 .. K + 1 |->
               IF i > K THEN 0
               ELSE IF Chunks!Full(a[i]) THEN a[i].count + g[i + 1] ELSE a[i].count]
    BY <2>1, <2>2
  <2> QED
    BY <1>1, <2>3 DEF g
<1>4. Is(from)
  <2> HIDE DEF Is, G
  <2> QED
    BY <1>3
<1>5. Chunks!Before(a) = from[1]
  BY DEF Chunks!Before
<1>6. /\ from[K + 1] = 0
      /\ \A i \in 1 .. K :
           from[i] = IF Chunks!Full(a[i]) THEN a[i].count + from[i + 1] ELSE a[i].count
  <2> DEFINE g == from
  <2>1. g = [i \in 1 .. K + 1 |->
               IF i > K THEN 0
               ELSE IF Chunks!Full(a[i]) THEN a[i].count + g[i + 1] ELSE a[i].count]
    BY <1>1, <1>4
  <2> HIDE DEF g
  <2>2. g[K + 1] = 0
    <3>1. K + 1 \in 1 .. K + 1 /\ K + 1 > K
      BY <1>1
    <3> QED
      BY <2>1, <3>1
  <2>3. ASSUME NEW i \in 1 .. K
        PROVE g[i] = IF Chunks!Full(a[i]) THEN a[i].count + g[i + 1] ELSE a[i].count
    <3>1. i \in 1 .. K + 1 /\ ~(i > K)
      BY <1>1
    <3> QED
      BY <2>1, <3>1
  <2> QED
    BY <2>2, <2>3 DEF g
<1> HIDE DEF from
<1> DEFINE B == {i \in 1 .. K + 1 : from[i] = HeldFrom(f, i)}
<1>7. K + 1 \in B
  <2>1. K + 1 \in 1 .. K + 1
    BY <1>1
  <2> QED
    BY <1>1, <1>6, <2>1
<1>8. \A i \in 1 .. K : i + 1 \in B => i \in B
  <2> SUFFICES ASSUME NEW i \in 1 .. K, i + 1 \in B PROVE i \in B
    OBVIOUS
  <2>1. i \in 1 .. K + 1 /\ from[i + 1] = HeldFrom(f, i + 1)
    BY <1>1
  <2>2. ~Chunks!Full(a[i]) => HeldFrom(f, i + 1) = 0
    BY <1>0, <1>1
  <2>3. HeldFrom(f, i) = a[i].count + HeldFrom(f, i + 1) /\ a[i].count \in 0 .. ChunkSize
    BY <1>1
  <2>4. from[i] = IF Chunks!Full(a[i]) THEN a[i].count + from[i + 1] ELSE a[i].count
    BY <1>6
  <2>5. from[i] = HeldFrom(f, i)
    BY <1>0, <2>1, <2>2, <2>3, <2>4
  <2> QED
    BY <2>1, <2>5
<1>9. \A i \in 1 .. K + 1 : i \in B
  <2> HIDE DEF B
  <2> QED
    BY <1>1, <1>7, <1>8, Downward
<1>10. 1 \in 1 .. K + 1
  BY <1>1
<1> QED
  BY <1>5, <1>9, <1>10 DEF HeldFrom

-----------------------------------------------------------------------------
Lesser(n, m) == IF n < m THEN n ELSE m

\* Chunk i makes this of what those behind it give up of n elements.
GivenUp(a, K, n, g, i) ==
  IF i > K \/ a[i].count = 0 THEN 0
  ELSE g[i + 1] + (IF n - g[i + 1] < a[i].count THEN n - g[i + 1] ELSE a[i].count)

LEMMA TakenIs ==
  ASSUME NEW a, NEW K, Chunked(a, K), NEW f, FromIs(f, a, K), NEW n \in Nat
  PROVE  \A i \in 1 .. K + 1 : Chunks!Taken(a, n)[i] = Lesser(n, HeldFrom(f, i))
<1> DEFINE Is(g) == g = [i \in 1 .. Len(a) + 1 |->
                           IF i > Len(a) \/ a[i].count = 0 THEN 0
                           ELSE LET behind == g[i + 1]
                                IN  behind + (IF n - behind < a[i].count THEN n - behind
                                              ELSE a[i].count)]
           from == CHOOSE g : Is(g)
           G == [i \in 1 .. K + 1 |-> Lesser(n, HeldFrom(f, i))]
<1>1. /\ K \in Nat \ {0} /\ Len(a) = K /\ HeldFrom(f, K + 1) = 0
      /\ \A i \in 1 .. K + 1 : HeldFrom(f, i) \in Nat
      /\ \A i \in 1 .. K : HeldFrom(f, i) = a[i].count + HeldFrom(f, i + 1)
      /\ \A i \in 1 .. K : a[i].count \in 0 .. ChunkSize
      /\ \A i \in 1 .. K : a[i].count < ChunkSize => HeldFrom(f, i + 1) = 0
  BY ChunkLengths
<1>0. ChunkSize \in Nat \ {0}
  BY ListsAssumption
<1>2. ASSUME NEW i \in 1 .. K + 1, NEW g,
             i \in 1 .. K => g[i + 1] = Lesser(n, HeldFrom(f, i + 1))
      PROVE  Lesser(n, HeldFrom(f, i)) = GivenUp(a, K, n, g, i)
  <2>1. CASE i > K
    <3>1. i = K + 1
      BY <1>1, <2>1
    <3> QED
      BY <1>1, <2>1, <3>1 DEF GivenUp, Lesser
  <2>2. CASE ~(i > K)
    <3>1. i \in 1 .. K /\ i + 1 \in 1 .. K + 1
      BY <1>1, <2>2
    <3>2. g[i + 1] = Lesser(n, HeldFrom(f, i + 1))
      BY <1>2, <3>1
    <3>3. /\ HeldFrom(f, i) = a[i].count + HeldFrom(f, i + 1) /\ a[i].count \in 0 .. ChunkSize
          /\ HeldFrom(f, i + 1) \in Nat
          /\ (a[i].count < ChunkSize => HeldFrom(f, i + 1) = 0)
      BY <1>1, <3>1
    <3> QED
      BY <1>0, <2>2, <3>2, <3>3 DEF GivenUp, Lesser
  <2> QED
    BY <2>1, <2>2
<1>3. Is(G)
  <2> DEFINE g == G
  <2>1. g = [i \in 1 .. K + 1 |-> g[i]]
    OBVIOUS
  <2>2. \A i \in 1 .. K : g[i + 1] = Lesser(n, HeldFrom(f, i + 1))
    BY <1>1
  <2>3. \A i \in 1 .. K + 1 : g[i] = Lesser(n, HeldFrom(f, i))
    OBVIOUS
  <2> HIDE DEF g, G
  <2>4. \A i \in 1 .. K + 1 : g[i] = GivenUp(a, K, n, g, i)
    BY <1>2, <2>2, <2>3
  <2>5. g = [i \in 1 .. K + 1 |->
               IF i > K \/ a[i].count = 0 THEN 0
               ELSE g[i + 1] + (IF n - g[i + 1] < a[i].count THEN n - g[i + 1] ELSE a[i].count)]
    BY <2>1, <2>4 DEF GivenUp
  <2> QED
    BY <1>1, <2>5 DEF g
<1>4. Is(from)
  <2> HIDE DEF Is, G
  <2> QED
    BY <1>3
<1>5. Chunks!Taken(a, n) = from
  BY DEF Chunks!Taken
<1>6. \A i \in 1 .. K + 1 : from[i] = GivenUp(a, K, n, from, i)
  <2> DEFINE g == from
  <2>1. g = [i \in 1 .. K + 1 |->
               IF i > K \/ a[i].count = 0 THEN 0
               ELSE g[i + 1] + (IF n - g[i + 1] < a[i].count THEN n - g[i + 1] ELSE a[i].count)]
    BY <1>1, <1>4
  <2> HIDE DEF g
  <2>2. \A i \in 1 .. K + 1 : g[i] = GivenUp(a, K, n, g, i)
    BY <2>1 DEF GivenUp
  <2> QED
    BY <2>2 DEF g
<1> HIDE DEF from
<1> DEFINE B == {i \in 1 .. K + 1 : from[i] = Lesser(n, HeldFrom(f, i))}
<1>7. K + 1 \in B
  <2>1. K + 1 \in 1 .. K + 1 /\ K + 1 \notin 1 .. K
    BY <1>1
  <2>2. from[K + 1] = GivenUp(a, K, n, from, K + 1)
    BY <1>6, <2>1
  <2>3. Lesser(n, HeldFrom(f, K + 1)) = GivenUp(a, K, n, from, K + 1)
    BY <1>2, <2>1
  <2> QED
    BY <2>1, <2>2, <2>3
<1>8. \A i \in 1 .. K : i + 1 \in B => i \in B
  <2> SUFFICES ASSUME NEW i \in 1 .. K, i + 1 \in B PROVE i \in B
    OBVIOUS
  <2>1. i \in 1 .. K + 1 /\ from[i + 1] = Lesser(n, HeldFrom(f, i + 1))
    BY <1>1
  <2>2. Lesser(n, HeldFrom(f, i)) = GivenUp(a, K, n, from, i)
    BY <1>2, <2>1
  <2>3. from[i] = GivenUp(a, K, n, from, i)
    BY <1>6, <2>1
  <2> QED
    BY <2>1, <2>2, <2>3
<1>9. \A i \in 1 .. K + 1 : i \in B
  <2> HIDE DEF B
  <2> QED
    BY <1>1, <1>7, <1>8, Downward
<1> QED
  BY <1>5, <1>9

-----------------------------------------------------------------------------
\* What the chunks from i on have at an index, counted from 0.
ElementAt(f, i, x) == IF x < HeldFrom(f, i) THEN f[i][x + 1] ELSE None

\* Chunk i gives this if the ones behind it are asked by g.
Asked(a, K, g, i, x) ==
  IF i > K THEN None
  ELSE IF x < ChunkSize THEN IF x < a[i].count THEN a[i].items[x + 1] ELSE None
  ELSE g[i + 1][x - a[i].count]

LEMMA AskedIs ==
  ASSUME NEW a, NEW K, Chunked(a, K), NEW f, FromIs(f, a, K), NEW i \in 1 .. K,
         NEW x \in Nat, NEW g,
         x >= a[i].count => g[i + 1][x - a[i].count] = ElementAt(f, i + 1, x - a[i].count)
  PROVE  Asked(a, K, g, i, x) = ElementAt(f, i, x)
<1> DEFINE c == a[i].count
<1>1. /\ c \in 0 .. ChunkSize /\ HeldFrom(f, i) = c + HeldFrom(f, i + 1)
      /\ HeldFrom(f, i + 1) \in Nat /\ K \in Nat
      /\ (c < ChunkSize => HeldFrom(f, i + 1) = 0)
  <2>1. i + 1 \in 1 .. K + 1 /\ K \in Nat
    BY ChunkLengths
  <2> QED
    BY <2>1, ChunkLengths
<1>2. \A y \in 1 .. c : f[i][y] = a[i].items[y]
  BY ChunkFrom
<1>3. \A y \in 1 .. HeldFrom(f, i + 1) : f[i][c + y] = f[i + 1][y]
  BY ChunkFrom DEF HeldFrom
<1>4. ChunkSize \in Nat \ {0} /\ ~(i > K)
  BY <1>1, ListsAssumption
<1>5. x >= c => g[i + 1][x - c] = ElementAt(f, i + 1, x - c)
  OBVIOUS
<1>6. Asked(a, K, g, i, x)
        = IF x < ChunkSize THEN IF x < c THEN a[i].items[x + 1] ELSE None
          ELSE g[i + 1][x - c]
  BY <1>4 DEF Asked
<1> HIDE DEF c
<1>7. CASE x < c
  <2>1. x + 1 \in 1 .. c /\ x < ChunkSize /\ x < HeldFrom(f, i)
    BY <1>1, <1>4, <1>7
  <2> QED
    BY <1>2, <1>6, <1>7, <2>1 DEF ElementAt
<1>8. CASE x >= c /\ x < HeldFrom(f, i)
  <2>1. (x - c) + 1 \in 1 .. HeldFrom(f, i + 1) /\ c + ((x - c) + 1) = x + 1
        /\ x - c < HeldFrom(f, i + 1) /\ ~(x < ChunkSize)
    BY <1>1, <1>4, <1>8
  <2>2. f[i][x + 1] = f[i + 1][(x - c) + 1]
    BY <1>3, <2>1
  <2> QED
    BY <1>5, <1>6, <1>8, <2>1, <2>2 DEF ElementAt
<1>9. CASE x >= c /\ ~(x < HeldFrom(f, i))
  <2>1. ~(x - c < HeldFrom(f, i + 1)) /\ ~(x < c)
    BY <1>1, <1>4, <1>9
  <2> QED
    BY <1>5, <1>6, <1>9, <2>1 DEF ElementAt
<1> QED
  BY <1>1, <1>4, <1>7, <1>8, <1>9

LEMMA GetIs ==
  ASSUME NEW a, NEW K, Chunked(a, K), NEW f, FromIs(f, a, K), NEW index \in Nat
  PROVE  Chunks!chunk_array_get(a, index) = ElementAt(f, 1, index)
<1> DEFINE Is(g) == g = [i \in 1 .. Len(a) + 1 |-> [x \in 0 .. index |->
                           IF i > Len(a) THEN None
                           ELSE IF x < ChunkSize
                                THEN IF x < a[i].count THEN a[i].items[x + 1] ELSE None
                           ELSE g[i + 1][x - a[i].count]]]
           get == CHOOSE g : Is(g)
           G == [i \in 1 .. K + 1 |-> [x \in 0 .. index |-> ElementAt(f, i, x)]]
<1>1. /\ K \in Nat \ {0} /\ Len(a) = K /\ HeldFrom(f, K + 1) = 0
      /\ \A i \in 1 .. K : a[i].count \in 0 .. ChunkSize
  BY ChunkLengths
<1>2. ASSUME NEW g, NEW i \in 1 .. K + 1, NEW x \in 0 .. index,
             i \in 1 .. K => \A y \in 0 .. index : g[i + 1][y] = ElementAt(f, i + 1, y)
      PROVE  Asked(a, K, g, i, x) = ElementAt(f, i, x)
  <2>1. CASE i > K
    <3>1. i = K + 1 /\ ~(x < 0)
      BY <1>1, <2>1
    <3> QED
      BY <1>1, <2>1, <3>1 DEF Asked, ElementAt
  <2>2. CASE ~(i > K)
    <3>1. i \in 1 .. K
      BY <1>1, <2>2
    <3>2. a[i].count \in Nat /\ x \in Nat
      BY <1>1, <3>1
    <3>3. x >= a[i].count => x - a[i].count \in 0 .. index
      BY <3>2
    <3>4. x >= a[i].count => g[i + 1][x - a[i].count] = ElementAt(f, i + 1, x - a[i].count)
      BY <1>2, <3>1, <3>3
    <3> QED
      BY <3>1, <3>2, <3>4, AskedIs
  <2> QED
    BY <2>1, <2>2
<1>3. Is(G)
  <2> DEFINE g == G
  <2>1. g = [i \in 1 .. K + 1 |-> [x \in 0 .. index |-> g[i][x]]]
    OBVIOUS
  <2>2. \A i \in 1 .. K + 1 : \A x \in 0 .. index : g[i][x] = ElementAt(f, i, x)
    OBVIOUS
  <2>3. \A i \in 1 .. K : i + 1 \in 1 .. K + 1
    BY <1>1
  <2> HIDE DEF g, G
  <2>4. \A i \in 1 .. K + 1, x \in 0 .. index : g[i][x] = Asked(a, K, g, i, x)
    BY <1>2, <2>2, <2>3
  <2>5. g = [i \in 1 .. K + 1 |-> [x \in 0 .. index |-> Asked(a, K, g, i, x)]]
    BY <2>1, <2>4
  <2>6. g = [i \in 1 .. K + 1 |-> [x \in 0 .. index |->
               IF i > K THEN None
               ELSE IF x < ChunkSize THEN IF x < a[i].count THEN a[i].items[x + 1] ELSE None
               ELSE g[i + 1][x - a[i].count]]]
    BY Zenon, <2>5 DEF Asked
  <2> QED
    BY <1>1, <2>6 DEF g
<1>4. Is(get)
  <2> HIDE DEF Is, G
  <2> QED
    BY <1>3
<1>5. Chunks!chunk_array_get(a, index) = get[1][index]
  BY DEF Chunks!chunk_array_get
<1>6. \A i \in 1 .. K + 1, x \in 0 .. index : get[i][x] = Asked(a, K, get, i, x)
  <2> DEFINE g == get
  <2>1. g = [i \in 1 .. K + 1 |-> [x \in 0 .. index |->
               IF i > K THEN None
               ELSE IF x < ChunkSize THEN IF x < a[i].count THEN a[i].items[x + 1] ELSE None
               ELSE g[i + 1][x - a[i].count]]]
    BY <1>1, <1>4
  <2> HIDE DEF g
  <2>3. \A i \in 1 .. K + 1, x \in 0 .. index : g[i][x] = Asked(a, K, g, i, x)
    <3> DEFINE e(i, x) ==
                 IF i > K THEN None
                 ELSE IF x < ChunkSize THEN IF x < a[i].count THEN a[i].items[x + 1] ELSE None
                 ELSE g[i + 1][x - a[i].count]
    <3>1. g = [i \in 1 .. K + 1 |-> [x \in 0 .. index |-> e(i, x)]]
      BY <2>1
    <3>2. \A i, x : e(i, x) = Asked(a, K, g, i, x)
      BY DEF Asked
    <3> HIDE DEF e
    <3>3. \A i \in 1 .. K + 1, x \in 0 .. index : g[i][x] = e(i, x)
      BY <3>1
    <3> QED
      BY <3>2, <3>3
  <2> QED
    BY <2>3 DEF g
<1> HIDE DEF get
<1> DEFINE B == {i \in 1 .. K + 1 : \A x \in 0 .. index : get[i][x] = ElementAt(f, i, x)}
<1>7. K + 1 \in B
  <2>1. K + 1 \in 1 .. K + 1 /\ K + 1 \notin 1 .. K
    BY <1>1
  <2>2. \A x \in 0 .. index : Asked(a, K, get, K + 1, x) = ElementAt(f, K + 1, x)
    BY <1>2, <2>1
  <2> QED
    BY <1>6, <2>1, <2>2
<1>8. \A i \in 1 .. K : i + 1 \in B => i \in B
  <2> SUFFICES ASSUME NEW i \in 1 .. K, i + 1 \in B PROVE i \in B
    OBVIOUS
  <2>1. i \in 1 .. K + 1 /\ \A y \in 0 .. index : get[i + 1][y] = ElementAt(f, i + 1, y)
    BY <1>1
  <2>2. \A x \in 0 .. index : Asked(a, K, get, i, x) = ElementAt(f, i, x)
    BY <1>2, <2>1
  <2> QED
    BY <1>6, <2>1, <2>2
<1>9. \A i \in 1 .. K + 1 : i \in B
  <2> HIDE DEF B
  <2> QED
    BY <1>1, <1>7, <1>8, Downward
<1>10. 1 \in 1 .. K + 1 /\ index \in 0 .. index
  BY <1>1
<1> QED
  BY <1>5, <1>9, <1>10

-----------------------------------------------------------------------------
\* In front of a chunk that holds anything, all hold something.
LEMMA HeldBefore ==
  ASSUME NEW a, NEW K, Chunked(a, K), NEW i \in 1 .. K, a[i].count > 0
  PROVE  \A j \in 1 .. i : a[j].count > 0
<1> DEFINE B == {j \in 1 .. i : a[j].count > 0}
<1>1. K \in Nat \ {0} /\ i \in Nat \ {0} /\ i - 1 \in Nat /\ (i - 1) + 1 = i
      /\ ChunkSize \in Nat \ {0} /\ \A j \in 2 .. K : a[j].count > 0 => a[j - 1].count = ChunkSize
  BY ListsAssumption DEF Chunked
<1>2. (i - 1) + 1 \in B
  BY <1>1
<1>3. \A j \in 1 .. i - 1 : j + 1 \in B => j \in B
  <2> SUFFICES ASSUME NEW j \in 1 .. i - 1, j + 1 \in B PROVE j \in B
    OBVIOUS
  <2>1. j + 1 \in 2 .. K /\ (j + 1) - 1 = j /\ j \in 1 .. i
    BY <1>1
  <2>2. a[j].count = ChunkSize
    BY <1>1, <2>1
  <2> QED
    BY <1>1, <2>1, <2>2
<1>4. \A j \in 1 .. (i - 1) + 1 : j \in B
  <2> HIDE DEF B
  <2> QED
    BY <1>1, <1>2, <1>3, Downward
<1> QED
  BY <1>1, <1>4

\* What chunk i keeps when the last n elements go.
Left(a, f, n, i) == a[i].count - (Lesser(n, HeldFrom(f, i)) - Lesser(n, HeldFrom(f, i + 1)))

LEMMA LeftIs ==
  ASSUME NEW a, NEW K, Chunked(a, K), NEW f, FromIs(f, a, K), NEW n \in Nat, NEW i \in 1 .. K
  PROVE  /\ Left(a, f, n, i) \in 0 .. a[i].count
         /\ a[i].count = 0 => Left(a, f, n, i) = 0
         /\ Left(a, f, n, i) > 0 => n < HeldFrom(f, i) /\ a[i].count > 0
         /\ n < HeldFrom(f, i + 1) => Left(a, f, n, i) = a[i].count
<1>1. /\ a[i].count \in 0 .. ChunkSize /\ HeldFrom(f, i) = a[i].count + HeldFrom(f, i + 1)
      /\ (a[i].count < ChunkSize => HeldFrom(f, i + 1) = 0)
  BY ChunkLengths
<1>2. HeldFrom(f, i + 1) \in Nat
  <2>1. i + 1 \in 1 .. K + 1
    BY ChunkLengths
  <2> QED
    BY <2>1, ChunkLengths
<1>3. ChunkSize \in Nat \ {0}
  BY ListsAssumption
<1> QED
  BY <1>1, <1>2, <1>3 DEF Left, Lesser

\* b is a after the last n elements are gone.
CutBack(b, a, K, f, n) ==
  /\ DOMAIN b = 1 .. K /\ b = [i \in 1 .. K |-> b[i]]
  /\ \A i \in 1 .. K : b[i] \in ChunkSet /\ b[i].items = a[i].items
  /\ \A i \in 1 .. K : b[i].count = Left(a, f, n, i)

LEMMA RemovedBack ==
  ASSUME NEW a, NEW K, Chunked(a, K), NEW f, FromIs(f, a, K), NEW n \in Nat
  PROVE  CutBack(Chunks!chunk_array_remove(a, n), a, K, f, n)
<1> DEFINE b == Chunks!chunk_array_remove(a, n)
           taken == Chunks!Taken(a, n)
<1>1. K \in Nat \ {0} /\ DOMAIN a = 1 .. K /\ \A i \in 1 .. K : a[i] \in ChunkSet
  BY ChunkLengths DEF Chunked
<1>2. \A i \in 1 .. K + 1 : taken[i] = Lesser(n, HeldFrom(f, i))
  BY TakenIs
<1> HIDE DEF taken
<1>3. b = [i \in 1 .. K |-> IF \A j \in 1 .. i : a[j].count > 0
                            THEN [a[i] EXCEPT !.count = a[i].count - (taken[i] - taken[i + 1])]
                            ELSE a[i]]
  BY <1>1 DEF Chunks!chunk_array_remove, taken
<1> HIDE DEF b
<1>4. DOMAIN b = 1 .. K /\ b = [i \in 1 .. K |-> b[i]]
  BY <1>3
<1>5. ASSUME NEW i \in 1 .. K
      PROVE  b[i] \in ChunkSet /\ b[i].items = a[i].items /\ b[i].count = Left(a, f, n, i)
  <2>1. i \in 1 .. K + 1 /\ i + 1 \in 1 .. K + 1 /\ i \in 1 .. i
    BY <1>1
  <2>2. Left(a, f, n, i) = a[i].count - (taken[i] - taken[i + 1])
    BY <1>2, <2>1 DEF Left
  <2>3. a[i] \in ChunkSet /\ a[i].count \in 0 .. ChunkSize /\ ChunkSize \in Nat
    BY <1>1, ListsAssumption DEF ChunkSet
  <2>4. Left(a, f, n, i) \in 0 .. a[i].count /\ (a[i].count = 0 => Left(a, f, n, i) = 0)
    BY LeftIs
  <2>5. CASE a[i].count > 0
    <3>1. \A j \in 1 .. i : a[j].count > 0
      BY <2>5, HeldBefore
    <3>2. b[i] = [a[i] EXCEPT !.count = Left(a, f, n, i)]
      BY <1>3, <2>2, <3>1
    <3>3. Left(a, f, n, i) \in 0 .. ChunkSize
      BY <2>3, <2>4
    <3> QED
      BY <2>3, <3>2, <3>3 DEF ChunkSet
  <2>6. CASE ~(a[i].count > 0)
    <3>1. ~\A j \in 1 .. i : a[j].count > 0
      BY <2>1, <2>6
    <3>2. b[i] = a[i]
      BY <1>3, <3>1
    <3>3. a[i].count = 0
      BY <2>3, <2>6
    <3> QED
      BY <2>3, <2>4, <3>2, <3>3
  <2> QED
    BY <2>5, <2>6
<1>6. CutBack(b, a, K, f, n)
  BY <1>4, <1>5 DEF CutBack
<1> QED
  BY <1>6 DEF b

LEMMA CutBackChunked ==
  ASSUME NEW a, NEW K, Chunked(a, K), NEW f, FromIs(f, a, K), NEW n \in Nat,
         NEW b, CutBack(b, a, K, f, n)
  PROVE  Chunked(b, K)
<1>1. K \in Nat \ {0} /\ ChunkSize \in Nat \ {0}
  BY ListsAssumption DEF Chunked
<1>2. b \in [1 .. K -> ChunkSet]
  BY DEF CutBack
<1>3. ASSUME NEW i \in 1 .. K PROVE \A x \in 1 .. b[i].count : b[i].items[x] \in Data
  <2>1. b[i].items = a[i].items /\ b[i].count \in 0 .. a[i].count
    BY LeftIs DEF CutBack
  <2>2. a[i].count \in 0 .. ChunkSize
    BY ChunkLengths
  <2>3. \A x \in 1 .. a[i].count : a[i].items[x] \in Data
    BY DEF Chunked
  <2> QED
    BY <1>1, <2>1, <2>2, <2>3
<1>4. ASSUME NEW i \in 2 .. K, b[i].count > 0 PROVE b[i - 1].count = ChunkSize
  <2>1. i \in 1 .. K /\ i - 1 \in 1 .. K /\ (i - 1) + 1 = i
    BY <1>1
  <2>2. n < HeldFrom(f, i) /\ a[i].count > 0
    BY <1>4, <2>1, LeftIs DEF CutBack
  <2>3. Left(a, f, n, i - 1) = a[i - 1].count
    BY <2>1, <2>2, LeftIs
  <2>4. a[i - 1].count = ChunkSize
    BY <2>2 DEF Chunked
  <2> QED
    BY <2>1, <2>3, <2>4 DEF CutBack
<1> QED
  BY <1>1, <1>2, <1>3, <1>4 DEF Chunked

LEMMA CutBackValues ==
  ASSUME NEW a, NEW K, Chunked(a, K), NEW f, FromIs(f, a, K), NEW n \in Nat,
         NEW b, CutBack(b, a, K, f, n), NEW h, FromIs(h, b, K)
  PROVE  h[1] = [j \in 1 .. HeldFrom(f, 1) - Lesser(n, HeldFrom(f, 1)) |-> f[1][j]]
<1>1. Chunked(b, K)
  BY CutBackChunked
<1> DEFINE Rest(i) == HeldFrom(f, i) - Lesser(n, HeldFrom(f, i))
           B == {i \in 1 .. K + 1 : HeldFrom(h, i) = Rest(i)
                                    /\ \A x \in 1 .. Rest(i) : h[i][x] = f[i][x]}
<1>2. K \in Nat \ {0} /\ 1 \in 1 .. K + 1 /\ K + 1 \in 1 .. K + 1
  BY ChunkLengths
<1>3. K + 1 \in B
  <2>1. HeldFrom(f, K + 1) = 0 /\ HeldFrom(h, K + 1) = 0
    BY <1>1, ChunkLengths
  <2>2. Rest(K + 1) = 0
    BY <2>1 DEF Lesser
  <2> QED
    BY <1>2, <2>1, <2>2
<1>4. \A i \in 1 .. K : i + 1 \in B => i \in B
  <2> SUFFICES ASSUME NEW i \in 1 .. K, i + 1 \in B PROVE i \in B
    OBVIOUS
  <2>1. i \in 1 .. K + 1 /\ i + 1 \in 1 .. K + 1
    BY <1>2
  <2> DEFINE c == a[i].count
             e == b[i].count
             F == HeldFrom(f, i + 1)
  <2>2. HeldFrom(h, i + 1) = F - Lesser(n, F)
        /\ \A x \in 1 .. F - Lesser(n, F) : h[i + 1][x] = f[i + 1][x]
    BY <2>1
  <2>3. F \in Nat /\ c \in 0 .. ChunkSize /\ HeldFrom(f, i) = c + F
    BY <2>1, ChunkLengths
  <2>4. HeldFrom(h, i) = e + HeldFrom(h, i + 1)
    BY <1>1, ChunkLengths
  <2>5. e = c - (Lesser(n, c + F) - Lesser(n, F)) /\ e \in 0 .. c
        /\ (n < F => e = c)
    BY <2>3, LeftIs DEF CutBack, Left
  <2>6. \A x \in 1 .. c : f[i][x] = a[i].items[x]
    BY ChunkFrom
  <2>7. \A x \in 1 .. e : h[i][x] = b[i].items[x]
    BY <1>1, ChunkFrom
  <2>8. b[i].items = a[i].items
    BY DEF CutBack
  <2>9. \A x \in 1 .. F : f[i][c + x] = f[i + 1][x]
    BY ChunkFrom DEF HeldFrom
  <2>10. \A x \in 1 .. F - Lesser(n, F) : h[i][e + x] = h[i + 1][x]
    <3>1. \A x \in 1 .. HeldFrom(h, i + 1) : h[i][e + x] = h[i + 1][x]
      BY <1>1, ChunkFrom DEF HeldFrom
    <3> QED
      BY <2>2, <3>1
  <2>11. ChunkSize \in Nat
    BY ListsAssumption
  <2> HIDE DEF c, e, F
  <2>12. HeldFrom(h, i) = Rest(i)
    BY <2>2, <2>3, <2>4, <2>5, <2>11 DEF Lesser
  <2>13. ASSUME NEW x \in 1 .. Rest(i) PROVE h[i][x] = f[i][x]
    <3>1. x \in 1 .. (c + F) - Lesser(n, c + F)
      BY <2>3
    <3>2. CASE x <= e
      <4>1. x \in 1 .. e /\ x \in 1 .. c
        BY <2>3, <2>5, <2>11, <3>1, <3>2
      <4> QED
        BY <2>6, <2>7, <2>8, <4>1
    <3>3. CASE ~(x <= e)
      <4>1. n < F /\ e = c /\ x - c \in 1 .. F - n /\ x - c \in 1 .. F /\ c + (x - c) = x
            /\ Lesser(n, F) = n
        BY <2>3, <2>5, <2>11, <3>1, <3>3 DEF Lesser
      <4>2. h[i][c + (x - c)] = h[i + 1][x - c]
        BY <2>10, <4>1
      <4>3. h[i + 1][x - c] = f[i + 1][x - c]
        BY <2>2, <4>1
      <4>4. f[i][c + (x - c)] = f[i + 1][x - c]
        BY <2>9, <4>1
      <4> QED
        BY <4>1, <4>2, <4>3, <4>4
    <3> QED
      BY <3>2, <3>3
  <2> QED
    BY <2>1, <2>12, <2>13
<1>5. 1 \in B
  <2> HIDE DEF B
  <2> QED
    BY <1>2, <1>3, <1>4, Downward
<1>6. Len(h[1]) = Rest(1) /\ \A x \in 1 .. Rest(1) : h[1][x] = f[1][x]
  BY <1>5 DEF HeldFrom
<1>7. h[1] \in Seq(Data)
  BY <1>2 DEF FromIs
<1> HIDE DEF Rest
<1>8. h[1] = [j \in 1 .. Rest(1) |-> f[1][j]]
  BY <1>6, <1>7
<1> QED
  BY <1>8 DEF Rest

-----------------------------------------------------------------------------
LEMMA EmptyChunk ==
  /\ Chunks!Chunk \in ChunkSet /\ Chunks!Chunk.count = 0
  /\ Chunks!Chunk = [count |-> 0, items |-> [i \in 1 .. ChunkSize |-> None]]
BY ListsAssumption DEF ChunkSet, Chunks!Chunk

LEMMA EmptyArray ==
  Chunked(<<Chunks!Chunk>>, 1)
<1> DEFINE a == <<Chunks!Chunk>>
<1>0. a \in Seq(ChunkSet) /\ Len(a) = 1
  BY EmptyChunk
<1>1. a[1] = Chunks!Chunk
  OBVIOUS
<1> HIDE DEF a
<1>2. a \in [1 .. 1 -> ChunkSet]
  BY <1>0
<1>3. \A i \in 1 .. 1 : \A x \in 1 .. a[i].count : a[i].items[x] \in Data
  BY <1>1, EmptyChunk
<1>4. Chunked(a, 1)
  BY <1>2, <1>3 DEF Chunked
<1> QED
  BY <1>4 DEF a

\* Chunks that count nothing hold nothing.
LEMMA NothingHeld ==
  ASSUME NEW a, NEW K, Chunked(a, K), \A i \in 1 .. K : a[i].count = 0
  PROVE  Chunks!DataOf(a) = <<>>
<1>1. PICK f : FromIs(f, a, K) /\ Chunks!DataOf(a) = f[1]
  BY ChunkValues
<1> DEFINE B == {i \in 1 .. K + 1 : HeldFrom(f, i) = 0}
<1>2. K \in Nat \ {0} /\ 1 \in 1 .. K + 1 /\ K + 1 \in 1 .. K + 1 /\ HeldFrom(f, K + 1) = 0
  BY <1>1, ChunkLengths
<1>3. K + 1 \in B
  BY <1>2
<1>4. \A i \in 1 .. K : i + 1 \in B => i \in B
  <2> SUFFICES ASSUME NEW i \in 1 .. K, i + 1 \in B PROVE i \in B
    OBVIOUS
  <2>1. i \in 1 .. K + 1 /\ HeldFrom(f, i) = a[i].count + HeldFrom(f, i + 1)
    BY <1>1, <1>2, ChunkLengths
  <2> QED
    BY <2>1
<1>5. 1 \in B
  <2> HIDE DEF B
  <2> QED
    BY <1>2, <1>3, <1>4, Downward
<1>6. f[1] \in Seq(Data) /\ Len(f[1]) = 0
  BY <1>1, <1>2, <1>5 DEF FromIs, HeldFrom
<1> QED
  BY <1>1, <1>6

-----------------------------------------------------------------------------
\* One more chunk holds nothing, and there is room in it.

LEMMA OneChunkMore ==
  ASSUME NEW a, NEW K, Chunked(a, K), \A i \in 1 .. K : a[i].count = ChunkSize
  PROVE  LET u == Append(a, Chunks!Chunk)
         IN  Chunked(u, K + 1) /\ Chunks!DataOf(u) = Chunks!DataOf(a)
<1> DEFINE u == Append(a, Chunks!Chunk)
<1>1. K \in Nat \ {0} /\ a \in [1 .. K -> ChunkSet] /\ Len(a) = K /\ a \in Seq(ChunkSet)
  BY DEF Chunked
<1>2. u \in Seq(ChunkSet) /\ Len(u) = K + 1
  BY <1>1, EmptyChunk
<1>3. u[K + 1] = Chunks!Chunk /\ \A i \in 1 .. K : u[i] = a[i]
  BY <1>1
<1> HIDE DEF u
<1>4. u \in [1 .. K + 1 -> ChunkSet]
  BY <1>2
<1>5. ASSUME NEW i \in 1 .. K + 1 PROVE \A x \in 1 .. u[i].count : u[i].items[x] \in Data
  <2>1. CASE i = K + 1
    BY <1>3, <2>1, EmptyChunk
  <2>2. CASE i # K + 1
    <3>1. i \in 1 .. K
      BY <1>1, <2>2
    <3> QED
      BY <1>3, <3>1 DEF Chunked
  <2> QED
    BY <2>1, <2>2
<1>6. ASSUME NEW i \in 2 .. K + 1 PROVE u[i - 1].count = ChunkSize
  <2>1. i - 1 \in 1 .. K
    BY <1>1
  <2> QED
    BY <1>3, <2>1
<1>7. Chunked(u, K + 1)
  <2>1. K + 1 \in Nat \ {0}
    BY <1>1
  <2> QED
    BY <1>4, <1>5, <1>6, <2>1 DEF Chunked
<1>8. PICK f : FromIs(f, a, K) /\ Chunks!DataOf(a) = f[1]
  BY ChunkValues
<1>9. PICK h : FromIs(h, u, K + 1) /\ Chunks!DataOf(u) = h[1]
  BY <1>7, ChunkValues
<1> DEFINE B == {i \in 1 .. K + 1 : h[i] = f[i]}
<1>10. K + 1 \in B
  <2>1. K + 1 \in 1 .. K + 1
    BY <1>1
  <2>2. u[K + 1].count = 0
    BY <1>3, EmptyChunk
  <2>3. HeldFrom(h, K + 1) = u[K + 1].count + HeldFrom(h, (K + 1) + 1)
        /\ HeldFrom(h, (K + 1) + 1) = 0
    BY <1>7, <1>9, <2>1, ChunkLengths
  <2>4. h[K + 1] \in Seq(Data)
    <3>1. K + 1 \in 1 .. (K + 1) + 1
      BY <1>1
    <3> QED
      BY <1>9, <3>1 DEF FromIs
  <2>5. Len(h[K + 1]) = 0
    BY <2>2, <2>3 DEF HeldFrom
  <2>6. h[K + 1] = <<>>
    BY <2>4, <2>5
  <2> QED
    BY <1>8, <2>1, <2>6 DEF FromIs
<1>11. \A i \in 1 .. K : i + 1 \in B => i \in B
  <2> SUFFICES ASSUME NEW i \in 1 .. K, i + 1 \in B PROVE i \in B
    OBVIOUS
  <2>1. i \in 1 .. K + 1 /\ h[i + 1] = f[i + 1]
    BY <1>1
  <2>2. h[i] = Chunks!Held(u[i]) \o h[i + 1] /\ f[i] = Chunks!Held(a[i]) \o f[i + 1]
    BY <1>8, <1>9, <2>1 DEF FromIs
  <2>3. u[i] = a[i]
    BY <1>3
  <2> QED
    BY <2>1, <2>2, <2>3
<1>12. 1 \in B
  <2>1. 1 \in 1 .. K + 1
    BY <1>1
  <2> HIDE DEF B
  <2> QED
    BY <1>1, <1>10, <1>11, <2>1, Downward
<1>13. Chunked(u, K + 1) /\ Chunks!DataOf(u) = Chunks!DataOf(a)
  BY <1>7, <1>8, <1>9, <1>12
<1> QED
  BY <1>13 DEF u

\* The first chunk with room.
RoomAt(a, K, i) ==
  i \in 1 .. K /\ a[i].count < ChunkSize /\ \A j \in 1 .. i - 1 : a[j].count = ChunkSize

LEMMA RoomFound ==
  ASSUME NEW a, NEW K, Chunked(a, K), ~\A i \in 1 .. K : a[i].count = ChunkSize
  PROVE  RoomAt(a, K, CHOOSE j \in DOMAIN a : Chunks!HasRoom(a, j))
<1> DEFINE R == {i \in 1 .. K : a[i].count # ChunkSize}
<1>1. K \in Nat \ {0} /\ DOMAIN a = 1 .. K /\ \A i \in 1 .. K : a[i].count \in 0 .. ChunkSize
  <2>1. PICK f : FromIs(f, a, K)
    BY ChunkValues
  <2> QED
    BY <2>1, ChunkLengths
<1>2. \A c : Chunks!Full(c) <=> c.count = ChunkSize
  BY DEF Chunks!Full
<1>3. \A j : Chunks!HasRoom(a, j)
             <=> (a[j].count # ChunkSize /\ \A m \in 1 .. j - 1 : a[m].count = ChunkSize)
  BY <1>2 DEF Chunks!HasRoom
<1>4. PICK i \in R : \A j \in R : i <= j
  <2>1. R \in SUBSET Nat /\ R # {}
    OBVIOUS
  <2> HIDE DEF R
  <2> QED
    BY <2>1, LeastNumber
<1>5. \A m \in 1 .. i - 1 : a[m].count = ChunkSize
  <2> SUFFICES ASSUME NEW m \in 1 .. i - 1 PROVE a[m].count = ChunkSize
    OBVIOUS
  <2>1. m \in 1 .. K /\ ~(i <= m)
    BY <1>1, <1>4
  <2>2. m \notin R
    BY <1>4, <2>1
  <2> QED
    BY <2>1, <2>2
<1>6. i \in DOMAIN a /\ Chunks!HasRoom(a, i)
  BY <1>1, <1>3, <1>4, <1>5
<1> DEFINE r == CHOOSE j \in DOMAIN a : Chunks!HasRoom(a, j)
<1>7. r \in DOMAIN a /\ Chunks!HasRoom(a, r)
  BY <1>6
<1> HIDE DEF r
<1>8. r \in 1 .. K /\ a[r].count # ChunkSize /\ \A j \in 1 .. r - 1 : a[j].count = ChunkSize
  BY <1>1, <1>3, <1>7
<1>9. a[r].count < ChunkSize
  <2>1. a[r].count \in 0 .. ChunkSize /\ ChunkSize \in Nat
    BY <1>1, <1>8, ListsAssumption
  <2> QED
    BY <1>8, <2>1
<1>10. RoomAt(a, K, r)
  BY <1>8, <1>9 DEF RoomAt
<1> QED
  BY <1>10 DEF r

\* b is a with d put into chunk i.
PutInto(b, a, K, i, d) ==
  /\ DOMAIN b = 1 .. K /\ b \in [1 .. K -> ChunkSet]
  /\ \A j \in 1 .. K : j # i => b[j] = a[j]
  /\ b[i].count = a[i].count + 1 /\ b[i].items = [a[i].items EXCEPT ![a[i].count + 1] = d]

LEMMA PutIntoIs ==
  ASSUME NEW a, NEW K, Chunked(a, K), NEW i, RoomAt(a, K, i), NEW d \in Data
  PROVE  PutInto([a EXCEPT ![i].items[a[i].count + 1] = d, ![i].count = @ + 1], a, K, i, d)
<1> DEFINE c == a[i].count
           e == [[a[i] EXCEPT !.items[c + 1] = d] EXCEPT !.count = c + 1]
           b == [a EXCEPT ![i].items[c + 1] = d, ![i].count = @ + 1]
<1>1. i \in 1 .. K /\ c < ChunkSize /\ a \in [1 .. K -> ChunkSet] /\ a[i] \in ChunkSet
  BY DEF RoomAt, Chunked
<1>2. c \in 0 .. ChunkSize /\ a[i].items \in [1 .. ChunkSize -> Data \cup {None}]
      /\ ChunkSize \in Nat
  BY <1>1, ListsAssumption DEF ChunkSet
<1>3. c + 1 \in 0 .. ChunkSize /\ c + 1 \in 1 .. ChunkSize
  BY <1>1, <1>2
<1>4. DOMAIN b = 1 .. K /\ b = [j \in 1 .. K |-> b[j]]
  BY <1>1
<1>5. \A j \in 1 .. K : j # i => b[j] = a[j]
  BY <1>1
<1>6. b[i].count = c + 1 /\ b[i].items = [a[i].items EXCEPT ![c + 1] = d]
  BY <1>1 DEF ChunkSet
<1>7. b[i] \in ChunkSet
  <2>1. b[i] = [a[i] EXCEPT !.items = [a[i].items EXCEPT ![c + 1] = d], !.count = c + 1]
    BY <1>1 DEF ChunkSet
  <2>2. [a[i].items EXCEPT ![c + 1] = d] \in [1 .. ChunkSize -> Data \cup {None}]
    BY <1>2, <1>3
  <2> HIDE DEF b, c
  <2> QED
    BY <1>1, <1>3, <2>1, <2>2 DEF ChunkSet
<1>8. b \in [1 .. K -> ChunkSet]
  <2> HIDE DEF b
  <2>1. \A j \in 1 .. K : b[j] \in ChunkSet
    BY <1>1, <1>5, <1>7
  <2> QED
    BY <1>4, <2>1
<1>9. PutInto(b, a, K, i, d)
  <2> HIDE DEF b
  <2> QED
    BY <1>4, <1>5, <1>6, <1>8 DEF PutInto, c
<1> QED
  BY <1>9 DEF b, c

-----------------------------------------------------------------------------
LEMMA PutIntoChunked ==
  ASSUME NEW a, NEW K, Chunked(a, K), NEW i, RoomAt(a, K, i), NEW d \in Data,
         NEW b, PutInto(b, a, K, i, d)
  PROVE  Chunked(b, K)
<1> DEFINE c == a[i].count
<1>1. K \in Nat \ {0} /\ ChunkSize \in Nat \ {0} /\ i \in 1 .. K /\ a[i] \in ChunkSet
  BY ListsAssumption DEF Chunked, RoomAt
<1>2. c \in 0 .. ChunkSize /\ a[i].items \in [1 .. ChunkSize -> Data \cup {None}]
      /\ c < ChunkSize
  BY <1>1 DEF ChunkSet, RoomAt
<1>3. b \in [1 .. K -> ChunkSet] /\ b[i].count = c + 1
      /\ b[i].items = [a[i].items EXCEPT ![c + 1] = d]
      /\ \A j \in 1 .. K : j # i => b[j] = a[j]
  BY DEF PutInto
<1>4. \A j \in 1 .. K : \A x \in 1 .. a[j].count : a[j].items[x] \in Data
  BY DEF Chunked
<1>5. \A j \in 2 .. K : a[j].count > 0 => a[j - 1].count = ChunkSize
  BY DEF Chunked
<1>6. \A j \in 1 .. i - 1 : a[j].count = ChunkSize
  BY DEF RoomAt
<1> HIDE DEF c
<1>7. ASSUME NEW j \in 1 .. K PROVE \A x \in 1 .. b[j].count : b[j].items[x] \in Data
  <2>1. CASE j = i
    <3> SUFFICES ASSUME NEW x \in 1 .. c + 1 PROVE b[i].items[x] \in Data
      BY <1>3, <2>1
    <3>1. x \in 1 .. ChunkSize /\ c + 1 \in 1 .. ChunkSize
      BY <1>1, <1>2
    <3>2. CASE x = c + 1
      BY <1>2, <1>3, <3>1, <3>2
    <3>3. CASE x # c + 1
      <4>1. x \in 1 .. a[i].count
        BY <1>2, <3>3 DEF c
      <4>2. a[i].items[x] \in Data
        BY <1>1, <1>4, <4>1
      <4> QED
        BY <1>2, <1>3, <3>1, <3>3, <4>2
    <3> QED
      BY <3>2, <3>3
  <2>2. CASE j # i
    BY <1>3, <1>4, <2>2
  <2> QED
    BY <2>1, <2>2
<1>8. ASSUME NEW j \in 2 .. K, b[j].count > 0 PROVE b[j - 1].count = ChunkSize
  <2>0. j \in 1 .. K /\ j - 1 \in 1 .. K
    BY <1>1
  <2>1. CASE j = i
    <3>1. j - 1 \in 1 .. i - 1 /\ j - 1 # i
      BY <1>1, <2>1
    <3> QED
      BY <1>3, <1>6, <2>0, <3>1
  <2>2. CASE j # i
    <3>1. a[j].count > 0 /\ a[j - 1].count = ChunkSize
      BY <1>3, <1>5, <1>8, <2>0, <2>2
    <3>2. j - 1 # i
      <4>1. ASSUME j - 1 = i PROVE FALSE
        <5>1. c = ChunkSize
          BY <3>1, <4>1 DEF c
        <5> QED
          BY <1>1, <1>2, <5>1
      <4> QED
        BY <4>1
    <3> QED
      BY <1>3, <2>0, <3>1, <3>2
  <2> QED
    BY <2>1, <2>2
<1> QED
  BY <1>1, <1>3, <1>7, <1>8 DEF Chunked

\* What is put into the first chunk with room comes last.
LEMMA PutIntoValues ==
  ASSUME NEW a, NEW K, Chunked(a, K), NEW f, FromIs(f, a, K), NEW i, RoomAt(a, K, i),
         NEW d \in Data, NEW b, PutInto(b, a, K, i, d), NEW h, FromIs(h, b, K)
  PROVE  h[1] = Append(f[1], d)
<1> DEFINE c == a[i].count
           B == {j \in 1 .. K + 1 : IF j <= i THEN h[j] = Append(f[j], d) ELSE h[j] = f[j]}
<1>0. Chunked(b, K)
  BY PutIntoChunked
<1>1. /\ K \in Nat \ {0} /\ ChunkSize \in Nat \ {0} /\ i \in 1 .. K
      /\ c \in 0 .. ChunkSize /\ c < ChunkSize
  BY ChunkLengths, ListsAssumption DEF RoomAt
<1>2. b[i].count = c + 1 /\ b[i].items = [a[i].items EXCEPT ![c + 1] = d]
      /\ \A j \in 1 .. K : j # i => b[j] = a[j]
  BY DEF PutInto
<1>3. f[i + 1] = <<>>
  BY <1>1, ChunkEnd
<1>4. \A j \in 1 .. K : f[j] = Chunks!Held(a[j]) \o f[j + 1] /\ h[j] = Chunks!Held(b[j]) \o h[j + 1]
  BY DEF FromIs
<1>5. \A j \in 1 .. K + 1 : f[j] \in Seq(Data) /\ h[j] \in Seq(Data)
  BY DEF FromIs
<1>6. a[i].items \in [1 .. ChunkSize -> Data \cup {None}]
  BY <1>1 DEF Chunked, ChunkSet
<1>7. Chunks!Held(a[i]) \in Seq(Data) /\ Len(Chunks!Held(a[i])) = c
      /\ \A x \in 1 .. c : Chunks!Held(a[i])[x] = a[i].items[x]
  BY <1>1, ChunkHeld
<1>8. Chunks!Held(b[i]) \in Seq(Data) /\ Len(Chunks!Held(b[i])) = c + 1
      /\ \A x \in 1 .. c + 1 : Chunks!Held(b[i])[x] = b[i].items[x]
  <2>1. i \in 1 .. K /\ b[i].count = c + 1
    BY <1>1, <1>2
  <2>2. Chunks!Held(b[i]) \in Seq(Data) /\ Len(Chunks!Held(b[i])) = b[i].count
        /\ \A x \in 1 .. b[i].count : Chunks!Held(b[i])[x] = b[i].items[x]
    BY <1>0, <2>1, ChunkHeld
  <2> HIDE DEF c
  <2> QED
    BY <2>1, <2>2
<1>9. Chunks!Held(b[i]) = Append(Chunks!Held(a[i]), d)
  <2> DEFINE p == Chunks!Held(a[i])
             q1 == Chunks!Held(b[i])
             r == Append(p, d)
  <2>1. r \in Seq(Data) /\ Len(r) = c + 1 /\ r[c + 1] = d /\ \A x \in 1 .. c : r[x] = p[x]
    BY <1>7
  <2>2. \A x \in 1 .. c : q1[x] = p[x]
    <3> SUFFICES ASSUME NEW x \in 1 .. c PROVE q1[x] = p[x]
      OBVIOUS
    <3> HIDE DEF c
    <3>1. x \in 1 .. c + 1 /\ x # c + 1 /\ x \in 1 .. ChunkSize
      BY <1>1
    <3>2. b[i].items[x] = a[i].items[x]
      BY <1>2, <1>6, <3>1
    <3> QED
      BY <1>7, <1>8, <3>1, <3>2
  <2>3. q1[c + 1] = d
    <3> HIDE DEF c
    <3>1. c + 1 \in 1 .. c + 1 /\ c + 1 \in 1 .. ChunkSize
      BY <1>1
    <3> QED
      BY <1>2, <1>6, <1>8, <3>1
  <2>4. q1 \in Seq(Data) /\ Len(q1) = c + 1
    BY <1>8
  <2> HIDE DEF q1, p, r, c
  <2>5. \A x \in 1 .. c + 1 : q1[x] = r[x]
    BY <1>1, <2>1, <2>2, <2>3
  <2>6. q1 = r
    BY <2>1, <2>4, <2>5
  <2> QED
    BY <2>6 DEF q1, p, r
<1> HIDE DEF c
<1>10. K + 1 \in B
  <2>1. K + 1 \in 1 .. K + 1 /\ ~(K + 1 <= i)
    BY <1>1
  <2>2. h[K + 1] = f[K + 1]
    BY DEF FromIs
  <2> QED
    BY <2>1, <2>2
<1>11. \A j \in 1 .. K : j + 1 \in B => j \in B
  <2> SUFFICES ASSUME NEW j \in 1 .. K, j + 1 \in B PROVE j \in B
    OBVIOUS
  <2>0. j \in 1 .. K + 1 /\ j + 1 \in 1 .. K + 1
    BY <1>1
  <2>1. CASE j = i
    <3>1. ~(j + 1 <= i) /\ j <= i
      BY <1>1, <2>1
    <3>2. h[i + 1] = <<>>
      BY <1>3, <2>1, <3>1
    <3>3. h[i] = Chunks!Held(b[i]) \o <<>> /\ f[i] = Chunks!Held(a[i]) \o <<>>
      BY <1>1, <1>3, <1>4, <3>2
    <3>4. h[i] = Chunks!Held(b[i]) /\ f[i] = Chunks!Held(a[i])
      BY <1>7, <1>8, <3>3
    <3> QED
      BY <1>9, <2>0, <2>1, <3>1, <3>4
  <2>2. CASE j < i
    <3>1. j + 1 <= i /\ j <= i /\ j # i
      BY <1>1, <2>2
    <3>2. h[j + 1] = Append(f[j + 1], d) /\ b[j] = a[j]
      BY <1>2, <3>1
    <3>3. Chunks!Held(a[j]) \in Seq(Data) /\ f[j + 1] \in Seq(Data)
      BY <1>5, <2>0, ChunkHeld
    <3>4. h[j] = Chunks!Held(a[j]) \o Append(f[j + 1], d)
      BY <1>4, <3>2
    <3>5. f[j] = Chunks!Held(a[j]) \o f[j + 1]
      BY <1>4
    <3> DEFINE p == Chunks!Held(a[j])
               g == f[j + 1]
    <3>6. p \o Append(g, d) = Append(p \o g, d)
      <4> HIDE DEF p, g
      <4>1. p \in Seq(Data) /\ g \in Seq(Data)
        BY <3>3 DEF p, g
      <4> QED
        BY <4>1
    <3> QED
      BY <2>0, <3>1, <3>4, <3>5, <3>6
  <2>3. CASE j > i
    <3>1. ~(j + 1 <= i) /\ ~(j <= i) /\ j # i
      BY <1>1, <2>3
    <3>2. h[j + 1] = f[j + 1] /\ b[j] = a[j]
      BY <1>2, <3>1
    <3>3. h[j] = f[j]
      BY <1>4, <3>2
    <3> QED
      BY <2>0, <3>1, <3>3
  <2> QED
    BY <1>1, <2>1, <2>2, <2>3
<1>12. 1 \in B
  <2>1. 1 \in 1 .. K + 1
    BY <1>1
  <2> HIDE DEF B
  <2> QED
    BY <1>1, <1>10, <1>11, <2>1, Downward
<1>13. 1 <= i
  BY <1>1
<1> QED
  BY <1>12, <1>13

PutAt(a, i, d) == [a EXCEPT ![i].items[a[i].count + 1] = d, ![i].count = @ + 1]

LEMMA PutLast ==
  ASSUME NEW a, NEW K, Chunked(a, K), NEW i, RoomAt(a, K, i), NEW d \in Data
  PROVE  /\ Chunked(PutAt(a, i, d), K)
         /\ Chunks!DataOf(PutAt(a, i, d)) = Append(Chunks!DataOf(a), d)
<1> DEFINE b == PutAt(a, i, d)
<1>1. PutInto(b, a, K, i, d)
  BY PutIntoIs DEF PutAt
<1> HIDE DEF b
<1>2. Chunked(b, K)
  BY <1>1, PutIntoChunked
<1>3. PICK f : FromIs(f, a, K) /\ Chunks!DataOf(a) = f[1]
  BY ChunkValues
<1>4. PICK h : FromIs(h, b, K) /\ Chunks!DataOf(b) = h[1]
  BY <1>2, ChunkValues
<1>5. h[1] = Append(f[1], d)
  BY <1>1, <1>3, <1>4, PutIntoValues
<1>6. Chunked(b, K) /\ Chunks!DataOf(b) = Append(Chunks!DataOf(a), d)
  BY <1>2, <1>3, <1>4, <1>5
<1> QED
  BY <1>6 DEF b

LEMMA Pushed ==
  ASSUME NEW a, NEW K, Chunked(a, K), NEW d \in Data
  PROVE  \E L : /\ Chunked(Chunks!chunk_array_push(a, d), L)
                /\ Chunks!DataOf(Chunks!chunk_array_push(a, d)) = Append(Chunks!DataOf(a), d)
<1> DEFINE all == \A i \in DOMAIN a : Chunks!Full(a[i])
           u == IF all THEN Append(a, Chunks!Chunk) ELSE a
           i == CHOOSE j \in DOMAIN u : Chunks!HasRoom(u, j)
           b == PutAt(u, i, d)
           L == IF all THEN K + 1 ELSE K
<1>1. Chunks!chunk_array_push(a, d) = b
  BY DEF Chunks!chunk_array_push, PutAt
<1>2. DOMAIN a = 1 .. K /\ K \in Nat \ {0} /\ Len(a) = K
  BY DEF Chunked
<1>3. all <=> \A j \in 1 .. K : a[j].count = ChunkSize
  BY <1>2 DEF Chunks!Full
<1>4. Chunked(u, L) /\ Chunks!DataOf(u) = Chunks!DataOf(a) /\ ~\A j \in 1 .. L : u[j].count = ChunkSize
  <2>1. CASE all
    <3>1. Chunked(Append(a, Chunks!Chunk), K + 1)
          /\ Chunks!DataOf(Append(a, Chunks!Chunk)) = Chunks!DataOf(a)
      BY <1>3, <2>1, OneChunkMore
    <3>2. K + 1 \in 1 .. K + 1 /\ Append(a, Chunks!Chunk)[K + 1] = Chunks!Chunk
      <4>1. a \in Seq(ChunkSet)
        BY DEF Chunked
      <4> QED
        BY <1>2, <4>1, EmptyChunk
    <3>3. Append(a, Chunks!Chunk)[K + 1].count # ChunkSize
      BY <3>2, EmptyChunk, ListsAssumption
    <3>4. u = Append(a, Chunks!Chunk) /\ L = K + 1
      BY <2>1
    <3> HIDE DEF u, L
    <3> QED
      BY <3>1, <3>2, <3>3, <3>4
  <2>2. CASE ~all
    <3>1. u = a /\ L = K
      BY <2>2
    <3> HIDE DEF u, L
    <3> QED
      BY <1>3, <2>2, <3>1
  <2> HIDE DEF all, u, L
  <2> QED
    BY <2>1, <2>2
<1> HIDE DEF u, L
<1>5. RoomAt(u, L, i)
  BY <1>4, RoomFound
<1> HIDE DEF i
<1>6. Chunked(b, L) /\ Chunks!DataOf(b) = Append(Chunks!DataOf(u), d)
  BY <1>4, <1>5, PutLast
<1> HIDE DEF b
<1> QED
  BY <1>1, <1>4, <1>6

-----------------------------------------------------------------------------
\* A step of the array of chunks.

CStepped == SequenceSpec!Next /\ \E K : Chunked(list', K)

LEMMA CShown ==
  ASSUME which = "chunks", NEW K, Chunked(list, K), NEW f, FromIs(f, list, K),
         Chunks!DataOf(list) = f[1]
  PROVE  Shown(f[1], HeldFrom(f, 1)) /\ Chunks!contents = f[1]
<1>1. sequence = f[1] /\ Chunks!contents = f[1]
  BY DEF sequence, Chunks!contents
<1>2. f[1] \in Seq(Data)
  <2>1. 1 \in 1 .. K + 1
    BY ChunkLengths
  <2> QED
    BY <2>1 DEF FromIs
<1>3. Len(f[1]) \in Nat /\ f[1] \in [1 .. Len(f[1]) -> Data]
  BY <1>2
<1> QED
  BY <1>1, <1>3 DEF Shown, IsList, HeldFrom

LEMMA CShownNext ==
  ASSUME which' = "chunks"
  PROVE  IsList' /\ sequence' = Chunks!DataOf(list')
BY DEF IsList, sequence, Chunks!contents, Chunks!DataOf

LEMMA CPlace ==
  ASSUME NEW s, NEW x
  PROVE  Chunks!Place(s, x) = Single!Place(s, x)
BY DEF Chunks!Place, Single!Place, Chunks!Range, Single!Range, Chunks!Min, Single!Min

LEMMA ResetIs ==
  ASSUME NEW a, NEW K, Chunked(a, K)
  PROVE  LET b == [i \in DOMAIN a |-> [a[i] EXCEPT !.count = 0]]
         IN  Chunked(b, K) /\ Chunks!DataOf(b) = <<>>
<1> DEFINE b == [i \in DOMAIN a |-> [a[i] EXCEPT !.count = 0]]
<1>1. K \in Nat \ {0} /\ DOMAIN a = 1 .. K /\ \A i \in 1 .. K : a[i] \in ChunkSet
  BY DEF Chunked
<1>2. \A i \in 1 .. K : b[i] = [a[i] EXCEPT !.count = 0]
  BY <1>1
<1>3. \A i \in 1 .. K : b[i] \in ChunkSet /\ b[i].count = 0
  <2>1. ChunkSize \in Nat
    BY ListsAssumption
  <2>2. \A c \in ChunkSet : [c EXCEPT !.count = 0] \in ChunkSet
                          /\ [c EXCEPT !.count = 0].count = 0
    BY <2>1 DEF ChunkSet
  <2> HIDE DEF b
  <2> QED
    BY <1>1, <1>2, <2>2
<1>4. b \in [1 .. K -> ChunkSet]
  <2>1. b = [i \in 1 .. K |-> b[i]]
    BY <1>1
  <2> HIDE DEF b
  <2> QED
    BY <1>3, <2>1
<1> HIDE DEF b
<1>5. \A i \in 1 .. K : \A x \in 1 .. b[i].count : b[i].items[x] \in Data
  BY <1>3
<1>6. \A i \in 2 .. K : ~(b[i].count > 0)
  <2>1. \A i \in 2 .. K : i \in 1 .. K
    BY <1>1
  <2> QED
    BY <1>3, <2>1
<1>7. Chunked(b, K)
  BY <1>1, <1>4, <1>5, <1>6 DEF Chunked
<1>8. Chunks!DataOf(b) = <<>>
  BY <1>3, <1>7, NothingHeld
<1> QED
  BY <1>7, <1>8 DEF b

LEMMA ChunksStep ==
  ASSUME which = "chunks", which' = "chunks", \E K : Chunked(list, K), Chunks!Next
  PROVE  CStepped
<1>1. PICK K : Chunked(list, K)
  OBVIOUS
<1>2. PICK f : FromIs(f, list, K) /\ Chunks!DataOf(list) = f[1]
  BY <1>1, ChunkValues
<1> DEFINE v == f[1]
           k == HeldFrom(f, 1)
<1>3. Shown(v, k) /\ Chunks!contents = v
  BY <1>1, <1>2, CShown
<1>4. v \in [1 .. k -> Data] /\ k \in Nat /\ v \in Seq(Data)
  BY <1>3 DEF Shown
<1>5. IsList' /\ sequence' = Chunks!DataOf(list')
  BY CShownNext
<1> DEFINE far == MaxChunks * ChunkSize
<1>6. 0 .. far \subseteq Nat
  OBVIOUS
<1> HIDE DEF v, k, far
<1>7. CASE Chunks!Push
  <2>1. PICK d \in Data :
          /\ list' = Chunks!chunk_array_push(list, d)
          /\ out' = [op |-> "insert", at |-> Chunks!Before(list), data |-> d]
    BY <1>7 DEF Chunks!Push
  <2>2. Chunks!Before(list) = k
    BY <1>1, <1>2, BeforeIs DEF k, HeldFrom
  <2>3. PICK L : Chunked(list', L) /\ Chunks!DataOf(list') = Append(Chunks!DataOf(list), d)
    BY <1>1, <2>1, Pushed
  <2>4. sequence' = Append(v, d)
    BY <1>2, <1>5, <2>3 DEF v
  <2>5. sequence' = Inserted(v, k, k, d)
    BY <1>4, <2>4, AppendInserted
  <2>6. k \in 0 .. k
    BY <1>4
  <2>7. SequenceSpec!Next
    BY <1>3, <1>5, <2>1, <2>2, <2>5, <2>6, InsertCall
  <2> QED
    BY <2>3, <2>7 DEF CStepped
<1>8. CASE Chunks!Get
  <2>1. PICK index \in 0 .. far :
          /\ list' = list
          /\ out' = [op |-> "get", at |-> index + 1,
                     data |-> Chunks!chunk_array_get(list, index)]
    BY <1>8 DEF Chunks!Get, far
  <2>2. index \in Nat /\ index + 1 \in Nat
    BY <1>6, <2>1
  <2>3. Chunks!chunk_array_get(list, index) = IF index < k THEN v[index + 1] ELSE None
    BY <1>1, <1>2, <2>2, GetIs DEF ElementAt, k, v
  <2>4. index < k <=> index + 1 \in 1 .. k
    BY <1>4, <2>2
  <2>5. sequence' = v
    BY <1>2, <1>5, <2>1 DEF v
  <2>6. out' = [op |-> "get", at |-> index + 1,
                data |-> IF index + 1 \in 1 .. k THEN v[index + 1] ELSE None]
    BY <2>1, <2>3, <2>4
  <2>7. SequenceSpec!Next
    BY <1>3, <1>5, <2>2, <2>5, <2>6, GetCall
  <2> QED
    BY <1>1, <2>1, <2>7 DEF CStepped
<1>9. CASE Chunks!TakeOff
  <2>1. PICK n \in 0 .. far :
          /\ list' = Chunks!chunk_array_remove(list, n)
          /\ out' = [op |-> "drop", at |-> n, data |-> Chunks!Taken(list, n)[1]]
    BY <1>9 DEF Chunks!TakeOff, far
  <2>2. n \in Nat
    BY <1>6, <2>1
  <2> DEFINE m == IF n < k THEN n ELSE k
  <2>3. Chunks!Taken(list, n)[1] = m
    <3>1. 1 \in 1 .. K + 1
      BY <1>1, <1>2, ChunkLengths
    <3> QED
      BY <1>1, <1>2, <2>2, <3>1, TakenIs DEF Lesser, k
  <2>4. CutBack(list', list, K, f, n)
    BY <1>1, <1>2, <2>1, <2>2, RemovedBack
  <2>5. Chunked(list', K)
    BY <1>1, <1>2, <2>2, <2>4, CutBackChunked
  <2>6. PICK h : FromIs(h, list', K) /\ Chunks!DataOf(list') = h[1]
    BY <2>5, ChunkValues
  <2>7. h[1] = [j \in 1 .. k - m |-> v[j]]
    BY <1>1, <1>2, <2>2, <2>4, <2>6, CutBackValues DEF Lesser, k, v
  <2> HIDE DEF m
  <2>8. m = (IF n < k THEN n ELSE k)
    BY DEF m
  <2>9. sequence' = [j \in 1 .. k - m |-> v[j]]
    BY <1>5, <2>6, <2>7
  <2>10. out' = [op |-> "drop", at |-> n, data |-> m]
    BY <2>1, <2>3
  <2>11. SequenceSpec!Next
    BY <1>3, <1>5, <2>2, <2>8, <2>9, <2>10, DropCall
  <2> QED
    BY <2>5, <2>11 DEF CStepped
<1>10. CASE Chunks!Find
  <2>1. PICK d \in Data :
          list' = list /\ out' = [op |-> "find", at |-> Chunks!Place(v, d), data |-> d]
    BY <1>3, <1>10 DEF Chunks!Find
  <2>2. out' = [op |-> "find", at |-> Single!Place(v, d), data |-> d]
    BY <2>1, CPlace
  <2>3. sequence' = v
    BY <1>2, <1>5, <2>1 DEF v
  <2>4. SequenceSpec!Next
    BY <1>3, <1>5, <2>2, <2>3, FindCall
  <2> QED
    BY <1>1, <2>1, <2>4 DEF CStepped
<1>11. CASE Chunks!Reset
  <2>1. list' = [i \in DOMAIN list |-> [list[i] EXCEPT !.count = 0]] /\ out' = [op |-> "clear"]
    BY <1>11 DEF Chunks!Reset
  <2>2. Chunked(list', K) /\ Chunks!DataOf(list') = <<>>
    BY <1>1, <2>1, ResetIs
  <2>3. SequenceSpec!Next
    BY <1>3, <1>5, <2>1, <2>2, ClearCall
  <2> QED
    BY <2>2, <2>3 DEF CStepped
<1> QED
  BY <1>7, <1>8, <1>9, <1>10, <1>11 DEF Chunks!Next

-----------------------------------------------------------------------------
\* What the lists are is what their type invariants say.

SingleOK == \E s, k : SLinked(list, s, k)
DoubleOK == \E s, k : DLinked(list, s, k)
ChunksOK == \E K : Chunked(list, K)

LEMMA SingleTypes == SingleOK => Single!TypeOK
<1> SUFFICES ASSUME NEW s, NEW k, SLinked(list, s, k) PROVE Single!TypeOK
  BY DEF SingleOK
<1>1. /\ list \in SLists /\ Once(s, k) /\ Links(list.head, list.next, s, k)
      /\ list.tail = (IF k = 0 THEN None ELSE s[k]) /\ list.length = k
  BY DEF SLinked
<1>2. Single!InOrder(list) = s
  BY <1>1, SingleViews
<1>3. k \in Nat /\ DOMAIN s = 1 .. k /\ s = [i \in 1 .. k |-> s[i]]
  BY <1>1 DEF Once
<1>4. s \in Seq({s[i] : i \in 1 .. k}) /\ Len(s) = k
  BY <1>3
<1>5. list.head \in Nodes \cup {None}
  BY <1>1 DEF SLists
<1>6. list.tail = IF s = <<>> THEN None ELSE s[Len(s)]
  <2>1. s = <<>> <=> k = 0
    BY <1>3, <1>4
  <2> QED
    BY <1>1, <1>4, <2>1
<1>7. s # <<>> => list.next[list.tail] = None
  <2> SUFFICES ASSUME s # <<>> PROVE list.next[list.tail] = None
    OBVIOUS
  <2>1. k # 0
    BY <1>3, <1>4
  <2>2. k \in 1 .. k /\ ~(k + 1 \in 1 .. k)
    BY <1>3, <2>1
  <2>3. list.next[s[k]] = NodeAt(s, k, k + 1)
    BY <1>1, <2>2 DEF Links
  <2> QED
    BY <1>1, <1>3, <2>1, <2>2, <2>3 DEF NodeAt
<1> QED
  BY <1>1, <1>2, <1>4, <1>5, <1>6, <1>7 DEF Single!TypeOK

LEMMA DoubleTypes == DoubleOK => Double!TypeOK
<1> SUFFICES ASSUME NEW s, NEW k, DLinked(list, s, k) PROVE Double!TypeOK
  BY DEF DoubleOK
<1>1. /\ Once(s, k) /\ list.length = k /\ k \in Nat /\ DOMAIN s = 1 .. k
      /\ list.head = (IF k = 0 THEN None ELSE s[1]) /\ list.tail = (IF k = 0 THEN None ELSE s[k])
      /\ \A i \in 1 .. k : s[i] \in Nodes /\ s[i] # None
      /\ \A i \in 1 .. k : list.next[s[i]] = s[Onward(k, i)]
  BY DFacts
<1>2. Double!InOrder(list) = s /\ Double!Range(s) = {s[i] : i \in 1 .. k}
  BY DoubleViews
<1>3. Double!Cardinality(Double!Range(s)) = k
  <2>1. \A A : Double!Cardinality(A) = Cardinality(A)
    BY DEF Cardinality, Double!Cardinality
  <2> QED
    BY <1>1, <1>2, <2>1, RangeSize
<1>4. (k = 0) = (list.head = None) /\ (k = 0) = (list.tail = None)
  <2>1. k # 0 => 1 \in 1 .. k /\ k \in 1 .. k
    BY <1>1
  <2> QED
    BY <1>1, <2>1
<1>5. k > 0 => s[Len(s)] = list.tail /\ list.next[list.tail] = list.head
  <2> SUFFICES ASSUME k > 0 PROVE s[Len(s)] = list.tail /\ list.next[list.tail] = list.head
    OBVIOUS
  <2>1. k # 0 /\ k \in 1 .. k /\ Onward(k, k) = 1
    BY <1>1 DEF Onward
  <2>2. Len(s) = k
    BY <1>1 DEF Once
  <2> QED
    BY <1>1, <2>1, <2>2
<1>6. Double!Walk(list.prev, list.tail, k) = [i \in DOMAIN s |-> s[Len(s) - i + 1]]
  BY DoubleBack
<1> QED
  BY <1>1, <1>2, <1>3, <1>4, <1>5, <1>6 DEF Double!TypeOK

LEMMA ChunksTypes == ChunksOK => Chunks!TypeOK
<1> SUFFICES ASSUME NEW K, Chunked(list, K) PROVE Chunks!TypeOK
  BY DEF ChunksOK
<1>1. K \in Nat \ {0} /\ Len(list) = K /\ DOMAIN list = 1 .. K
  BY DEF Chunked
<1>2. \A i \in 1 .. K : list[i].count \in 0 .. ChunkSize
  BY DEF Chunked, ChunkSet
<1>3. \A i \in 2 .. K : list[i].count > 0 => Chunks!Full(list[i - 1])
  BY DEF Chunked, Chunks!Full
<1>4. list # <<>>
  BY <1>1
<1> QED
  BY <1>1, <1>2, <1>3, <1>4 DEF Chunks!TypeOK

-----------------------------------------------------------------------------
LEMMA SingleInit ==
  ASSUME which = "single", Single!Init
  PROVE  SingleOK /\ SequenceSpec!Init
<1>1. SLinked(list, <<>>, 0)
  BY EmptyIsLinked DEF Single!Init
<1>2. sequence = Told(list.data, <<>>, 0)
  BY <1>1, SShown DEF Shown
<1>3. sequence = <<>>
  BY <1>2 DEF Told
<1> QED
  BY <1>1, <1>3 DEF SingleOK, SequenceSpec!Init, IsList, Single!Init

LEMMA DoubleInit ==
  ASSUME which = "double", Double!Init
  PROVE  DoubleOK /\ SequenceSpec!Init
<1>1. DLinked(list, <<>>, 0)
  BY DEmpty DEF Double!Init
<1>2. sequence = Told(list.data, <<>>, 0)
  BY <1>1, DShown DEF Shown
<1>3. sequence = <<>>
  BY <1>2 DEF Told
<1> QED
  BY <1>1, <1>3 DEF DoubleOK, SequenceSpec!Init, IsList, Double!Init

LEMMA ChunksInit ==
  ASSUME which = "chunks", Chunks!Init
  PROVE  ChunksOK /\ SequenceSpec!Init
<1>1. Chunked(list, 1) /\ list = <<Chunks!Chunk>>
  BY EmptyArray DEF Chunks!Init
<1>2. \A i \in 1 .. 1 : list[i].count = 0
  BY <1>1, EmptyChunk
<1>3. Chunks!DataOf(list) = <<>>
  BY <1>1, <1>2, NothingHeld
<1>4. sequence = <<>>
  BY <1>3 DEF sequence, Chunks!contents
<1> QED
  BY <1>1, <1>4 DEF ChunksOK, SequenceSpec!Init, IsList, Chunks!Init

-----------------------------------------------------------------------------

\* Elements that go round in an array of C slots: m of them from slot t on.

Arrays(C, S)    == [0 .. C - 1 -> S]
Slot(C, x)      == x % C
Lap(d, C, t, m) == [i \in 1 .. m |-> d[Slot(C, t + i - 1)]]

IsLap(u, d, C, S, t, m) ==
  /\ u \in Seq(S) /\ Len(u) = m
  /\ \A i \in 1 .. m : u[i] = d[Slot(C, t + i - 1)]

\* The same m elements, and n new ones, from slot t on.
Same(e, d, C, t, m)  == \A i \in 1 .. m : e[Slot(C, t + i - 1)] = d[Slot(C, t + i - 1)]
Holds(e, s, C, t, n) == \A j \in 1 .. n : e[Slot(C, t + j - 1)] = s[j]

LEMMA Wrapped ==
  ASSUME NEW C \in Nat \ {0}, NEW x \in 0 .. 2 * C - 1
  PROVE  Slot(C, x) = (IF x < C THEN x ELSE x - C) /\ Slot(C, x) \in 0 .. C - 1
BY DEF Slot

LEMMA Joined ==
  ASSUME NEW S, NEW s \in Seq(S), NEW t \in Seq(S), NEW u \in Seq(S),
         Len(u) = Len(s) + Len(t),
         \A i \in 1 .. Len(s) : u[i] = s[i],
         \A i \in 1 .. Len(t) : u[Len(s) + i] = t[i]
  PROVE  u = s \o t
<1>1. /\ s \o t \in Seq(S) /\ Len(s \o t) = Len(s) + Len(t)
      /\ \A i \in 1 .. Len(s) + Len(t) :
           (s \o t)[i] = IF i <= Len(s) THEN s[i] ELSE t[i - Len(s)]
  BY ConcatProperties
<1>2. Len(s) \in Nat /\ Len(t) \in Nat
  BY LenProperties
<1>3. ASSUME NEW i \in 1 .. Len(u) PROVE u[i] = (s \o t)[i]
  <2>1. CASE i <= Len(s)
    BY <1>1, <1>2, <2>1
  <2>2. CASE i > Len(s)
    <3>1. i - Len(s) \in 1 .. Len(t) /\ i = Len(s) + (i - Len(s))
      BY <1>2, <2>2
    <3>2. u[i] = t[i - Len(s)]
      BY <3>1
    <3> QED
      BY <1>1, <1>2, <2>2, <3>2
  <2> QED
    BY <1>2, <2>1, <2>2
<1> QED
  BY <1>1, <1>3, SeqEqual

LEMMA LapSeq ==
  ASSUME NEW C \in Nat \ {0}, NEW S, NEW d \in Arrays(C, S),
         NEW t \in 0 .. C - 1, NEW m \in 0 .. C
  PROVE  IsLap(Lap(d, C, t, m), d, C, S, t, m)
<1>1. \A i \in 1 .. m : d[Slot(C, t + i - 1)] \in S
  <2> SUFFICES ASSUME NEW i \in 1 .. m PROVE d[Slot(C, t + i - 1)] \in S
    OBVIOUS
  <2>1. t + i - 1 \in 0 .. 2 * C - 1
    OBVIOUS
  <2>2. Slot(C, t + i - 1) \in 0 .. C - 1
    BY <2>1, Wrapped
  <2> QED
    BY <2>2 DEF Arrays
<1> QED
  BY <1>1 DEF Lap, IsLap

\* Elements put behind the last one, wherever that is in the array.
Front(s, n) == SubSeq(s, 1, n)

PutBehind(C, S, d, e, t, m, n, s, y, z) ==
  /\ C \in Nat \ {0} /\ d \in Arrays(C, S) /\ e \in Arrays(C, S)
  /\ t \in 0 .. C - 1 /\ m \in 0 .. C /\ n \in 0 .. C - m
  /\ s \in Seq(S) /\ n <= Len(s) /\ y = t + m /\ z = m + n
  /\ Same(e, d, C, t, m) /\ Holds(e, s, C, y, n)

LEMMA LapPut ==
  ASSUME NEW C, NEW S, NEW d, NEW e, NEW t, NEW m, NEW n, NEW s, NEW y, NEW z,
         PutBehind(C, S, d, e, t, m, n, s, y, z)
  PROVE  Lap(e, C, t, z) = Lap(d, C, t, m) \o Front(s, n)
<1> USE DEF PutBehind
<1>0. m + n \in 0 .. C
  OBVIOUS
<1>1. IsLap(Lap(e, C, t, m + n), e, C, S, t, m + n)
  BY <1>0, LapSeq
<1>2. IsLap(Lap(d, C, t, m), d, C, S, t, m)
  BY LapSeq
<1>3. /\ Front(s, n) \in Seq(S) /\ Len(Front(s, n)) = n
      /\ \A i \in 1 .. n : Front(s, n)[i] = s[i]
  <2>1. Len(s) \in Nat
    BY LenProperties
  <2>2. \A i \in 1 .. n : s[i] \in S
    BY <2>1, ElementOfSeq
  <2> QED
    BY <2>2, SubSeqProperties DEF Front
<1>4. \A i \in 1 .. m : Lap(e, C, t, m + n)[i] = Lap(d, C, t, m)[i]
  BY <1>1, <1>2 DEF IsLap, Same
<1>5. ASSUME NEW i \in 1 .. n
      PROVE  Lap(e, C, t, m + n)[m + i] = Front(s, n)[i]
  <2>1. m + i \in 1 .. m + n /\ t + (m + i) - 1 = t + m + i - 1
    OBVIOUS
  <2>2. Lap(e, C, t, m + n)[m + i] = e[Slot(C, t + m + i - 1)]
    BY <1>1, <2>1 DEF IsLap
  <2> QED
    BY <1>3, <2>2 DEF Holds
<1>6. /\ Len(Lap(e, C, t, m + n)) = Len(Lap(d, C, t, m)) + Len(Front(s, n))
      /\ \A i \in 1 .. Len(Lap(d, C, t, m)) : Lap(e, C, t, m + n)[i] = Lap(d, C, t, m)[i]
      /\ \A i \in 1 .. Len(Front(s, n)) :
           Lap(e, C, t, m + n)[Len(Lap(d, C, t, m)) + i] = Front(s, n)[i]
  BY <1>1, <1>2, <1>3, <1>4, <1>5 DEF IsLap
<1> QED
  BY <1>1, <1>2, <1>3, <1>6, Joined DEF IsLap

\* Elements taken from the front.
TakenFrom(C, S, d, t, m, n, b, r) ==
  /\ C \in Nat \ {0} /\ d \in Arrays(C, S)
  /\ t \in 0 .. C - 1 /\ m \in 0 .. C /\ n \in 0 .. m
  /\ b = Slot(C, t + n) /\ r = m - n

LEMMA LapTake ==
  ASSUME NEW C, NEW S, NEW d, NEW t, NEW m, NEW n, NEW b, NEW r,
         TakenFrom(C, S, d, t, m, n, b, r)
  PROVE  Lap(d, C, t, m) = Lap(d, C, t, n) \o Lap(d, C, b, r)
<1> USE DEF TakenFrom
<1>1. t + n \in 0 .. 2 * C - 1 /\ m - n \in 0 .. C /\ n \in 0 .. C
  OBVIOUS
<1>2. PICK a \in 0 .. C - 1 :
        a = Slot(C, t + n) /\ a = IF t + n < C THEN t + n ELSE t + n - C
  BY <1>1, Wrapped
<1>3. IsLap(Lap(d, C, t, m), d, C, S, t, m)
  BY LapSeq
<1>4. IsLap(Lap(d, C, a, m - n), d, C, S, a, m - n)
  BY <1>1, LapSeq
<1>5. IsLap(Lap(d, C, t, n), d, C, S, t, n)
  BY <1>1, LapSeq
<1>6. ASSUME NEW i \in 1 .. m - n
      PROVE  Lap(d, C, t, m)[n + i] = Lap(d, C, a, m - n)[i]
  <2>1. t + (n + i) - 1 \in 0 .. 2 * C - 1 /\ a + i - 1 \in 0 .. 2 * C - 1
    BY <1>2
  <2>2. /\ Slot(C, t + (n + i) - 1)
             = IF t + (n + i) - 1 < C THEN t + (n + i) - 1 ELSE t + (n + i) - 1 - C
        /\ Slot(C, a + i - 1) = IF a + i - 1 < C THEN a + i - 1 ELSE a + i - 1 - C
    BY <2>1, Wrapped
  <2>3. Slot(C, t + (n + i) - 1) = Slot(C, a + i - 1)
    BY <1>2, <2>2
  <2>4. n + i \in 1 .. m
    OBVIOUS
  <2> QED
    BY <1>3, <1>4, <2>3, <2>4 DEF IsLap
<1>7. /\ Len(Lap(d, C, t, m)) = Len(Lap(d, C, t, n)) + Len(Lap(d, C, a, m - n))
      /\ \A i \in 1 .. Len(Lap(d, C, t, n)) : Lap(d, C, t, m)[i] = Lap(d, C, t, n)[i]
      /\ \A i \in 1 .. Len(Lap(d, C, a, m - n)) :
           Lap(d, C, t, m)[Len(Lap(d, C, t, n)) + i] = Lap(d, C, a, m - n)[i]
  <2>1. Len(Lap(d, C, t, m)) = m /\ Len(Lap(d, C, t, n)) = n /\ Len(Lap(d, C, a, m - n)) = m - n
    BY <1>3, <1>4, <1>5 DEF IsLap
  <2>2. ASSUME NEW i \in 1 .. n PROVE Lap(d, C, t, m)[i] = Lap(d, C, t, n)[i]
    <3>1. i \in 1 .. m
      OBVIOUS
    <3> QED
      BY <1>3, <1>5, <3>1 DEF IsLap
  <2> QED
    BY <1>6, <2>1, <2>2
<1>8. Lap(d, C, t, m) = Lap(d, C, t, n) \o Lap(d, C, a, m - n)
  BY <1>3, <1>4, <1>5, <1>7, Joined DEF IsLap
<1> QED
  BY <1>2, <1>8

LEMMA SlotTwice ==
  ASSUME NEW C \in Nat \ {0}, NEW t \in 0 .. C - 1, NEW m \in 0 .. C, NEW n \in 0 .. C - 1
  PROVE  Slot(C, Slot(C, t + m) + n) = Slot(C, (t + m) + n)
<1>1. t + m \in 0 .. 2 * C - 1
  OBVIOUS
<1>2. PICK a \in 0 .. C - 1 :
        a = Slot(C, t + m) /\ a = IF t + m < C THEN t + m ELSE t + m - C
  BY <1>1, Wrapped
<1>3. CASE t + m < C
  BY <1>2, <1>3
<1>4. CASE t + m >= C
  <2>1. a + n = (t + m + n) - C /\ a = t + m - C
    BY <1>2, <1>4
  <2> QED
    BY <1>2, <2>1, <1>4 DEF Slot
<1> QED
  BY <1>3, <1>4

-----------------------------------------------------------------------------
\* The ends of a ring: where the next element goes, where the oldest is, and
\* the flag of a full ring, and how many elements they say there are.

Between(C, h, t, f) == IF f THEN C ELSE IF h >= t THEN h - t ELSE C + h - t

LEMMA BetweenEnds ==
  ASSUME NEW C \in Nat \ {0}, NEW h \in 0 .. C - 1,
         NEW t \in 0 .. C - 1, NEW f \in BOOLEAN, f => h = t
  PROVE  /\ Between(C, h, t, f) \in 0 .. C
         /\ Slot(C, t + Between(C, h, t, f)) = h
         /\ f <=> Between(C, h, t, f) = C
<1> DEFINE m == Between(C, h, t, f)
<1>1. m \in 0 .. C /\ (f <=> m = C) /\ m = IF f THEN C ELSE IF h >= t THEN h - t ELSE C + h - t
  BY DEF Between
<1> HIDE DEF m
<1>2. t + m \in 0 .. 2 * C - 1
  BY <1>1
<1>3. Slot(C, t + m) = IF t + m < C THEN t + m ELSE t + m - C
  BY <1>1, <1>2, Wrapped
<1>4. Slot(C, t + m) = h
  BY <1>1, <1>3
<1> QED
  BY <1>1, <1>4 DEF m

\* The ends of a ring with m elements, from slot t on, in front of slot h.
LEMMA EndsAround ==
  ASSUME NEW C \in Nat \ {0}, NEW t \in 0 .. C - 1, NEW m \in 0 .. C,
         NEW h \in 0 .. C - 1, h = Slot(C, t + m), NEW f \in BOOLEAN, f <=> m = C
  PROVE  (f => h = t) /\ Between(C, h, t, f) = m
<1>1. t + m \in 0 .. 2 * C - 1
  OBVIOUS
<1>2. h \in 0 .. C - 1 /\ h = IF t + m < C THEN t + m ELSE t + m - C
  BY <1>1, Wrapped
<1> QED
  BY <1>2 DEF Between

\* Where copies of k elements go, in up to two segments.
Ahead(C, h, t, f)    == IF ~f /\ h < t THEN t - h ELSE C - h
First(C, h, t, f, k) == IF k < Ahead(C, h, t, f) THEN k ELSE Ahead(C, h, t, f)

Segmented(C, h, t, k, n) ==
  /\ n \in 0 .. k /\ h + n <= C
  /\ h < t => h + n <= t /\ n = k
  /\ n < k => h >= t /\ h + n = C /\ k - n <= t

Landed(C, h, t, m, k, n) ==
  /\ \A i \in 1 .. m : /\ Slot(C, t + i - 1) \in 0 .. C - 1
                       /\ Slot(C, t + i - 1) < h \/ Slot(C, t + i - 1) >= h + n
                       /\ n < k => Slot(C, t + i - 1) >= k - n
  /\ \A j \in 1 .. k : Slot(C, t + m + j - 1) = IF j <= n THEN h + j - 1 ELSE j - 1 - n
  /\ n < k => Slot(C, h + n) = 0
  /\ Slot(C, Slot(C, h + n) + (k - n)) = Slot(C, t + (m + k))

LEMMA Segments ==
  ASSUME NEW C \in Nat \ {0}, NEW h \in 0 .. C - 1,
         NEW t \in 0 .. C - 1, NEW f \in BOOLEAN, f => h = t,
         NEW k \in 0 .. C - Between(C, h, t, f), NEW n \in 0 .. C,
         n = First(C, h, t, f, k)
  PROVE  Segmented(C, h, t, k, n)
BY DEF Between, Ahead, First, Segmented

LEMMA SegmentsWrap ==
  ASSUME NEW C \in Nat \ {0}, NEW h \in 0 .. C - 1,
         NEW t \in 0 .. C - 1, NEW f \in BOOLEAN, f => h = t,
         NEW m \in 0 .. C, m = Between(C, h, t, f), NEW k \in 0 .. C - m, NEW n \in 0 .. C,
         n = First(C, h, t, f, k)
  PROVE  Landed(C, h, t, m, k, n)
<1>1. /\ n \in 0 .. k /\ h + n <= C
      /\ h < t => h + n <= t /\ n = k
      /\ n < k => h >= t /\ h + n = C /\ k - n <= t
  BY Segments DEF Segmented
<1>2. m \in 0 .. C /\ Slot(C, t + m) = h
  BY BetweenEnds
<1>3. t \in 0 .. C - 1 /\ h \in 0 .. C - 1 /\ m = (IF f THEN C ELSE IF h >= t THEN h - t ELSE C + h - t)
      /\ (f => h = t) /\ f \in BOOLEAN
  BY DEF Between
<1>4. ASSUME NEW i \in 1 .. m
      PROVE  /\ Slot(C, t + i - 1) \in 0 .. C - 1
             /\ Slot(C, t + i - 1) < h \/ Slot(C, t + i - 1) >= h + n
             /\ n < k => Slot(C, t + i - 1) >= k - n
  <2>1. t + i - 1 \in 0 .. 2 * C - 1
    BY <1>2, <1>3
  <2>2. /\ Slot(C, t + i - 1) = IF t + i - 1 < C THEN t + i - 1 ELSE t + i - 1 - C
        /\ Slot(C, t + i - 1) \in 0 .. C - 1
    BY <2>1, Wrapped
  <2> QED
    BY <1>1, <1>3, <2>2
<1>5. ASSUME NEW j \in 1 .. k
      PROVE  Slot(C, t + m + j - 1) = IF j <= n THEN h + j - 1 ELSE j - 1 - n
  <2>1. j - 1 \in 0 .. C - 1 /\ (t + m) + (j - 1) = t + m + j - 1 /\ h + (j - 1) \in 0 .. 2 * C - 1
    BY <1>2, <1>3
  <2>2. Slot(C, t + m + j - 1) = Slot(C, h + (j - 1))
    <3>1. Slot(C, Slot(C, t + m) + (j - 1)) = Slot(C, (t + m) + (j - 1))
      BY <2>1, SlotTwice
    <3> QED
      BY <1>2, <2>1, <3>1
  <2>3. Slot(C, h + (j - 1)) = IF h + (j - 1) < C THEN h + (j - 1) ELSE h + (j - 1) - C
    BY <2>1, Wrapped
  <2> QED
    BY <1>1, <1>3, <2>2, <2>3
<1>6. h + n \in 0 .. 2 * C - 1
  BY <1>1, <1>3
<1>7. Slot(C, h + n) = IF h + n < C THEN h + n ELSE h + n - C
  BY <1>6, Wrapped
<1>8. n < k => Slot(C, h + n) = 0
  BY <1>1, <1>3, <1>7
<1>9. Slot(C, Slot(C, h + n) + (k - n)) = Slot(C, t + (m + k))
  <2>0. CASE k = C
    <3>1. m = 0 /\ h = t /\ C \in Nat
      BY <1>2, <1>3, <2>0
    <3>2. /\ n < k => Slot(C, h + n) + (k - n) = h
          /\ n = k => Slot(C, h + n) + (k - n) = h
      BY <1>1, <1>3, <1>7, <2>0, <3>1
    <3>3. Slot(C, h) = h /\ Slot(C, t + (m + k)) = h
      <4>1. h \in 0 .. 2 * C - 1 /\ t + (m + k) \in 0 .. 2 * C - 1
        BY <1>3, <2>0, <3>1
      <4>2. /\ Slot(C, h) = (IF h < C THEN h ELSE h - C)
            /\ Slot(C, t + (m + k)) = (IF t + (m + k) < C THEN t + (m + k) ELSE t + (m + k) - C)
        BY <4>1, Wrapped
      <4> QED
        BY <1>3, <2>0, <3>1, <4>2
    <3> QED
      BY <1>1, <3>2, <3>3
  <2>1. CASE k < C
    <3>1. k \in 0 .. C - 1 /\ k - n \in 0 .. C - 1 /\ n \in 0 .. C /\ (h + n) + (k - n) = h + k
          /\ (t + m) + k = t + (m + k)
      BY <1>1, <1>2, <1>3, <2>1
    <3>2. Slot(C, Slot(C, h + n) + (k - n)) = Slot(C, (h + n) + (k - n))
      BY <1>3, <3>1, SlotTwice
    <3>3. Slot(C, Slot(C, t + m) + k) = Slot(C, (t + m) + k)
      BY <1>2, <1>3, <3>1, SlotTwice
    <3> QED
      BY <1>2, <3>1, <3>2, <3>3
  <2> QED
    BY <1>2, <1>3, <2>0, <2>1
<1> QED
  BY <1>4, <1>5, <1>8, <1>9 DEF Landed

IsPaste(e, d, C, S, a, s, n) ==
  /\ e \in Arrays(C, S)
  /\ \A x \in 0 .. C - 1 : x < a \/ x >= a + n => e[x] = d[x]
  /\ \A x \in 0 .. C - 1 : x >= a /\ x < a + n => e[x] = s[x - a + 1]

LEMMA Pasted ==
  ASSUME NEW C \in Nat \ {0}, NEW S, NEW d \in Arrays(C, S), NEW a \in 0 .. C,
         NEW s \in Seq(S)
  PROVE  IsPaste(Ring!Copy(d, a, s), d, C, S, a, s, Len(s))
<1>1. Len(s) \in Nat
  BY LenProperties
<1>2. ASSUME NEW x \in 0 .. C - 1, x \in a .. a + Len(s) - 1 PROVE s[x - a + 1] \in S
  <2>1. x - a + 1 \in 1 .. Len(s)
    BY <1>1, <1>2
  <2> QED
    BY <2>1, ElementOfSeq
<1> QED
  BY <1>1, <1>2 DEF Ring!Copy, Arrays, IsPaste

IsPastedTwice(e, d, C, S, h, k, n, s) ==
  /\ e \in Arrays(C, S)
  /\ \A x \in 0 .. C - 1 :
       (x < h \/ x >= h + n) /\ (n < k => x >= k - n) => e[x] = d[x]
  /\ \A j \in 1 .. n : e[h + j - 1] = s[j]
  /\ \A j \in n + 1 .. k : e[j - 1 - n] = s[j]

\* k elements copied to slot h and after, in two segments when n < k.
LEMMA PastedTwice ==
  ASSUME NEW C \in Nat \ {0}, NEW S, NEW d \in Arrays(C, S),
         NEW h \in 0 .. C - 1, NEW k \in 0 .. C, NEW n \in 0 .. k, h + n <= C,
         NEW a \in 0 .. C - 1, n < k => a = 0 /\ h + n = C /\ k - n <= h,
         NEW s \in Seq(S), k <= Len(s),
         NEW e, e = Ring!Copy(Ring!Copy(d, h, SubSeq(s, 1, n)), a, SubSeq(s, n + 1, k))
  PROVE  IsPastedTwice(e, d, C, S, h, k, n, s)
<1> DEFINE u == SubSeq(s, 1, n)  v == SubSeq(s, n + 1, k)  c == Ring!Copy(d, h, u)
<1>4. Len(s) \in Nat /\ \A i \in 1 .. k : s[i] \in S
  <2>1. Len(s) \in Nat
    BY LenProperties
  <2> QED
    BY <2>1, ElementOfSeq
<1>5. u \in Seq(S) /\ Len(u) = n /\ \A i \in 1 .. n : u[i] = s[i]
  <2>1. \A i \in 1 .. n : s[i] \in S
    BY <1>4
  <2> QED
    BY <2>1, SubSeqProperties
<1>6. v \in Seq(S) /\ Len(v) = k - n /\ \A i \in 1 .. k - n : v[i] = s[n + i]
  <2>1. \A i \in n + 1 .. k : s[i] \in S
    BY <1>4
  <2>2. n + 1 \in Int /\ k \in Int /\ k - (n + 1) + 1 = k - n /\ (n + 1 <= k <=> n < k)
    OBVIOUS
  <2>3. /\ v \in Seq(S) /\ Len(v) = IF n + 1 <= k THEN k - (n + 1) + 1 ELSE 0
        /\ \A i \in 1 .. k - (n + 1) + 1 : v[i] = s[(n + 1) + i - 1]
    BY <2>1, <2>2, SubSeqProperties
  <2> QED
    BY <2>2, <2>3
<1>8. e = Ring!Copy(c, a, v)
  OBVIOUS
<1> HIDE DEF u, v, c
<1>7. IsPaste(c, d, C, S, h, u, n)
  <2>1. h \in 0 .. C
    OBVIOUS
  <2>2. IsPaste(Ring!Copy(d, h, u), d, C, S, h, u, Len(u))
    BY <1>5, <2>1, Pasted
  <2> QED
    BY <1>5, <2>2 DEF c
<1>9. IsPaste(e, c, C, S, a, v, k - n)
  <2>1. c \in Arrays(C, S) /\ a \in 0 .. C
    BY <1>7 DEF IsPaste
  <2>2. IsPaste(Ring!Copy(c, a, v), c, C, S, a, v, Len(v))
    BY <1>6, <2>1, Pasted
  <2> QED
    BY <1>6, <1>8, <2>2
<1>10. ASSUME NEW x \in 0 .. C - 1, x < h \/ x >= h + n, n < k => x >= k - n
       PROVE  e[x] = d[x]
  <2>1. x < a \/ x >= a + (k - n)
    BY <1>10
  <2>2. e[x] = c[x]
    BY <1>9, <2>1 DEF IsPaste
  <2>3. c[x] = d[x]
    BY <1>7, <1>10 DEF IsPaste
  <2> QED
    BY <2>2, <2>3
<1>11. ASSUME NEW j \in 1 .. n PROVE e[h + j - 1] = s[j]
  <2>1. PICK x \in 0 .. C - 1 : x = h + j - 1
    OBVIOUS
  <2>2. x >= h /\ x < h + n /\ x - h + 1 = j /\ (x < a \/ x >= a + (k - n))
    BY <2>1
  <2>3. c[x] = u[x - h + 1]
    BY <1>7, <2>2 DEF IsPaste
  <2>4. e[x] = c[x]
    BY <1>9, <2>2 DEF IsPaste
  <2> QED
    BY <1>5, <2>1, <2>2, <2>3, <2>4
<1>12. ASSUME NEW j \in n + 1 .. k PROVE e[j - 1 - n] = s[j]
  <2>1. PICK x \in 0 .. C - 1 : x = j - 1 - n
    OBVIOUS
  <2>2. /\ x >= a /\ x < a + (k - n) /\ x - a + 1 = j - n
        /\ j - n \in 1 .. k - n /\ n + (j - n) = j
    BY <2>1
  <2>3. e[x] = v[x - a + 1]
    BY <1>9, <2>2 DEF IsPaste
  <2>4. v[j - n] = s[n + (j - n)]
    BY <1>6, <2>2
  <2> QED
    BY <2>1, <2>2, <2>3, <2>4
<1> QED
  BY <1>9, <1>10, <1>11, <1>12 DEF IsPaste, IsPastedTwice

\* Copies of k elements behind the last of the m in a ring.
PastedBehind(C, S, d, h, t, f, m, k, s, n, e) ==
  /\ C \in Nat \ {0} /\ d \in Arrays(C, S)
  /\ h \in 0 .. C - 1 /\ t \in 0 .. C - 1 /\ f \in BOOLEAN /\ (f => h = t)
  /\ m \in 0 .. C /\ m = Between(C, h, t, f)
  /\ k \in 0 .. C - m /\ s \in Seq(S) /\ k <= Len(s)
  /\ n \in 0 .. C /\ n = First(C, h, t, f, k)
  /\ e = Ring!Copy(Ring!Copy(d, h, SubSeq(s, 1, n)), Slot(C, h + n), SubSeq(s, n + 1, k))

LEMMA PastedRound ==
  ASSUME NEW C, NEW S, NEW d, NEW h, NEW t, NEW f, NEW m, NEW k, NEW s, NEW n, NEW e,
         PastedBehind(C, S, d, h, t, f, m, k, s, n, e)
  PROVE  /\ e \in Arrays(C, S)
         /\ Same(e, d, C, t, m) /\ Holds(e, s, C, t + m, k)
         /\ Slot(C, Slot(C, h + n) + (k - n)) = Slot(C, t + (m + k))
<1>0. /\ C \in Nat \ {0} /\ d \in Arrays(C, S)
      /\ h \in 0 .. C - 1 /\ t \in 0 .. C - 1 /\ f \in BOOLEAN /\ (f => h = t)
      /\ m \in 0 .. C /\ m = Between(C, h, t, f)
      /\ k \in 0 .. C - m /\ s \in Seq(S) /\ k <= Len(s)
      /\ n \in 0 .. C /\ n = First(C, h, t, f, k)
      /\ e = Ring!Copy(Ring!Copy(d, h, SubSeq(s, 1, n)), Slot(C, h + n), SubSeq(s, n + 1, k))
  BY DEF PastedBehind
<1>1. Segmented(C, h, t, k, n)
  BY <1>0, Segments
<1>2. Landed(C, h, t, m, k, n)
  BY <1>0, SegmentsWrap
<1>3. PICK a \in 0 .. C - 1 : a = Slot(C, h + n)
  <2>1. h + n \in 0 .. 2 * C - 1
    BY <1>0, <1>1 DEF Segmented
  <2> QED
    BY <1>0, <2>1, Wrapped
<1>4. (n < k => a = 0 /\ h + n = C /\ k - n <= h) /\ n \in 0 .. k /\ h + n <= C
  <2>1. n < k => a = 0
    BY <1>2, <1>3 DEF Landed
  <2>2. n \in 0 .. k /\ h + n <= C /\ (n < k => h + n = C /\ k - n <= t /\ h >= t)
    BY <1>1 DEF Segmented
  <2> QED
    BY ONLY <1>0, <2>1, <2>2
<1>5. k \in 0 .. C /\ e = Ring!Copy(Ring!Copy(d, h, SubSeq(s, 1, n)), a, SubSeq(s, n + 1, k))
  <2>1. e = Ring!Copy(Ring!Copy(d, h, SubSeq(s, 1, n)), a, SubSeq(s, n + 1, k))
    BY <1>0, <1>3
  <2>2. k \in 0 .. C
    BY ONLY <1>0
  <2> QED
    BY <2>1, <2>2
<1>6. IsPastedTwice(e, d, C, S, h, k, n, s)
  BY <1>0, <1>4, <1>5, PastedTwice
<1>7. ASSUME NEW i \in 1 .. m PROVE e[Slot(C, t + i - 1)] = d[Slot(C, t + i - 1)]
  BY <1>0, <1>2, <1>6 DEF Landed, IsPastedTwice
<1>8. ASSUME NEW j \in 1 .. k PROVE e[Slot(C, t + m + j - 1)] = s[j]
  <2>0. n \in Nat /\ k \in Nat /\ j \in Nat /\ n <= k
    BY <1>0, <1>4
  <2>1. Slot(C, t + m + j - 1) = IF j <= n THEN h + j - 1 ELSE j - 1 - n
    BY <1>2 DEF Landed
  <2>2. CASE j \in 1 .. n
    <3>1. e[h + j - 1] = s[j]
      BY <1>6, <2>2 DEF IsPastedTwice
    <3> QED
      BY ONLY <2>0, <2>1, <2>2, <3>1
  <2>3. CASE j \in n + 1 .. k
    <3>1. e[j - 1 - n] = s[j]
      BY <1>6, <2>3 DEF IsPastedTwice
    <3> QED
      BY ONLY <2>0, <2>1, <2>3, <3>1
  <2> QED
    BY <2>0, <2>2, <2>3
<1> QED
  BY <1>0, <1>2, <1>6, <1>7, <1>8 DEF Landed, IsPastedTwice, Same, Holds

LEMMA PutAround ==
  ASSUME NEW C \in Nat \ {0}, NEW t \in 0 .. C - 1, NEW m \in 1 .. C,
         NEW h, h = Slot(C, t + m), NEW f \in BOOLEAN, f <=> h = t
  PROVE  h \in 0 .. C - 1 /\ Between(C, h, t, f) = m
<1>1. t + m \in 0 .. 2 * C - 1
  OBVIOUS
<1>2. h \in 0 .. C - 1 /\ h = IF t + m < C THEN t + m ELSE t + m - C
  BY <1>1, Wrapped
<1> QED
  BY <1>2 DEF Between

EndTaken(C, t, m, n, h, a) ==
  /\ C \in Nat \ {0} /\ t \in 0 .. C - 1 /\ m \in 1 .. C /\ n \in 1 .. m
  /\ h = Slot(C, t + m) /\ a = Slot(C, t + n)

LEMMA TakenAround ==
  ASSUME NEW C, NEW t, NEW m, NEW n, NEW h, NEW a, EndTaken(C, t, m, n, h, a),
         NEW f \in BOOLEAN, ~f
  PROVE  a \in 0 .. C - 1 /\ Between(C, h, a, f) = m - n
<1> USE DEF EndTaken
<1>1. t + m \in 0 .. 2 * C - 1 /\ t + n \in 0 .. 2 * C - 1
  OBVIOUS
<1>2. /\ h \in 0 .. C - 1 /\ h = IF t + m < C THEN t + m ELSE t + m - C
      /\ a \in 0 .. C - 1 /\ a = IF t + n < C THEN t + n ELSE t + n - C
  BY <1>1, Wrapped
<1>3. h >= a => h - a = m - n
  BY <1>2
<1>4. h < a => C + h - a = m - n
  BY <1>2
<1> QED
  BY <1>2, <1>3, <1>4 DEF Between

LEMMA LapNone ==
  ASSUME NEW d, NEW C, NEW t
  PROVE  Lap(d, C, t, 0) = <<>>
BY DEF Lap

LEMMA LapOne ==
  ASSUME NEW C \in Nat \ {0}, NEW d, NEW t \in 0 .. C - 1
  PROVE  Lap(d, C, t, 1) = <<d[t]>>
<1>1. Slot(C, t + 1 - 1) = t
  <2>1. t \in 0 .. 2 * C - 1 /\ t + 1 - 1 = t
    OBVIOUS
  <2>2. Slot(C, t) = IF t < C THEN t ELSE t - C
    BY <2>1, Wrapped
  <2> QED
    BY <2>1, <2>2
<1> QED
  BY <1>1 DEF Lap

LEMMA MinOf ==
  ASSUME NEW a \in Nat, NEW b \in Nat
  PROVE  FifoSpec!Min({a, b}) = IF a <= b THEN a ELSE b
<1>1. CASE a <= b
  BY <1>1 DEF FifoSpec!Min
<1>2. CASE b < a
  BY <1>2 DEF FifoSpec!Min
<1> QED
  BY <1>1, <1>2

-----------------------------------------------------------------------------
\* The ring buffers.

Slots == Items \cup {Unset}

RingItems(d, h, t, f) == Lap(d, Capacity, t, Between(Capacity, h, t, f))

RingOK(d, h, t, f) ==
  /\ d \in Arrays(Capacity, Slots)
  /\ h \in 0 .. Capacity - 1 /\ t \in 0 .. Capacity - 1
  /\ f \in BOOLEAN /\ (f => h = t)

LEMMA RingView ==
  /\ Ring!TypeOK <=> RingOK(data, head, tail, full)
  /\ Ring!TypeOK' <=> RingOK(data', head', tail', full')
  /\ Ring!size = Between(Capacity, head, tail, full)
BY DEF Ring!TypeOK, RingOK, Arrays, Slots, Ring!size, Between

LEMMA RingItemsView ==
  ASSUME NEW d, NEW h, NEW t, NEW f, RingOK(d, h, t, f)
  PROVE  [i \in 1 .. Between(Capacity, h, t, f) |-> d[(t + (i - 1)) % Capacity]]
           = RingItems(d, h, t, f)
<1>1. Between(Capacity, h, t, f) \in 0 .. Capacity
  BY BetweenEnds, SizesAssumption DEF RingOK
<1>2. \A i \in 1 .. Between(Capacity, h, t, f) : t + (i - 1) = t + i - 1
  BY <1>1 DEF RingOK
<1> QED
  BY <1>2 DEF RingItems, Lap, Slot

LEMMA RingItemsNow ==
  /\ Ring!TypeOK => Ring!items = RingItems(data, head, tail, full)
  /\ Ring!TypeOK' => Ring!items' = RingItems(data', head', tail', full')
<1>1. Ring!items = [i \in 1 .. Between(Capacity, head, tail, full) |->
                      data[(tail + (i - 1)) % Capacity]]
  BY DEF Ring!items, Ring!Advanced, Ring!size, Between
<1>2. Ring!items' = [i \in 1 .. Between(Capacity, head', tail', full') |->
                       data'[(tail' + (i - 1)) % Capacity]]
  BY DEF Ring!items, Ring!Advanced, Ring!size, Between
<1> QED
  BY <1>1, <1>2, RingView, RingItemsView

LEMMA RingLength ==
  ASSUME NEW d, NEW h, NEW t, NEW f, RingOK(d, h, t, f)
  PROVE  /\ RingItems(d, h, t, f) \in Seq(Slots)
         /\ Len(RingItems(d, h, t, f)) = Between(Capacity, h, t, f)
<1>1. /\ Capacity \in Nat \ {0} /\ d \in Arrays(Capacity, Slots) /\ t \in 0 .. Capacity - 1
      /\ Between(Capacity, h, t, f) \in 0 .. Capacity
  BY BetweenEnds, SizesAssumption DEF RingOK
<1>2. IsLap(Lap(d, Capacity, t, Between(Capacity, h, t, f)), d, Capacity, Slots, t,
            Between(Capacity, h, t, f))
  BY <1>1, LapSeq
<1> QED
  BY <1>2 DEF IsLap, RingItems

RingPutBehind(d, h, t, f, e, m, k, s, y, z, a) ==
  /\ RingOK(d, h, t, f) /\ m \in 0 .. Capacity /\ m = Between(Capacity, h, t, f)
  /\ k \in 1 .. Capacity - m /\ s \in Seq(Slots) /\ k <= Len(s)
  /\ e \in Arrays(Capacity, Slots) /\ y = t + m /\ z = m + k
  /\ Same(e, d, Capacity, t, m) /\ Holds(e, s, Capacity, y, k)
  /\ a = Slot(Capacity, t + z)

LEMMA RingPut ==
  ASSUME NEW d, NEW h, NEW t, NEW f, NEW e, NEW m, NEW k, NEW s, NEW y, NEW z, NEW a,
         RingPutBehind(d, h, t, f, e, m, k, s, y, z, a),
         NEW g \in BOOLEAN, g <=> a = t
  PROVE  /\ RingOK(e, a, t, g)
         /\ RingItems(e, a, t, g) = RingItems(d, h, t, f) \o Front(s, k)
<1>1. /\ Capacity \in Nat \ {0} /\ d \in Arrays(Capacity, Slots) /\ t \in 0 .. Capacity - 1
      /\ k \in 0 .. Capacity - m /\ z \in 1 .. Capacity /\ m = Between(Capacity, h, t, f)
      /\ a = Slot(Capacity, t + z) /\ e \in Arrays(Capacity, Slots)
  BY SizesAssumption DEF RingOK, RingPutBehind
<1>2. a \in 0 .. Capacity - 1 /\ Between(Capacity, a, t, g) = z
  BY <1>1, PutAround
<1>3. PutBehind(Capacity, Slots, d, e, t, m, k, s, y, z)
  BY <1>1 DEF PutBehind, RingPutBehind
<1>4. Lap(e, Capacity, t, z) = Lap(d, Capacity, t, m) \o Front(s, k)
  BY <1>3, LapPut
<1> QED
  BY <1>1, <1>2, <1>4 DEF RingOK, RingItems

RingTaken(d, h, t, f, n, a) ==
  /\ RingOK(d, h, t, f) /\ n \in 1 .. Between(Capacity, h, t, f)
  /\ a = Slot(Capacity, t + n)

LEMMA RingTake ==
  ASSUME NEW d, NEW h, NEW t, NEW f, NEW n, NEW a, RingTaken(d, h, t, f, n, a),
         NEW g \in BOOLEAN, ~g
  PROVE  /\ RingOK(d, h, a, g)
         /\ RingItems(d, h, t, f) = Lap(d, Capacity, t, n) \o RingItems(d, h, a, g)
         /\ Lap(d, Capacity, t, n) # <<>>
<1> USE DEF RingTaken
<1>1. PICK m \in 0 .. Capacity : m = Between(Capacity, h, t, f)
  BY BetweenEnds, SizesAssumption DEF RingOK
<1>2. /\ Capacity \in Nat \ {0} /\ d \in Arrays(Capacity, Slots) /\ t \in 0 .. Capacity - 1
      /\ m \in 1 .. Capacity /\ n \in 0 .. m /\ n \in 1 .. m /\ n \in 0 .. Capacity
  BY <1>1, SizesAssumption DEF RingOK
<1>3. h = Slot(Capacity, t + m)
  BY <1>1, <1>2, BetweenEnds DEF RingOK
<1>4. a \in 0 .. Capacity - 1 /\ Between(Capacity, h, a, g) = m - n
  <2>1. EndTaken(Capacity, t, m, n, h, a)
    BY <1>2, <1>3 DEF EndTaken
  <2> QED
    BY <2>1, TakenAround
<1>5. Lap(d, Capacity, t, m) = Lap(d, Capacity, t, n) \o Lap(d, Capacity, a, m - n)
  <2>1. PICK r : r = m - n
    OBVIOUS
  <2>2. Lap(d, Capacity, t, m) = Lap(d, Capacity, t, n) \o Lap(d, Capacity, a, r)
    <3>1. TakenFrom(Capacity, Slots, d, t, m, n, a, r)
      BY <1>2, <2>1 DEF TakenFrom
    <3> QED
      BY ONLY <3>1, LapTake
  <2> QED
    BY <2>1, <2>2
<1>6. Lap(d, Capacity, t, n) # <<>>
  <2>1. IsLap(Lap(d, Capacity, t, n), d, Capacity, Slots, t, n)
    BY <1>2, LapSeq
  <2> QED
    BY <1>2, <2>1, EmptySeq DEF IsLap
<1> QED
  BY <1>1, <1>2, <1>4, <1>5, <1>6 DEF RingOK, RingItems

LEMMA FrontOne ==
  ASSUME NEW S, NEW x \in S
  PROVE  <<x>> \in Seq(S) /\ Len(<<x>>) = 1 /\ Front(<<x>>, 1) = <<x>>
<1> DEFINE s == <<x>>
<1>1. s \in Seq(S) /\ Len(s) = 1 /\ s[1] = x
  OBVIOUS
<1>2. \A i \in 1 .. 1 : s[i] \in S
  BY <1>1
<1>3. /\ SubSeq(s, 1, 1) \in Seq(S) /\ Len(SubSeq(s, 1, 1)) = 1
      /\ \A i \in 1 .. 1 : SubSeq(s, 1, 1)[i] = s[i]
  BY <1>2, SubSeqProperties
<1> HIDE DEF s
<1>4. SubSeq(s, 1, 1) = s
  BY <1>1, <1>3, SeqEqual
<1> QED
  BY <1>1, <1>4 DEF s, Front

\* One element behind the last of the m, where there is room.
WrittenBehind(C, S, d, e, t, m, h, x, s) ==
  /\ C \in Nat \ {0} /\ d \in Arrays(C, S) /\ x \in S
  /\ t \in 0 .. C - 1 /\ m \in 0 .. C /\ m # C /\ h = Slot(C, t + m)
  /\ e = [d EXCEPT ![h] = x] /\ s = <<x>>

LEMMA OneBehind ==
  ASSUME NEW C, NEW S, NEW d, NEW e, NEW t, NEW m, NEW h, NEW x, NEW s,
         WrittenBehind(C, S, d, e, t, m, h, x, s)
  PROVE  /\ e \in Arrays(C, S) /\ Same(e, d, C, t, m) /\ Holds(e, s, C, t + m, 1)
         /\ Slot(C, h + 1) = Slot(C, t + (m + 1))
<1> USE DEF WrittenBehind
<1>1. h \in 0 .. C - 1
  <2>1. t + m \in 0 .. 2 * C - 1
    OBVIOUS
  <2> QED
    BY <2>1, Wrapped
<1>2. PICK f \in BOOLEAN : f = FALSE
  OBVIOUS
<1>3. m = Between(C, h, t, f)
  BY <1>1, <1>2, EndsAround
<1>4. /\ e \in Arrays(C, S) /\ e[h] = x
      /\ \A y \in 0 .. C - 1 : y # h => e[y] = d[y]
  BY <1>1 DEF Arrays
<1>5. Landed(C, h, t, m, 1, 1)
  <2>1. 1 = First(C, h, t, f, 1) /\ 1 \in 0 .. C - m /\ 1 \in 0 .. C
    BY <1>1 DEF First, Ahead
  <2> QED
    BY <1>1, <1>2, <1>3, <2>1, SegmentsWrap
<1>6. Same(e, d, C, t, m)
  <2> SUFFICES ASSUME NEW i \in 1 .. m
               PROVE  e[Slot(C, t + i - 1)] = d[Slot(C, t + i - 1)]
    BY DEF Same
  <2>1. PICK y \in 0 .. C - 1 : y = Slot(C, t + i - 1) /\ (y < h \/ y >= h + 1)
    BY <1>5 DEF Landed
  <2>2. y # h
    BY <1>1, <2>1
  <2> QED
    BY <1>4, <2>1, <2>2
<1>7. Holds(e, s, C, t + m, 1)
  <2>1. Slot(C, t + m + 1 - 1) = h + 1 - 1
    BY <1>5 DEF Landed
  <2>2. \A j \in 1 .. 1 : j = 1
    OBVIOUS
  <2>3. h + 1 - 1 = h
    BY <1>1
  <2> QED
    BY <1>4, <2>1, <2>2, <2>3 DEF Holds
<1>8. Slot(C, h + 1) = Slot(C, t + (m + 1))
  <2>1. Slot(C, Slot(C, h + 1) + (1 - 1)) = Slot(C, t + (m + 1))
    BY <1>5 DEF Landed
  <2>2. h + 1 \in 0 .. 2 * C - 1
    BY <1>1
  <2>3. PICK y \in 0 .. C - 1 : y = Slot(C, h + 1)
    BY <2>2, Wrapped
  <2>4. y + (1 - 1) = y /\ y \in 0 .. 2 * C - 1 /\ y < C
    BY <2>3
  <2>5. Slot(C, y) = y
    BY <2>4, Wrapped
  <2> QED
    BY <2>1, <2>3, <2>4, <2>5
<1> QED
  BY <1>4, <1>6, <1>7, <1>8

LEMMA RingPush ==
  ASSUME Ring!TypeOK, NEW x \in Items, Ring!push(x)
  PROVE  Ring!TypeOK' /\ Ring!items' = Ring!items \o <<x>>
<1>1. /\ RingOK(data, head, tail, full) /\ Capacity \in Nat \ {0} /\ ~full
      /\ data \in Arrays(Capacity, Slots) /\ head \in 0 .. Capacity - 1
      /\ tail \in 0 .. Capacity - 1 /\ full \in BOOLEAN /\ (full => head = tail)
  BY RingView, SizesAssumption DEF Ring!push, RingOK
<1>2. PICK m \in 0 .. Capacity : /\ m = Between(Capacity, head, tail, full)
                                /\ m # Capacity /\ head = Slot(Capacity, tail + m)
  BY <1>1, BetweenEnds
<1>3. PICK s \in Seq(Slots) : s = <<x>> /\ Len(s) = 1 /\ Front(s, 1) = s
  BY FrontOne DEF Slots
<1>4. /\ data' \in Arrays(Capacity, Slots) /\ Same(data', data, Capacity, tail, m)
      /\ Holds(data', s, Capacity, tail + m, 1)
      /\ Slot(Capacity, head + 1) = Slot(Capacity, tail + (m + 1))
  <2>1. WrittenBehind(Capacity, Slots, data, data', tail, m, head, x, s)
    BY <1>1, <1>2, <1>3 DEF WrittenBehind, Ring!push, Slots
  <2> QED
    BY ONLY <2>1, OneBehind
<1>a. head' = Slot(Capacity, head + 1)
  BY DEF Ring!push, Ring!Advanced, Slot
<1>5. full' \in BOOLEAN /\ (full' <=> head' = tail) /\ tail' = tail
  BY DEF Ring!push, Ring!Advanced, Slot
<1>6. PICK y \in Nat, z \in Nat, k \in Nat : y = tail + m /\ z = m + k /\ k = 1
  BY <1>1
<1>7. RingPutBehind(data, head, tail, full, data', m, k, s, y, z, head')
  <2>1. k \in 1 .. Capacity - m /\ k <= Len(s)
    BY <1>1, <1>2, <1>3, <1>6
  <2>2. Holds(data', s, Capacity, y, k) /\ Same(data', data, Capacity, tail, m)
    BY <1>4, <1>6
  <2>3. head' = Slot(Capacity, tail + z)
    BY <1>4, <1>a, <1>6
  <2> QED
    BY <1>1, <1>2, <1>4, <1>6, <2>1, <2>2, <2>3 DEF RingPutBehind
<1>8. /\ RingOK(data', head', tail', full')
      /\ RingItems(data', head', tail', full')
           = RingItems(data, head, tail, full) \o Front(s, k)
  <2>1. full' \in BOOLEAN /\ (full' <=> head' = tail)
    BY <1>5
  <2>2. /\ RingOK(data', head', tail, full')
        /\ RingItems(data', head', tail, full')
             = RingItems(data, head, tail, full) \o Front(s, k)
    BY ONLY <1>7, <2>1, RingPut
  <2> QED
    BY <1>5, <2>2
<1> QED
  BY <1>1, <1>3, <1>6, <1>8, RingView, RingItemsNow

LEMMA RingPop ==
  ASSUME Ring!TypeOK, NEW n \in 1 .. Ring!size,
         tail' = Slot(Capacity, tail + n), full' = FALSE, UNCHANGED <<data, head>>
  PROVE  /\ Ring!TypeOK'
         /\ Ring!items = Lap(data, Capacity, tail, n) \o Ring!items'
         /\ Lap(data, Capacity, tail, n) # <<>>
<1>1. /\ RingOK(data, head, tail, full) /\ n \in 1 .. Between(Capacity, head, tail, full)
      /\ full' \in BOOLEAN /\ ~full' /\ data' = data /\ head' = head
  BY RingView
<1>2. /\ RingOK(data, head, tail', full')
      /\ RingItems(data, head, tail, full)
           = Lap(data, Capacity, tail, n) \o RingItems(data, head, tail', full')
      /\ Lap(data, Capacity, tail, n) # <<>>
  <2>1. RingTaken(data, head, tail, full, n, tail')
    BY <1>1 DEF RingTaken
  <2> QED
    BY ONLY <1>1, <2>1, RingTake
<1>3. RingOK(data', head', tail', full')
  BY <1>1, <1>2
<1>4. Ring!TypeOK' /\ Ring!items = RingItems(data, head, tail, full)
      /\ Ring!items' = RingItems(data', head', tail', full')
  BY <1>3, RingView, RingItemsNow
<1> QED
  BY <1>1, <1>2, <1>4

LEMMA RingPushBuf ==
  ASSUME Ring!TypeOK, NEW s \in Seq(Items), Ring!push_buf(s)
  PROVE  /\ Ring!TypeOK'
         /\ Ring!items' = Ring!items \o Front(s, Ring!Min(Len(s), Capacity - Ring!size))
<1>1. /\ RingOK(data, head, tail, full) /\ Capacity \in Nat \ {0} /\ s # <<>>
      /\ data \in Arrays(Capacity, Slots)
      /\ head \in 0 .. Capacity - 1 /\ tail \in 0 .. Capacity - 1
      /\ full \in BOOLEAN /\ (full => head = tail)
  BY RingView, SizesAssumption DEF Ring!push_buf, RingOK
<1>2. PICK m \in 0 .. Capacity - 1 : /\ m = Ring!size
                                    /\ m = Between(Capacity, head, tail, full)
  <2>1. Ring!size < Capacity
    BY DEF Ring!push_buf
  <2>2. Between(Capacity, head, tail, full) \in 0 .. Capacity
    BY <1>1, BetweenEnds
  <2>3. Ring!size = Between(Capacity, head, tail, full)
    BY RingView
  <2> QED
    BY ONLY <1>1, <2>1, <2>2, <2>3
<1>3. s \in Seq(Slots) /\ Len(s) \in Nat \ {0}
  BY <1>1, EmptySeq DEF Slots
<1>4. PICK k \in 0 .. Capacity : /\ k = Ring!Min(Len(s), Capacity - Ring!size)
                                 /\ k \in 1 .. Capacity - m /\ k <= Len(s)
  <2>1. Capacity - m \in 1 .. Capacity
    BY <1>1
  <2> QED
    BY <1>1, <1>2, <1>3, <2>1 DEF Ring!Min
<1>6. PICK n \in 0 .. Capacity : /\ n = Ring!Min(k, Ring!RoomAhead)
                                 /\ n = First(Capacity, head, tail, full, k)
  BY <1>1, <1>4 DEF Ring!Min, Ring!RoomAhead, First, Ahead
<1>5. data' = Ring!Copy(Ring!Copy(data, head, SubSeq(s, 1, n)),
                        Ring!Advanced(head, n), SubSeq(s, n + 1, k))
      /\ head' = Ring!Advanced(Ring!Advanced(head, n), k - n)
      /\ full' = (head' = tail) /\ tail' = tail
  BY <1>4, <1>6 DEF Ring!push_buf
<1>7. /\ data' = Ring!Copy(Ring!Copy(data, head, SubSeq(s, 1, n)),
                           Slot(Capacity, head + n), SubSeq(s, n + 1, k))
      /\ head' = Slot(Capacity, Slot(Capacity, head + n) + (k - n))
  BY <1>5 DEF Ring!Advanced, Slot
<1>8. PICK y, z : y = tail + m /\ z = m + k
  OBVIOUS
<1>9. /\ data' \in Arrays(Capacity, Slots)
      /\ Same(data', data, Capacity, tail, m) /\ Holds(data', s, Capacity, tail + m, k)
      /\ Slot(Capacity, Slot(Capacity, head + n) + (k - n)) = Slot(Capacity, tail + (m + k))
  <2>1. PastedBehind(Capacity, Slots, data, head, tail, full, m, k, s, n, data')
    BY <1>1, <1>2, <1>3, <1>4, <1>6, <1>7 DEF PastedBehind
  <2> QED
    BY ONLY <2>1, PastedRound
<1>10. RingPutBehind(data, head, tail, full, data', m, k, s, y, z, head')
  BY <1>1, <1>2, <1>3, <1>4, <1>7, <1>8, <1>9 DEF RingPutBehind
<1>11. full' \in BOOLEAN /\ (full' <=> head' = tail) /\ tail' = tail
  BY <1>5
<1>12. /\ RingOK(data', head', tail', full')
       /\ RingItems(data', head', tail', full')
            = RingItems(data, head, tail, full) \o Front(s, k)
  <2>1. full' \in BOOLEAN /\ (full' <=> head' = tail)
    BY <1>11
  <2>2. /\ RingOK(data', head', tail, full')
        /\ RingItems(data', head', tail, full')
             = RingItems(data, head, tail, full) \o Front(s, k)
    BY ONLY <1>10, <2>1, RingPut
  <2> QED
    BY <1>11, <2>2
<1> QED
  BY <1>4, <1>12, RingView, RingItemsNow

\* A segment that does not go round.
LEMMA SliceIsLap ==
  ASSUME NEW t \in 0 .. Capacity - 1, NEW m \in 0 .. Capacity, t + m <= Capacity
  PROVE  Ring!Slice(t, m) = Lap(data, Capacity, t, m)
<1>1. ASSUME NEW i \in 1 .. m PROVE Slot(Capacity, t + i - 1) = t + i - 1
  <2>1. t + i - 1 \in 0 .. 2 * Capacity - 1 /\ t + i - 1 < Capacity
    BY SizesAssumption
  <2> QED
    BY <2>1, Wrapped, SizesAssumption
<1> QED
  BY <1>1 DEF Lap, Ring!Slice

LEMMA RingPopBuf ==
  ASSUME Ring!TypeOK, NEW c \in Nat, Ring!pop_buf(c)
  PROVE  Ring!TypeOK' /\ Ring!items = out' \o Ring!items' /\ out' # <<>>
<1>1. /\ RingOK(data, head, tail, full) /\ Capacity \in Nat \ {0} /\ c # 0
      /\ data \in Arrays(Capacity, Slots)
      /\ head \in 0 .. Capacity - 1 /\ tail \in 0 .. Capacity - 1
      /\ full \in BOOLEAN /\ (full => head = tail)
  BY RingView, SizesAssumption DEF Ring!pop_buf, RingOK
<1>2. PICK m \in 1 .. Capacity : /\ m = Ring!size
                                /\ m = Between(Capacity, head, tail, full)
  <2>1. Ring!size # 0
    BY DEF Ring!pop_buf
  <2>2. Between(Capacity, head, tail, full) \in 0 .. Capacity
    BY <1>1, BetweenEnds
  <2>3. Ring!size = Between(Capacity, head, tail, full)
    BY RingView
  <2> QED
    BY ONLY <1>1, <2>1, <2>2, <2>3
<1>3. PICK k \in 1 .. Capacity : /\ k = Ring!Min(c, Ring!size)
                                 /\ k \in 1 .. m /\ k \in 1 .. Ring!size
  BY <1>1, <1>2 DEF Ring!Min
<1>5. PICK n \in 1 .. Capacity : /\ n = Ring!Min(k, Ring!Run) /\ n \in 1 .. k
                                 /\ tail + n <= Capacity /\ (n < k => tail + n = Capacity)
  BY <1>1, <1>2, <1>3 DEF Ring!Min, Ring!Run, Between
<1>4. /\ out' = Ring!Slice(tail, n) \o Ring!Slice(Ring!Advanced(tail, n), k - n)
      /\ tail' = Ring!Advanced(Ring!Advanced(tail, n), k - n)
      /\ full' = FALSE /\ UNCHANGED <<data, head>>
  BY <1>3, <1>5 DEF Ring!pop_buf
<1>6. PICK a \in 0 .. Capacity - 1, r \in 0 .. Capacity :
        a = Slot(Capacity, tail + n) /\ r = k - n /\ (r > 0 => a = 0)
  <2>1. tail + n \in 0 .. 2 * Capacity - 1
    BY <1>1, <1>2, <1>3, <1>5
  <2>2. /\ Slot(Capacity, tail + n) \in 0 .. Capacity - 1
        /\ Slot(Capacity, tail + n)
             = IF tail + n < Capacity THEN tail + n ELSE tail + n - Capacity
    BY <1>1, <2>1, Wrapped
  <2>3. k - n \in 0 .. Capacity /\ (k - n > 0 => tail + n = Capacity)
    BY <1>1, <1>2, <1>3, <1>5
  <2>4. k - n > 0 => Slot(Capacity, tail + n) = 0
    BY <1>1, <2>2, <2>3
  <2> QED
    BY <2>2, <2>3, <2>4
<1>7. /\ out' = Ring!Slice(tail, n) \o Ring!Slice(a, r)
      /\ tail' = Slot(Capacity, Slot(Capacity, tail + n) + r)
  BY <1>4, <1>6 DEF Ring!Advanced, Slot
<1>8. Ring!Slice(tail, n) = Lap(data, Capacity, tail, n)
  <2>1. n \in 0 .. Capacity
    BY <1>1, <1>2, <1>3, <1>5
  <2> QED
    BY <1>1, <1>5, <2>1, SliceIsLap
<1>9. Ring!Slice(a, r) = Lap(data, Capacity, a, r)
  <2>1. a + r <= Capacity
    BY <1>1, <1>6
  <2> QED
    BY <1>1, <1>6, <2>1, SliceIsLap
<1>10. Lap(data, Capacity, tail, k)
         = Lap(data, Capacity, tail, n) \o Lap(data, Capacity, a, r)
  <2>1. TakenFrom(Capacity, Slots, data, tail, k, n, a, r)
    BY <1>1, <1>2, <1>3, <1>5, <1>6 DEF TakenFrom
  <2> QED
    BY ONLY <2>1, LapTake
<1>11. out' = Lap(data, Capacity, tail, k)
  BY <1>7, <1>8, <1>9, <1>10
<1>12. tail' = Slot(Capacity, tail + k)
  <2>1. n \in 0 .. Capacity /\ r \in 0 .. Capacity - 1 /\ (tail + n) + r = tail + k
    BY <1>1, <1>2, <1>3, <1>5, <1>6
  <2>2. Slot(Capacity, Slot(Capacity, tail + n) + r) = Slot(Capacity, (tail + n) + r)
    BY <1>1, <2>1, SlotTwice
  <2> QED
    BY <1>7, <2>1, <2>2
<1> QED
  BY <1>3, <1>4, <1>11, <1>12, RingPop

\* Put, for an element or elements that go in as far as there is room.
LEMMA RingPutIsPut ==
  ASSUME Ring!TypeOK, NEW k \in Nat, offered' \in Seq(Slots), out' = out,
         Ring!items' = Ring!items \o Front(offered', k),
         k = Ring!Min(Len(offered'), Capacity - Ring!size)
  PROVE  Ring!FifoSpec!Put
<1>1. /\ RingOK(data, head, tail, full)
      /\ Ring!size = Between(Capacity, head, tail, full)
      /\ Ring!items = RingItems(data, head, tail, full)
  BY RingView, RingItemsNow
<1>2. Len(Ring!items) = Ring!size /\ Ring!size \in 0 .. Capacity /\ Capacity \in Nat
  <2>1. Capacity \in Nat \ {0} /\ Between(Capacity, head, tail, full) \in 0 .. Capacity
    BY <1>1, BetweenEnds, SizesAssumption DEF RingOK
  <2>2. Len(RingItems(data, head, tail, full)) = Between(Capacity, head, tail, full)
    BY <1>1, RingLength
  <2> QED
    BY <1>1, <2>1, <2>2
<1>3. Len(offered') \in Nat /\ Capacity - Ring!size \in Nat
  BY <1>2, LenProperties
<1>4. FifoSpec!Min({Len(offered'), Capacity - Ring!size}) = k
  BY <1>3, MinOf DEF Ring!Min
<1>5. Ring!FifoSpec!Min({Len(offered'), Capacity - Len(Ring!items)}) = k
  BY <1>2, <1>4 DEF FifoSpec!Min, Ring!FifoSpec!Min
<1> QED
  BY <1>5 DEF Ring!FifoSpec!Put, Front

LEMMA RingInit ==
  ASSUME Ring!Init
  PROVE  Ring!TypeOK /\ Ring!FifoSpec!Init
<1>1. Ring!TypeOK
  BY SizesAssumption DEF Ring!Init, Ring!TypeOK
<1>2. Ring!items = <<>>
  <2>1. Between(Capacity, head, tail, full) = 0
    BY DEF Ring!Init, Between
  <2> QED
    BY <1>1, <2>1, RingItemsNow, LapNone DEF RingItems
<1> QED
  BY <1>1, <1>2, SizesAssumption DEF Ring!FifoSpec!Init, Ring!Init

LEMMA RingStep ==
  ASSUME Ring!TypeOK, Ring!Next
  PROVE  Ring!TypeOK' /\ Ring!FifoSpec!Next
<1>1. ASSUME NEW x \in Items, Ring!push(x)
      PROVE  Ring!TypeOK' /\ Ring!FifoSpec!Put
  <2>1. Ring!TypeOK' /\ Ring!items' = Ring!items \o <<x>>
    BY <1>1, RingPush
  <2>2. offered' = <<x>> /\ out' = out /\ ~full
    BY <1>1 DEF Ring!push
  <2>3. <<x>> \in Seq(Slots) /\ Len(<<x>>) = 1 /\ Front(<<x>>, 1) = <<x>>
    BY FrontOne DEF Slots
  <2>4. 1 = Ring!Min(Len(<<x>>), Capacity - Ring!size)
    <3>1. Ring!size \in 0 .. Capacity /\ Ring!size # Capacity /\ Capacity \in Nat
      BY <2>2, RingView, BetweenEnds, SizesAssumption DEF RingOK
    <3> QED
      BY <2>3, <3>1 DEF Ring!Min
  <2>5. 1 \in Nat /\ offered' \in Seq(Slots) /\ Ring!items' = Ring!items \o Front(offered', 1)
    BY <2>1, <2>2, <2>3
  <2>6. 1 = Ring!Min(Len(offered'), Capacity - Ring!size)
    BY <2>2, <2>4
  <2> QED
    BY <2>1, <2>2, <2>5, <2>6, RingPutIsPut
<1>2. ASSUME Ring!pop
      PROVE  Ring!TypeOK' /\ Ring!FifoSpec!Take
  <2>1. RingOK(data, head, tail, full) /\ Capacity \in Nat \ {0} /\ tail \in 0 .. Capacity - 1
    BY RingView, SizesAssumption DEF RingOK
  <2>2. Ring!size \in Nat /\ Ring!size # 0
    BY <1>2, <2>1, SizesAssumption DEF Ring!pop, Ring!is_empty, RingOK, Ring!size
  <2>3. /\ 1 \in 1 .. Ring!size /\ tail' = Slot(Capacity, tail + 1)
        /\ full' = FALSE /\ UNCHANGED <<data, head>>
        /\ out' = <<data[tail]>> /\ offered' = offered
    BY <1>2, <2>2 DEF Ring!pop, Ring!Advanced, Slot
  <2>4. Ring!TypeOK' /\ Ring!items = Lap(data, Capacity, tail, 1) \o Ring!items'
        /\ Lap(data, Capacity, tail, 1) # <<>>
    BY <2>3, RingPop
  <2>5. Lap(data, Capacity, tail, 1) = out'
    BY <2>1, <2>3, LapOne
  <2> QED
    BY <2>3, <2>4, <2>5 DEF Ring!FifoSpec!Take
<1>3. ASSUME NEW n \in 1 .. MaxBatch, NEW s \in [1 .. n -> Items], Ring!push_buf(s)
      PROVE  Ring!TypeOK' /\ Ring!FifoSpec!Put
  <2>1. s \in Seq(Items) /\ s \in Seq(Slots)
    BY SizesAssumption DEF Slots
  <2>2. offered' = s /\ out' = out /\ Ring!size < Capacity
    BY <1>3 DEF Ring!push_buf
  <2>3. /\ Ring!TypeOK'
        /\ Ring!items' = Ring!items \o Front(s, Ring!Min(Len(s), Capacity - Ring!size))
    BY <1>3, <2>1, RingPushBuf
  <2>4. Ring!Min(Len(s), Capacity - Ring!size) \in Nat
    <3>1. Ring!size \in 0 .. Capacity /\ Capacity \in Nat
      BY RingView, BetweenEnds, SizesAssumption DEF RingOK
    <3>2. Len(s) \in Nat
      BY <2>1, LenProperties
    <3> QED
      BY <3>1, <3>2 DEF Ring!Min
  <2> QED
    BY <2>1, <2>2, <2>3, <2>4, RingPutIsPut
<1>4. ASSUME NEW n \in 1 .. Capacity + 1, Ring!pop_buf(n)
      PROVE  Ring!TypeOK' /\ Ring!FifoSpec!Take
  <2>1. Ring!TypeOK' /\ Ring!items = out' \o Ring!items' /\ out' # <<>>
    BY <1>4, SizesAssumption, RingPopBuf
  <2>2. offered' = offered
    BY <1>4 DEF Ring!pop_buf
  <2> QED
    BY <2>1, <2>2 DEF Ring!FifoSpec!Take
<1>5. ASSUME Ring!clear
      PROVE  Ring!TypeOK' /\ Ring!FifoSpec!Clear
  <2>1. Ring!TypeOK'
    <3>1. 0 \in 0 .. Capacity - 1
      BY SizesAssumption
    <3>2. head' = 0 /\ tail' = 0 /\ full' = FALSE /\ data' = data
      BY <1>5 DEF Ring!clear
    <3> QED
      BY <3>1, <3>2 DEF Ring!TypeOK
  <2>2. Between(Capacity, head', tail', full') = 0
    BY <1>5 DEF Ring!clear, Between
  <2>3. Ring!items' = <<>>
    BY <2>1, <2>2, RingItemsNow, LapNone DEF RingItems
  <2> QED
    BY <1>5, <2>1, <2>3 DEF Ring!clear, Ring!FifoSpec!Clear
<1> QED
  BY <1>1, <1>2, <1>3, <1>4, <1>5
  DEF Ring!Next, Ring!Push, Ring!PushBuf, Ring!PopBuf, Ring!FifoSpec!Next

-----------------------------------------------------------------------------
\* The queue.

Buffers == UNION {[0 .. n - 1 -> Slots] : n \in Nat}

QueueRecord ==
  [buffer : Buffers, capacity : Nat, max_capacity : Limits,
   head : Nat, tail : Nat, length : Nat]

\* The slots and the ends fit together, and a queue of a fixed capacity has it,
\* unless it has no memory.
QueueOK(r) ==
  /\ r \in QueueRecord
  /\ r.buffer # Queue!Null =>
       /\ r.buffer \in Arrays(r.capacity, Slots)
       /\ r.head < r.capacity /\ r.tail < r.capacity
       /\ r.head = Slot(r.capacity, r.tail + r.length)
  /\ r.buffer = Queue!Null => r.head = 0 /\ r.tail = 0 /\ r.length = 0
  /\ r.length <= r.capacity
  /\ r.max_capacity > 0 => r.capacity \in {0, r.max_capacity}

QueueItems(r) == Lap(r.buffer, r.capacity, r.tail, r.length)

LEMMA QueueView ==
  /\ QueueOK(q) => Queue!TypeOK
  /\ QueueOK(q') => Queue!TypeOK'
  /\ Queue!items = QueueItems(q)
  /\ Queue!items' = QueueItems(q')
<1>0. ASSUME NEW r, QueueOK(r)
      PROVE  /\ r.buffer # Queue!Null =>
                  /\ r.buffer \in [0 .. r.capacity - 1 -> Items \cup {Unset}]
                  /\ r.head < r.capacity /\ r.tail < r.capacity
                  /\ r.head = (r.tail + r.length) % r.capacity
             /\ r.buffer = Queue!Null => r.head = 0 /\ r.tail = 0 /\ r.length = 0
             /\ {r.capacity, r.max_capacity, r.head, r.tail, r.length} \subseteq Nat
             /\ r.length <= r.capacity
  <2>1. /\ r.capacity \in Nat /\ r.max_capacity \in Limits
        /\ r.head \in Nat /\ r.tail \in Nat /\ r.length \in Nat
    BY <1>0 DEF QueueOK, QueueRecord
  <2>2. r.max_capacity \in Nat
    <3>1. \A x \in Limits : x \in Nat
      BY SizesAssumption
    <3> QED
      BY <2>1, <3>1
  <2>3. {r.capacity, r.max_capacity, r.head, r.tail, r.length} \subseteq Nat
    BY <2>1, <2>2
  <2> QED
    BY <1>0, <2>3 DEF QueueOK, Arrays, Slots, Slot
<1>1. QueueOK(q) => Queue!TypeOK
  BY <1>0 DEF Queue!TypeOK
<1>2. QueueOK(q') => Queue!TypeOK'
  BY <1>0 DEF Queue!TypeOK
<1>3. Queue!items = QueueItems(q) /\ Queue!items' = QueueItems(q')
  BY DEF Queue!items, QueueItems, Lap, Slot
<1> QED
  BY <1>1, <1>2, <1>3

LEMMA NothingIsNull ==
  ASSUME NEW x
  PROVE  Queue!Null = [i \in 0 .. 0 - 1 |-> x]
BY DEF Queue!Null

LEMMA SomethingIsNotNull ==
  ASSUME NEW n \in Nat \ {0}, NEW S, NEW b \in Arrays(n, S)
  PROVE  b # Queue!Null
<1>1. 0 \in DOMAIN b
  BY DEF Arrays
<1>2. DOMAIN Queue!Null = {}
  BY DEF Queue!Null
<1> QED
  BY <1>1, <1>2

LEMMA ArraysAreBuffers ==
  ASSUME NEW n \in Nat, NEW b \in Arrays(n, Slots)
  PROVE  b \in Buffers
BY DEF Arrays, Buffers

LEMMA EmptyQueue ==
  ASSUME NEW n \in Nat, NEW m \in Limits, NEW b \in {Queue!Fresh(n), Queue!Null},
         m > 0 => n \in {0, m}
  PROVE  QueueOK(Queue!Empty(b, n, m)) /\ QueueItems(Queue!Empty(b, n, m)) = <<>>
<1> DEFINE r == Queue!Empty(b, n, m)
<1>1. /\ r.buffer = b /\ r.capacity = n /\ r.max_capacity = m
      /\ r.head = 0 /\ r.tail = 0 /\ r.length = 0
  BY DEF Queue!Empty
<1>2. Queue!Fresh(n) \in Arrays(n, Slots)
  BY DEF Queue!Fresh, Arrays, Slots
<1>3. n = 0 => Queue!Fresh(n) = Queue!Null
  BY NothingIsNull DEF Queue!Fresh
<1>4. b \in Buffers
  <2>1. Queue!Fresh(0) \in Arrays(0, Slots) /\ Queue!Fresh(0) = Queue!Null
    BY NothingIsNull DEF Queue!Fresh, Arrays, Slots
  <2> QED
    BY <1>2, <2>1, ArraysAreBuffers
<1>5. b # Queue!Null => b \in Arrays(n, Slots) /\ n > 0
  BY <1>2, <1>3
<1>6. n > 0 => Slot(n, 0 + 0) = 0
  <2>1. n > 0 => 0 \in 0 .. 2 * n - 1 /\ 0 + 0 = 0
    OBVIOUS
  <2> QED
    BY <2>1, Wrapped
<1>7. r \in QueueRecord
  BY <1>4 DEF QueueRecord, Queue!Empty
<1> HIDE DEF r
<1>8. QueueOK(r)
  BY <1>1, <1>5, <1>6, <1>7 DEF QueueOK
<1>9. QueueItems(r) = <<>>
  BY <1>1, LapNone DEF QueueItems
<1> QED
  BY <1>8, <1>9 DEF r

LEMMA WrittenGood ==
  ASSUME NEW r, QueueOK(r), r.length # r.capacity, r.buffer # Queue!Null, NEW x \in Items
  PROVE  /\ QueueOK(Queue!Written(r, x))
         /\ QueueItems(Queue!Written(r, x)) = QueueItems(r) \o <<x>>
<1> DEFINE w == Queue!Written(r, x)
<1>1. PICK C \in Nat \ {0}, t \in Nat, m \in Nat, h \in Nat :
        C = r.capacity /\ t = r.tail /\ m = r.length /\ h = r.head
  BY DEF QueueOK, QueueRecord
<1>2. /\ r.buffer \in Arrays(C, Slots) /\ t \in 0 .. C - 1 /\ h \in 0 .. C - 1
      /\ m \in 0 .. C /\ m # C /\ h = Slot(C, t + m)
  BY <1>1 DEF QueueOK
<1>3. PICK s \in Seq(Slots) : s = <<x>> /\ Len(s) = 1 /\ Front(s, 1) = s
  BY FrontOne DEF Slots
<1>4. PICK e : e = [r.buffer EXCEPT ![h] = x]
  OBVIOUS
<1>5. /\ w.buffer = e /\ w.capacity = C /\ w.max_capacity = r.max_capacity
      /\ w.head = Slot(C, h + 1) /\ w.tail = t /\ w.length = m + 1
  BY <1>1, <1>4 DEF Queue!Written, Slot, QueueOK, QueueRecord
<1>6. /\ e \in Arrays(C, Slots) /\ Same(e, r.buffer, C, t, m)
      /\ Holds(e, s, C, t + m, 1) /\ Slot(C, h + 1) = Slot(C, t + (m + 1))
  <2>1. WrittenBehind(C, Slots, r.buffer, e, t, m, h, x, s)
    BY <1>2, <1>3, <1>4 DEF WrittenBehind, Slots
  <2> QED
    BY ONLY <2>1, OneBehind
<1>7. PICK y \in Nat, z \in Nat, k \in Nat : y = t + m /\ z = m + k /\ k = 1
  OBVIOUS
<1>8. Lap(e, C, t, z) = Lap(r.buffer, C, t, m) \o Front(s, k)
  <2>1. k \in 0 .. C - m /\ k <= Len(s)
    BY <1>2, <1>3, <1>7
  <2>2. Holds(e, s, C, y, k)
    BY <1>6, <1>7
  <2>3. PutBehind(C, Slots, r.buffer, e, t, m, k, s, y, z)
    BY <1>2, <1>6, <1>7, <2>1, <2>2 DEF PutBehind
  <2> QED
    BY ONLY <2>3, LapPut
<1>9. Slot(C, t + z) \in 0 .. C - 1
  <2>1. t + z \in 0 .. 2 * C - 1
    BY <1>2, <1>7
  <2> QED
    BY <2>1, Wrapped
<1>10. w \in QueueRecord
  <2>1. e \in Buffers
    BY <1>6, ArraysAreBuffers
  <2>2. Slot(C, h + 1) \in Nat /\ m + 1 \in Nat
    BY <1>6, <1>7, <1>9
  <2>3. w = [[[r EXCEPT !.buffer = e] EXCEPT !.head = Slot(C, h + 1)] EXCEPT !.length = m + 1]
    BY <1>1, <1>4 DEF Queue!Written, Slot, QueueOK, QueueRecord
  <2> QED
    BY <2>1, <2>2, <2>3 DEF QueueOK, QueueRecord
<1> HIDE DEF w
<1>11. QueueOK(w)
  <2>1. w.buffer # Queue!Null
    BY <1>5, <1>6, SomethingIsNotNull
  <2>2. w.head \in 0 .. C - 1 /\ w.head = Slot(C, w.tail + w.length)
    BY <1>5, <1>6, <1>7, <1>9
  <2>3. w.length <= C
    BY <1>2, <1>5
  <2>4. w.max_capacity > 0 => w.capacity \in {0, w.max_capacity}
    BY <1>1, <1>5 DEF QueueOK
  <2> QED
    BY <1>2, <1>5, <1>6, <1>10, <2>1, <2>2, <2>3, <2>4 DEF QueueOK
<1>12. QueueItems(w) = QueueItems(r) \o <<x>>
  BY <1>1, <1>3, <1>5, <1>7, <1>8 DEF QueueItems
<1> QED
  BY <1>11, <1>12 DEF w

LEMMA GrownGood ==
  ASSUME QueueOK(q), q.length = q.capacity, q.max_capacity = 0
  PROVE  /\ QueueOK(Queue!Grown) /\ QueueItems(Queue!Grown) = QueueItems(q)
         /\ Queue!Grown.length # Queue!Grown.capacity
         /\ Queue!Grown.max_capacity = 0
<1> DEFINE n == IF q.capacity = 0 THEN 4 ELSE q.capacity * 2
           g == Queue!Grown
           b == Queue!Unrolled(n)
<1>1. PICK C \in Nat, t \in Nat : C = q.capacity /\ C = q.length /\ t = q.tail
  BY DEF QueueOK, QueueRecord
<1>2. n \in Nat \ {0} /\ C < n
  BY <1>1
<1>3. C > 0 => q.buffer \in Arrays(C, Slots) /\ t \in 0 .. C - 1
  BY <1>1 DEF QueueOK
<1>4. /\ g.buffer = b /\ g.capacity = n /\ g.max_capacity = 0
      /\ g.head = C /\ g.tail = 0 /\ g.length = C
  BY <1>1 DEF Queue!Grown, QueueOK, QueueRecord
<1>5. g = [[[[q EXCEPT !.buffer = b] EXCEPT !.capacity = n] EXCEPT !.head = C] EXCEPT !.tail = 0]
  BY <1>1 DEF Queue!Grown, QueueOK, QueueRecord
<1>6. ASSUME NEW i \in 0 .. n - 1, i < C
      PROVE  b[i] = q.buffer[Slot(C, t + i)] /\ b[i] \in Slots
  <2>1. b[i] = q.buffer[Slot(C, t + i)]
    BY <1>1, <1>6 DEF Queue!Unrolled, Slot
  <2>2. C \in Nat \ {0} /\ t + i \in 0 .. 2 * C - 1
    BY <1>3, <1>6
  <2>3. Slot(C, t + i) \in 0 .. C - 1
    BY <2>2, Wrapped
  <2> QED
    BY <1>3, <2>1, <2>2, <2>3 DEF Arrays
<1>7. ASSUME NEW i \in 0 .. n - 1, ~(i < C)
      PROVE  b[i] \in Slots
  BY <1>1, <1>7 DEF Queue!Unrolled, Slots
<1>8. b \in Arrays(n, Slots)
  <2>1. \A i \in 0 .. n - 1 : b[i] \in Slots
    BY <1>6, <1>7
  <2>2. b = [i \in 0 .. n - 1 |-> b[i]]
    BY DEF Queue!Unrolled
  <2> QED
    BY <2>1, <2>2 DEF Arrays
<1> HIDE DEF n, b, g
<1>9. g \in QueueRecord
  <2>1. b \in Buffers
    BY <1>2, <1>8, ArraysAreBuffers
  <2> QED
    BY <1>2, <1>5, <2>1 DEF QueueOK, QueueRecord
<1>10. Slot(n, 0 + C) = C
  <2>1. 0 + C \in 0 .. 2 * n - 1 /\ 0 + C = C
    BY <1>2
  <2>2. Slot(n, 0 + C) = IF 0 + C < n THEN 0 + C ELSE 0 + C - n
    BY <1>2, <2>1, Wrapped
  <2> QED
    BY <1>2, <2>1, <2>2
<1>11. QueueOK(g)
  <2>1. g.buffer # Queue!Null
    BY <1>2, <1>4, <1>8, SomethingIsNotNull
  <2>2. ~(g.max_capacity > 0)
    BY <1>4
  <2> QED
    BY <1>2, <1>4, <1>8, <1>9, <1>10, <2>1, <2>2 DEF QueueOK
<1>12. QueueItems(g) = QueueItems(q)
  <2>1. ASSUME NEW i \in 1 .. C
        PROVE  b[Slot(n, 0 + i - 1)] = q.buffer[Slot(C, t + i - 1)]
    <3>1. i - 1 \in 0 .. n - 1 /\ i - 1 < C /\ t + (i - 1) = t + i - 1
          /\ 0 + i - 1 = i - 1 /\ 0 + i - 1 \in 0 .. 2 * n - 1
      BY <1>2
    <3>2. Slot(n, 0 + i - 1) = IF 0 + i - 1 < n THEN 0 + i - 1 ELSE 0 + i - 1 - n
      BY <1>2, <3>1, Wrapped
    <3>3. b[i - 1] = q.buffer[Slot(C, t + (i - 1))]
      BY <1>6, <3>1
    <3> QED
      BY <1>2, <3>1, <3>2, <3>3
  <2> QED
    BY <1>1, <1>4, <2>1 DEF QueueItems, Lap
<1> QED
  BY <1>2, <1>4, <1>11, <1>12 DEF g

LEMMA QueueLength ==
  ASSUME NEW r, QueueOK(r)
  PROVE  Len(QueueItems(r)) = r.length /\ QueueItems(r) \in Seq(Slots)
<1>1. PICK C \in Nat, m \in Nat : C = r.capacity /\ m = r.length /\ m <= C
  BY DEF QueueOK, QueueRecord
<1>2. CASE r.buffer = Queue!Null
  <2>1. QueueItems(r) = <<>> /\ r.length = 0
    BY <1>2, LapNone DEF QueueOK, QueueItems
  <2> QED
    BY <2>1, EmptySeq
<1>3. CASE r.buffer # Queue!Null
  <2>1. PICK t \in 0 .. C - 1 : t = r.tail
    BY <1>1, <1>3 DEF QueueOK, QueueRecord
  <2>2. C \in Nat \ {0} /\ r.buffer \in Arrays(C, Slots) /\ m \in 0 .. C
    BY <1>1, <1>3, <2>1 DEF QueueOK
  <2>3. IsLap(Lap(r.buffer, C, t, m), r.buffer, C, Slots, t, m)
    BY <2>2, LapSeq
  <2> QED
    BY <1>1, <2>1, <2>3 DEF IsLap, QueueItems
<1> QED
  BY <1>2, <1>3

LEMMA QueueInit ==
  ASSUME Queue!Init
  PROVE  QueueOK(q) /\ Queue!FifoSpec!Init
<1>0. PICK m \in Limits : \E b \in {Queue!Fresh(m), Queue!Null} : q = Queue!Empty(b, m, m)
  BY DEF Queue!Init
<1>1. PICK b \in {Queue!Fresh(m), Queue!Null} : q = Queue!Empty(b, m, m)
  BY <1>0
<1>2. \A x \in Limits : x \in Nat
  BY SizesAssumption
<1>3. QueueOK(q) /\ QueueItems(q) = <<>>
  BY <1>1, <1>2, EmptyQueue
<1>4. q.max_capacity = m
  BY <1>1 DEF Queue!Empty
<1>5. (IF q.max_capacity = 0 THEN LengthBound ELSE q.max_capacity) \in Nat
  BY <1>2, <1>4, SizesAssumption
<1> QED
  BY <1>3, <1>5, QueueView DEF Queue!Init, Queue!FifoSpec!Init

LEMMA QueuePut ==
  ASSUME QueueOK(q), q.length < LengthBound, NEW r, QueueOK(r),
         QueueItems(r) = QueueItems(q), r.max_capacity = q.max_capacity,
         r.length # r.capacity, r.buffer # Queue!Null, NEW x \in Items,
         q' = Queue!Written(r, x), offered' = <<x>>, out' = out
  PROVE  /\ QueueOK(q') /\ q'.max_capacity = q.max_capacity
         /\ Queue!FifoSpec!Put
<1>1. QueueOK(q') /\ QueueItems(q') = QueueItems(q) \o <<x>>
  BY WrittenGood
<1>2. q'.max_capacity = q.max_capacity
  BY DEF Queue!Written, QueueOK, QueueRecord
<1>3. <<x>> \in Seq(Items) /\ Len(<<x>>) = 1 /\ Front(<<x>>, 1) = <<x>>
  BY FrontOne
<1>4. PICK m \in Nat, c \in Nat, l \in Nat :
        m = q.length /\ c = r.capacity /\ l = q.max_capacity
  <2>1. \A y \in Limits : y \in Nat
    BY SizesAssumption
  <2> QED
    BY <2>1 DEF QueueOK, QueueRecord
<1>5. m = r.length /\ m = Len(QueueItems(q))
  BY <1>4, QueueLength
<1>6. m < c /\ (l > 0 => c = l)
  BY <1>4, <1>5 DEF QueueOK, QueueRecord
<1>7. PICK k \in Nat : k = (IF l = 0 THEN LengthBound ELSE l) - m /\ k >= 1
  BY <1>4, <1>6, SizesAssumption
<1>8. FifoSpec!Min({1, k}) = 1
  BY <1>7, MinOf
<1>9. Queue!FifoSpec!Min(
        {Len(offered'),
         (IF q.max_capacity = 0 THEN LengthBound ELSE q.max_capacity) - Len(Queue!items)}) = 1
  BY <1>3, <1>4, <1>5, <1>7, <1>8, QueueView DEF FifoSpec!Min, Queue!FifoSpec!Min
<1>10. Queue!items' = Queue!items \o SubSeq(offered', 1, 1)
  BY <1>1, <1>3, QueueView DEF Front
<1> QED
  BY <1>1, <1>2, <1>9, <1>10 DEF Queue!FifoSpec!Put

LEMMA QueueStep ==
  ASSUME QueueOK(q), Queue!Next
  PROVE  QueueOK(q') /\ Queue!FifoSpec!Next
<1>1. ASSUME q.length < LengthBound, NEW x \in Items, Queue!cqueue_enqueue(x)
      PROVE  /\ QueueOK(q') /\ q'.max_capacity = q.max_capacity
             /\ Queue!FifoSpec!Put \/ Queue!FifoSpec!Refuse
  <2>1. CASE \E r \in Queue!Ready : r.buffer # Queue!Null /\ q' = Queue!Written(r, x)
    <3>1. PICK r \in Queue!Ready : r.buffer # Queue!Null /\ q' = Queue!Written(r, x)
      BY <2>1
    <3>2. offered' = <<x>> /\ out' = out
      BY <1>1 DEF Queue!cqueue_enqueue
    <3>3. /\ QueueOK(r) /\ QueueItems(r) = QueueItems(q)
          /\ r.max_capacity = q.max_capacity /\ r.length # r.capacity
      <4>1. CASE q.length # q.capacity
        BY <4>1 DEF Queue!Ready
      <4>2. CASE q.length = q.capacity
        <5>1. ~(q.max_capacity > 0) /\ r = Queue!Grown
          BY <4>2 DEF Queue!Ready
        <5>2. q.max_capacity = 0
          <6>1. \A y \in Limits : y \in Nat
            BY SizesAssumption
          <6> QED
            BY <5>1, <6>1 DEF QueueOK, QueueRecord
        <5> QED
          BY <4>2, <5>1, <5>2, GrownGood
      <4> QED
        BY <4>1, <4>2
    <3> QED
      BY <1>1, <3>1, <3>2, <3>3, QueuePut
  <2>2. CASE Queue!NoMemory /\ q' = q
    <3>1. QueueOK(q') /\ q'.max_capacity = q.max_capacity /\ Queue!items' = Queue!items
      BY <2>2, QueueView
    <3> QED
      BY <1>1, <3>1 DEF Queue!FifoSpec!Refuse, Queue!cqueue_enqueue
  <2> QED
    BY <1>1, <2>1, <2>2 DEF Queue!cqueue_enqueue
<1>2. ASSUME Queue!cqueue_dequeue
      PROVE  /\ QueueOK(q') /\ q'.max_capacity = q.max_capacity
             /\ Queue!FifoSpec!Take
  <2>1. PICK C \in Nat, t \in Nat, m \in Nat :
          C = q.capacity /\ t = q.tail /\ m = q.length
    BY DEF QueueOK, QueueRecord
  <2>2. /\ C \in Nat \ {0} /\ q.buffer \in Arrays(C, Slots) /\ t \in 0 .. C - 1
        /\ m \in 1 .. C /\ q.head = Slot(C, t + m) /\ q.buffer # Queue!Null
    BY <1>2, <2>1 DEF QueueOK, Queue!cqueue_dequeue
  <2>3. PICK a \in 0 .. C - 1 : a = Slot(C, t + 1)
    <3>1. t + 1 \in 0 .. 2 * C - 1
      BY <2>2
    <3> QED
      BY <2>2, <3>1, Wrapped
  <2>4. /\ q' = [[q EXCEPT !.tail = a] EXCEPT !.length = m - 1]
        /\ out' = <<q.buffer[t]>> /\ offered' = offered
    BY <1>2, <2>1, <2>3 DEF Queue!cqueue_dequeue, Slot, QueueOK, QueueRecord
  <2>5. /\ q'.buffer = q.buffer /\ q'.capacity = C /\ q'.max_capacity = q.max_capacity
        /\ q'.head = q.head /\ q'.tail = a /\ q'.length = m - 1 /\ q' \in QueueRecord
    <3>1. PICK z \in Nat : z = m - 1
      BY <2>2
    <3>2. q \in QueueRecord /\ q' = [[q EXCEPT !.tail = a] EXCEPT !.length = z] /\ a \in Nat
      BY <2>2, <2>4, <3>1 DEF QueueOK
    <3>3. q' \in QueueRecord /\ q'.tail = a /\ q'.length = z
      BY <3>2 DEF QueueRecord
    <3>4. q'.buffer = q.buffer /\ q'.capacity = q.capacity
          /\ q'.max_capacity = q.max_capacity /\ q'.head = q.head
      BY <3>2 DEF QueueRecord
    <3> QED
      BY <2>1, <3>1, <3>3, <3>4
  <2>6. q.head = Slot(C, a + (m - 1))
    <3>1. 1 \in 0 .. C /\ m - 1 \in 0 .. C - 1 /\ (t + 1) + (m - 1) = t + m
      BY <2>2
    <3>2. Slot(C, Slot(C, t + 1) + (m - 1)) = Slot(C, (t + 1) + (m - 1))
      BY <2>2, <3>1, SlotTwice
    <3> QED
      BY <2>2, <2>3, <3>1, <3>2
  <2>7. QueueOK(q')
    <3>1. q'.head < C
      BY <2>1, <2>2, <2>5 DEF QueueOK
    <3>2. q'.max_capacity > 0 => q'.capacity \in {0, q'.max_capacity}
      BY <2>1, <2>5 DEF QueueOK
    <3> QED
      BY <2>2, <2>3, <2>5, <2>6, <3>1, <3>2 DEF QueueOK
  <2>8. Lap(q.buffer, C, t, m) = Lap(q.buffer, C, t, 1) \o Lap(q.buffer, C, a, m - 1)
    <3>1. PICK k \in Nat, z \in Nat : k = 1 /\ z = m - 1
      BY <2>2
    <3>2. TakenFrom(C, Slots, q.buffer, t, m, k, a, z)
      BY <2>2, <2>3, <3>1 DEF TakenFrom
    <3>3. Lap(q.buffer, C, t, m) = Lap(q.buffer, C, t, k) \o Lap(q.buffer, C, a, z)
      BY ONLY <3>2, LapTake
    <3> QED
      BY <3>1, <3>3
  <2>9. Lap(q.buffer, C, t, 1) = out'
    BY <2>2, <2>4, LapOne
  <2>10. Queue!items = out' \o Queue!items'
    BY <2>1, <2>5, <2>8, <2>9, QueueView DEF QueueItems
  <2> QED
    BY <2>4, <2>5, <2>7, <2>10 DEF Queue!FifoSpec!Take
<1>3. ASSUME Queue!cqueue_clear
      PROVE  /\ QueueOK(q') /\ q'.max_capacity = q.max_capacity
             /\ Queue!FifoSpec!Clear
  <2>1. /\ q' = [[[q EXCEPT !.head = 0] EXCEPT !.tail = 0] EXCEPT !.length = 0]
        /\ UNCHANGED <<offered, out>>
    BY <1>3 DEF Queue!cqueue_clear
  <2>2. /\ q'.buffer = q.buffer /\ q'.capacity = q.capacity
        /\ q'.max_capacity = q.max_capacity
        /\ q'.head = 0 /\ q'.tail = 0 /\ q'.length = 0 /\ q' \in QueueRecord
    BY <2>1 DEF QueueOK, QueueRecord
  <2>3. PICK C \in Nat : C = q.capacity
    BY DEF QueueOK, QueueRecord
  <2>4. C > 0 => Slot(C, 0 + 0) = 0
    <3>1. C > 0 => 0 \in 0 .. 2 * C - 1 /\ 0 + 0 = 0
      OBVIOUS
    <3> QED
      BY <3>1, Wrapped
  <2>5. q'.buffer # Queue!Null => q'.buffer \in Arrays(C, Slots) /\ C > 0
    BY <2>2, <2>3 DEF QueueOK, QueueRecord
  <2>6. QueueOK(q')
    BY <2>2, <2>3, <2>4, <2>5 DEF QueueOK
  <2>7. Queue!items' = <<>>
    BY <2>2, QueueView, LapNone DEF QueueItems
  <2> QED
    BY <2>1, <2>2, <2>6, <2>7 DEF Queue!FifoSpec!Clear
<1>4. ASSUME Queue!cqueue_destroy
      PROVE  /\ QueueOK(q') /\ q'.max_capacity = q.max_capacity
             /\ Queue!FifoSpec!Clear
  <2>1. PICK l \in Limits : l = q.max_capacity /\ q' = Queue!Empty(Queue!Null, 0, l)
    BY <1>4 DEF Queue!cqueue_destroy, QueueOK, QueueRecord
  <2>2. QueueOK(q') /\ QueueItems(q') = <<>>
    BY <2>1, EmptyQueue
  <2>3. q'.max_capacity = q.max_capacity
    BY <2>1 DEF Queue!Empty
  <2> QED
    BY <1>4, <2>2, <2>3, QueueView DEF Queue!cqueue_destroy, Queue!FifoSpec!Clear
<1>5. /\ QueueOK(q') /\ q'.max_capacity = q.max_capacity
      /\ \/ Queue!FifoSpec!Put \/ Queue!FifoSpec!Refuse
         \/ Queue!FifoSpec!Take \/ Queue!FifoSpec!Clear
  BY <1>1, <1>2, <1>3, <1>4 DEF Queue!Next, Queue!Enqueue
<1> QED
  BY <1>5 DEF Queue!FifoSpec!Next

-----------------------------------------------------------------------------
\* The map, of which HashTableProofs has it all, and the cache's map.

MP == INSTANCE HashTableProofs
CP == INSTANCE HashTableProofs
        WITH Keys <- CacheKeys, Hash <- CacheHash, Values <- Blocks, Requested <- {0}

\* Every instance counts alike.
LEMMA SameCount ==
  /\ \A S : MP!Cardinality(S) = Cardinality(S) /\ Map!Cardinality(S) = Cardinality(S)
  /\ \A S : CP!Cardinality(S) = Cardinality(S) /\ Timed!Cardinality(S) = Cardinality(S)
  /\ \A S : Timed!H!Cardinality(S) = Cardinality(S)
BY DEF Cardinality, MP!Cardinality, Map!Cardinality, CP!Cardinality,
  Timed!Cardinality, Timed!H!Cardinality

LEMMA SameMap ==
  /\ Map!Init <=> MP!Init
  /\ Map!Next <=> MP!Next
  /\ Map!contents = MP!contents /\ Map!contents' = MP!contents'
BY DEF Map!Init, MP!Init, Map!Next, MP!Next, Map!Put, MP!Put, Map!Get, MP!Get,
  Map!TakeOut, MP!TakeOut, Map!Recreate, MP!Recreate, Map!contents, MP!contents,
  Map!hash_map_put, MP!hash_map_put, Map!hash_map_get, MP!hash_map_get,
  Map!hash_map_remove, MP!hash_map_remove, Map!Created, MP!Created,
  Map!PutIn, MP!PutIn, Map!Roomy, MP!Roomy, Map!Crowded, MP!Crowded,
  Map!chm_resize, MP!chm_resize, Map!MovedTo, MP!MovedTo, Map!Threshold, MP!Threshold,
  Map!chm_next_pow2, MP!chm_next_pow2, Map!At, MP!At, Map!Bucket, MP!Bucket,
  Map!WithBucket, MP!WithBucket, Map!Entry, MP!Entry,
  Map!ContentsOf, MP!ContentsOf, Map!EntriesOf, MP!EntriesOf

LEMMA MapTypes == (MP!MInv => Map!TypeOK) /\ (MP!MInv' => Map!TypeOK')
BY SameCount DEF MP!MInv, MP!TypeOK, Map!TypeOK, MP!IsTable, Map!IsTable,
  MP!Consistent, Map!Consistent, MP!Loaded, Map!Loaded, MP!EntriesOf, Map!EntriesOf,
  MP!Entries, Map!Entries, MP!Threshold, Map!Threshold

LEMMA MapInit ==
  ASSUME Map!Init, which = "map"
  PROVE  MP!MInv /\ DictSpec!Init
<1>1. MP!Init
  BY SameMap
<1>2. MP!MInv /\ MP!DictSpec!Init
  BY <1>1, MP!MInvInit, MP!DictInit, HashAssumption, CapacityAssumption
<1> QED
  BY <1>2, SameMap DEF MP!DictSpec!Init, DictSpec!Init, contents

LEMMA MapStep ==
  ASSUME MP!MInv, Map!Next, which = "map", which' = which
  PROVE  MP!MInv' /\ [DictSpec!Next]_DictSpec!vars
<1>1. MP!Next
  BY SameMap
<1>2. MP!MInv'
  BY <1>1, MP!MInvNext, HashAssumption, CapacityAssumption
<1>3. [MP!DictSpec!Next]_MP!DictSpec!vars
  BY <1>1, MP!DictNext, HashAssumption, CapacityAssumption
<1>4. contents = MP!contents /\ contents' = MP!contents'
  BY SameMap DEF contents
<1>5. CASE UNCHANGED MP!DictSpec!vars
  BY <1>2, <1>4, <1>5 DEF MP!DictSpec!vars, DictSpec!vars
<1>6. CASE MP!DictSpec!Next
  <2>1. (IF which' = "map" THEN out' ELSE None) = out' /\ (IF which = "map" THEN out ELSE None) = out
    OBVIOUS
  <2>2. CASE \E k \in Keys, v \in Values : MP!DictSpec!Put(k, v)
    BY <1>2, <1>4, <2>1, <2>2 DEF MP!DictSpec!Put, DictSpec!Put, MP!DictSpec!Given,
      DictSpec!Given, DictSpec!Next
  <2>3. CASE \E k \in Keys : MP!DictSpec!Remove(k)
    BY <1>2, <1>4, <2>1, <2>3 DEF MP!DictSpec!Remove, DictSpec!Remove, MP!DictSpec!Value,
      DictSpec!Value, MP!DictSpec!Restrict, DictSpec!Restrict, DictSpec!Next
  <2>4. CASE MP!DictSpec!Fail \/ MP!DictSpec!Get \/ MP!DictSpec!Reset
    BY <1>2, <1>4, <2>1, <2>4 DEF MP!DictSpec!Fail, DictSpec!Fail, MP!DictSpec!Get,
      DictSpec!Get, MP!DictSpec!Value, DictSpec!Value, MP!DictSpec!Reset, DictSpec!Reset,
      DictSpec!Next
  <2> QED
    BY <1>6, <2>2, <2>3, <2>4 DEF MP!DictSpec!Next
<1> QED
  BY <1>2, <1>3, <1>5, <1>6

-----------------------------------------------------------------------------
\* The cache: how its map, its blocks and its times hang together.

LEMMA CacheTables ==
  /\ CacheHash \in [CacheKeys -> Nat]
  /\ 8 \in Capacities /\ Capacities \subseteq Nat
  /\ \A c \in Capacities \ {8} : \E half \in Capacities : c = 2 * half
  /\ \A c \in Capacities : c >= 8
  /\ {0} \subseteq Nat
  /\ \A r \in {0} : \E c \in Capacities : r <= c
<1>1. 8 \in Capacities /\ 0 <= 8
  BY CapacityAssumption
<1>2. \A r \in {0} : \E c \in Capacities : r <= c
  BY <1>1
<1> QED
  BY <1>2, CacheAssumption, CapacityAssumption

LEMMA SameCacheMap ==
  /\ \A k : Timed!Get(k) = CP!hash_map_get(map, k)
  /\ \A k : Timed!Get(k)' = CP!hash_map_get(map', k)
  /\ \A m, k, v : Timed!H!hash_map_put(m, k, v) = CP!hash_map_put(m, k, v)
  /\ \A m, k : Timed!H!hash_map_remove(m, k) = CP!hash_map_remove(m, k)
  /\ Timed!H!Created(0) = CP!Created(0)
  /\ CP!Good(map) => Timed!H!IsTable(map) /\ Timed!H!Consistent(map) /\ Timed!H!Loaded(map)
BY SameCount DEF Timed!Get, CP!hash_map_get, Timed!H!hash_map_get, Timed!H!hash_map_put,
  CP!hash_map_put, Timed!H!hash_map_remove, CP!hash_map_remove,
  Timed!H!Created, CP!Created, Timed!H!PutIn, CP!PutIn, Timed!H!Roomy, CP!Roomy,
  Timed!H!Crowded, CP!Crowded, Timed!H!chm_resize, CP!chm_resize,
  Timed!H!MovedTo, CP!MovedTo, Timed!H!Threshold, CP!Threshold,
  Timed!H!chm_next_pow2, CP!chm_next_pow2, Timed!H!At, CP!At, Timed!H!Bucket, CP!Bucket,
  Timed!H!WithBucket, CP!WithBucket, Timed!H!Entry, CP!Entry, CP!Good,
  Timed!H!IsTable, CP!IsTable, Timed!H!Consistent, CP!Consistent,
  Timed!H!Loaded, CP!Loaded, Timed!H!EntriesOf, CP!EntriesOf, Timed!H!Entries, CP!Entries

CacheEntries == [manual_invalidate : BOOLEAN, current_timeout : 0 .. MaxTime + TimeoutLen]

\* What the entry e of a key says at time t under policies p, when the key's time
\* runs since s: what entries of other blocks or earlier ones said plays no part.
IsTimed(p, e, s, t) ==
  /\ e.current_timeout = IF s = Timed!Never THEN 0 ELSE s + TimeoutLen
  /\ s # Timed!Never => s <= t
  /\ "manual" \in p => (e.manual_invalidate <=> s # Timed!Never)
  /\ p = {"timeout"} => s # Timed!Never
  /\ "timeout" \notin p => s = Timed!Never

\* Every key m has, has a block of its own that was not released, and its times.
Owned(m, p, l, e, s, t) ==
  \A k \in CacheKeys : CP!hash_map_get(m, k) # None =>
    /\ CP!hash_map_get(m, k) \in l
    /\ \A j \in CacheKeys \ {k} : CP!hash_map_get(m, j) # CP!hash_map_get(m, k)
    /\ IsTimed(p, e[CP!hash_map_get(m, k)], s[k], t)

CacheSorts ==
  /\ policy \subseteq {"manual", "timeout"} /\ overwrite \in BOOLEAN
  /\ live \subseteq Blocks /\ now \in 0 .. MaxTime
  /\ entry \in [Blocks -> CacheEntries]
  /\ since \in [CacheKeys -> 0 .. Timed!Never] /\ orphaned \in BOOLEAN

CInv ==
  /\ CP!Good(map) /\ CacheSorts
  /\ ~orphaned => Owned(map, policy, live, entry, since, now)

LEMMA CInvTypes == CInv => Timed!TypeOK
BY SameCacheMap DEF CInv, CacheSorts, CacheEntries, Timed!TypeOK

LEMMA CInvLinked == CInv => Timed!Linked
BY SameCacheMap DEF CInv, Owned, Timed!Linked, Timed!Cached

LEMMA CInvOnTime == CInv => Timed!OnTime
<1> SUFFICES ASSUME CInv, ~orphaned, NEW k \in CacheKeys, Timed!Get(k) # None
             PROVE  Timed!Due(entry[Timed!Get(k)]) <=> Timed!Overdue(k)
  BY DEF Timed!OnTime, Timed!Cached
<1>1. IsTimed(policy, entry[Timed!Get(k)], since[k], now)
  BY SameCacheMap DEF CInv, Owned
<1>2. now \in Nat /\ since[k] \in Nat /\ TimeoutLen \in Nat \ {0} /\ Timed!Never \in Nat
  BY CacheAssumption DEF CInv, CacheSorts, Timed!Never
<1>3. entry[Timed!Get(k)].current_timeout =
        IF since[k] = Timed!Never THEN 0 ELSE since[k] + TimeoutLen
  BY <1>1 DEF IsTimed
<1>4. CASE since[k] = Timed!Never
  BY <1>3, <1>4 DEF Timed!Due, Timed!Overdue
<1>5. CASE since[k] # Timed!Never
  <2>1. "manual" \in policy => entry[Timed!Get(k)].manual_invalidate
    BY <1>1, <1>5 DEF IsTimed
  <2> QED
    BY <1>2, <1>3, <1>5, <2>1 DEF Timed!Due, Timed!Overdue
<1> QED
  BY <1>4, <1>5

LEMMA CInvInit == Timed!Init => CInv
<1> SUFFICES ASSUME Timed!Init PROVE CInv
  OBVIOUS
<1>1. map = CP!Created(0)
  BY SameCacheMap DEF Timed!Init
<1>2. CP!Good(map) /\ CP!EntriesOf(map) = {}
  <2>1. CP!Good(CP!Created(0)) /\ CP!EntriesOf(CP!Created(0)) = {}
    BY CP!CreatedGood, CacheTables
  <2> QED
    BY <1>1, <2>1
<1>3. \A k \in CacheKeys : CP!hash_map_get(map, k) = None
  BY <1>2, CP!Got, CacheTables DEF CP!Good
<1>4. CacheSorts
  <2>1. MaxTime \in Nat /\ TimeoutLen \in Nat
    BY CacheAssumption
  <2>2. Timed!NoEntry \in CacheEntries /\ Timed!Never \in 0 .. Timed!Never /\ 0 \in 0 .. MaxTime
    BY <2>1 DEF CacheEntries, Timed!NoEntry, Timed!Never
  <2> QED
    BY <2>2 DEF Timed!Init, CacheSorts
<1> QED
  BY <1>2, <1>3, <1>4 DEF CInv, Owned

\* What a look-up gives is a block or nothing.
LEMMA CacheGot ==
  ASSUME CP!Good(map), NEW k \in CacheKeys
  PROVE  CP!hash_map_get(map, k) \in Blocks \cup {None}
BY CP!GotValue, CacheTables

\* A key that gets block b, which no other key has, and an entry to go with it.
LEMMA OwnedAfterPut ==
  ASSUME NEW m, CP!Good(m), NEW p, NEW l, NEW e \in [Blocks -> CacheEntries],
         NEW s \in [CacheKeys -> 0 .. Timed!Never], NEW t, Owned(m, p, l, e, s, t),
         NEW k \in CacheKeys, NEW b \in Blocks, NEW o \in CP!hash_map_put(m, k, b),
         b \notin l \ {CP!hash_map_get(m, k)},
         o.ret = -1 => CP!hash_map_get(m, k) = None,
         NEW f \in CacheEntries, NEW z \in 0 .. Timed!Never, IsTimed(p, f, z, t)
  PROVE  Owned(o.map, p, (l \ {CP!hash_map_get(m, k)}) \cup {b},
               [e EXCEPT ![b] = f], [s EXCEPT ![k] = z], t)
<1> DEFINE Got(n, j) == CP!hash_map_get(n, j)
<1>1. \A j \in CacheKeys : Got(o.map, j) = IF j = k /\ o.ret # -1 THEN b ELSE Got(m, j)
  BY CP!GotAfterPut, CacheTables
<1>2. \A j \in CacheKeys : Got(m, j) # None =>
        /\ Got(m, j) \in l
        /\ \A i \in CacheKeys \ {j} : Got(m, i) # Got(m, j)
        /\ IsTimed(p, e[Got(m, j)], s[j], t)
  BY DEF Owned
<1>3. \A j \in CacheKeys : Got(m, j) \in Blocks \cup {None}
  BY CP!GotValue, CacheTables
<1> HIDE DEF Got
<1>4. ASSUME NEW j \in CacheKeys, j # k, Got(m, j) # None
      PROVE  /\ Got(m, j) \in l \ {Got(m, k)} /\ Got(m, j) # b
             /\ IsTimed(p, [e EXCEPT ![b] = f][Got(m, j)], [s EXCEPT ![k] = z][j], t)
  <2>1. Got(m, j) \in l \ {Got(m, k)} /\ Got(m, j) # b
    BY <1>2, <1>4 DEF Got
  <2>2. [e EXCEPT ![b] = f][Got(m, j)] = e[Got(m, j)] /\ [s EXCEPT ![k] = z][j] = s[j]
    BY <1>3, <1>4, <2>1
  <2> QED
    BY <1>2, <1>4, <2>1, <2>2
<1>5. [e EXCEPT ![b] = f][b] = f /\ [s EXCEPT ![k] = z][k] = z
  OBVIOUS
<1>6. b # None
  BY CacheAssumption
<1>7. ASSUME NEW j \in CacheKeys, Got(o.map, j) # None
      PROVE  /\ Got(o.map, j) \in (l \ {Got(m, k)}) \cup {b}
             /\ \A i \in CacheKeys \ {j} : Got(o.map, i) # Got(o.map, j)
             /\ IsTimed(p, [e EXCEPT ![b] = f][Got(o.map, j)], [s EXCEPT ![k] = z][j], t)
  <2>1. CASE j = k
    <3>1. o.ret # -1 /\ Got(o.map, j) = b
      BY <1>1, <1>7, <2>1 DEF Got
    <3>2. \A i \in CacheKeys \ {j} : Got(o.map, i) = Got(m, i)
      BY <1>1, <2>1
    <3> QED
      BY <1>4, <1>5, <1>6, <2>1, <3>1, <3>2
  <2>2. CASE j # k
    <3>1. Got(o.map, j) = Got(m, j)
      BY <1>1, <2>2
    <3>2. \A i \in CacheKeys \ {j} : Got(o.map, i) # Got(m, j)
      BY <1>1, <1>2, <1>4, <1>7, <2>2, <3>1
    <3> QED
      BY <1>4, <1>7, <2>2, <3>1, <3>2
  <2> QED
    BY <2>1, <2>2
<1> QED
  BY <1>7 DEF Owned, Got

\* Keys that go leave the others what they have.
LEMMA OwnedByFewer ==
  ASSUME NEW m, NEW p, NEW l, NEW e, NEW s, NEW t, Owned(m, p, l, e, s, t),
         NEW n, \A j \in CacheKeys : CP!hash_map_get(n, j) \in {None, CP!hash_map_get(m, j)}
  PROVE  Owned(n, p, l, e, s, t)
<1> DEFINE Got(a, j) == CP!hash_map_get(a, j)
<1>1. \A j \in CacheKeys : Got(n, j) = None \/ Got(n, j) = Got(m, j)
  OBVIOUS
<1>2. \A j \in CacheKeys : Got(m, j) # None =>
        /\ Got(m, j) \in l
        /\ \A i \in CacheKeys \ {j} : Got(m, i) # Got(m, j)
        /\ IsTimed(p, e[Got(m, j)], s[j], t)
  BY DEF Owned
<1> HIDE DEF Got
<1>3. \A j \in CacheKeys : Got(n, j) # None =>
        /\ Got(n, j) \in l
        /\ \A i \in CacheKeys \ {j} : Got(n, i) # Got(n, j)
        /\ IsTimed(p, e[Got(n, j)], s[j], t)
  BY <1>1, <1>2
<1> QED
  BY <1>3 DEF Owned, Got

LEMMA Stamped ==
  ASSUME NEW x
  PROVE  LET f == [Timed!NoEntry EXCEPT !.current_timeout = x]
         IN  /\ f.current_timeout = x /\ ~f.manual_invalidate
             /\ x \in 0 .. MaxTime + TimeoutLen => f \in CacheEntries
<1> DEFINE e == Timed!NoEntry
<1>1. /\ e \in [manual_invalidate : BOOLEAN, current_timeout : {0}]
      /\ ~e.manual_invalidate
  BY DEF Timed!NoEntry
<1> HIDE DEF e
<1>2. LET f == [e EXCEPT !.current_timeout = x]
      IN  /\ f.current_timeout = x /\ ~f.manual_invalidate
          /\ x \in 0 .. MaxTime + TimeoutLen => f \in CacheEntries
  BY <1>1 DEF CacheEntries
<1> QED
  BY <1>2 DEF e

LEMMA CachePrealloc ==
  ASSUME CInv, NEW k \in CacheKeys, Timed!cache_prealloc(k)
  PROVE  CInv'
<1>1. /\ CP!Good(map) /\ CacheSorts
      /\ ~orphaned => Owned(map, policy, live, entry, since, now)
  BY DEF CInv
<1>2. policy' = policy /\ overwrite' = overwrite /\ now' = now
  BY DEF Timed!cache_prealloc
<1>3. Timed!Evicted(k) = live \ {CP!hash_map_get(map, k)}
  BY SameCacheMap DEF Timed!Evicted
<1>4. CASE \E b \in Timed!zalloc(k) : \E o \in Timed!Placed(k, b) :
             /\ map' = o.map
             /\ live' = Timed!Evicted(k) \cup {b}
             /\ entry' = [entry EXCEPT ![b] =
                           [Timed!NoEntry EXCEPT !.current_timeout = Timed!FirstTimeout]]
             /\ orphaned' = (orphaned \/ (Timed!Get(k) # None /\ o.ret = -1))
             /\ since' = [since EXCEPT ![k] =
                           IF policy = {"timeout"} THEN now ELSE Timed!Never]
  <2> DEFINE f == [Timed!NoEntry EXCEPT !.current_timeout = Timed!FirstTimeout]
             z == IF policy = {"timeout"} THEN now ELSE Timed!Never
  <2>1. PICK b \in Timed!zalloc(k) : \E o \in Timed!Placed(k, b) :
          /\ map' = o.map /\ live' = Timed!Evicted(k) \cup {b}
          /\ entry' = [entry EXCEPT ![b] = f]
          /\ orphaned' = (orphaned \/ (Timed!Get(k) # None /\ o.ret = -1))
          /\ since' = [since EXCEPT ![k] = z]
    BY <1>4
  <2>2. PICK o \in Timed!Placed(k, b) :
          /\ map' = o.map /\ live' = Timed!Evicted(k) \cup {b}
          /\ entry' = [entry EXCEPT ![b] = f]
          /\ orphaned' = (orphaned \/ (Timed!Get(k) # None /\ o.ret = -1))
          /\ since' = [since EXCEPT ![k] = z]
    BY <2>1
  <2>3. b \in Blocks /\ b \notin live \ {CP!hash_map_get(map, k)}
    BY <1>3 DEF Timed!zalloc
  <2>4. o \in CP!hash_map_put(map, k, b)
    BY SameCacheMap DEF Timed!Placed
  <2>5. f \in CacheEntries /\ z \in 0 .. Timed!Never /\ IsTimed(policy, f, z, now)
    <3>1. now \in 0 .. MaxTime /\ TimeoutLen \in Nat \ {0} /\ MaxTime \in Nat
      BY <1>1, CacheAssumption DEF CacheSorts
    <3>3. /\ z \in 0 .. Timed!Never /\ Timed!FirstTimeout \in 0 .. MaxTime + TimeoutLen
          /\ policy = {"timeout"} => z = now /\ z # Timed!Never
          /\ policy # {"timeout"} => z = Timed!Never
          /\ Timed!FirstTimeout = IF z = Timed!Never THEN 0 ELSE z + TimeoutLen
      <4>1. policy = {"timeout"} => z = now /\ Timed!FirstTimeout = now + TimeoutLen
        BY DEF Timed!FirstTimeout
      <4>2. policy # {"timeout"} => z = Timed!Never /\ Timed!FirstTimeout = 0
        BY DEF Timed!FirstTimeout
      <4> HIDE DEF z
      <4> QED
        BY <3>1, <4>1, <4>2 DEF Timed!Never
    <3>4. /\ "manual" \in policy => policy # {"timeout"}
          /\ "timeout" \notin policy => policy # {"timeout"}
      OBVIOUS
    <3>5. f \in CacheEntries /\ f.current_timeout = Timed!FirstTimeout /\ ~f.manual_invalidate
      BY <3>3, Stamped
    <3> HIDE DEF f, z
    <3>6. IsTimed(policy, f, z, now)
      BY <3>1, <3>3, <3>4, <3>5 DEF IsTimed
    <3> QED
      BY <3>3, <3>5, <3>6
  <2> HIDE DEF f, z
  <2>6. CP!Good(map')
    <3>1. CP!Good(o.map)
      BY <1>1, <2>3, <2>4, CP!PutGood, CacheTables
    <3> QED
      BY <2>2, <3>1
  <2>7. CacheSorts'
    BY <1>1, <1>2, <1>3, <2>2, <2>3, <2>5 DEF CacheSorts
  <2>8. ASSUME ~orphaned' PROVE Owned(map', policy', live', entry', since', now')
    <3>1. ~orphaned /\ (o.ret = -1 => CP!hash_map_get(map, k) = None)
      BY <2>2, <2>8, SameCacheMap
    <3>2. Owned(map, policy, live, entry, since, now)
      BY <1>1, <3>1
    <3>3. entry \in [Blocks -> CacheEntries] /\ since \in [CacheKeys -> 0 .. Timed!Never]
      BY <1>1 DEF CacheSorts
    <3>4. Owned(o.map, policy, (live \ {CP!hash_map_get(map, k)}) \cup {b},
                [entry EXCEPT ![b] = f], [since EXCEPT ![k] = z], now)
      BY <1>1, <2>3, <2>4, <2>5, <3>1, <3>2, <3>3, OwnedAfterPut
    <3> QED
      BY <1>2, <1>3, <2>2, <3>4
  <2> QED
    BY <2>6, <2>7, <2>8 DEF CInv
<1>5. CASE /\ live' = Timed!Evicted(k)
           /\ orphaned' = (orphaned \/ Timed!Get(k) # None)
           /\ UNCHANGED <<map, entry, since>>
  <2>1. CacheSorts'
    BY <1>1, <1>2, <1>3, <1>5 DEF CacheSorts
  <2>2. ASSUME ~orphaned' PROVE Owned(map', policy', live', entry', since', now')
    <3>1. ~orphaned /\ CP!hash_map_get(map, k) = None
      BY <1>5, <2>2, SameCacheMap
    <3>2. live' = live
      BY <1>1, <1>3, <1>5, <3>1, CacheAssumption DEF CacheSorts
    <3> QED
      BY <1>1, <1>2, <1>5, <3>1, <3>2
  <2> QED
    BY <1>1, <1>5, <2>1, <2>2 DEF CInv
<1> QED
  BY <1>4, <1>5 DEF Timed!cache_prealloc

LEMMA CacheFewer ==
  ASSUME CInv, CP!Good(map'), UNCHANGED <<policy, overwrite, live, entry, now, since, orphaned>>,
         \A j \in CacheKeys :
           CP!hash_map_get(map', j) \in {None, CP!hash_map_get(map, j)}
  PROVE  CInv'
<1>1. CacheSorts /\ CacheSorts'
  BY DEF CInv, CacheSorts
<1>2. ASSUME ~orphaned PROVE Owned(map', policy, live, entry, since, now)
  <2>1. Owned(map, policy, live, entry, since, now)
    BY <1>2 DEF CInv
  <2> QED
    BY <2>1, OwnedByFewer
<1> QED
  BY <1>1, <1>2 DEF CInv

LEMMA CacheRemove ==
  ASSUME CInv, NEW k \in CacheKeys, Timed!cache_remove(k)
  PROVE  CInv'
<1>1. CP!Good(map) /\ map' = CP!hash_map_remove(map, k)
  BY SameCacheMap DEF CInv, Timed!cache_remove
<1>2. CP!Good(CP!hash_map_remove(map, k))
  BY <1>1, CP!RemoveGood, CacheTables
<1>3. \A j \in CacheKeys : CP!hash_map_get(CP!hash_map_remove(map, k), j) =
                             IF j = k THEN None ELSE CP!hash_map_get(map, j)
  BY <1>1, CP!GotAfterRemove, CacheTables
<1> QED
  BY <1>1, <1>2, <1>3, CacheFewer DEF Timed!cache_remove

LEMMA CachePostponed ==
  ASSUME CInv, NEW k \in CacheKeys, {"manual", "timeout"} \subseteq policy,
         Timed!Get(k) # None, Timed!Postponed(k)
  PROVE  CInv'
<1> DEFINE Got(j) == CP!hash_map_get(map, j)
           f == [manual_invalidate |-> TRUE, current_timeout |-> now + TimeoutLen]
<1>1. CP!Good(map) /\ CacheSorts /\ (~orphaned => Owned(map, policy, live, entry, since, now))
  BY DEF CInv
<1>2. Got(k) \in Blocks
  BY <1>1, CacheGot, SameCacheMap
<1>3. /\ entry' = [entry EXCEPT ![Got(k)] = f] /\ since' = [since EXCEPT ![k] = now]
      /\ UNCHANGED <<map, policy, overwrite, live, now, orphaned>>
  BY SameCacheMap DEF Timed!Postponed
<1>4. now \in 0 .. MaxTime /\ TimeoutLen \in Nat \ {0} /\ MaxTime \in Nat
  BY <1>1, CacheAssumption DEF CacheSorts
<1>5. f \in CacheEntries /\ now \in 0 .. Timed!Never /\ IsTimed(policy, f, now, now)
  BY <1>4 DEF CacheEntries, Timed!Never, IsTimed
<1> HIDE DEF f
<1>6. CacheSorts'
  BY <1>1, <1>2, <1>3, <1>5 DEF CacheSorts
<1>7. ASSUME ~orphaned PROVE Owned(map, policy, live, entry', since', now)
  <2>1. \A j \in CacheKeys : Got(j) # None =>
          /\ Got(j) \in live
          /\ \A i \in CacheKeys \ {j} : Got(i) # Got(j)
          /\ IsTimed(policy, entry[Got(j)], since[j], now)
    BY <1>1, <1>7 DEF Owned
  <2>2. \A j \in CacheKeys : Got(j) \in Blocks \cup {None}
    BY <1>1, CacheGot
  <2>3. entry \in [Blocks -> CacheEntries] /\ since \in [CacheKeys -> 0 .. Timed!Never]
    BY <1>1 DEF CacheSorts
  <2> HIDE DEF Got
  <2>4. \A j \in CacheKeys : j # k /\ Got(j) # None =>
          entry'[Got(j)] = entry[Got(j)] /\ since'[j] = since[j]
    BY <1>2, <1>3, <2>1, <2>2, <2>3
  <2>5. entry'[Got(k)] = f /\ since'[k] = now
    BY <1>2, <1>3, <2>3
  <2>6. \A j \in CacheKeys : Got(j) # None =>
          /\ Got(j) \in live
          /\ \A i \in CacheKeys \ {j} : Got(i) # Got(j)
          /\ IsTimed(policy, entry'[Got(j)], since'[j], now)
    BY <1>5, <2>1, <2>4, <2>5
  <2> QED
    BY <2>6 DEF Owned, Got
<1> QED
  BY <1>1, <1>3, <1>6, <1>7 DEF CInv

LEMMA CacheCleanup ==
  ASSUME CInv, Timed!cache_cleanup
  PROVE  CInv'
<1> DEFINE K == Timed!DueKeys
<1>1. CP!Good(map)
  BY DEF CInv
<1>2. \A k \in K : k \in CacheKeys /\ CP!hash_map_get(map, k) # None
  BY SameCacheMap DEF Timed!DueKeys
<1>3. K \in SUBSET {e.key : e \in CP!EntriesOf(map)}
  <2>1. \A k \in CacheKeys : (\A e \in CP!EntriesOf(map) : e.key # k) =>
                               CP!hash_map_get(map, k) = None
    BY <1>1, CP!Got, CacheTables DEF CP!Good
  <2> HIDE DEF K
  <2> QED
    BY <1>2, <2>1
<1>4. map' = [map EXCEPT !.buckets = [i \in DOMAIN @ |-> {e \in @[i] : e.key \notin K}],
                        !.size = @ - Timed!Cardinality(K)]
  BY DEF Timed!cache_cleanup, Timed!Without
<1> HIDE DEF K
<1>5. /\ CP!Good(map')
      /\ CP!EntriesOf(map') = {e \in CP!EntriesOf(map) : e.key \notin K}
  <2>1. Timed!Cardinality(K) = CP!Cardinality(K)
    BY SameCount
  <2>2. map' = [map EXCEPT !.buckets = [i \in DOMAIN @ |-> {e \in @[i] : e.key \notin K}],
                          !.size = @ - CP!Cardinality(K)]
    BY ONLY <1>4, <2>1, Zenon
  <2>3. map' = CP!Filtered(map, K)
    BY <2>2 DEF CP!Filtered
  <2> QED
    BY <1>1, <1>3, <2>3, CP!FilterGood, CacheTables
<1>6. \A j \in CacheKeys : CP!hash_map_get(map', j) =
                             IF j \in K THEN None ELSE CP!hash_map_get(map, j)
  BY <1>1, <1>5, CP!GotAfterFilter, CacheTables
<1> QED
  BY <1>5, <1>6, CacheFewer DEF Timed!cache_cleanup

LEMMA CacheTick ==
  ASSUME CInv, Timed!Tick
  PROVE  CInv'
<1>1. /\ now \in 0 .. MaxTime /\ now < MaxTime /\ MaxTime \in Nat /\ now' = now + 1
      /\ UNCHANGED <<map, policy, overwrite, live, entry, since, orphaned>>
  BY CacheAssumption DEF CInv, CacheSorts, Timed!Tick
<1>2. CacheSorts'
  BY <1>1 DEF CInv, CacheSorts
<1>3. \A p, e, s : IsTimed(p, e, s, now) /\ s \in 0 .. Timed!Never => IsTimed(p, e, s, now + 1)
  BY <1>1 DEF IsTimed, Timed!Never
<1>4. \A k \in CacheKeys : since[k] \in 0 .. Timed!Never
  BY DEF CInv, CacheSorts
<1>5. Owned(map, policy, live, entry, since, now) => Owned(map, policy, live, entry, since, now + 1)
  BY <1>3, <1>4 DEF Owned
<1> QED
  BY <1>1, <1>2, <1>5 DEF CInv

\* Whatever is put in, demanded, cleaned up and refused, in whatever order.
LEMMA CacheStep ==
  ASSUME CInv, Timed!Next
  PROVE  CInv'
<1>1. ASSUME NEW k \in CacheKeys, Timed!cache_manual_invalidate(k)
      PROVE  CInv'
  <2>1. CASE "timeout" \in policy
    BY <1>1, <2>1, CachePostponed DEF Timed!cache_manual_invalidate
  <2>2. CASE "timeout" \notin policy
    BY <1>1, <2>2, CacheRemove DEF Timed!cache_manual_invalidate
  <2> QED
    BY <2>1, <2>2
<1> QED
  BY <1>1, CachePrealloc, CacheRemove, CacheCleanup, CacheTick DEF Timed!Next

-----------------------------------------------------------------------------
\* Whichever of them it is.

\* Strengthens the type invariant: the records of the queue, the entries of the map
\* that are as many as a number can say, the blocks and times of the cache, and the
\* nodes of a list, each once, that its links run through.
Inv ==
  /\ which \in {"queue", "ring", "map", "cache", "single", "double", "chunks"}
  /\ which = "queue" => QueueOK(q)
  /\ which = "ring" => Ring!TypeOK
  /\ which = "map" => MP!MInv
  /\ which = "cache" => CInv
  /\ which = "single" => SingleOK
  /\ which = "double" => DoubleOK
  /\ which = "chunks" => ChunksOK

LEMMA InvInit == Init => Inv
BY QueueInit, RingInit, MapInit, CInvInit, SingleInit, DoubleInit, ChunksInit DEF Init, Inv

LEMMA ListStep ==
  ASSUME Inv, Lists, which' = which
  PROVE  /\ SequenceSpec!Next
         /\ (which = "single" /\ SingleOK') \/ (which = "double" /\ DoubleOK')
              \/ (which = "chunks" /\ ChunksOK')
<1>1. CASE which = "single" /\ Single!Next
  <2>1. \E s, k : SLinked(list, s, k)
    BY <1>1 DEF Inv, SingleOK
  <2> QED
    BY <1>1, <2>1, SingleStep DEF SStepped, SingleOK
<1>2. CASE which = "double" /\ Double!Next
  <2>1. \E s, k : DLinked(list, s, k)
    BY <1>2 DEF Inv, DoubleOK
  <2> QED
    BY <1>2, <2>1, DoubleStep DEF DStepped, DoubleOK
<1>3. CASE which = "chunks" /\ Chunks!Next
  <2>1. \E K : Chunked(list, K)
    BY <1>3 DEF Inv, ChunksOK
  <2> QED
    BY <1>3, <2>1, ChunksStep DEF CStepped, ChunksOK
<1> QED
  BY <1>1, <1>2, <1>3 DEF Lists

LEMMA InvNext == Inv /\ [Next]_vars => Inv'
<1> SUFFICES ASSUME Inv, [Next]_vars PROVE Inv'
  OBVIOUS
<1>1. CASE UNCHANGED vars
  <2>1. /\ QueueOK(q) => QueueOK(q')
        /\ Ring!TypeOK => Ring!TypeOK'
        /\ MP!MInv => MP!MInv'
        /\ CInv => CInv'
    BY <1>1 DEF vars, slots, cached, Ring!TypeOK, MP!MInv, MP!TypeOK, CInv, CacheSorts
  <2>2. (SingleOK => SingleOK') /\ (DoubleOK => DoubleOK') /\ (ChunksOK => ChunksOK')
    BY <1>1 DEF vars, SingleOK, DoubleOK, ChunksOK
  <2> QED
    BY <1>1, <2>1, <2>2 DEF vars, Inv
<1>2. CASE which = "queue" /\ which' = which /\ Queue!Next
  BY <1>2, QueueStep DEF Inv
<1>3. CASE which = "ring" /\ which' = which /\ Ring!Next
  BY <1>3, RingStep DEF Inv
<1>4. CASE which = "map" /\ which' = which /\ Map!Next
  BY <1>4, MapStep DEF Inv
<1>5. CASE which = "cache" /\ which' = which /\ Timed!Next
  BY <1>5, CacheStep DEF Inv
<1>6. CASE Lists /\ which' = which
  BY <1>6, ListStep DEF Inv, Lists
<1> QED
  BY <1>1, <1>2, <1>3, <1>4, <1>5, <1>6 DEF Next

LEMMA InvAlways == Spec => []Inv
BY InvInit, InvNext, PTL DEF Spec

\* The ends, lengths and capacities of the queues fit their arrays through growth,
\* refused memory and copies that wrap, the entries of a map lie under their hashes,
\* no key twice, and are few enough, the cache has blocks that zalloc gave and times
\* within its bounds, and the links, ends, lengths and chunks of the lists fit, sorting
\* and copying included (queue.c:34-92, ring_buffer.c:16-55, ring_buffer.hpp:17-64,
\* hashmap.c:120-235, cache.h:55-87, linked_list.c:63-188,
\* double_linked_list.c:51-159, chunk_array.c:21-84).
THEOREM TypeCorrect == Spec => []TypeOK
<1>1. Inv => TypeOK
  BY QueueView, MapTypes, CInvTypes, SingleTypes, DoubleTypes, ChunksTypes DEF Inv, TypeOK
<1> QED
  BY <1>1, InvAlways, PTL

\* As long as memory did not run out between the release of a block and its
\* replacement, what cache_get gives is a block that was not released, and no other
\* key's (cache.h:56-63).
THEOREM BlocksAreLive == Spec => []Linked
<1>1. Inv => Linked
  BY CInvLinked DEF Inv, Linked
<1> QED
  BY <1>1, InvAlways, PTL

\* Cleanup drops an entry exactly when its time is up, whatever policies are mixed
\* and whatever the block or the key was used for before (cache.h:46-48, 64).
THEOREM EntriesGoOnTime == Spec => []OnTime
<1>1. Inv => OnTime
  BY CInvOnTime DEF Inv, OnTime
<1> QED
  BY <1>1, InvAlways, PTL

-----------------------------------------------------------------------------
LEMMA FifoInit == Init => FifoSpec!Init
<1> SUFFICES ASSUME Init PROVE FifoSpec!Init
  OBVIOUS
<1>1. CASE which = "queue"
  <2>1. Queue!FifoSpec!Init
    BY <1>1, QueueInit DEF Init
  <2> QED
    BY <1>1, <2>1 DEF Queue!FifoSpec!Init, FifoSpec!Init, bound, items, IsQueue
<1>2. CASE which = "ring"
  <2>1. Ring!FifoSpec!Init
    BY <1>2, RingInit DEF Init
  <2> QED
    BY <1>2, <2>1 DEF Ring!FifoSpec!Init, FifoSpec!Init, bound, items, IsQueue
<1>3. CASE which \in {"map", "cache", "single", "double", "chunks"}
  BY <1>3 DEF Init, FifoSpec!Init, bound, items, IsQueue, NoCall
<1> QED
  BY <1>1, <1>2, <1>3 DEF Init

LEMMA FifoNext == Inv /\ [Next]_vars => [FifoSpec!Next]_FifoSpec!vars
<1> SUFFICES ASSUME Inv, [Next]_vars PROVE [FifoSpec!Next]_FifoSpec!vars
  OBVIOUS
<1>1. CASE UNCHANGED vars
  BY <1>1 DEF vars, slots, FifoSpec!vars, bound, items, IsQueue, Queue!items, Ring!items,
    Ring!size, Ring!Advanced
<1>2. CASE which = "queue" /\ which' = which /\ Queue!Next
  <2>1. Queue!FifoSpec!Next
    BY <1>2, QueueStep DEF Inv
  <2>2. /\ items = Queue!items /\ items' = Queue!items'
        /\ bound = IF q.max_capacity = 0 THEN LengthBound ELSE q.max_capacity
        /\ bound' = IF q'.max_capacity = 0 THEN LengthBound ELSE q'.max_capacity
        /\ (which = "queue") = TRUE /\ (which' = "queue") = TRUE
        /\ (IF IsQueue THEN out ELSE <<>>) = out
        /\ (IF IsQueue' THEN out' ELSE <<>>) = out'
    BY <1>2 DEF items, bound, IsQueue
  <2> QED
    BY <2>1, <2>2 DEF Queue!FifoSpec!Next, FifoSpec!Next, Queue!FifoSpec!Put, FifoSpec!Put,
      Queue!FifoSpec!Refuse, FifoSpec!Refuse, Queue!FifoSpec!Take, FifoSpec!Take,
      Queue!FifoSpec!Clear, FifoSpec!Clear, Queue!FifoSpec!Min, FifoSpec!Min
<1>3. CASE which = "ring" /\ which' = which /\ Ring!Next
  <2>1. Ring!FifoSpec!Next
    BY <1>3, RingStep DEF Inv
  <2>2. /\ items = Ring!items /\ items' = Ring!items'
        /\ bound = Capacity /\ bound' = Capacity
        /\ (which = "queue") = FALSE /\ (which' = "queue") = FALSE
        /\ (IF IsQueue THEN out ELSE <<>>) = out
        /\ (IF IsQueue' THEN out' ELSE <<>>) = out'
    BY <1>3 DEF items, bound, IsQueue
  <2> QED
    BY <2>1, <2>2 DEF Ring!FifoSpec!Next, FifoSpec!Next, Ring!FifoSpec!Put, FifoSpec!Put,
      Ring!FifoSpec!Refuse, FifoSpec!Refuse, Ring!FifoSpec!Take, FifoSpec!Take,
      Ring!FifoSpec!Clear, FifoSpec!Clear, Ring!FifoSpec!Min, FifoSpec!Min
<1>4. CASE which \in {"map", "cache", "single", "double", "chunks"}
            /\ which' = which /\ offered' = offered
  BY <1>4 DEF FifoSpec!vars, bound, items, IsQueue
<1> QED
  BY <1>1, <1>2, <1>3, <1>4 DEF Next, Lists

\* Clients of the queue and of the ring see a queue: elements come out in the order
\* in which they went in, none lost or repeated, through growth while they are wrapped,
\* refused memory, and copies around the end (queue.c:39-56, ring_buffer.hpp:17-64).
THEOREM QueuesAreFifo == Spec => ImplementsFifo
BY FifoInit, FifoNext, InvAlways, PTL DEF Spec, ImplementsFifo, FifoSpec!Spec

LEMMA DictInit == Init => DictSpec!Init
<1> SUFFICES ASSUME Init PROVE DictSpec!Init
  OBVIOUS
<1>1. CASE which = "map"
  BY <1>1, MapInit DEF Init
<1>2. CASE which # "map"
  BY <1>2 DEF DictSpec!Init, contents
<1> QED
  BY <1>1, <1>2

LEMMA DictNext == Inv /\ [Next]_vars => [DictSpec!Next]_DictSpec!vars
<1> SUFFICES ASSUME Inv, [Next]_vars PROVE [DictSpec!Next]_DictSpec!vars
  OBVIOUS
<1>1. CASE UNCHANGED vars
  BY <1>1 DEF vars, DictSpec!vars, contents, Map!contents
<1>2. CASE which = "map" /\ which' = which /\ Map!Next
  BY <1>2, MapStep DEF Inv
<1>3. CASE which # "map" /\ which' = which
  BY <1>3 DEF DictSpec!vars, contents
<1>4. ASSUME Next PROVE which' = which /\ (which = "map" => Map!Next)
  BY <1>4 DEF Next, Lists
<1> QED
  BY <1>1, <1>2, <1>3, <1>4

\* Clients of the map see a dictionary: every call is a step of one or none, before
\* and after the table grows and when memory runs out half-way (hashmap.c:144-182).
THEOREM MapIsDictionary == Spec => ImplementsDict
BY DictInit, DictNext, InvAlways, PTL DEF Spec, ImplementsDict, DictSpec!Spec

LEMMA SequenceInit == Init => SequenceSpec!Init
<1> SUFFICES ASSUME Init PROVE SequenceSpec!Init
  OBVIOUS
<1>1. CASE IsList
  BY <1>1, SingleInit, DoubleInit, ChunksInit DEF Init, IsList
<1>2. CASE ~IsList
  BY <1>2 DEF IsList, sequence, SequenceSpec!Init
<1> QED
  BY <1>1, <1>2

LEMMA SequenceNext == Inv /\ [Next]_vars => [SequenceSpec!Next]_SequenceSpec!vars
<1> SUFFICES ASSUME Inv, [Next]_vars PROVE [SequenceSpec!Next]_SequenceSpec!vars
  OBVIOUS
<1>1. CASE UNCHANGED vars
  <2>1. which' = which /\ list' = list /\ out' = out
    BY <1>1 DEF vars
  <2>2. sequence' = sequence
    BY <2>1 DEF sequence, Single!contents, Single!DataOf, Single!InOrder, Double!contents,
      Double!DataOf, Double!InOrder, Double!Walk, Chunks!contents, Chunks!DataOf
  <2>3. IsList' = IsList
    BY <2>1 DEF IsList
  <2> QED
    BY <2>1, <2>2, <2>3 DEF SequenceSpec!vars
<1>2. CASE Lists /\ which' = which
  BY <1>2, ListStep
<1>3. CASE ~IsList /\ which' = which
  BY <1>3 DEF IsList, sequence, SequenceSpec!vars
<1>4. CASE Next
  <2>1. which' = which /\ (Lists \/ which \in {"queue", "ring", "map", "cache"})
    BY <1>4 DEF Next
  <2>2. CASE which \in {"queue", "ring", "map", "cache"}
    BY <1>3, <2>1, <2>2 DEF IsList
  <2> QED
    BY <1>2, <2>1, <2>2
<1> QED
  BY <1>1, <1>4

\* Clients of a list of either kind and of the chunked array see a sequence: every call,
\* sorting and copying included, works at the place it names, gives back what is there
\* and disturbs nothing else (linked_list.c:42-188, double_linked_list.c:24-182,
\* chunk_array.c:21-84).
THEOREM ListsAreSequences == Spec => ImplementsSequence
BY SequenceInit, SequenceNext, InvAlways, PTL DEF Spec, ImplementsSequence, SequenceSpec!Spec
=============================================================================

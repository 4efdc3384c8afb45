------------------------------ MODULE TreeProofs ------------------------------
(***************************************************************************)
(* Both kinds of tree stay search trees that a walk visits in order, and   *)
(* insertion keeps the red-black conditions, for any nodes, keys and data. *)
(* The inductive invariant says that the tree is sound:                    *)
(*   - Shaped: a finite tree, whose nodes know their parents;              *)
(*   - Sorted: every node has a range of keys, which splits at its key     *)
(*     into the ranges of its children.  Equal keys may be on both sides   *)
(*     once there were rotations;                                          *)
(*   - Placed: the nodes have places in order, which rotations keep;       *)
(*   - Counted and Distinct: the count is the number of nodes, and a walk  *)
(*     by keys meets them all, while no two keys are equal;                *)
(*   - Painting: the red-black conditions, as long as no node was removed. *)
(***************************************************************************)
EXTENDS Tree, FiniteSetTheorems, WellFoundedInduction, TLAPS

-----------------------------------------------------------------------------
\* Least and greatest elements, and what is iterated.

LEMMA LeastNumber ==
  ASSUME NEW S \in SUBSET Nat, S # {}
  PROVE  \E n \in S : \A m \in S : n <= m
<1> DEFINE T == {0 .. n : n \in S}
<1>1. T \subseteq FiniteSubsetsOf(Nat) /\ T # {}
  <2>1. \A n \in S : IsFiniteSet(0 .. n) /\ 0 .. n \subseteq Nat
    BY FS_Interval
  <2>2. \A x \in T : IsFiniteSet(x) /\ x \subseteq Nat
    BY <2>1
  <2> QED
    BY <2>2 DEF FiniteSubsetsOf
<1>2. PICK x \in T : \A y \in T : <<y, x>> \notin StrictSubsetOrdering(Nat)
  <2> HIDE DEF T
  <2> QED
    BY <1>1, WFMin, FS_StrictSubsetOrderingWellFounded
<1>3. PICK n \in S : x = 0 .. n
  OBVIOUS
<1>4. ASSUME NEW m \in S, m < n PROVE FALSE
  <2>1. 0 .. m \subseteq 0 .. n /\ 0 .. m # 0 .. n /\ 0 .. m \in T
    <3>1. n \in 0 .. n /\ n \notin 0 .. m
      BY <1>4
    <3> QED
      BY <1>4, <3>1
  <2>2. <<0 .. m, 0 .. n>> \in StrictSubsetOrdering(Nat)
    BY <2>1 DEF StrictSubsetOrdering
  <2> QED
    BY <1>2, <1>3, <2>1, <2>2
<1> QED
  BY <1>4

\* Of the elements of a set that have a property there is one with the least
\* measure.
LEMMA LeastBy ==
  ASSUME NEW S, S # {}, NEW h, \A x \in S : h[x] \in Nat
  PROVE  \E x \in S : \A y \in S : h[x] <= h[y]
<1> DEFINE H == {h[x] : x \in S}
<1>1. PICK n \in H : \A m \in H : n <= m
  BY LeastNumber
<1> QED
  BY <1>1

\* And of finitely many one with the greatest.
LEMMA GreatestBy ==
  ASSUME NEW S, IsFiniteSet(S), S # {}, NEW h, \A x \in S : h[x] \in Nat
  PROVE  \E x \in S : \A y \in S : h[y] <= h[x]
<1> DEFINE Sized(n) == {T \in SUBSET S : T # {} /\ Cardinality(T) = n}
           Without(T) == \A x \in T : \E y \in T : ~(h[y] <= h[x])
           B == {n \in Nat : \E T \in Sized(n) : Without(T)}
<1>1. SUFFICES ASSUME B # {} PROVE FALSE
  <2>1. Cardinality(S) \in Nat
    BY FS_CardinalityType
  <2>2. ~Without(S)
    BY <1>1, <2>1
  <2> QED
    BY <2>2
<1>2. PICK n \in B : \A m \in B : n <= m
  BY <1>1, LeastNumber
<1>3. PICK T \in Sized(n) : Without(T)
  BY <1>2
<1>4. PICK x \in T : TRUE
  BY <1>3
<1>5. /\ IsFiniteSet(T \ {x}) /\ Cardinality(T \ {x}) = n - 1
      /\ Cardinality(T \ {x}) \in Nat
  <2>1. IsFiniteSet(T)
    BY <1>3, FS_Subset
  <2>2. IsFiniteSet(T \ {x}) /\ Cardinality(T \ {x}) = Cardinality(T) - 1
    BY <2>1, <1>4, FS_RemoveElement
  <2> QED
    BY <2>2, <1>3, FS_CardinalityType
<1>6. T \ {x} # {}
  BY <1>3, <1>4
<1>7. ~Without(T \ {x})
  <2>1. n - 1 \notin B
    <3>1. n \in Nat /\ ~(n <= n - 1)
      BY <1>2
    <3> QED
      BY <1>2, <3>1
  <2>2. T \ {x} \in Sized(n - 1) /\ n - 1 \in Nat
    BY <1>3, <1>5, <1>6
  <2> HIDE DEF Sized, Without
  <2> QED
    BY <2>1, <2>2
<1>8. PICK y \in T \ {x} : \A z \in T \ {x} : h[z] <= h[y]
  BY <1>7
<1>9. h[x] \in Nat /\ h[y] \in Nat /\ \A z \in T : h[z] \in Nat
  BY <1>3, <1>4
<1>10. PICK u \in T : ~(h[u] <= h[y])
  BY <1>3
<1>11. u = x
  BY <1>8, <1>10
<1>12. PICK v \in T : ~(h[v] <= h[x])
  BY <1>3, <1>4
<1>13. v # x
  BY <1>9, <1>12
<1>14. h[v] <= h[y]
  BY <1>8, <1>13
<1> QED
  BY <1>9, <1>10, <1>11, <1>12, <1>14

Iteration(g, S, x, f, N) ==
  g \in [0 .. N -> S] /\ g[0] = x /\ \A i \in 1 .. N : g[i] = f[g[i - 1]]

\* A step can be taken any number of times.
LEMMA Iterated ==
  ASSUME NEW S, NEW x \in S, NEW f \in [S -> S], NEW N \in Nat
  PROVE  \E g : Iteration(g, S, x, f, N)
<1> DEFINE Is(g, n) == g \in [0 .. n -> S] /\ g[0] = x /\ \A i \in 1 .. n : g[i] = f[g[i - 1]]
           B == {n \in Nat : \A g \in [0 .. n -> S] : ~Is(g, n)}
<1>1. B = {}
  <2>1. SUFFICES ASSUME B # {} PROVE FALSE
    OBVIOUS
  <2>2. PICK n \in B : \A m \in B : n <= m
    BY <2>1, LeastNumber
  <2>3. n # 0
    <3>1. Is([i \in 0 .. 0 |-> x], 0)
      OBVIOUS
    <3> QED
      BY <3>1
  <2>4. n - 1 \in Nat /\ n - 1 \notin B
    <3>1. n \in Nat
      BY <2>2
    <3>2. n - 1 \in Nat /\ ~(n <= n - 1)
      BY <3>1, <2>3
    <3> QED
      BY <2>2, <3>2
  <2>5. PICK g \in [0 .. n - 1 -> S] : Is(g, n - 1)
    BY <2>4
  <2> DEFINE k == [i \in 0 .. n |-> IF i = n THEN f[g[n - 1]] ELSE g[i]]
  <2>6. n - 1 \in 0 .. n - 1
    BY <2>4
  <2>7. \A i \in 0 .. n : i # n => i \in 0 .. n - 1
    BY <2>4
  <2>8. k \in [0 .. n -> S]
    BY <2>5, <2>6, <2>7
  <2>9. k[0] = x
    BY <2>3, <2>4, <2>5
  <2>10. ASSUME NEW i \in 1 .. n PROVE k[i] = f[k[i - 1]]
    <3>1. i \in 0 .. n /\ i - 1 \in 0 .. n /\ i - 1 # n /\ (i # n => i \in 1 .. n - 1)
      BY <2>4
    <3>2. k[i - 1] = g[i - 1]
      BY <3>1
    <3> QED
      BY <2>5, <3>1, <3>2
  <2>11. Is(k, n)
    BY <2>8, <2>9, <2>10
  <2> QED
    BY <2>2, <2>8, <2>11
<1>2. PICK g \in [0 .. N -> S] : Is(g, N)
  BY <1>1
<1> QED
  BY <1>2 DEF Iteration

-----------------------------------------------------------------------------
\* What is met from a node on: the least set that holds the node and is closed.

Closed(next, S) == S \subseteq Nodes /\ \A m \in S : next[m] \subseteq S \cup {Nil}

LEMMA MetFacts ==
  ASSUME NEW next \in [Nodes -> SUBSET (Nodes \cup {Nil})], NEW n \in Nodes \cup {Nil}
  PROVE  /\ Closed(next, Met(next, n)) /\ n \in Met(next, n) \cup {Nil}
         /\ \A S : Closed(next, S) /\ n \in S \cup {Nil} => Met(next, n) \subseteq S
<1> DEFINE N == Cardinality(Nodes)
           Grow(in) == (in \cup UNION {next[m] : m \in in}) \ {Nil}
           f == [in \in SUBSET Nodes |-> Grow(in)]
           Is(g) == g = [i \in 0 .. N |-> IF i = 0 THEN {n} \ {Nil} ELSE Grow(g[i - 1])]
           w == CHOOSE g : Is(g)
<1>1. N \in Nat /\ IsFiniteSet(Nodes) /\ Nil \notin Nodes
  BY FS_CardinalityType, TreeAssumption
<1>2. {n} \ {Nil} \in SUBSET Nodes
  OBVIOUS
<1>3. \A in \in SUBSET Nodes : Grow(in) \in SUBSET Nodes
  OBVIOUS
<1>4. f \in [SUBSET Nodes -> SUBSET Nodes] /\ \A in \in SUBSET Nodes : f[in] = Grow(in)
  BY <1>3
<1> HIDE DEF f, N
<1>5. PICK g \in [0 .. N -> SUBSET Nodes] :
        g[0] = {n} \ {Nil} /\ \A i \in 1 .. N : g[i] = f[g[i - 1]]
  <2> DEFINE S == SUBSET Nodes
             x == {n} \ {Nil}
  <2>1. x \in S /\ f \in [S -> S] /\ N \in Nat
    BY <1>1, <1>2, <1>4
  <2> HIDE DEF x, S
  <2>2. \E g : Iteration(g, S, x, f, N)
    BY <2>1, Iterated
  <2> QED
    BY <2>2 DEF x, S, Iteration
<1>6. \A i \in 0 .. N : i # 0 => i \in 1 .. N /\ i - 1 \in 0 .. N
  BY <1>1
<1>7. Is(g)
  <2> HIDE DEF Grow
  <2>1. \A i \in 0 .. N : i # 0 => g[i] = Grow(g[i - 1])
    BY <1>4, <1>5, <1>6
  <2> QED
    BY <1>5, <2>1
<1>8. Is(w)
  <2> HIDE DEF Is
  <2> QED
    BY <1>7
<1>9. Met(next, n) = w[N]
  BY DEF Met, N
<1> HIDE DEF w
<1>10. w[0] = {n} \ {Nil} /\ \A i \in 1 .. N : w[i] = Grow(w[i - 1])
  <2>1. 0 \in 0 .. N /\ \A i \in 1 .. N : i \in 0 .. N /\ i # 0
    BY <1>1
  <2> HIDE DEF Grow
  <2> QED
    BY <1>8, <2>1
<1> DEFINE Kept(i) == w[i] \subseteq Nodes /\ n \in w[i] \cup {Nil}
                      /\ \A S : Closed(next, S) /\ n \in S \cup {Nil} => w[i] \subseteq S
           Full(i) == Closed(next, w[i])
           Big(i) == Full(i) \/ Cardinality(w[i]) >= i
           B == {i \in 0 .. N : ~(Kept(i) /\ Big(i))}
<1>11. Kept(0) /\ Big(0)
  <2>1. Kept(0)
    BY <1>2, <1>10 DEF Closed
  <2>2. IsFiniteSet({n} \ {Nil})
    BY <1>1, <1>2, FS_Subset
  <2>3. Cardinality(w[0]) \in Nat
    BY <1>10, <2>2, FS_CardinalityType
  <2> QED
    BY <2>1, <2>3
<1>12. ASSUME NEW i \in 1 .. N, Kept(i - 1), Big(i - 1) PROVE Kept(i) /\ Big(i)
  <2>1. w[i] = Grow(w[i - 1]) /\ w[i - 1] \subseteq Nodes
    BY <1>10, <1>12
  <2>2. w[i - 1] \subseteq w[i] /\ w[i] \subseteq Nodes
    BY <2>1, <1>1
  <2>3. Kept(i)
    <3>1. ASSUME NEW S, Closed(next, S), n \in S \cup {Nil} PROVE w[i] \subseteq S
      <4>1. w[i - 1] \subseteq S
        BY <1>12, <3>1
      <4> QED
        BY <2>1, <4>1, <3>1 DEF Closed
    <3> QED
      BY <2>2, <3>1, <1>12
  <2>4. CASE w[i] = w[i - 1]
    <3>1. Full(i)
      <4>1. \A m \in w[i - 1] : next[m] \subseteq w[i - 1] \cup {Nil}
        BY <2>1, <2>4
      <4> QED
        BY <2>2, <2>4, <4>1 DEF Closed
    <3> QED
      BY <2>3, <3>1
  <2>5. CASE w[i] # w[i - 1]
    <3>1. Cardinality(w[i - 1]) >= i - 1
      <4>1. CASE Full(i - 1)
        <5>1. w[i] \subseteq w[i - 1]
          BY <2>1, <4>1 DEF Closed
        <5> QED
          BY <5>1, <2>2, <2>5
      <4> QED
        BY <1>12, <4>1
    <3>2. IsFiniteSet(w[i]) /\ IsFiniteSet(w[i - 1])
      BY <1>1, <2>1, <2>2, FS_Subset
    <3>3. /\ Cardinality(w[i - 1]) <= Cardinality(w[i])
          /\ Cardinality(w[i - 1]) # Cardinality(w[i])
      BY <2>2, <2>5, <3>2, FS_Subset
    <3>4. Cardinality(w[i]) \in Nat /\ Cardinality(w[i - 1]) \in Nat /\ i \in Nat
      BY <3>2, FS_CardinalityType, <1>1
    <3>5. Cardinality(w[i]) >= i
      BY <3>1, <3>3, <3>4
    <3> QED
      BY <2>3, <3>5
  <2> QED
    BY <2>4, <2>5
<1>13. B = {}
  <2> HIDE DEF Kept, Big
  <2>1. SUFFICES ASSUME B # {} PROVE FALSE
    OBVIOUS
  <2>2. PICK i \in B : \A m \in B : i <= m
    <3>1. B \in SUBSET Nat
      BY <1>1
    <3> HIDE DEF B
    <3> QED
      BY <2>1, <3>1, LeastNumber
  <2>3. i # 0 /\ i \in 0 .. N
    BY <1>11, <2>2
  <2>4. i \in 1 .. N /\ i - 1 \in 0 .. N /\ ~(i <= i - 1)
    BY <2>3, <1>1
  <2>5. i - 1 \notin B
    BY <2>2, <2>4
  <2>6. Kept(i - 1) /\ Big(i - 1)
    BY <2>4, <2>5
  <2> QED
    BY <1>12, <2>2, <2>4, <2>6
<1>14. Kept(N) /\ Big(N)
  <2> HIDE DEF Kept, Big
  <2> QED
    BY <1>1, <1>13
<1>15. Full(N)
  <2>1. SUFFICES ASSUME Cardinality(w[N]) >= N PROVE Full(N)
    BY <1>14
  <2>2. IsFiniteSet(w[N]) /\ Cardinality(w[N]) <= N
    BY <1>1, <1>14, FS_Subset DEF N
  <2>3. Cardinality(w[N]) \in Nat
    BY <2>2, FS_CardinalityType
  <2>4. Cardinality(w[N]) = N
    BY <1>1, <2>1, <2>2, <2>3
  <2>5. w[N] = Nodes
    BY <1>1, <1>14, <2>4, FS_Subset DEF N
  <2> QED
    BY <2>5 DEF Closed
<1> QED
  BY <1>9, <1>14, <1>15

\* A way that goes from each node to one other.
Onwards == [Nodes -> Nodes \cup {Nil}]
Leads(f, S) == S \subseteq Nodes /\ \A m \in S : f[m] \in S \cup {Nil}

LEMMA WayFacts ==
  ASSUME NEW f \in Onwards, NEW n \in Nodes \cup {Nil}
  PROVE  /\ Leads(f, Way(f, n)) /\ n \in Way(f, n) \cup {Nil}
         /\ \A S : Leads(f, S) /\ n \in S \cup {Nil} => Way(f, n) \subseteq S
<1> DEFINE next == [m \in Nodes |-> {f[m]}]
<1>1. next \in [Nodes -> SUBSET (Nodes \cup {Nil})]
  BY DEF Onwards
<1>2. \A S : Closed(next, S) <=> Leads(f, S)
  BY DEF Closed, Leads
<1>3. Way(f, n) = Met(next, n)
  BY DEF Way
<1> HIDE DEF next
<1> QED
  BY <1>1, <1>2, <1>3, MetFacts

\* Whatever is met behind the start is met from something met before.
LEMMA WayBack ==
  ASSUME NEW f \in Onwards, NEW n \in Nodes \cup {Nil}, NEW m \in Way(f, n), m # n
  PROVE  \E x \in Way(f, n) : f[x] = m
<1>1. SUFFICES ASSUME \A x \in Way(f, n) : f[x] # m PROVE FALSE
  OBVIOUS
<1> DEFINE S == Way(f, n) \ {m}
<1>2. Leads(f, S) /\ n \in S \cup {Nil}
  BY <1>1, WayFacts DEF Leads
<1>3. Way(f, n) \subseteq S
  BY <1>2, WayFacts
<1> QED
  BY <1>3

\* It ends at one node only.
LEMMA OneEnd ==
  ASSUME NEW f \in Onwards, NEW n \in Nodes \cup {Nil},
         NEW a \in Way(f, n), f[a] = Nil, NEW b \in Way(f, n), f[b] = Nil
  PROVE  a = b
<1> DEFINE S == {m \in Way(f, n) : a \in Way(f, m)}
<1>0. Nil \notin Nodes /\ Way(f, n) \subseteq Nodes
  BY TreeAssumption, WayFacts DEF Leads
<1>1. ASSUME NEW m \in Nodes PROVE Way(f, m) \subseteq {m} \cup Way(f, f[m])
  <2>1. f[m] \in Nodes \cup {Nil}
    BY DEF Onwards
  <2>2. Leads(f, {m} \cup Way(f, f[m]))
    BY <2>1, WayFacts DEF Leads
  <2> QED
    BY <2>2, WayFacts
<1>2. n \in S \cup {Nil}
  BY WayFacts
<1>3. Leads(f, S)
  <2>1. ASSUME NEW m \in S PROVE f[m] \in S \cup {Nil}
    <3>1. m \in Nodes /\ f[m] \in Way(f, n) \cup {Nil}
      BY <1>0, WayFacts DEF Leads
    <3>2. CASE m = a
      BY <3>2
    <3>3. CASE m # a
      <4>1. a \in Way(f, f[m])
        BY <3>1, <3>3, <1>1
      <4> QED
        BY <4>1, <3>1
    <3> QED
      BY <3>2, <3>3
  <2> QED
    BY <2>1, <1>0 DEF Leads
<1>4. a \in Way(f, b)
  BY <1>2, <1>3, WayFacts
<1>5. Leads(f, {b}) /\ b \in Nodes
  BY <1>0 DEF Leads
<1>6. Way(f, b) \subseteq {b}
  BY <1>5, WayFacts
<1> QED
  BY <1>4, <1>6

LEMMA LastIs ==
  ASSUME NEW f \in Onwards, NEW n \in Nodes \cup {Nil}, NEW a \in Way(f, n), f[a] = Nil
  PROVE  LastOf(f, n) = a
<1>1. LastOf(f, n) \in Way(f, n) /\ f[LastOf(f, n)] = Nil
  BY DEF LastOf
<1> QED
  BY <1>1, OneEnd

\* A way that only goes down, or only up, has an end.
LEMMA Ends ==
  ASSUME NEW f \in Onwards, NEW n \in Nodes, NEW h \in [Nodes -> Nat],
         \/ \A m \in Way(f, n) : f[m] # Nil => h[f[m]] < h[m]
         \/ \A m \in Way(f, n) : f[m] # Nil => h[m] < h[f[m]]
  PROVE  LastOf(f, n) \in Way(f, n) /\ f[LastOf(f, n)] = Nil
<1>1. /\ n \in Way(f, n) /\ Way(f, n) \subseteq Nodes /\ IsFiniteSet(Way(f, n))
      /\ \A m \in Way(f, n) : f[m] \in Way(f, n) \cup {Nil}
  <2>1. n \in Way(f, n) /\ Leads(f, Way(f, n))
    BY TreeAssumption, WayFacts
  <2> QED
    BY <2>1, TreeAssumption, FS_Subset DEF Leads
<1>2. \A x \in Way(f, n) : h[x] \in Nat
  BY <1>1
<1>3. \E a \in Way(f, n) : f[a] = Nil
  <2>1. CASE \A m \in Way(f, n) : f[m] # Nil => h[f[m]] < h[m]
    <3>1. PICK a \in Way(f, n) : \A y \in Way(f, n) : h[a] <= h[y]
      BY <1>1, <1>2, LeastBy
    <3>2. f[a] # Nil => h[a] <= h[f[a]] /\ h[f[a]] < h[a] /\ h[f[a]] \in Nat /\ h[a] \in Nat
      BY <1>1, <1>2, <2>1, <3>1
    <3> QED
      BY <3>2
  <2>2. CASE \A m \in Way(f, n) : f[m] # Nil => h[m] < h[f[m]]
    <3>1. PICK a \in Way(f, n) : \A y \in Way(f, n) : h[y] <= h[a]
      BY <1>1, <1>2, GreatestBy
    <3>2. f[a] # Nil => h[f[a]] <= h[a] /\ h[a] < h[f[a]] /\ h[f[a]] \in Nat /\ h[a] \in Nat
      BY <1>1, <1>2, <2>2, <3>1
    <3> QED
      BY <3>2
  <2> QED
    BY <2>1, <2>2
<1> QED
  BY <1>3 DEF LastOf

-----------------------------------------------------------------------------
\* What a tree is: nodes linked both ways, each lower than its parent, and each
\* with what is below it on one side and the other.

Trees ==
  [root : Nodes \cup {Nil}, count : Nat,
   key : [Nodes -> Keys \cup {0}], data : [Nodes -> Data \cup {Nil}],
   child : [Nodes -> [Sides -> Nodes \cup {Nil}]], parent : [Nodes -> Nodes \cup {Nil}],
   colour : [Nodes -> {"red", "black"}]]

Linked(t, M) ==
  /\ M \subseteq Nodes /\ t.root \in M \cup {Nil} /\ (t.root = Nil => M = {})
  /\ t.root # Nil => t.parent[t.root] = Nil
  /\ \A n \in M, s \in Sides :
       t.child[n][s] # Nil => t.child[n][s] \in M /\ t.parent[t.child[n][s]] = n
  /\ \A n \in M : t.child[n]["lh"] = t.child[n]["rh"] => t.child[n]["lh"] = Nil
  /\ \A n \in M \ {t.root} : t.parent[n] \in M /\ \E s \in Sides : t.child[t.parent[n]][s] = n

Down(t, M, h) ==
  /\ h \in [Nodes -> Nat]
  /\ \A n \in M, s \in Sides : t.child[n][s] # Nil => h[t.child[n][s]] < h[n]

Beside(s, k, v) == IF s = "lh" THEN k <= v ELSE v <= k

\* K[n] holds the values v of all nodes from n down.
Ordered(t, M, v, K) ==
  /\ K \in [Nodes -> SUBSET Int]
  /\ \A n \in M : v[n] \in K[n]
  /\ \A n \in M, s \in Sides : t.child[n][s] # Nil =>
       K[t.child[n][s]] \subseteq K[n] /\ \A k \in K[t.child[n][s]] : Beside(s, k, v[n])

LEMMA SidesFacts ==
  /\ \A s \in Sides : Other(s) \in Sides /\ Other(s) # s /\ Other(Other(s)) = s
  /\ \A s, d \in Sides : d = s \/ d = Other(s)
  /\ "lh" \in Sides /\ "rh" \in Sides /\ Other("lh") = "rh" /\ Other("rh") = "lh"
BY DEF Sides, Other

\* From the root down nothing but the nodes of the tree is met, and all of them.
LEMMA MembersAre ==
  ASSUME NEW t \in Trees, NEW M, Linked(t, M), NEW h, Down(t, M, h)
  PROVE  Members(t) = M
<1> DEFINE next == [m \in Nodes |-> {t.child[m][s] : s \in Sides}]
           R == Met(next, t.root)
<1>1. /\ t.root \in Nodes \cup {Nil} /\ t.child \in [Nodes -> [Sides -> Nodes \cup {Nil}]]
      /\ Nil \notin Nodes /\ IsFiniteSet(Nodes) /\ M \subseteq Nodes
  BY TreeAssumption DEF Trees, Linked
<1>2. next \in [Nodes -> SUBSET (Nodes \cup {Nil})]
  BY <1>1
<1>3. Members(t) = R
  BY DEF Members
<1>4. /\ Closed(next, R) /\ t.root \in R \cup {Nil}
      /\ \A S : Closed(next, S) /\ t.root \in S \cup {Nil} => R \subseteq S
  <2> HIDE DEF next
  <2> QED
    BY <1>1, <1>2, MetFacts
<1>5. Closed(next, M) /\ t.root \in M \cup {Nil}
  <2>1. \A m \in M : next[m] \subseteq M \cup {Nil}
    BY <1>1 DEF Linked
  <2> QED
    BY <1>1, <2>1 DEF Closed, Linked
<1>6. R \subseteq M
  BY <1>4, <1>5
<1>7. M \subseteq R
  <2>1. SUFFICES ASSUME M \ R # {} PROVE FALSE
    OBVIOUS
  <2>2. IsFiniteSet(M \ R) /\ \A n \in M \ R : h[n] \in Nat
    BY <1>1, FS_Subset DEF Down
  <2>3. PICK n \in M \ R : \A m \in M \ R : h[m] <= h[n]
    BY <2>1, <2>2, GreatestBy
  <2>4. n # t.root
    BY <1>1, <1>4, <2>3
  <2>5. PICK s \in Sides : t.parent[n] \in M /\ t.child[t.parent[n]][s] = n
    BY <2>3, <2>4 DEF Linked
  <2>6. t.parent[n] \notin R
    <3>1. ASSUME t.parent[n] \in R PROVE FALSE
      <4>1. n \in next[t.parent[n]]
        BY <1>1, <2>5
      <4>2. n \in R
        BY <1>1, <1>4, <2>3, <3>1, <4>1 DEF Closed
      <4> QED
        BY <4>2, <2>3
    <3> QED
      BY <3>1
  <2>7. h[n] < h[t.parent[n]] /\ n # Nil
    BY <1>1, <2>3, <2>5 DEF Down
  <2>8. h[t.parent[n]] <= h[n] /\ h[n] \in Nat /\ h[t.parent[n]] \in Nat
    BY <2>2, <2>3, <2>5, <2>6
  <2> QED
    BY <2>7, <2>8
<1> QED
  BY <1>3, <1>6, <1>7

\* Trees that differ in nothing but links.
SameNodes(u, t) ==
  /\ u \in Trees /\ u.count = t.count /\ u.key = t.key /\ u.data = t.data /\ u.colour = t.colour

Parented(u, t, root, n, q) ==
  /\ SameNodes(u, t) /\ u.root = root
  /\ \A z \in Nodes, d \in Sides : u.child[z][d] = t.child[z][d]
  /\ \A z \in Nodes : u.parent[z] = IF z = n THEN q ELSE t.parent[z]

Relinked(u, t, p, s, c, n, q) ==
  /\ SameNodes(u, t) /\ u.root = t.root
  /\ \A z \in Nodes, d \in Sides : u.child[z][d] = IF z = p /\ d = s THEN c ELSE t.child[z][d]
  /\ \A z \in Nodes : u.parent[z] = IF z = n THEN q ELSE t.parent[z]

LEMMA NewParent ==
  ASSUME NEW t \in Trees, NEW n \in Nodes, NEW q \in Nodes \cup {Nil}
  PROVE  Parented([t EXCEPT !.parent[n] = q], t, t.root, n, q)
BY DEF Trees, SameNodes, Parented

LEMMA NewRoot ==
  ASSUME NEW t \in Trees, NEW n \in Nodes, NEW q \in Nodes \cup {Nil}
  PROVE  Parented([t EXCEPT !.root = n, !.parent[n] = q], t, n, n, q)
BY DEF Trees, SameNodes, Parented

LEMMA NewChild ==
  ASSUME NEW t \in Trees, NEW p \in Nodes, NEW s \in Sides, NEW c \in Nodes \cup {Nil}
  PROVE  Relinked([t EXCEPT !.child[p][s] = c], t, p, s, c, p, t.parent[p])
BY DEF Trees, SameNodes, Relinked

LEMMA NewLink ==
  ASSUME NEW t \in Trees, NEW p \in Nodes, NEW s \in Sides, NEW c \in Nodes \cup {Nil},
         NEW n \in Nodes, NEW q \in Nodes \cup {Nil}
  PROVE  Relinked([t EXCEPT !.child[p][s] = c, !.parent[n] = q], t, p, s, c, n, q)
BY DEF Trees, SameNodes, Relinked

\* The nodes around one that goes down on side s: y below it, p above it, i inside.
Near(t, M, x, s, y, p, i) ==
  /\ x \in Nodes /\ y \in M /\ y \in Nodes /\ Nil \notin Nodes /\ M \subseteq Nodes
  /\ p \in Nodes \cup {Nil} /\ i \in Nodes \cup {Nil}
  /\ Other(s) \in Sides /\ s # Other(s)
  /\ t.child \in [Nodes -> [Sides -> Nodes \cup {Nil}]]
  /\ t.parent \in [Nodes -> Nodes \cup {Nil}]
  /\ y = t.child[x][Other(s)] /\ p = t.parent[x] /\ i = t.child[y][s]
  /\ t.parent[y] = x /\ (i # Nil => i \in M /\ t.parent[i] = y)
  /\ p # Nil => p \in M /\ \E d \in Sides : t.child[p][d] = x
  /\ x # y /\ p # x /\ p # y /\ i # x /\ i # y /\ (i # Nil => i # p) /\ x # Nil /\ y # Nil

LEMMA NearFacts ==
  ASSUME NEW t \in Trees, NEW M, Linked(t, M), NEW h, Down(t, M, h),
         NEW x \in M, NEW s \in Sides, t.child[x][Other(s)] # Nil
  PROVE  Near(t, M, x, s, t.child[x][Other(s)], t.parent[x], t.child[t.child[x][Other(s)]][s])
<1> DEFINE y == t.child[x][Other(s)]
           p == t.parent[x]
           i == t.child[y][s]
<1>1. /\ x \in Nodes /\ y \in M /\ y \in Nodes /\ Nil \notin Nodes /\ M \subseteq Nodes
      /\ p \in Nodes \cup {Nil} /\ i \in Nodes \cup {Nil}
      /\ Other(s) \in Sides /\ s # Other(s)
      /\ t.child \in [Nodes -> [Sides -> Nodes \cup {Nil}]]
      /\ t.parent \in [Nodes -> Nodes \cup {Nil}]
  <2>1. t.child \in [Nodes -> [Sides -> Nodes \cup {Nil}]] /\ t.parent \in [Nodes -> Nodes \cup {Nil}]
    BY DEF Trees
  <2>2. Other(s) \in Sides /\ s # Other(s)
    BY SidesFacts
  <2>3. x \in Nodes /\ y \in M /\ M \subseteq Nodes
    BY <2>2 DEF Linked
  <2> QED
    BY <2>1, <2>2, <2>3, TreeAssumption
<1>2. h[y] < h[x] /\ t.parent[y] = x /\ (i # Nil => i \in M /\ h[i] < h[y] /\ t.parent[i] = y)
  BY <1>1 DEF Linked, Down
<1>3. p # Nil => p \in M /\ (\E d \in Sides : t.child[p][d] = x) /\ h[x] < h[p]
  <2>1. p # Nil => x # t.root
    BY <1>1 DEF Linked
  <2>2. p # Nil => p \in M /\ \E d \in Sides : t.child[p][d] = x
    BY <2>1 DEF Linked
  <2>3. x # Nil
    BY <1>1
  <2> QED
    BY <2>2, <2>3 DEF Down
<1>4. h[x] \in Nat /\ h[y] \in Nat /\ (p # Nil => h[p] \in Nat) /\ (i # Nil => h[i] \in Nat)
  BY <1>1 DEF Down
<1>5. x # y /\ p # x /\ p # y /\ i # x /\ i # y /\ (i # Nil => i # p) /\ x # Nil /\ y # Nil
  <2>1. x # y /\ x # Nil /\ y # Nil
    BY <1>1, <1>2, <1>4
  <2>2. p # x /\ p # y
    BY <1>1, <1>2, <1>3, <1>4, <2>1
  <2>3. i # x /\ i # y /\ (i # Nil => i # p)
    BY <1>1, <1>2, <1>3, <1>4, <2>1
  <2> QED
    BY <2>1, <2>2, <2>3
<1> QED
  BY <1>1, <1>2, <1>3, <1>5 DEF Near

\* A rotation changes the links of three nodes and of the one above them.
Rotation(r, t, x, s, y, p, i) ==
  /\ SameNodes(r, t) /\ r.root = IF p = Nil THEN y ELSE t.root
  /\ \A z \in Nodes, d \in Sides : r.child[z][d] =
       IF z = x THEN IF d = s THEN t.child[x][s] ELSE i
       ELSE IF z = y THEN IF d = s THEN x ELSE t.child[y][d]
       ELSE IF z = p /\ t.child[p][d] = x THEN y ELSE t.child[z][d]
  /\ \A z \in Nodes : r.parent[z] =
       IF z = x THEN y ELSE IF z = y THEN p ELSE IF z = i THEN x ELSE t.parent[z]

LEMMA RotateIs ==
  ASSUME NEW t \in Trees, NEW M, Linked(t, M), NEW x \in M, NEW s \in Sides,
         NEW y, NEW p, NEW i, Near(t, M, x, s, y, p, i)
  PROVE  Rotation(Rotate(t, x, s), t, x, s, y, p, i)
<1> DEFINE a == IF i = Nil THEN t ELSE [t EXCEPT !.parent[i] = x]
           b == [a EXCEPT !.child[x][Other(s)] = i]
           c == Replaced(b, x, y)
           r == [c EXCEPT !.child[y][s] = x, !.parent[x] = y]
           side == IF t.child[p]["lh"] = x THEN "lh" ELSE "rh"
<1>1. /\ x \in Nodes /\ y \in M /\ y \in Nodes /\ Nil \notin Nodes /\ M \subseteq Nodes
      /\ p \in Nodes \cup {Nil} /\ i \in Nodes \cup {Nil}
      /\ Other(s) \in Sides /\ s # Other(s)
      /\ t.child \in [Nodes -> [Sides -> Nodes \cup {Nil}]]
      /\ t.parent \in [Nodes -> Nodes \cup {Nil}]
  BY DEF Near
<1>3. p # Nil => p \in M /\ \E d \in Sides : t.child[p][d] = x
  BY DEF Near
<1>4. y = t.child[x][Other(s)] /\ p = t.parent[x] /\ i = t.child[y][s]
  BY DEF Near
<1>5. x # y /\ p # x /\ p # y /\ i # x /\ i # y /\ (i # Nil => i # p) /\ x # Nil /\ y # Nil
  BY DEF Near
<1>6. Parented(a, t, t.root, i, x)
  <2>1. CASE i = Nil
    BY <1>1, <2>1 DEF SameNodes, Parented
  <2>2. CASE i # Nil
    BY <1>1, <2>2, NewParent
  <2> QED
    BY <2>1, <2>2
<1> HIDE DEF a
<1>7. Relinked(b, a, x, Other(s), i, x, a.parent[x])
  BY <1>1, <1>6, NewChild DEF Parented, SameNodes
<1> HIDE DEF b
<1>8. IF p = Nil THEN Parented(c, b, y, y, p) ELSE Relinked(c, b, p, side, y, y, p)
  <2>1. b.parent[x] = p
    BY <1>1, <1>4, <1>5, <1>6, <1>7 DEF Parented, Relinked
  <2>2. p # Nil => b.child[p]["lh"] = t.child[p]["lh"] /\ p \in Nodes
    BY <1>1, <1>5, <1>6, <1>7, SidesFacts DEF Parented, Relinked
  <2>3. side \in Sides /\ b \in Trees
    BY SidesFacts, <1>7 DEF Relinked, SameNodes
  <2>4. CASE p = Nil
    <3>1. c = [b EXCEPT !.root = y, !.parent[y] = Nil]
      BY <2>1, <2>4 DEF Replaced
    <3>2. Parented([b EXCEPT !.root = y, !.parent[y] = Nil], b, y, y, Nil)
      BY <1>1, <2>3, NewRoot
    <3> QED
      BY <2>4, <3>1, <3>2
  <2>5. CASE p # Nil
    <3>1. c = [b EXCEPT !.child[p][side] = y, !.parent[y] = p]
      BY <2>1, <2>2, <2>5 DEF Replaced
    <3> HIDE DEF side
    <3>2. p \in Nodes /\ y \in Nodes \cup {Nil} /\ y \in Nodes /\ p \in Nodes \cup {Nil}
      BY <1>1, <2>2, <2>5
    <3>3. Relinked([b EXCEPT !.child[p][side] = y, !.parent[y] = p], b, p, side, y, y, p)
      BY <2>3, <3>2, NewLink
    <3> QED
      BY <2>5, <3>1, <3>3
  <2> QED
    BY <2>4, <2>5
<1> HIDE DEF c
<1>9. Relinked(r, c, y, s, x, x, y)
  <2>1. c \in Trees
    BY <1>8 DEF Parented, Relinked, SameNodes
  <2>2. y \in Nodes /\ x \in Nodes /\ y \in Nodes \cup {Nil} /\ x \in Nodes \cup {Nil}
    BY <1>1
  <2>3. Relinked([c EXCEPT !.child[y][s] = x, !.parent[x] = y], c, y, s, x, x, y)
    BY <2>1, <2>2, NewLink
  <2> QED
    BY <2>3
<1>10. r = Rotate(t, x, s)
  BY <1>4 DEF Rotate, r, c, b, a
<1> HIDE DEF r
<1>11. /\ SameNodes(r, t) /\ r.root = IF p = Nil THEN y ELSE t.root
       /\ \A z \in Nodes : r.parent[z] =
            IF z = x THEN y ELSE IF z = y THEN p ELSE IF z = i THEN x ELSE t.parent[z]
  BY <1>1, <1>5, <1>6, <1>7, <1>8, <1>9 DEF Parented, Relinked, SameNodes
<1>12. p # Nil => \A d \in Sides : d = side <=> t.child[p][d] = x
  <2>1. ASSUME p # Nil PROVE \A d \in Sides : d = side <=> t.child[p][d] = x
    <3>1. p \in M /\ \E d \in Sides : t.child[p][d] = x
      BY <2>1, <1>3
    <3>2. ~(t.child[p]["lh"] = x /\ t.child[p]["rh"] = x)
      BY <3>1, <1>5 DEF Linked
    <3> QED
      BY <3>1, <3>2 DEF Sides
  <2> QED
    BY <2>1
<1>13. \A z \in Nodes, d \in Sides : r.child[z][d] =
                  IF z = x THEN IF d = s THEN t.child[x][s] ELSE i
                  ELSE IF z = y THEN IF d = s THEN x ELSE t.child[y][d]
                  ELSE IF z = p /\ t.child[p][d] = x THEN y ELSE t.child[z][d]
  <2> HIDE DEF side
  <2>1. \A d \in Sides : d # s => d = Other(s)
    BY SidesFacts
  <2>2. \A z \in Nodes, d \in Sides : z = p => (d = side <=> t.child[p][d] = x)
    BY <1>1, <1>12
  <2> QED
    BY <1>1, <1>5, <1>6, <1>7, <1>8, <1>9, <2>1, <2>2 DEF Parented, Relinked
<1> QED
  BY <1>10, <1>11, <1>13 DEF Rotation

LEMMA RotationLinked ==
  ASSUME NEW t \in Trees, NEW M, Linked(t, M), NEW x \in M, NEW s \in Sides,
         NEW y, NEW p, NEW i, Near(t, M, x, s, y, p, i), NEW r, Rotation(r, t, x, s, y, p, i)
  PROVE  Linked(r, M)
<1>1. /\ M \subseteq Nodes /\ t.root \in M \cup {Nil} /\ t.root # Nil /\ t.parent[t.root] = Nil
      /\ Nil \notin Nodes /\ x \in M /\ y \in M
  BY DEF Linked, Near
<1>2. r.root \in M /\ r.root # Nil /\ r.parent[r.root] = Nil
  <2>1. CASE p = Nil
    BY <1>1, <2>1 DEF Near, Rotation
  <2>2. CASE p # Nil
    <3>1. t.root # x /\ t.root # y /\ t.root # i
      BY <1>1, <2>2 DEF Near
    <3> QED
      BY <1>1, <2>2, <3>1 DEF Rotation
  <2> QED
    BY <2>1, <2>2
<1>3. \A d \in Sides : d # s => d = Other(s)
  BY SidesFacts
<1>4. \A z \in M : z \in Nodes
  BY <1>1
<1>5. ASSUME NEW n \in M, NEW d \in Sides, r.child[n][d] # Nil
      PROVE  r.child[n][d] \in M /\ r.parent[r.child[n][d]] = n
  <2>1. CASE n = x
    <3>1. CASE d = s
      <4>1. r.child[n][d] = t.child[x][s]
        BY <2>1, <3>1, <1>4 DEF Rotation
      <4>2. t.child[x][s] \in M /\ t.parent[t.child[x][s]] = x
        BY <4>1, <1>5 DEF Linked
      <4>3. t.child[x][s] # y
        <5>1. t.child[x][s] # t.child[x][Other(s)]
          BY <4>1, <1>5, SidesFacts DEF Linked, Sides
        <5> QED
          BY <5>1 DEF Near
      <4>4. t.child[x][s] # x /\ t.child[x][s] # i
        BY <4>2 DEF Near
      <4> QED
        BY <4>1, <4>2, <4>3, <4>4, <1>4, <2>1 DEF Rotation
    <3>2. CASE d # s
      BY <2>1, <3>2, <1>4, <1>5 DEF Rotation, Near
    <3> QED
      BY <3>1, <3>2
  <2>2. CASE n = y
    <3>1. CASE d = s
      BY <2>2, <3>1, <1>4 DEF Rotation, Near
    <3>2. CASE d # s
      <4>1. r.child[n][d] = t.child[y][d] /\ d = Other(s)
        BY <2>2, <3>2, <1>3, <1>4 DEF Rotation, Near
      <4>2. t.child[y][d] \in M /\ t.parent[t.child[y][d]] = y
        BY <4>1, <1>1, <1>5 DEF Linked
      <4>3. t.child[y][d] # i
        <5>1. t.child[y][d] # t.child[y][s]
          BY <1>1, <4>1, <1>5, SidesFacts DEF Linked, Sides
        <5> QED
          BY <5>1 DEF Near
      <4>4. t.child[y][d] # x /\ t.child[y][d] # y
        BY <4>2 DEF Near
      <4> QED
        BY <4>1, <4>2, <4>3, <4>4, <1>4, <2>2 DEF Rotation
    <3> QED
      BY <3>1, <3>2
  <2>3. CASE n # x /\ n # y
    <3>1. CASE n = p /\ t.child[p][d] = x
      BY <2>3, <3>1, <1>1, <1>4 DEF Rotation, Near
    <3>2. CASE ~(n = p /\ t.child[p][d] = x)
      <4>1. r.child[n][d] = t.child[n][d]
        BY <2>3, <3>2, <1>4 DEF Rotation
      <4>2. t.child[n][d] \in M /\ t.parent[t.child[n][d]] = n
        BY <4>1, <1>5 DEF Linked
      <4>3. t.child[n][d] # x /\ t.child[n][d] # y /\ t.child[n][d] # i
        BY <4>2, <2>3, <3>2 DEF Near
      <4> QED
        BY <4>1, <4>2, <4>3, <1>4 DEF Rotation
    <3> QED
      BY <3>1, <3>2
  <2> QED
    BY <2>1, <2>2, <2>3
<1>6. ASSUME NEW n \in M, r.child[n]["lh"] = r.child[n]["rh"] PROVE r.child[n]["lh"] = Nil
  <2>1. SUFFICES ASSUME r.child[n]["lh"] # Nil PROVE FALSE
    OBVIOUS
  <2>2. n \in Nodes /\ "lh" \in Sides /\ "rh" \in Sides
    BY <1>4, SidesFacts
  <2>3. t.child[n]["lh"] = t.child[n]["rh"] => t.child[n]["lh"] = Nil
    BY DEF Linked
  <2>4. CASE n = x
    <3>1. i = t.child[x][s] /\ i # Nil
      BY <1>6, <2>1, <2>2, <2>4, SidesFacts DEF Rotation, Sides
    <3>2. t.parent[i] = x
      BY <3>1 DEF Linked
    <3> QED
      BY <3>1, <3>2 DEF Near
  <2>5. CASE n = y
    <3>1. x = t.child[y][Other(s)]
      BY <1>6, <2>1, <2>2, <2>5, SidesFacts DEF Rotation, Sides, Near
    <3>2. t.parent[x] = y
      BY <3>1, <1>1, SidesFacts DEF Linked
    <3> QED
      BY <3>1, <3>2 DEF Near
  <2>6. CASE n # x /\ n # y
    <3>1. CASE n = p
      <4>1. \A d \in Sides : r.child[n][d] = IF t.child[p][d] = x THEN y ELSE t.child[p][d]
        BY <2>2, <2>6, <3>1 DEF Rotation
      <4>2. \A d \in Sides : t.child[p][d] # y
        <5>1. ASSUME NEW d \in Sides, t.child[p][d] = y PROVE FALSE
          <6>1. t.parent[y] = p
            BY <5>1, <3>1, <1>1 DEF Linked
          <6> QED
            BY <6>1 DEF Near
        <5> QED
          BY <5>1
      <4>3. t.child[p]["lh"] = t.child[p]["rh"]
        BY <1>6, <2>2, <4>1, <4>2
      <4>4. t.child[p]["lh"] = Nil /\ t.child[p]["rh"] = Nil
        BY <2>3, <3>1, <4>3
      <4> QED
        BY <1>1, <2>1, <2>2, <4>1, <4>4
    <3>2. CASE n # p
      BY <1>6, <2>1, <2>2, <2>3, <2>6, <3>2 DEF Rotation
    <3> QED
      BY <3>1, <3>2
  <2> QED
    BY <2>4, <2>5, <2>6
<1>7. ASSUME NEW n \in M \ {r.root}
      PROVE  r.parent[n] \in M /\ \E d \in Sides : r.child[r.parent[n]][d] = n
  <2>1. n \in Nodes /\ Nil \notin M
    BY <1>1, <1>4
  <2>2. CASE n = x
    BY <2>1, <2>2, <1>1 DEF Rotation, Near
  <2>3. CASE n = y
    <3>1. p # Nil
      BY <1>7, <2>3 DEF Rotation
    <3>2. PICK d \in Sides : t.child[p][d] = x
      BY <3>1 DEF Near
    <3>3. p \in Nodes /\ r.child[p][d] = y
      BY <3>1, <3>2, <1>4 DEF Rotation, Near
    <3> QED
      BY <2>1, <2>3, <3>1, <3>3 DEF Rotation, Near
  <2>4. CASE n = i
    <3>1. n # x /\ n # y /\ x \in Nodes /\ Other(s) \in Sides /\ Other(s) # s
      BY <2>4 DEF Near
    <3>2. r.parent[n] = x
      BY <2>1, <2>4, <3>1 DEF Rotation
    <3>3. r.child[x][Other(s)] = n
      BY <2>4, <3>1 DEF Rotation
    <3> QED
      BY <3>1, <3>2, <3>3
  <2>5. CASE n # x /\ n # y /\ n # i
    <3>1. n # t.root
      <4>1. p = Nil => t.root = x
        <5>1. x # t.root => t.parent[x] \in M
          BY DEF Linked
        <5> QED
          BY <5>1, <2>1 DEF Near
      <4> QED
        BY <1>7, <2>5, <4>1 DEF Rotation
    <3>2. PICK d \in Sides : t.parent[n] \in M /\ t.child[t.parent[n]][d] = n
      BY <3>1 DEF Linked
    <3>3. r.parent[n] = t.parent[n]
      BY <2>1, <2>5 DEF Rotation
    <3>4. CASE t.parent[n] = x
      <4>1. d = s
        BY <3>2, <3>4, <2>5, <1>3 DEF Near
      <4> QED
        BY <3>2, <3>3, <3>4, <4>1, <1>4 DEF Rotation
    <3>5. CASE t.parent[n] = y
      <4>1. d # s
        BY <3>2, <3>5, <2>5 DEF Near
      <4> QED
        BY <3>2, <3>3, <3>5, <4>1, <1>4 DEF Rotation, Near
    <3>6. CASE t.parent[n] # x /\ t.parent[n] # y
      <4>1. r.child[t.parent[n]][d] = n
        BY <3>2, <3>6, <2>5, <1>4 DEF Rotation
      <4> QED
        BY <3>2, <3>3, <4>1
    <3> QED
      BY <3>4, <3>5, <3>6
  <2> QED
    BY <2>2, <2>3, <2>4, <2>5
<1> QED
  BY <1>1, <1>2, <1>5, <1>6, <1>7 DEF Linked

LEMMA RotationDown ==
  ASSUME NEW t \in Trees, NEW M, Linked(t, M), NEW h, Down(t, M, h), NEW x \in M, NEW s \in Sides,
         NEW y, NEW p, NEW i, Near(t, M, x, s, y, p, i), NEW r, Rotation(r, t, x, s, y, p, i)
  PROVE  \E g : Down(r, M, g)
<1> DEFINE g == [n \in Nodes |-> IF n = y THEN 2 * h[x] ELSE IF n = x THEN 2 * h[x] - 1 ELSE 2 * h[n]]
<1>1. \A n \in Nodes : h[n] \in Nat
  BY DEF Down
<1>2. M \subseteq Nodes /\ x \in Nodes /\ y \in M /\ y \in Nodes /\ Nil \notin Nodes /\ x # y
  BY DEF Near
<1>3. h[y] < h[x] /\ h[x] \in Nat /\ h[y] \in Nat
  BY <1>1, <1>2, SidesFacts DEF Near, Down
<1>4. g \in [Nodes -> Nat]
  <2>1. 2 * h[x] - 1 \in Nat /\ 2 * h[x] \in Nat
    BY <1>3
  <2>2. \A n \in Nodes : 2 * h[n] \in Nat
    BY <1>1
  <2> QED
    BY <2>1, <2>2
<1>5. ASSUME NEW n \in M, NEW d \in Sides, r.child[n][d] # Nil PROVE g[r.child[n][d]] < g[n]
  <2>0. \A m \in M, e \in Sides : t.child[m][e] # Nil =>
          t.child[m][e] \in Nodes /\ h[t.child[m][e]] < h[m]
    BY <1>2 DEF Down, Linked
  <2>1. \A e \in Sides : e # s => e = Other(s)
    BY SidesFacts
  <2>2. CASE n = x
    <3>1. g[x] = 2 * h[x] - 1
      BY <1>2
    <3> DEFINE c == r.child[n][d]
    <3>2. c \in Nodes /\ h[c] < h[x] /\ c # x /\ c # y
      <4>1. CASE d = s
        <5>1. c = t.child[x][s]
          BY <2>2, <4>1, <1>2 DEF Rotation
        <5>2. c \in Nodes /\ h[c] < h[x] /\ t.parent[c] = x
          BY <5>1, <2>0, <1>5 DEF Linked
        <5>3. c # y
          <6>1. t.child[x][s] # t.child[x][Other(s)]
            BY <5>1, <1>5, SidesFacts DEF Linked, Sides
          <6> QED
            BY <5>1, <6>1 DEF Near
        <5> QED
          BY <5>2, <5>3 DEF Near
      <4>2. CASE d # s
        <5>1. c = i
          BY <2>2, <4>2, <1>2 DEF Rotation
        <5>2. c \in Nodes /\ h[c] < h[y]
          BY <5>1, <2>0, <1>2, <1>5 DEF Near
        <5>3. h[c] \in Nat
          BY <5>2, <1>1
        <5>4. h[c] < h[x]
          BY <5>2, <5>3, <1>3
        <5> QED
          BY <5>1, <5>2, <5>4 DEF Near
      <4> QED
        BY <4>1, <4>2
    <3>3. g[c] = 2 * h[c] /\ h[c] \in Nat
      BY <3>2, <1>1
    <3>4. h[c] < h[x]
      BY <3>2
    <3> HIDE DEF g
    <3>5. g[c] < g[x]
      <4> HIDE DEF c
      <4> QED
        BY <3>1, <3>3, <3>4, <1>3
    <3> QED
      BY <3>5, <2>2
  <2>3. CASE n = y
    <3>1. g[y] = 2 * h[x]
      BY <1>2
    <3>2. CASE d = s
      <4>1. r.child[n][d] = x
        BY <2>3, <3>2, <1>2 DEF Rotation
      <4>2. g[x] = 2 * h[x] - 1
        BY <1>2
      <4> QED
        BY <2>3, <3>1, <4>1, <4>2, <1>3
    <3>3. CASE d # s
      <4> DEFINE c == r.child[n][d]
      <4>1. c = t.child[y][d]
        BY <2>3, <3>3, <1>2 DEF Rotation
      <4>2. c \in Nodes /\ h[c] < h[y] /\ t.parent[c] = y
        BY <4>1, <2>0, <1>2, <1>5 DEF Linked
      <4>3. c # x /\ c # y
        BY <4>2 DEF Near
      <4>4. g[c] = 2 * h[c] /\ h[c] \in Nat
        BY <4>2, <4>3, <1>1
      <4>5. h[c] < h[y]
        BY <4>2
      <4> HIDE DEF g, c
      <4>6. g[c] < g[y]
        BY <3>1, <4>4, <4>5, <1>3
      <4> QED
        BY <4>6, <2>3 DEF c
    <3> QED
      BY <3>2, <3>3
  <2>4. CASE n # x /\ n # y
    <3>1. g[n] = 2 * h[n] /\ h[n] \in Nat
      BY <1>1, <1>2, <2>4
    <3>2. CASE n = p /\ t.child[p][d] = x
      <4>1. r.child[n][d] = y
        BY <2>4, <3>2, <1>2 DEF Rotation
      <4>2. h[x] < h[n]
        BY <3>2, <2>0, <1>2
      <4>3. g[y] = 2 * h[x]
        BY <1>2
      <4> QED
        BY <3>1, <4>1, <4>2, <4>3, <1>3
    <3>3. CASE ~(n = p /\ t.child[p][d] = x)
      <4> DEFINE c == r.child[n][d]
      <4>1. c = t.child[n][d]
        BY <2>4, <3>3, <1>2 DEF Rotation
      <4>2. c \in Nodes /\ h[c] < h[n] /\ t.parent[c] = n
        BY <4>1, <2>0, <1>5 DEF Linked
      <4>3. c # x /\ c # y
        BY <4>1, <4>2, <2>4, <3>3 DEF Near
      <4>4. g[c] = 2 * h[c] /\ h[c] \in Nat
        BY <4>2, <4>3, <1>1
      <4>5. h[c] < h[n]
        BY <4>2
      <4> HIDE DEF g, c
      <4>6. g[c] < g[n]
        BY <3>1, <4>4, <4>5
      <4> QED
        BY <4>6 DEF c
    <3> QED
      BY <3>2, <3>3
  <2> QED
    BY <2>2, <2>3, <2>4
<1>6. Down(r, M, g)
  <2> HIDE DEF g
  <2> QED
    BY <1>4, <1>5 DEF Down
<1> QED
  BY <1>6

LEMMA RotationOrdered ==
  ASSUME NEW t \in Trees, NEW M, Linked(t, M), NEW x \in M, NEW s \in Sides,
         NEW y, NEW p, NEW i, Near(t, M, x, s, y, p, i), NEW r, Rotation(r, t, x, s, y, p, i),
         NEW v, NEW K, Ordered(t, M, v, K)
  PROVE  \E L : Ordered(r, M, v, L)
<1> DEFINE Of(c) == IF c = Nil THEN {} ELSE K[c]
           L == [n \in Nodes |-> IF n = y THEN K[x]
                                 ELSE IF n = x THEN {v[x]} \cup Of(t.child[x][s]) \cup Of(i)
                                 ELSE K[n]]
<1>1. M \subseteq Nodes /\ x \in Nodes /\ y \in M /\ y \in Nodes /\ Nil \notin Nodes /\ x # y
      /\ y = t.child[x][Other(s)] /\ i = t.child[y][s] /\ Other(s) \in Sides
  BY DEF Near
<1>2. /\ \A n \in Nodes : K[n] \in SUBSET Int
      /\ \A n \in M : v[n] \in K[n] /\ v[n] \in Int
  BY <1>1 DEF Ordered
<1>3. \A n \in M, d \in Sides : t.child[n][d] # Nil =>
        /\ t.child[n][d] \in M /\ t.child[n][d] \in Nodes
        /\ K[t.child[n][d]] \subseteq K[n] /\ \A k \in K[t.child[n][d]] : Beside(d, k, v[n])
  BY <1>1 DEF Ordered, Linked
<1>4. /\ K[y] \subseteq K[x] /\ \A k \in K[y] : Beside(Other(s), k, v[x])
      /\ i # Nil => i \in Nodes /\ K[i] \subseteq K[y] /\ \A k \in K[i] : Beside(s, k, v[y])
  BY <1>1, <1>3
<1>5. L \in [Nodes -> SUBSET Int]
  <2>1. Of(t.child[x][s]) \in SUBSET Int /\ Of(i) \in SUBSET Int
    BY <1>1, <1>2, <1>3, <1>4
  <2> HIDE DEF Of
  <2> QED
    BY <1>1, <1>2, <2>1
<1>6. /\ L[y] = K[x] /\ L[x] = {v[x]} \cup Of(t.child[x][s]) \cup Of(i)
      /\ \A n \in Nodes : n # x /\ n # y => L[n] = K[n]
  <2> HIDE DEF Of
  <2> QED
    BY <1>1
<1> HIDE DEF L
<1>7. L[x] \subseteq K[x]
  <2>1. Of(t.child[x][s]) \subseteq K[x]
    BY <1>3
  <2>2. Of(i) \subseteq K[x]
    BY <1>4
  <2>3. v[x] \in K[x]
    BY <1>2
  <2> HIDE DEF Of
  <2> QED
    BY <1>6, <2>1, <2>2, <2>3
<1>8. \A n \in M : v[n] \in L[n]
  BY <1>1, <1>2, <1>4, <1>6
<1>9. \A k \in L[x] : Beside(s, k, v[y])
  <2>1. \A k \in K[i] : i # Nil => Beside(s, k, v[y])
    BY <1>4
  <2>2. Beside(Other(s), v[y], v[x])
    BY <1>1, <1>2, <1>4
  <2>3. v[y] \in Int /\ v[x] \in Int
    BY <1>1, <1>2
  <2>4. Beside(s, v[x], v[y])
    BY <2>2, <2>3 DEF Beside, Other, Sides
  <2>5. ASSUME t.child[x][s] # Nil, NEW k \in K[t.child[x][s]] PROVE Beside(s, k, v[y])
    <3>1. Beside(s, k, v[x]) /\ k \in Int
      BY <2>5, <1>2, <1>3
    <3> QED
      BY <3>1, <2>3, <2>4 DEF Beside
  <2> QED
    BY <2>1, <2>4, <2>5, <1>6
<1>10. ASSUME NEW n \in M, NEW d \in Sides, r.child[n][d] # Nil
       PROVE  /\ L[r.child[n][d]] \subseteq L[n]
              /\ \A k \in L[r.child[n][d]] : Beside(d, k, v[n])
  <2>1. \A e \in Sides : e # s => e = Other(s)
    BY SidesFacts
  <2>2. CASE n = x
    <3>1. CASE d = s
      <4> DEFINE c == t.child[x][s]
      <4>1. r.child[n][d] = c /\ c # Nil
        BY <2>2, <3>1, <1>1, <1>10 DEF Rotation
      <4>2. c # y /\ c # x
        <5>1. t.child[x][s] # t.child[x][Other(s)]
          BY <4>1, SidesFacts DEF Linked, Sides
        <5>2. t.parent[c] = x
          BY <4>1 DEF Linked
        <5> QED
          BY <5>1, <5>2, <1>1 DEF Near
      <4>3. L[c] = K[c] /\ \A k \in K[c] : Beside(s, k, v[x])
        BY <4>1, <4>2, <1>3, <1>6
      <4> QED
        BY <2>2, <3>1, <4>1, <4>3, <1>6
    <3>2. CASE d # s
      <4>1. r.child[n][d] = i /\ i # Nil /\ i # x /\ i # y
        BY <2>2, <3>2, <1>1, <1>10 DEF Rotation, Near
      <4>2. L[i] = K[i] /\ \A k \in K[i] : Beside(Other(s), k, v[x])
        BY <4>1, <1>4, <1>6
      <4> QED
        BY <2>1, <2>2, <3>2, <4>1, <4>2, <1>6
    <3> QED
      BY <3>1, <3>2
  <2>3. CASE n = y
    <3>1. CASE d = s
      BY <2>3, <3>1, <1>1, <1>6, <1>7, <1>9 DEF Rotation
    <3>2. CASE d # s
      <4> DEFINE c == t.child[y][d]
      <4>1. r.child[n][d] = c /\ c # Nil
        BY <2>3, <3>2, <1>1, <1>10 DEF Rotation
      <4>2. c # y /\ c # x
        <5>1. t.parent[c] = y
          BY <4>1, <1>1 DEF Linked
        <5> QED
          BY <5>1 DEF Near
      <4>3. L[c] = K[c] /\ K[c] \subseteq K[y] /\ \A k \in K[c] : Beside(d, k, v[y])
        BY <4>1, <4>2, <1>1, <1>3, <1>6
      <4> QED
        BY <2>3, <4>1, <4>3, <1>4, <1>6
    <3> QED
      BY <3>1, <3>2
  <2>4. CASE n # x /\ n # y
    <3>1. L[n] = K[n]
      BY <1>1, <1>6, <2>4
    <3>2. CASE n = p /\ t.child[p][d] = x
      <4>1. r.child[n][d] = y
        BY <2>4, <3>2, <1>1 DEF Rotation
      <4>2. x # Nil /\ K[x] \subseteq K[n] /\ \A k \in K[x] : Beside(d, k, v[n])
        BY <3>2, <1>1, <1>3
      <4> QED
        BY <3>1, <4>1, <4>2, <1>6
    <3>3. CASE ~(n = p /\ t.child[p][d] = x)
      <4> DEFINE c == t.child[n][d]
      <4>1. r.child[n][d] = c /\ c # Nil
        BY <2>4, <3>3, <1>1, <1>10 DEF Rotation
      <4>2. c # y /\ c # x
        <5>1. t.parent[c] = n
          BY <4>1 DEF Linked
        <5> QED
          BY <5>1, <2>4, <3>3 DEF Near
      <4>3. L[c] = K[c] /\ K[c] \subseteq K[n] /\ \A k \in K[c] : Beside(d, k, v[n])
        BY <4>1, <4>2, <1>3, <1>6
      <4> QED
        BY <3>1, <4>1, <4>3
    <3> QED
      BY <3>2, <3>3
  <2> QED
    BY <2>2, <2>3, <2>4
<1> QED
  BY <1>5, <1>8, <1>10 DEF Ordered

-----------------------------------------------------------------------------
\* Balancing leaves a tree a tree, of the same nodes in the same order.

Shaped(t, M) == t \in Trees /\ Linked(t, M) /\ \E h : Down(t, M, h)

Turned(u, t, M) ==
  /\ Shaped(u, M) /\ u.count = t.count /\ u.key = t.key /\ u.data = t.data
  /\ \A v, K : Ordered(t, M, v, K) => \E L : Ordered(u, M, v, L)

LEMMA TurnedFacts ==
  /\ \A t, M : Shaped(t, M) => Turned(t, t, M)
  /\ \A t, u, w, M : Turned(u, t, M) /\ Turned(w, u, M) => Turned(w, t, M)
<1>1. ASSUME NEW t, NEW M, Shaped(t, M) PROVE Turned(t, t, M)
  BY <1>1 DEF Turned
<1>2. ASSUME NEW t, NEW u, NEW w, NEW M, Turned(u, t, M), Turned(w, u, M) PROVE Turned(w, t, M)
  BY <1>2 DEF Turned
<1> QED
  BY <1>1, <1>2

LEMMA Repainted ==
  ASSUME NEW t, NEW M, Shaped(t, M), NEW u \in Trees, u.root = t.root, u.child = t.child,
         u.parent = t.parent, u.count = t.count, u.key = t.key, u.data = t.data
  PROVE  Turned(u, t, M)
<1>1. Linked(u, M)
  BY DEF Shaped, Linked
<1>2. \E h : Down(u, M, h)
  BY DEF Shaped, Down
<1>3. \A v, K : Ordered(t, M, v, K) => Ordered(u, M, v, K)
  BY DEF Ordered
<1> QED
  BY <1>1, <1>2, <1>3 DEF Turned, Shaped

LEMMA RotateTurns ==
  ASSUME NEW t, NEW M, Shaped(t, M), NEW x \in M, NEW s \in Sides, t.child[x][Other(s)] # Nil
  PROVE  LET y == t.child[x][Other(s)]
             p == t.parent[x]
             i == t.child[y][s]
         IN  /\ Turned(Rotate(t, x, s), t, M) /\ Near(t, M, x, s, y, p, i)
             /\ Rotation(Rotate(t, x, s), t, x, s, y, p, i)
<1> DEFINE y == t.child[x][Other(s)]
           p == t.parent[x]
           i == t.child[y][s]
           r == Rotate(t, x, s)
<1>1. t \in Trees /\ Linked(t, M)
  BY DEF Shaped
<1>2. PICK h : Down(t, M, h)
  BY DEF Shaped
<1>3. Near(t, M, x, s, y, p, i)
  BY <1>1, <1>2, NearFacts
<1> HIDE DEF y, p, i
<1>4. Rotation(r, t, x, s, y, p, i)
  BY <1>1, <1>3, RotateIs
<1> HIDE DEF r
<1>5. Linked(r, M)
  BY <1>1, <1>3, <1>4, RotationLinked
<1>6. \E g : Down(r, M, g)
  BY <1>1, <1>2, <1>3, <1>4, RotationDown
<1>7. \A v, K : Ordered(t, M, v, K) => \E L : Ordered(r, M, v, L)
  BY <1>1, <1>3, <1>4, RotationOrdered
<1>8. Turned(r, t, M)
  BY <1>4, <1>5, <1>6, <1>7 DEF Turned, Shaped, Rotation, SameNodes
<1> QED
  BY <1>3, <1>4, <1>8 DEF y, p, i, r

\* A repaint of two nodes.
LEMMA PaintIs ==
  ASSUME NEW t \in Trees, NEW y \in Nodes, NEW x \in Nodes, x # y
  PROVE  LET u == [t EXCEPT !.colour[y] = "black", !.colour[x] = "red"]
         IN  /\ u \in Trees /\ u.root = t.root /\ u.child = t.child /\ u.parent = t.parent
             /\ u.count = t.count /\ u.key = t.key /\ u.data = t.data
             /\ \A z \in Nodes : u.colour[z] =
                  IF z = x THEN "red" ELSE IF z = y THEN "black" ELSE t.colour[z]
BY DEF Trees

\* What Raised leaves of a tree whose node g has y below it on side s.
Raising(r, t, M, g, s, y, p, i) ==
  /\ Turned(r, t, M) /\ Near(t, M, g, Other(s), y, p, i)
  /\ r.root = IF p = Nil THEN y ELSE t.root
  /\ \A z \in Nodes, d \in Sides : r.child[z][d] =
       IF z = g THEN IF d = Other(s) THEN t.child[g][d] ELSE i
       ELSE IF z = y THEN IF d = Other(s) THEN g ELSE t.child[y][d]
       ELSE IF z = p /\ t.child[p][d] = g THEN y ELSE t.child[z][d]
  /\ \A z \in Nodes : r.parent[z] =
       IF z = g THEN y ELSE IF z = y THEN p ELSE IF z = i THEN g ELSE t.parent[z]
  /\ \A z \in Nodes : r.colour[z] =
       IF z = g THEN "red" ELSE IF z = y THEN "black" ELSE t.colour[z]

LEMMA RaisedIs ==
  ASSUME NEW t, NEW M, Shaped(t, M), NEW g \in M, NEW s \in Sides,
         NEW y, y = t.child[g][s], y # Nil
  PROVE  Raising(Raised(t, y, g, s), t, M, g, s, y, t.parent[g], t.child[y][Other(s)])
<1> DEFINE p == t.parent[g]
           i == t.child[y][Other(s)]
           r == Raised(t, y, g, s)
           u == [t EXCEPT !.colour[y] = "black", !.colour[g] = "red"]
<1>1. /\ t \in Trees /\ y \in Nodes /\ g \in Nodes /\ g # y
      /\ Near(t, M, g, Other(s), y, p, i)
  <2>1. PICK h : Down(t, M, h)
    BY DEF Shaped
  <2>2. t \in Trees /\ Linked(t, M)
    BY DEF Shaped
  <2>3. Other(s) \in Sides /\ Other(Other(s)) = s
    BY SidesFacts
  <2>4. Near(t, M, g, Other(s), t.child[g][Other(Other(s))], p, t.child[t.child[g][Other(Other(s))]][Other(s)])
    BY <2>1, <2>2, <2>3, NearFacts
  <2>5. Near(t, M, g, Other(s), y, p, i)
    BY <2>3, <2>4
  <2> QED
    BY <2>2, <2>5 DEF Near
<1>2. /\ u \in Trees /\ u.root = t.root /\ u.child = t.child /\ u.parent = t.parent
      /\ u.count = t.count /\ u.key = t.key /\ u.data = t.data
      /\ \A z \in Nodes : u.colour[z] =
           IF z = g THEN "red" ELSE IF z = y THEN "black" ELSE t.colour[z]
  BY <1>1, PaintIs
<1>3. r = Rotate(u, g, Other(s))
  BY DEF Raised
<1> HIDE DEF u, r
<1>4. Turned(u, t, M)
  BY <1>2, Repainted
<1>5. /\ Turned(r, u, M) /\ Rotation(r, u, g, Other(s), y, p, i)
  <2>1. Shaped(u, M) /\ Other(s) \in Sides /\ Other(Other(s)) = s
    BY <1>4, SidesFacts DEF Turned
  <2>2. u.child[g][Other(Other(s))] = y /\ u.parent[g] = p /\ u.child[y][Other(s)] = i
    BY <1>2, <2>1
  <2> QED
    BY <1>3, <2>1, <2>2, RotateTurns
<1>6. Turned(r, t, M)
  BY <1>4, <1>5, TurnedFacts
<1>7. /\ r.root = IF p = Nil THEN y ELSE t.root
      /\ \A z \in Nodes : r.colour[z] =
           IF z = g THEN "red" ELSE IF z = y THEN "black" ELSE t.colour[z]
      /\ \A z \in Nodes : r.parent[z] =
           IF z = g THEN y ELSE IF z = y THEN p ELSE IF z = i THEN g ELSE t.parent[z]
  BY <1>2, <1>5 DEF Rotation, SameNodes
<1>8. \A z \in Nodes, d \in Sides : r.child[z][d] =
        IF z = g THEN IF d = Other(s) THEN t.child[g][d] ELSE i
        ELSE IF z = y THEN IF d = Other(s) THEN g ELSE t.child[y][d]
        ELSE IF z = p /\ t.child[p][d] = g THEN y ELSE t.child[z][d]
  BY <1>2, <1>5 DEF Rotation
<1> QED
  BY <1>1, <1>6, <1>7, <1>8 DEF r, Raising

-----------------------------------------------------------------------------
\* Balancing. b[n] is the number of black nodes on any way down from below n.

Height(t, b, c) == IF c = Nil THEN 0 ELSE IF t.colour[c] = "black" THEN b[c] + 1 ELSE b[c]

Balanced(t, M, b) ==
  b \in [Nodes -> Nat] /\ \A n \in M, s \in Sides : b[n] = Height(t, b, t.child[n][s])

NoTwoReds(t, M, n) == \A m \in M \ {n} : ~(Red(t, m) /\ Red(t, t.parent[m]))

\* Only n may be red below a red node.
Mid(t, M, n) == n \in M /\ Red(t, n) /\ NoTwoReds(t, M, n) /\ \E b : Balanced(t, M, b)

\* A red node n straight below p, and p on side s of g, with c beside it.
Straight(t, M, n, p, g, s, q, i, c) ==
  /\ p \in M /\ g \in M /\ t.child[g][s] = p /\ t.child[p][s] = n
  /\ t.parent[n] = p /\ t.parent[p] = g /\ Red(t, p) /\ ~Red(t, c)
  /\ q = t.parent[g] /\ i = t.child[p][Other(s)] /\ c = t.child[g][Other(s)]

\* p comes up, and all is well.
LEMMA StraightMends ==
  ASSUME NEW t, NEW M, Shaped(t, M), NEW n, Mid(t, M, n), NEW s \in Sides,
         NEW p, NEW g, NEW q, NEW i, NEW c, Straight(t, M, n, p, g, s, q, i, c)
  PROVE  LET r == Raised(t, p, g, s)
         IN  Turned(r, t, M) /\ Mid(r, M, n) /\ r.parent[n] = p /\ ~Red(r, p)
<1> DEFINE r == Raised(t, p, g, s)
<1>0. t \in Trees /\ Linked(t, M) /\ M \subseteq Nodes /\ Nil \notin Nodes
  BY TreeAssumption DEF Shaped, Linked
<1>1. /\ p \in Nodes /\ g \in Nodes /\ n \in M /\ n \in Nodes /\ p # Nil /\ n # Nil
      /\ p \in M /\ g \in M
  BY <1>0 DEF Mid, Straight
<1>1p. t.parent[n] = p /\ t.parent[p] = g
  BY DEF Straight
<1>1c. t.child[g][s] = p /\ t.child[p][s] = n
  BY DEF Straight
<1>1o. t.child[p][Other(s)] = i /\ t.child[g][Other(s)] = c
  BY DEF Straight
<1>1r. Red(t, p) /\ ~Red(t, c)
  BY DEF Straight
<1>2. Raising(r, t, M, g, s, p, q, i)
  BY <1>1, RaisedIs DEF Straight
<1> HIDE DEF r
<1>2a. Turned(r, t, M) /\ Near(t, M, g, Other(s), p, q, i)
  BY <1>2 DEF Raising
<1>2c. \A z \in Nodes, d \in Sides : r.child[z][d] =
        IF z = g THEN IF d = Other(s) THEN t.child[g][d] ELSE i
        ELSE IF z = p THEN IF d = Other(s) THEN g ELSE t.child[p][d]
        ELSE IF z = q /\ t.child[q][d] = g THEN p ELSE t.child[z][d]
  BY <1>2 DEF Raising
<1>2p. \A z \in Nodes : r.parent[z] =
        IF z = g THEN p ELSE IF z = p THEN q ELSE IF z = i THEN g ELSE t.parent[z]
  BY <1>2 DEF Raising
<1>2r. \A z \in Nodes : r.colour[z] =
        IF z = g THEN "red" ELSE IF z = p THEN "black" ELSE t.colour[z]
  BY <1>2 DEF Raising
<1>3. Other(s) \in Sides /\ s # Other(s) /\ \A d \in Sides : d # s => d = Other(s)
  BY SidesFacts
<1>4. /\ g # p /\ q # g /\ q # p /\ i # g /\ i # p /\ (i # Nil => i \in M /\ t.parent[i] = p)
      /\ t.parent[g] = q
  BY <1>2a DEF Near
<1>5. n # g /\ n # p /\ n # i
  <2>1. n # i
    <3>1. t.child[p][s] # t.child[p][Other(s)]
      BY <1>0, <1>1, <1>1c, <1>3 DEF Linked, Sides
    <3> QED
      BY <3>1, <1>1c, <1>1o
  <2>2. n # p
    BY <1>1p, <1>4
  <2>3. n # g
    BY <1>1p, <1>4
  <2> QED
    BY <2>1, <2>2, <2>3
<1>6. c # Nil => c \in M /\ t.parent[c] = g
  BY <1>0, <1>1, <1>1o, <1>3 DEF Linked
<1>7. ~Red(t, g)
  <2>1. p # n /\ p \in M /\ NoTwoReds(t, M, n)
    BY <1>1, <1>5 DEF Mid
  <2> QED
    BY <2>1, <1>1p, <1>1r DEF NoTwoReds
<1>8. ~Red(t, i)
  <2>1. NoTwoReds(t, M, n) /\ i # n
    BY <1>5 DEF Mid
  <2> QED
    BY <2>1, <1>4, <1>1r DEF NoTwoReds, Red
<1>9. r.parent[n] = p /\ ~Red(r, p) /\ Red(r, n)
  <2>1. r.parent[n] = p
    BY <1>1, <1>1p, <1>2p, <1>5
  <2>2. r.colour[p] = "black" /\ r.colour[n] = t.colour[n]
    BY <1>1, <1>2r, <1>4, <1>5
  <2> QED
    BY <1>1, <2>1, <2>2 DEF Red, Mid
<1>10. ASSUME NEW m \in M, Red(r, m), Red(r, r.parent[m]) PROVE FALSE
  <2>0. m \in Nodes
    BY <1>0
  <2>1. m # g /\ m # p
    BY <1>1, <1>2p, <1>4, <1>9, <1>10, <2>0
  <2>2. Red(t, m)
    BY <1>2r, <1>10, <2>0, <2>1 DEF Red
  <2>3. m # i
    BY <1>8, <2>2
  <2>4. r.parent[m] = t.parent[m]
    BY <1>2p, <2>0, <2>1, <2>3
  <2>5. CASE t.parent[m] = g
    <3>1. m # t.root
      BY <1>0, <1>1, <2>5 DEF Linked
    <3>2. PICK d \in Sides : t.child[g][d] = m
      BY <1>0, <2>5, <3>1 DEF Linked
    <3>3. m = p \/ m = c
      BY <1>1c, <1>1o, <1>3, <3>2
    <3> QED
      BY <1>1r, <2>1, <2>2, <3>3
  <2>6. CASE t.parent[m] # g
    <3> DEFINE a == t.parent[m]
    <3>1. a \in Nodes \cup {Nil} /\ Red(r, a) /\ a # g
      BY <1>0, <1>10, <2>0, <2>4, <2>6 DEF Trees
    <3> HIDE DEF a
    <3>2. a # p /\ a \in Nodes
      BY <3>1, <1>9 DEF Red
    <3>3. Red(t, a)
      BY <3>1, <3>2, <1>2r DEF Red
    <3>4. m = n
      BY <2>2, <3>3 DEF Mid, NoTwoReds, a
    <3> QED
      BY <1>1p, <3>2, <3>4 DEF a
  <2> QED
    BY <2>5, <2>6
<1>11. PICK b : Balanced(t, M, b)
  BY DEF Mid
<1>12. /\ \A m \in Nodes : b[m] \in Nat
       /\ \A m \in M, d \in Sides : b[m] = Height(t, b, t.child[m][d])
  BY <1>11 DEF Balanced
<1>13. t.colour[p] = "red" /\ t.colour[g] = "black" /\ t.colour[n] = "red"
       /\ (i # Nil => t.colour[i] = "black") /\ (c # Nil => t.colour[c] = "black")
  BY <1>0, <1>1, <1>1r, <1>4, <1>6, <1>7, <1>8 DEF Red, Mid, Trees
<1>14. /\ b[p] = Height(t, b, n) /\ b[p] = Height(t, b, i)
       /\ b[g] = Height(t, b, p) /\ b[g] = Height(t, b, c)
  BY <1>1, <1>1c, <1>1o, <1>3, <1>12
<1>15. b[g] = b[p]
  BY <1>1, <1>13, <1>14 DEF Height
<1>16. /\ r.colour[g] = "red" /\ r.colour[p] = "black"
       /\ \A z \in Nodes : z # g /\ z # p => r.colour[z] = t.colour[z]
  BY <1>1, <1>2r, <1>4
<1>17. \A z \in Nodes \cup {Nil} : z # g /\ z # p => Height(r, b, z) = Height(t, b, z)
  BY <1>16 DEF Height
<1>18. Height(r, b, g) = b[g] /\ Height(r, b, p) = b[p] + 1 /\ Height(t, b, g) = b[g] + 1
  BY <1>0, <1>1, <1>13, <1>16 DEF Height
<1>19. ASSUME NEW m \in M, NEW d \in Sides PROVE b[m] = Height(r, b, r.child[m][d])
  <2>0. m \in Nodes /\ t.child[m][d] \in M \cup {Nil} /\ t.child[m][d] \in Nodes \cup {Nil}
    BY <1>0 DEF Linked
  <2>1. CASE m = g
    <3>1. CASE d = s
      <4>1. r.child[m][d] = i
        BY <1>1, <1>2c, <1>3, <2>1, <3>1
      <4>2. i \in Nodes \cup {Nil}
        BY <1>0, <1>4
      <4> QED
        BY <1>4, <1>14, <1>15, <1>17, <2>1, <4>1, <4>2
    <3>2. CASE d = Other(s)
      <4>1. r.child[m][d] = c
        BY <1>1, <1>1o, <1>2c, <2>1, <3>2
      <4>2. c \in Nodes \cup {Nil} /\ c # g /\ c # p
        BY <1>0, <1>1, <1>3, <1>4, <1>6, <1>13
      <4> QED
        BY <1>14, <1>17, <2>1, <4>1, <4>2
    <3> QED
      BY <1>3, <3>1, <3>2
  <2>2. CASE m = p
    <3>1. CASE d = s
      <4>1. r.child[m][d] = n
        BY <1>1, <1>1c, <1>2c, <1>3, <1>4, <2>2, <3>1
      <4> QED
        BY <1>1, <1>5, <1>14, <1>17, <2>2, <4>1
    <3>2. CASE d = Other(s)
      <4>1. r.child[m][d] = g
        BY <1>1, <1>2c, <1>4, <2>2, <3>2
      <4> QED
        BY <1>15, <1>18, <2>2, <4>1
    <3> QED
      BY <1>3, <3>1, <3>2
  <2>3. CASE m # g /\ m # p
    <3>1. b[m] = Height(t, b, t.child[m][d])
      BY <1>12
    <3>2. CASE m = q /\ t.child[q][d] = g
      <4>1. r.child[m][d] = p
        BY <1>2c, <2>0, <2>3, <3>2
      <4> QED
        BY <1>15, <1>18, <3>1, <3>2, <4>1
    <3>3. CASE ~(m = q /\ t.child[q][d] = g)
      <4>1. r.child[m][d] = t.child[m][d]
        BY <1>2c, <2>0, <2>3, <3>3
      <4>2. t.child[m][d] # g /\ t.child[m][d] # p
        <5>1. t.child[m][d] # Nil => t.parent[t.child[m][d]] = m
          BY <1>0 DEF Linked
        <5>2. t.child[m][d] # g
          BY <5>1, <1>0, <1>1, <1>4, <3>3
        <5>3. t.child[m][d] # p
          BY <5>1, <1>1, <1>1p, <2>3
        <5> QED
          BY <5>2, <5>3
      <4> QED
        BY <1>17, <2>0, <3>1, <4>1, <4>2
    <3> QED
      BY <3>2, <3>3
  <2> QED
    BY <2>1, <2>2, <2>3
<1>20. Balanced(r, M, b)
  BY <1>11, <1>19 DEF Balanced
<1>21. Mid(r, M, n)
  BY <1>1, <1>9, <1>10, <1>20 DEF Mid, NoTwoReds
<1> QED
  BY <1>2a, <1>9, <1>21 DEF r

\* A red node n that sits crooked below p: p goes down, and is straight below n.
Crooked(t, M, n, p, g, s, i, e) ==
  /\ p \in M /\ g \in M /\ t.child[g][s] = p /\ t.child[p][Other(s)] = n
  /\ t.parent[n] = p /\ t.parent[p] = g /\ Red(t, p)
  /\ i = t.child[n][s] /\ e = t.child[p][s]

LEMMA CrookedTurns ==
  ASSUME NEW t, NEW M, Shaped(t, M), NEW n, Mid(t, M, n), NEW s \in Sides,
         NEW p, NEW g, NEW i, NEW e, Crooked(t, M, n, p, g, s, i, e),
         ~Red(t, t.child[g][Other(s)])
  PROVE  LET u == Rotate(t, p, s)
         IN  /\ Turned(u, t, M) /\ Mid(u, M, p)
             /\ Straight(u, M, p, n, g, s, u.parent[g], u.child[n][Other(s)], u.child[g][Other(s)])
<1> DEFINE u == Rotate(t, p, s)
<1>0. t \in Trees /\ Linked(t, M) /\ M \subseteq Nodes /\ Nil \notin Nodes
  BY TreeAssumption DEF Shaped, Linked
<1>1. /\ p \in Nodes /\ g \in Nodes /\ n \in M /\ n \in Nodes /\ p # Nil /\ n # Nil
      /\ p \in M /\ g \in M
  BY <1>0 DEF Mid, Crooked
<1>1p. t.parent[n] = p /\ t.parent[p] = g
  BY DEF Crooked
<1>1c. t.child[g][s] = p /\ t.child[p][Other(s)] = n /\ t.child[n][s] = i /\ t.child[p][s] = e
  BY DEF Crooked
<1>1r. Red(t, p) /\ Red(t, n) /\ ~Red(t, t.child[g][Other(s)])
  BY DEF Crooked, Mid
<1>2. Turned(u, t, M) /\ Near(t, M, p, s, n, g, i) /\ Rotation(u, t, p, s, n, g, i)
  BY <1>1, <1>1c, <1>1p, RotateTurns
<1> HIDE DEF u
<1>2c. \A z \in Nodes, d \in Sides : u.child[z][d] =
         IF z = p THEN IF d = s THEN e ELSE i
         ELSE IF z = n THEN IF d = s THEN p ELSE t.child[n][d]
         ELSE IF z = g /\ t.child[g][d] = p THEN n ELSE t.child[z][d]
  BY <1>2, <1>1c DEF Rotation
<1>2p. \A z \in Nodes : u.parent[z] =
         IF z = p THEN n ELSE IF z = n THEN g ELSE IF z = i THEN p ELSE t.parent[z]
  BY <1>2 DEF Rotation
<1>2r. u.colour = t.colour
  BY <1>2 DEF Rotation, SameNodes
<1>3. Other(s) \in Sides /\ s # Other(s) /\ \A d \in Sides : d # s => d = Other(s)
  BY SidesFacts
<1>4. /\ p # n /\ g # p /\ g # n /\ i # p /\ i # n /\ (i # Nil => i \in M /\ t.parent[i] = n)
  BY <1>2 DEF Near
<1>5. ~Red(t, g)
  <2>1. p # n /\ NoTwoReds(t, M, n)
    BY <1>4 DEF Mid
  <2> QED
    BY <2>1, <1>1, <1>1p, <1>1r DEF NoTwoReds
<1>6. ~Red(t, i)
  <2>1. NoTwoReds(t, M, n)
    BY DEF Mid
  <2> QED
    BY <2>1, <1>1r, <1>4 DEF NoTwoReds, Red
<1>7. \A z : Red(u, z) <=> Red(t, z)
  BY <1>2r DEF Red
<1>8. ASSUME NEW m \in M \ {p}, Red(u, m), Red(u, u.parent[m]) PROVE FALSE
  <2>1. m \in Nodes /\ m # i /\ Red(t, m)
    BY <1>0, <1>6, <1>7, <1>8
  <2>2. m # n
    BY <1>1, <1>2p, <1>4, <1>5, <1>7, <1>8
  <2>3. u.parent[m] = t.parent[m]
    BY <1>2p, <1>8, <2>1, <2>2
  <2>4. Red(t, t.parent[m])
    BY <1>7, <1>8, <2>3
  <2> QED
    BY <2>1, <2>2, <2>4 DEF Mid, NoTwoReds
<1>9. PICK b : Balanced(t, M, b)
  BY DEF Mid
<1>10. /\ \A m \in Nodes : b[m] \in Nat
       /\ \A m \in M, d \in Sides : b[m] = Height(t, b, t.child[m][d])
  BY <1>9 DEF Balanced
<1>11. \A z : Height(u, b, z) = Height(t, b, z)
  BY <1>2r DEF Height
<1>12. t.colour[p] = "red" /\ t.colour[n] = "red"
  BY <1>1r DEF Red
<1>13. Height(t, b, p) = b[p] /\ Height(t, b, n) = b[n]
  BY <1>1, <1>12 DEF Height
<1>14. /\ b[p] = Height(t, b, n) /\ b[p] = Height(t, b, e) /\ b[n] = Height(t, b, i)
       /\ b[n] = b[p]
  BY <1>1, <1>1c, <1>3, <1>10, <1>13
<1>15. ASSUME NEW m \in M, NEW d \in Sides PROVE b[m] = Height(u, b, u.child[m][d])
  <2>0. m \in Nodes /\ b[m] = Height(t, b, t.child[m][d])
    BY <1>0, <1>10
  <2>1. CASE m = p
    BY <1>1, <1>2c, <1>11, <1>14, <2>1
  <2>2. CASE m = n
    <3>1. CASE d = s
      <4>1. u.child[m][d] = p
        BY <1>1, <1>2c, <1>4, <2>2, <3>1
      <4> QED
        BY <1>11, <1>13, <1>14, <2>2, <4>1
    <3>2. CASE d # s
      <4>1. u.child[m][d] = t.child[m][d]
        BY <1>1, <1>2c, <1>4, <2>2, <3>2
      <4> QED
        BY <1>11, <2>0, <4>1
    <3> QED
      BY <3>1, <3>2
  <2>3. CASE m # p /\ m # n
    <3>1. CASE m = g /\ t.child[g][d] = p
      <4>1. u.child[m][d] = n
        BY <1>2c, <2>0, <2>3, <3>1
      <4> QED
        BY <1>11, <1>13, <1>14, <2>0, <3>1, <4>1
    <3>2. CASE ~(m = g /\ t.child[g][d] = p)
      <4>1. u.child[m][d] = t.child[m][d]
        BY <1>2c, <2>0, <2>3, <3>2
      <4> QED
        BY <1>11, <2>0, <4>1
    <3> QED
      BY <3>1, <3>2
  <2> QED
    BY <2>1, <2>2, <2>3
<1>16. Balanced(u, M, b)
  BY <1>9, <1>15 DEF Balanced
<1>17. Mid(u, M, p)
  BY <1>1, <1>1r, <1>7, <1>8, <1>16 DEF Mid, NoTwoReds
<1>18. Straight(u, M, p, n, g, s, u.parent[g], u.child[n][Other(s)], u.child[g][Other(s)])
  <2>1. u.child[g][s] = n /\ u.child[n][s] = p
    BY <1>1, <1>1c, <1>2c, <1>4
  <2>2. u.parent[p] = n /\ u.parent[n] = g
    BY <1>1, <1>2p, <1>4
  <2>3. u.child[g][Other(s)] = t.child[g][Other(s)]
    <3>1. t.child[g][Other(s)] # t.child[g][s]
      <4>1. t.child[g]["lh"] = t.child[g]["rh"] => t.child[g]["lh"] = Nil
        BY <1>0, <1>1 DEF Linked
      <4>2. t.child[g]["lh"] # t.child[g]["rh"]
        BY <4>1, <1>1, <1>1c DEF Sides
      <4> QED
        BY <4>2 DEF Sides, Other
    <3> QED
      BY <3>1, <1>1, <1>1c, <1>2c, <1>3, <1>4
  <2>4. Red(u, n) /\ ~Red(u, u.child[g][Other(s)])
    BY <1>1r, <1>7, <2>3
  <2> QED
    BY <1>1, <2>1, <2>2, <2>4 DEF Straight
<1> QED
  BY <1>2, <1>17, <1>18 DEF u

\* p and c beside it are red below g: g gets their colour and they get its.
Painted(u, t, p, c, g) ==
  /\ u \in Trees /\ u.root = t.root /\ u.child = t.child /\ u.parent = t.parent
  /\ u.count = t.count /\ u.key = t.key /\ u.data = t.data
  /\ \A z \in Nodes : u.colour[z] =
       IF z = g THEN "red" ELSE IF z = c \/ z = p THEN "black" ELSE t.colour[z]

LEMMA PaintThree ==
  ASSUME NEW t \in Trees, NEW p \in Nodes, NEW c \in Nodes, NEW g \in Nodes
  PROVE  Painted(Recoloured(t, p, c, g), t, p, c, g)
BY DEF Trees, Painted, Recoloured

LEMMA RecolouredMends ==
  ASSUME NEW t, NEW M, Shaped(t, M), NEW n, Mid(t, M, n), NEW s \in Sides,
         NEW p \in M, NEW g \in M, NEW c, t.parent[n] = p, t.parent[p] = g,
         t.child[g][s] = p, t.child[g][Other(s)] = c, Red(t, p), Red(t, c)
  PROVE  LET u == Recoloured(t, p, c, g)
         IN  Turned(u, t, M) /\ Mid(u, M, g) /\ u.parent = t.parent
<1> DEFINE u == Recoloured(t, p, c, g)
<1>0. t \in Trees /\ Linked(t, M) /\ M \subseteq Nodes /\ Nil \notin Nodes
  BY TreeAssumption DEF Shaped, Linked
<1>1. PICK h : Down(t, M, h)
  BY DEF Shaped
<1>2. /\ p \in Nodes /\ g \in Nodes /\ n \in M /\ n \in Nodes /\ p # Nil /\ n # Nil /\ g # Nil
  BY <1>0 DEF Mid
<1>3. Other(s) \in Sides /\ s # Other(s) /\ \A d \in Sides : d # s => d = Other(s)
  BY SidesFacts
<1>4. c # Nil /\ c \in M /\ c \in Nodes /\ t.parent[c] = g
  BY <1>0, <1>3 DEF Linked, Red
<1>5. g # p /\ g # c
  <2>1. h[p] < h[g] /\ h[c] < h[g] /\ h[g] \in Nat
    BY <1>1, <1>2, <1>3, <1>4 DEF Down
  <2> QED
    BY <2>1
<1>6. n # p
  BY <1>5
<1>7. ~Red(t, g)
  <2>1. NoTwoReds(t, M, n)
    BY DEF Mid
  <2> QED
    BY <2>1, <1>6 DEF NoTwoReds
<1>8. /\ u \in Trees /\ u.root = t.root /\ u.child = t.child /\ u.parent = t.parent
      /\ u.count = t.count /\ u.key = t.key /\ u.data = t.data
      /\ \A z \in Nodes : u.colour[z] =
           IF z = g THEN "red" ELSE IF z = c \/ z = p THEN "black" ELSE t.colour[z]
  <2>1. Painted(u, t, p, c, g)
    BY <1>0, <1>2, <1>4, PaintThree
  <2> HIDE DEF u
  <2> QED
    BY <2>1 DEF Painted
<1> HIDE DEF u
<1>9. Turned(u, t, M)
  BY <1>8, Repainted
<1>10. u.colour[g] = "red" /\ u.colour[p] = "black" /\ u.colour[c] = "black"
       /\ \A z \in Nodes : z # g /\ z # p /\ z # c => u.colour[z] = t.colour[z]
  BY <1>2, <1>4, <1>5, <1>8
<1>11. t.colour[g] = "black" /\ t.colour[p] = "red" /\ t.colour[c] = "red"
  BY <1>0, <1>2, <1>7 DEF Red, Trees
<1>12. \A m \in M, d \in Sides : t.child[m][d] = p \/ t.child[m][d] = c => m = g
  BY <1>0, <1>2, <1>4 DEF Linked
<1>13. ASSUME NEW m \in M \ {g}, Red(u, m), Red(u, u.parent[m]) PROVE FALSE
  <2> DEFINE a == t.parent[m]
  <2>1. m \in Nodes /\ m # p /\ m # c /\ Red(t, m)
    BY <1>0, <1>10, <1>13 DEF Red
  <2>2. a \in Nodes /\ u.parent[m] = a /\ Red(u, a)
    BY <1>0, <1>8, <1>13, <2>1 DEF Trees, Red
  <2>3. CASE a = g
    <3>1. m # t.root
      BY <1>0, <1>2, <2>3 DEF Linked
    <3>2. PICK d \in Sides : t.child[g][d] = m
      BY <1>0, <2>3, <3>1 DEF Linked
    <3> QED
      BY <1>3, <2>1, <3>2
  <2>4. CASE a # g
    <3> HIDE DEF a
    <3>1. a # p /\ a # c /\ Red(t, a)
      BY <1>10, <2>2, <2>4 DEF Red
    <3>2. m = n
      BY <2>1, <3>1 DEF a, Mid, NoTwoReds
    <3> QED
      BY <3>1, <3>2 DEF a
  <2> QED
    BY <2>3, <2>4
<1>14. PICK b : Balanced(t, M, b)
  BY DEF Mid
<1> DEFINE e == [b EXCEPT ![g] = b[g] + 1]
<1>15. /\ \A m \in Nodes : b[m] \in Nat
       /\ \A m \in M, d \in Sides : b[m] = Height(t, b, t.child[m][d])
  BY <1>14 DEF Balanced
<1>16. e \in [Nodes -> Nat] /\ e[g] = b[g] + 1 /\ \A m \in Nodes : m # g => e[m] = b[m]
  BY <1>2, <1>14 DEF Balanced
<1> HIDE DEF e
<1>17. \A z \in Nodes \cup {Nil} : z # p /\ z # c => Height(u, e, z) = Height(t, b, z)
  <2>1. ASSUME NEW z \in Nodes, z # p, z # c, z # g PROVE Height(u, e, z) = Height(t, b, z)
    BY <1>10, <1>16, <2>1 DEF Height
  <2>2. Height(u, e, g) = Height(t, b, g)
    BY <1>2, <1>10, <1>11, <1>16 DEF Height
  <2>3. Height(u, e, Nil) = Height(t, b, Nil)
    BY DEF Height
  <2> QED
    BY <2>1, <2>2, <2>3
<1>18. Height(u, e, p) = b[p] + 1 /\ Height(u, e, c) = b[c] + 1
       /\ Height(t, b, p) = b[p] /\ Height(t, b, c) = b[c]
  BY <1>2, <1>4, <1>5, <1>10, <1>11, <1>16 DEF Height
<1>19. b[g] = b[p] /\ b[g] = b[c]
  <2>1. b[g] = Height(t, b, t.child[g][s]) /\ b[g] = Height(t, b, t.child[g][Other(s)])
    BY <1>3, <1>15
  <2> QED
    BY <2>1, <1>18
<1>20. ASSUME NEW m \in M, NEW d \in Sides PROVE e[m] = Height(u, e, u.child[m][d])
  <2>1. u.child[m][d] = t.child[m][d] /\ t.child[m][d] \in Nodes \cup {Nil} /\ m \in Nodes
    BY <1>0, <1>8 DEF Trees
  <2>2. CASE m = g
    <3>1. t.child[m][d] = p \/ t.child[m][d] = c
      BY <1>3, <2>2
    <3> QED
      BY <1>16, <1>18, <1>19, <2>1, <2>2, <3>1
  <2>3. CASE m # g
    <3>1. t.child[m][d] # p /\ t.child[m][d] # c
      BY <1>12, <2>3
    <3>2. Height(u, e, t.child[m][d]) = Height(t, b, t.child[m][d])
      BY <1>17, <2>1, <3>1
    <3> QED
      BY <1>15, <1>16, <2>1, <2>3, <3>2
  <2> QED
    BY <2>2, <2>3
<1>21. Balanced(u, M, e)
  BY <1>16, <1>20 DEF Balanced
<1>22. Mid(u, M, g)
  BY <1>2, <1>10, <1>13, <1>21 DEF Mid, NoTwoReds, Red
<1> QED
  BY <1>8, <1>9, <1>22 DEF u

-----------------------------------------------------------------------------
\* Once round the loop, the tree is settled or the node is higher up.

Above(at) == Cardinality(Way(at.tree.parent, at.node))

LEMMA HigherUp ==
  ASSUME NEW t, NEW M, Shaped(t, M), NEW n \in M, NEW g, g = t.parent[t.parent[n]],
         n # t.root, t.parent[n] # t.root
  PROVE  /\ g \in M /\ Cardinality(Way(t.parent, n)) \in Nat
         /\ Cardinality(Way(t.parent, g)) < Cardinality(Way(t.parent, n))
<1> DEFINE p == t.parent[n]
           W == Way(t.parent, n)
<1>0. t \in Trees /\ Linked(t, M) /\ M \subseteq Nodes /\ Nil \notin Nodes /\ t.parent \in Onwards
  BY TreeAssumption DEF Shaped, Linked, Trees, Onwards
<1>1. PICK h : Down(t, M, h)
  BY DEF Shaped
<1>2. \A m \in M \ {t.root} : t.parent[m] \in M /\ h[m] < h[t.parent[m]]
  <2> TAKE m \in M \ {t.root}
  <2>1. t.parent[m] \in M /\ \E s \in Sides : t.child[t.parent[m]][s] = m
    BY <1>0 DEF Linked
  <2>2. m # Nil
    BY <1>0
  <2> QED
    BY <1>1, <2>1, <2>2 DEF Down
<1>3. p \in M /\ g \in M /\ n \in Nodes /\ g \in Nodes
  BY <1>0, <1>2
<1>4. \A m \in M : h[m] \in Nat
  BY <1>0, <1>1 DEF Down
<1>5. Leads(t.parent, W) /\ n \in W /\ W \subseteq Nodes /\ IsFiniteSet(W)
  <2>1. Leads(t.parent, W) /\ n \in W \cup {Nil}
    BY <1>0, <1>3, WayFacts
  <2> QED
    BY <2>1, <1>0, <1>3, TreeAssumption, FS_Subset DEF Leads
<1>6. p \in W /\ g \in W
  <2>1. p \in W
    BY <1>0, <1>3, <1>5 DEF Leads
  <2> QED
    BY <2>1, <1>0, <1>3, <1>5 DEF Leads
<1> DEFINE S == {m \in W : m \in M /\ h[n] < h[m]}
<1>7. g \in S
  BY <1>2, <1>3, <1>4, <1>6
<1>8. Leads(t.parent, S)
  <2>1. ASSUME NEW m \in S, t.parent[m] # Nil PROVE t.parent[m] \in S
    <3>1. m # t.root
      BY <1>0, <2>1 DEF Linked
    <3>2. t.parent[m] \in M /\ h[m] < h[t.parent[m]] /\ h[n] < h[m] /\ t.parent[m] \in W
      BY <1>2, <1>5, <2>1, <3>1 DEF Leads
    <3>3. h[n] < h[t.parent[m]]
      BY <3>2, <1>4
    <3> QED
      BY <3>2, <3>3
  <2> QED
    BY <2>1, <1>5 DEF Leads
<1>9. Way(t.parent, g) \subseteq S
  BY <1>0, <1>3, <1>7, <1>8, WayFacts
<1>10. n \notin S
  BY <1>4
<1>11. Way(t.parent, g) \subseteq W /\ Way(t.parent, g) # W
  BY <1>5, <1>9, <1>10
<1> HIDE DEF W
<1>12. IsFiniteSet(Way(t.parent, g)) /\ Cardinality(Way(t.parent, g)) <= Cardinality(W)
       /\ Cardinality(Way(t.parent, g)) # Cardinality(W)
  BY <1>5, <1>11, FS_Subset
<1>13. Cardinality(Way(t.parent, g)) \in Nat /\ Cardinality(W) \in Nat
  BY <1>5, <1>12, FS_CardinalityType
<1>14. Cardinality(Way(t.parent, g)) < Cardinality(W)
  BY <1>12, <1>13
<1> QED
  BY <1>3, <1>13, <1>14 DEF W

LEMMA MendKeeps ==
  ASSUME NEW o, NEW M, NEW t, NEW n, Turned(t, o, M), Mid(t, M, n)
  PROVE  LET at == [tree |-> t, node |-> n]
             to == Mend(at)
         IN  /\ Turned(to.tree, o, M) /\ Mid(to.tree, M, to.node)
             /\ to = [tree |-> to.tree, node |-> to.node]
             /\ \/ Settled(to.tree, to.node)
                \/ Above(to) \in Nat /\ Above(at) \in Nat /\ Above(to) < Above(at)
<1> DEFINE p == t.parent[n]
           g == t.parent[p]
           s == IF p = t.child[g]["lh"] THEN "lh" ELSE "rh"
           c == t.child[g][Other(s)]
           at == [tree |-> t, node |-> n]
           to == Mend(at)
<1>1. Shaped(t, M) /\ n \in M
  BY DEF Turned, Mid
<1>0. t \in Trees /\ Linked(t, M) /\ M \subseteq Nodes /\ Nil \notin Nodes
  BY <1>1, TreeAssumption DEF Shaped, Linked
<1>2. CASE Settled(t, n)
  <2>1. to = at
    BY <1>2 DEF Mend
  <2> QED
    BY <2>1, <1>2
<1>3. CASE ~Settled(t, n)
  <2>1. n # t.root /\ Red(t, p) /\ g # Nil
    BY <1>3 DEF Settled
  <2>2. p \in M /\ p # t.root
    BY <1>0, <1>1, <2>1 DEF Linked
  <2>3. g \in M /\ \E d \in Sides : t.child[g][d] = p
    BY <1>0, <2>2 DEF Linked
  <2>4. s \in Sides /\ t.child[g][s] = p
    BY <2>3 DEF Sides
  <2>5. PICK d \in Sides : t.child[p][d] = n
    BY <1>0, <1>1, <2>1 DEF Linked
  <2>6. to = IF Red(t, c) THEN [tree |-> Recoloured(t, p, c, g), node |-> g]
             ELSE IF n = t.child[p][s] THEN [tree |-> Raised(t, p, g, s), node |-> n]
             ELSE [tree |-> Raised(Rotate(t, p, s), n, g, s), node |-> p]
    BY <1>3 DEF Mend
  <2> HIDE DEF to
  <2>7. CASE Red(t, c)
    <3> DEFINE u == Recoloured(t, p, c, g)
    <3>1. Turned(u, t, M) /\ Mid(u, M, g) /\ u.parent = t.parent
      <4> HIDE DEF s
      <4> QED
        BY <1>1, <2>1, <2>2, <2>3, <2>4, <2>7, RecolouredMends
    <3>2. to = [tree |-> u, node |-> g]
      BY <2>6, <2>7
    <3>3. Cardinality(Way(t.parent, n)) \in Nat
          /\ Cardinality(Way(t.parent, g)) < Cardinality(Way(t.parent, n))
          /\ Cardinality(Way(t.parent, g)) \in Nat
      <4>1. Cardinality(Way(t.parent, n)) \in Nat
            /\ Cardinality(Way(t.parent, g)) < Cardinality(Way(t.parent, n))
        BY <1>1, <2>1, <2>2, HigherUp
      <4>2. t.parent \in Onwards /\ g \in Nodes
        BY <1>0, <2>3 DEF Trees, Onwards
      <4>3. Way(t.parent, g) \subseteq Nodes
        BY <4>2, WayFacts DEF Leads
      <4>4. Cardinality(Way(t.parent, g)) \in Nat
        BY <4>3, TreeAssumption, FS_Subset, FS_CardinalityType
      <4> QED
        BY <4>1, <4>4
    <3> HIDE DEF u
    <3>4. Turned(u, o, M)
      BY <3>1, TurnedFacts
    <3>5. to.tree = u /\ to.node = g
      BY <3>2
    <3>6. Above(to) = Cardinality(Way(t.parent, g)) /\ Above(at) = Cardinality(Way(t.parent, n))
      BY <3>1, <3>5 DEF Above
    <3> HIDE DEF at, to
    <3> QED
      BY <3>1, <3>2, <3>3, <3>4, <3>5, <3>6 DEF at, to
  <2>8. CASE ~Red(t, c) /\ n = t.child[p][s]
    <3> DEFINE u == Raised(t, p, g, s)
    <3>1. Straight(t, M, n, p, g, s, t.parent[g], t.child[p][Other(s)], c)
      <4> HIDE DEF s
      <4> QED
        BY <2>1, <2>2, <2>3, <2>4, <2>8 DEF Straight
    <3>2. Turned(u, t, M) /\ Mid(u, M, n) /\ u.parent[n] = p /\ ~Red(u, p)
      <4> HIDE DEF s, p, g, c
      <4> QED
        BY <1>1, <2>4, <3>1, StraightMends
    <3>3. to = [tree |-> u, node |-> n]
      BY <2>6, <2>8
    <3>4. Settled(u, n)
      BY <3>2 DEF Settled
    <3> HIDE DEF u
    <3>5. Turned(u, o, M)
      BY <3>2, TurnedFacts
    <3>6. to.tree = u /\ to.node = n
      BY <3>3
    <3> HIDE DEF p, g, s, c, at
    <3> QED
      BY <3>2, <3>3, <3>4, <3>5, <3>6 DEF at, to
  <2>9. CASE ~Red(t, c) /\ n # t.child[p][s]
    <3> DEFINE w == Rotate(t, p, s)
               u == Raised(w, n, g, s)
    <3>1. t.child[p][Other(s)] = n
      BY <2>4, <2>5, <2>9, SidesFacts
    <3>2. Crooked(t, M, n, p, g, s, t.child[n][s], t.child[p][s])
      <4> HIDE DEF s
      <4> QED
        BY <2>1, <2>2, <2>3, <2>4, <3>1 DEF Crooked
    <3>3. /\ Turned(w, t, M) /\ Mid(w, M, p)
          /\ Straight(w, M, p, n, g, s, w.parent[g], w.child[n][Other(s)], w.child[g][Other(s)])
      <4>1. ~Red(t, t.child[g][Other(s)])
        BY <2>9
      <4> HIDE DEF s, p, g, c
      <4> QED
        BY <1>1, <2>4, <3>2, <4>1, CrookedTurns
    <3>4. to = [tree |-> u, node |-> p]
      BY <2>6, <2>9
    <3>5. Turned(u, w, M) /\ Mid(u, M, p) /\ u.parent[p] = n /\ ~Red(u, n)
      <4>1. Shaped(w, M)
        BY <3>3 DEF Turned
      <4> HIDE DEF s, p, g, c, w
      <4> QED
        BY <2>4, <3>3, <4>1, StraightMends
    <3>6. Settled(u, p)
      BY <3>5 DEF Settled
    <3> HIDE DEF u, w
    <3>7. Turned(u, o, M)
      BY <3>3, <3>5, TurnedFacts
    <3>8. to.tree = u /\ to.node = p
      BY <3>4
    <3> HIDE DEF g, s, c, at
    <3> QED
      BY <3>4, <3>5, <3>6, <3>7, <3>8 DEF at, to
  <2> QED
    BY <2>7, <2>8, <2>9
<1> QED
  BY <1>2, <1>3

\* When it was round as often as there are nodes, it is done.
LEMMA MendedKeeps ==
  ASSUME NEW o, NEW M, NEW t, NEW n, Turned(t, o, M), Mid(t, M, n)
  PROVE  LET u == Mended(t, n)
         IN  Turned(u, o, M) /\ \E m : Mid(u, M, m) /\ Settled(u, m)
<1> DEFINE N == Cardinality(Nodes)
           Good(at) == /\ Turned(at.tree, o, M) /\ Mid(at.tree, M, at.node)
                       /\ at = [tree |-> at.tree, node |-> at.node]
           S == {at \in [tree : Trees, node : Nodes] : Good(at)}
           f == [at \in S |-> Mend(at)]
           x == [tree |-> t, node |-> n]
           Is(g) == g = [i \in 0 .. N |-> IF i = 0 THEN x ELSE Mend(g[i - 1])]
           w == CHOOSE g : Is(g)
<1>1. N \in Nat /\ IsFiniteSet(Nodes) /\ Nil \notin Nodes
  BY FS_CardinalityType, TreeAssumption
<1>2. \A at : Good(at) => at \in S /\ M \subseteq Nodes /\ at.node \in Nodes /\ at.tree \in Trees
  <2> TAKE at
  <2> HAVE Good(at)
  <2>1. at.tree \in Trees /\ M \subseteq Nodes /\ at.node \in M
    BY DEF Turned, Shaped, Linked, Mid
  <2>2. at \in [tree : Trees, node : Nodes]
    BY <2>1
  <2> QED
    BY <2>1, <2>2
<1>3. ASSUME NEW at, Good(at)
      PROVE  /\ Good(Mend(at))
             /\ \/ Settled(Mend(at).tree, Mend(at).node)
                \/ Above(Mend(at)) \in Nat /\ Above(at) \in Nat /\ Above(Mend(at)) < Above(at)
  <2> DEFINE tt == at.tree
             nn == at.node
  <2>1. Turned(tt, o, M) /\ Mid(tt, M, nn) /\ at = [tree |-> tt, node |-> nn]
    BY <1>3
  <2> HIDE DEF tt, nn
  <2> QED
    BY <2>1, MendKeeps
<1>4. x \in S /\ Good(x)
  <2>1. Good(x)
    OBVIOUS
  <2> HIDE DEF Good, x
  <2> QED
    BY <1>2, <2>1
<1>5. f \in [S -> S] /\ \A at \in S : f[at] = Mend(at)
  <2>1. ASSUME NEW at \in S PROVE Mend(at) \in S
    <3>1. Good(at)
      OBVIOUS
    <3> HIDE DEF Good
    <3>2. Good(Mend(at))
      BY <1>3, <3>1
    <3> HIDE DEF S
    <3> QED
      BY <1>2, <3>2
  <2> HIDE DEF S
  <2> QED
    BY <2>1
<1> HIDE DEF f, N, x
<1>6. PICK g : Iteration(g, S, x, f, N)
  <2> HIDE DEF S
  <2> QED
    BY <1>1, <1>4, <1>5, Iterated
<1>7. \A i \in 0 .. N : i # 0 => i \in 1 .. N /\ i - 1 \in 0 .. N
  BY <1>1
<1>8. Is(g)
  <2> HIDE DEF S
  <2>1. g \in [0 .. N -> S] /\ g[0] = x /\ \A i \in 1 .. N : g[i] = f[g[i - 1]]
    BY <1>6 DEF Iteration
  <2>2. \A i \in 0 .. N : i # 0 => g[i] = Mend(g[i - 1])
    BY <1>5, <1>7, <2>1
  <2> QED
    BY <2>1, <2>2
<1>9. Is(w)
  <2> HIDE DEF Is
  <2> QED
    BY <1>8
<1>10. Mended(t, n) = w[N].tree
  BY DEF Mended, N, x
<1> HIDE DEF w
<1>11. w[0] = x /\ \A i \in 1 .. N : w[i] = Mend(w[i - 1])
  <2>1. 0 \in 0 .. N /\ \A i \in 1 .. N : i \in 0 .. N /\ i # 0
    BY <1>1
  <2> QED
    BY <1>9, <2>1
<1> DEFINE Done(i) == Settled(w[i].tree, w[i].node)
           Fine(i) == Good(w[i]) /\ (Done(i) \/ (Above(w[i]) \in Nat /\ Above(w[i]) + i <= N))
           B == {i \in 0 .. N : ~Fine(i)}
<1>12. ASSUME NEW at, Good(at) PROVE Above(at) \in Nat /\ Above(at) <= N /\ Above(at) # 0
  <2> DEFINE W == Way(at.tree.parent, at.node)
  <2>1. at.node \in Nodes /\ at.tree.parent \in Onwards
    BY <1>2, <1>12 DEF Trees, Onwards
  <2>2. W \subseteq Nodes /\ at.node \in W
    BY <1>1, <2>1, WayFacts DEF Leads
  <2>3. IsFiniteSet(W) /\ Cardinality(W) <= N
    BY <1>1, <2>2, FS_Subset DEF N
  <2>4. Cardinality(W) # 0
    <3> HIDE DEF W
    <3> QED
      BY <2>2, <2>3, FS_EmptySet
  <2> QED
    BY <2>3, <2>4, FS_CardinalityType DEF Above
<1> HIDE DEF Good
<1>13. Fine(0)
  <2>1. Good(w[0]) /\ Above(w[0]) \in Nat /\ Above(w[0]) <= N
    BY <1>4, <1>11, <1>12
  <2>2. Above(w[0]) + 0 <= N
    BY <1>1, <2>1
  <2> QED
    BY <2>1, <2>2
<1>14. ASSUME NEW i \in 1 .. N, Fine(i - 1) PROVE Fine(i)
  <2>1. w[i] = Mend(w[i - 1]) /\ Good(w[i - 1])
    BY <1>11, <1>14
  <2>2. Good(w[i])
    BY <1>3, <2>1
  <2>3. CASE Done(i - 1)
    <3>1. w[i] = w[i - 1]
      BY <2>1, <2>3 DEF Mend
    <3> QED
      BY <2>2, <2>3, <3>1
  <2>4. CASE ~Done(i - 1) /\ ~Done(i)
    <3>1. Above(w[i]) \in Nat /\ Above(w[i - 1]) \in Nat /\ Above(w[i]) < Above(w[i - 1])
      BY <1>3, <2>1, <2>4
    <3>2. Above(w[i - 1]) + (i - 1) <= N
      BY <1>14, <2>4
    <3>3. Above(w[i]) + i <= N
      BY <1>1, <3>1, <3>2
    <3> QED
      BY <2>2, <3>1, <3>3
  <2> QED
    BY <2>2, <2>3, <2>4
<1>15. B = {}
  <2> HIDE DEF Fine
  <2>1. SUFFICES ASSUME B # {} PROVE FALSE
    OBVIOUS
  <2>2. PICK i \in B : \A m \in B : i <= m
    <3>1. B \in SUBSET Nat
      BY <1>1
    <3> HIDE DEF B
    <3> QED
      BY <2>1, <3>1, LeastNumber
  <2>3. i # 0 /\ i \in 0 .. N
    BY <1>13, <2>2
  <2>4. i \in 1 .. N /\ i - 1 \in 0 .. N /\ ~(i <= i - 1)
    BY <2>3, <1>1
  <2>5. i - 1 \notin B
    BY <2>2, <2>4
  <2>6. Fine(i - 1)
    BY <2>4, <2>5
  <2> QED
    BY <1>14, <2>2, <2>4, <2>6
<1>16. Fine(N)
  <2> HIDE DEF Fine
  <2> QED
    BY <1>1, <1>15
<1>17. Done(N)
  <2>1. Good(w[N])
    BY <1>16
  <2>2. Above(w[N]) \in Nat /\ Above(w[N]) # 0
    BY <1>12, <2>1
  <2>3. ~(Above(w[N]) + N <= N)
    BY <1>1, <2>2
  <2> QED
    BY <1>16, <2>3
<1> QED
  BY <1>10, <1>16, <1>17 DEF Good

\* After rb_tree_balance the colours are right.
Coloured(t, M) == NoTwoReds(t, M, Nil) /\ ~Red(t, t.root) /\ \E b : Balanced(t, M, b)

LEMMA PaintOne ==
  ASSUME NEW t \in Trees, NEW n \in Nodes
  PROVE  Painted([t EXCEPT !.colour[n] = "black"], t, n, n, Nil)
<1>1. Nil # n /\ Nil \notin Nodes
  BY TreeAssumption
<1> QED
  BY <1>1 DEF Trees, Painted

LEMMA BalanceKeeps ==
  ASSUME NEW o, NEW M, NEW t, NEW n, Turned(t, o, M), Mid(t, M, n)
  PROVE  LET u == rb_tree_balance(t, n) IN Turned(u, o, M) /\ Coloured(u, M)
<1> DEFINE w == Mended(t, n)
           u == [w EXCEPT !.colour[w.root] = "black"]
           x == w.root
<1>1. Turned(w, o, M)
  BY MendedKeeps
<1>2. PICK m : Mid(w, M, m) /\ Settled(w, m)
  BY MendedKeeps
<1>3. u = rb_tree_balance(t, n)
  BY DEF rb_tree_balance
<1> HIDE DEF w
<1>4. /\ w \in Trees /\ Linked(w, M) /\ M \subseteq Nodes /\ Nil \notin Nodes /\ m \in M
      /\ x \in Nodes /\ x # Nil /\ x \in M /\ Shaped(w, M)
  BY <1>1, <1>2, TreeAssumption DEF Turned, Shaped, Linked, Mid
<1>5. Painted(u, w, x, x, Nil)
  BY <1>4, PaintOne
<1> HIDE DEF u
<1>6. /\ u \in Trees /\ u.root = w.root /\ u.child = w.child /\ u.parent = w.parent
      /\ u.count = w.count /\ u.key = w.key /\ u.data = w.data
  BY <1>5 DEF Painted
<1>7. \A z \in Nodes : u.colour[z] = IF z = x THEN "black" ELSE w.colour[z]
  BY <1>4, <1>5 DEF Painted
<1>8. Turned(u, o, M)
  <2>1. Turned(u, w, M)
    BY <1>4, <1>6, Repainted
  <2> QED
    BY <1>1, <2>1, TurnedFacts
<1>9. ~Red(u, x) /\ \A z \in Nodes : z # x => (Red(u, z) <=> Red(w, z))
  BY <1>4, <1>7 DEF Red
<1>10. ASSUME NEW z \in M, Red(u, z), Red(u, u.parent[z]) PROVE FALSE
  <2> DEFINE a == w.parent[z]
  <2>1. z \in Nodes /\ a \in Nodes /\ z # x /\ a # x
    BY <1>4, <1>6, <1>9, <1>10 DEF Trees, Red
  <2>2. Red(w, z) /\ Red(w, a)
    BY <1>6, <1>9, <1>10, <2>1
  <2>3. z = m
    BY <1>2, <2>2 DEF Mid, NoTwoReds
  <2>4. w.parent[a] = Nil
    BY <1>2, <2>1, <2>2, <2>3 DEF Settled
  <2>5. a \in M
    BY <1>4, <2>1 DEF Linked
  <2>6. w.parent[a] \in M
    BY <1>4, <2>1, <2>5 DEF Linked
  <2> QED
    BY <1>4, <2>4, <2>6
<1>11. PICK b : Balanced(w, M, b)
  BY <1>2 DEF Mid
<1>12. ASSUME NEW z \in M, NEW d \in Sides PROVE b[z] = Height(u, b, u.child[z][d])
  <2> DEFINE c == w.child[z][d]
  <2>1. b[z] = Height(w, b, c) /\ u.child[z][d] = c
    BY <1>6, <1>11 DEF Balanced
  <2>2. c # Nil => c \in Nodes /\ c # x
    BY <1>4 DEF Linked
  <2>3. Height(u, b, c) = Height(w, b, c)
    <3> HIDE DEF c
    <3> QED
      BY <1>7, <2>2 DEF Height
  <2> QED
    BY <2>1, <2>3
<1>13. Balanced(u, M, b)
  BY <1>11, <1>12 DEF Balanced
<1>14. Coloured(u, M)
  BY <1>6, <1>9, <1>10, <1>13 DEF Coloured, NoTwoReds
<1> QED
  BY <1>3, <1>8, <1>14

-----------------------------------------------------------------------------
\* A way up: what is above a node, and which side of it the node is on.

BelowOn(t, n, a, s) == t.child[a][s] # Nil /\ t.child[a][s] \in Way(t.parent, n)

LEMMA UpFacts ==
  ASSUME NEW t, NEW M, Shaped(t, M), NEW n \in M
  PROVE  /\ Way(t.parent, n) \subseteq M /\ n \in Way(t.parent, n)
         /\ \A m \in Way(t.parent, n) : m # t.root => t.parent[m] \in Way(t.parent, n)
         /\ \A m \in Way(t.parent, n) : m # n =>
              \E s \in Sides : BelowOn(t, n, m, s)
         /\ \A S : n \in S /\ S \subseteq M
                   /\ (\A m \in S : m # t.root => t.parent[m] \in S)
                   => Way(t.parent, n) \subseteq S
<1>0. /\ t \in Trees /\ Linked(t, M) /\ M \subseteq Nodes /\ Nil \notin Nodes
      /\ t.parent \in Onwards /\ n \in Nodes
  BY TreeAssumption DEF Shaped, Linked, Trees, Onwards
<1> DEFINE W == Way(t.parent, n)
<1>1. Leads(t.parent, W) /\ n \in W
  BY <1>0, WayFacts
<1>2. \A S : n \in S /\ Leads(t.parent, S) => W \subseteq S
  BY <1>0, WayFacts
<1>3. ASSUME NEW S, n \in S, S \subseteq M, \A m \in S : m # t.root => t.parent[m] \in S
      PROVE  W \subseteq S
  <2>1. Leads(t.parent, S)
    BY <1>0, <1>3 DEF Leads, Linked
  <2> QED
    BY <1>2, <1>3, <2>1
<1>4. W \subseteq M
  <2>1. \A m \in M : m # t.root => t.parent[m] \in M
    BY <1>0 DEF Linked
  <2> QED
    BY <1>3, <2>1
<1>5. \A m \in W : m # t.root => t.parent[m] \in W
  BY <1>0, <1>1, <1>4 DEF Leads, Linked
<1>6. ASSUME NEW m \in W, m # n PROVE \E s \in Sides : BelowOn(t, n, m, s)
  <2>1. PICK x \in W : t.parent[x] = m
    BY <1>0, <1>6, WayBack
  <2>2. x # t.root
    BY <1>0, <1>4, <2>1 DEF Linked
  <2>3. PICK s \in Sides : t.child[m][s] = x
    BY <1>0, <1>4, <2>1, <2>2 DEF Linked
  <2>4. x # Nil
    BY <1>0, <1>4
  <2> QED
    BY <2>1, <2>3, <2>4 DEF BelowOn
<1> QED
  BY <1>1, <1>3, <1>4, <1>5, <1>6

LEMMA UpOrdered ==
  ASSUME NEW t, NEW M, Shaped(t, M), NEW v, NEW K, Ordered(t, M, v, K), NEW n \in M
  PROVE  /\ \A m \in Way(t.parent, n) : K[n] \subseteq K[m]
         /\ \A a \in M, s \in Sides : BelowOn(t, n, a, s) => Beside(s, v[n], v[a])
<1>0. t \in Trees /\ Linked(t, M) /\ M \subseteq Nodes /\ Nil \notin Nodes
  BY TreeAssumption DEF Shaped, Linked
<1> DEFINE S == {m \in M : K[n] \subseteq K[m]}
<1>1. ASSUME NEW m \in S, m # t.root PROVE t.parent[m] \in S
  <2>1. PICK s \in Sides : t.parent[m] \in M /\ t.child[t.parent[m]][s] = m
    BY <1>0, <1>1 DEF Linked
  <2>2. m # Nil
    BY <1>0
  <2>3. K[m] \subseteq K[t.parent[m]]
    BY <2>1, <2>2 DEF Ordered
  <2> QED
    BY <2>1, <2>3
<1>2. Way(t.parent, n) \subseteq S
  <2>1. n \in S /\ S \subseteq M
    OBVIOUS
  <2> HIDE DEF S
  <2> QED
    BY <1>1, <2>1, UpFacts
<1>3. ASSUME NEW a \in M, NEW s \in Sides, BelowOn(t, n, a, s) PROVE Beside(s, v[n], v[a])
  <2>1. t.child[a][s] # Nil /\ K[n] \subseteq K[t.child[a][s]]
    BY <1>2, <1>3 DEF BelowOn
  <2>2. v[n] \in K[n]
    BY DEF Ordered
  <2> QED
    BY <2>1, <2>2 DEF Ordered
<1> QED
  BY <1>2, <1>3

-----------------------------------------------------------------------------
\* A node hung below p on side s, where there was none.

Hung(v, t, n, k, d, p, s) ==
  /\ v \in Trees /\ v.root = t.root /\ v.count = t.count + 1
  /\ \A z \in Nodes : v.key[z] = IF z = n THEN k ELSE t.key[z]
  /\ \A z \in Nodes : v.data[z] = IF z = n THEN d ELSE t.data[z]
  /\ \A z \in Nodes : v.colour[z] = IF z = n THEN "red" ELSE t.colour[z]
  /\ \A z \in Nodes : v.parent[z] = IF z = n THEN p ELSE t.parent[z]
  /\ \A z \in Nodes, e \in Sides : v.child[z][e] =
       IF z = p /\ e = s THEN n ELSE IF z = n THEN Nil ELSE t.child[z][e]

LEMMA HungShaped ==
  ASSUME NEW t, NEW M, Shaped(t, M), NEW n \in Nodes \ M, NEW p \in M, NEW s \in Sides,
         NEW k, NEW d, t.child[p][s] = Nil, NEW v, Hung(v, t, n, k, d, p, s)
  PROVE  Shaped(v, M \cup {n})
<1>0. /\ t \in Trees /\ Linked(t, M) /\ M \subseteq Nodes /\ Nil \notin Nodes
      /\ n \in Nodes /\ n \notin M /\ p \in Nodes /\ n # p /\ n # Nil /\ p # Nil
  BY TreeAssumption DEF Shaped, Linked
<1>1. PICK h : Down(t, M, h)
  BY DEF Shaped
<1> DEFINE L == M \cup {n}
<1>2. /\ \A e \in Sides : v.child[n][e] = Nil
      /\ v.child[p][s] = n /\ v.parent[n] = p
  BY <1>0 DEF Hung
<1>3. \A z \in M : v.parent[z] = t.parent[z] /\
        \A e \in Sides : v.child[z][e] = IF z = p /\ e = s THEN n ELSE t.child[z][e]
  BY <1>0 DEF Hung
<1>4. v.root = t.root /\ t.root \in M
  BY <1>0 DEF Hung, Linked
<1>5. Linked(v, L)
  <2>1. /\ L \subseteq Nodes /\ v.root \in L \cup {Nil} /\ v.root # Nil
        /\ v.parent[v.root] = Nil
    BY <1>0, <1>3, <1>4 DEF Linked
  <2>2. ASSUME NEW z \in L, NEW e \in Sides, v.child[z][e] # Nil
        PROVE  v.child[z][e] \in L /\ v.parent[v.child[z][e]] = z
    <3>1. z # n
      BY <1>2, <2>2
    <3>2. CASE z = p /\ e = s
      BY <1>2, <3>2
    <3>3. CASE ~(z = p /\ e = s)
      <4>1. v.child[z][e] = t.child[z][e] /\ z \in M
        BY <1>3, <3>1, <3>3
      <4>2. t.child[z][e] \in M /\ t.parent[t.child[z][e]] = z
        BY <1>0, <2>2, <4>1 DEF Linked
      <4> QED
        BY <1>3, <4>1, <4>2
    <3> QED
      BY <3>2, <3>3
  <2>3. ASSUME NEW z \in L, v.child[z]["lh"] = v.child[z]["rh"] PROVE v.child[z]["lh"] = Nil
    <3>1. CASE z = n
      BY <1>2, <3>1, SidesFacts
    <3>2. CASE z = p
      <4>1. \A e \in Sides : t.child[p][e] # n
        BY <1>0 DEF Linked
      <4> QED
        BY <1>3, <2>3, <3>2, <4>1, SidesFacts DEF Sides
    <3>3. CASE z # n /\ z # p
      <4>1. z \in M /\ v.child[z]["lh"] = t.child[z]["lh"] /\ v.child[z]["rh"] = t.child[z]["rh"]
        BY <1>3, <3>3, SidesFacts
      <4> QED
        BY <1>0, <2>3, <4>1 DEF Linked
    <3> QED
      BY <3>1, <3>2, <3>3
  <2>4. ASSUME NEW z \in L \ {v.root}
        PROVE  v.parent[z] \in L /\ \E e \in Sides : v.child[v.parent[z]][e] = z
    <3>1. CASE z = n
      BY <1>2, <3>1
    <3>2. CASE z # n
      <4>1. z \in M /\ z # t.root /\ v.parent[z] = t.parent[z]
        BY <1>3, <1>4, <3>2
      <4>2. PICK e \in Sides : t.parent[z] \in M /\ t.child[t.parent[z]][e] = z
        BY <1>0, <4>1 DEF Linked
      <4>3. z # Nil
        BY <1>0, <4>1
      <4>4. v.child[t.parent[z]][e] = z
        BY <1>3, <4>2, <4>3
      <4> QED
        BY <4>1, <4>2, <4>4
    <3> QED
      BY <3>1, <3>2
  <2> QED
    BY <2>1, <2>2, <2>3, <2>4 DEF Linked
<1> DEFINE g == [z \in Nodes |-> IF z = n THEN 0 ELSE h[z] + 1]
<1>6. Down(v, L, g)
  <2>1. \A z \in Nodes : h[z] \in Nat
    BY <1>1 DEF Down
  <2>2. g \in [Nodes -> Nat] /\ g[n] = 0 /\ \A z \in M : g[z] = h[z] + 1
    BY <1>0, <2>1
  <2> HIDE DEF g
  <2>3. ASSUME NEW z \in L, NEW e \in Sides, v.child[z][e] # Nil PROVE g[v.child[z][e]] < g[z]
    <3>1. z \in M
      BY <1>2, <2>3
    <3>2. h[z] \in Nat
      BY <1>0, <2>1, <3>1
    <3>3. CASE z = p /\ e = s
      BY <1>2, <2>2, <3>1, <3>2, <3>3
    <3>4. CASE ~(z = p /\ e = s)
      <4> DEFINE c == t.child[z][e]
      <4>1. v.child[z][e] = c /\ c \in M /\ h[c] < h[z]
        BY <1>0, <1>1, <1>3, <2>3, <3>1, <3>4 DEF Linked, Down
      <4> HIDE DEF c
      <4>2. h[c] \in Nat
        BY <1>0, <2>1, <4>1
      <4> QED
        BY <2>2, <3>1, <3>2, <4>1, <4>2
    <3> QED
      BY <3>3, <3>4
  <2> QED
    BY <2>2, <2>3 DEF Down
<1> QED
  BY <1>5, <1>6 DEF Shaped, Hung

\* What is on the left of a node is less than it, where no two are equal.
Strict(t, M, v, K) ==
  \A n \in M : t.child[n]["lh"] # Nil => \A k \in K[t.child[n]["lh"]] : k < v[n]

\* The values v are in order, and none is equal to one on its left if strictly.
InOrder(t, M, v, strictly) ==
  \E K : Ordered(t, M, v, K) /\ (strictly => Strict(t, M, v, K))

\* A value that is on the right side of all that is above the new node.
Fits(t, M, f, p, s, x) ==
  /\ x \in Int /\ Beside(s, x, f[p])
  /\ \A a \in M, q \in Sides : BelowOn(t, p, a, q) => Beside(q, x, f[a])
FitsStrictly(t, M, f, p, s, x) ==
  (s = "lh" => x < f[p]) /\ \A a \in M : BelowOn(t, p, a, "lh") => x < f[a]
Extended(e, f, M, n, x) == e[n] = x /\ \A m \in M : e[m] = f[m]

LEMMA HungOrdered ==
  ASSUME NEW t, NEW M, Shaped(t, M), NEW n \in Nodes \ M, NEW p \in M, NEW s \in Sides,
         NEW k, NEW d, t.child[p][s] = Nil, NEW v, Hung(v, t, n, k, d, p, s),
         NEW f, NEW strictly, InOrder(t, M, f, strictly), NEW x, Fits(t, M, f, p, s, x),
         strictly => FitsStrictly(t, M, f, p, s, x), NEW e, Extended(e, f, M, n, x)
  PROVE  InOrder(v, M \cup {n}, e, strictly)
<1>k. PICK K : Ordered(t, M, f, K) /\ (strictly => Strict(t, M, f, K))
  BY DEF InOrder
<1> Ordered(t, M, f, K)
  BY <1>k
<1>   /\ x \in Int /\ e[n] = x /\ Beside(s, x, f[p])
      /\ (\A m \in M : e[m] = f[m])
      /\ \A a \in M, q \in Sides : BelowOn(t, p, a, q) => Beside(q, x, f[a])
  BY DEF Fits, Extended
<1> DEFINE A == Way(t.parent, p)
           L == [z \in Nodes |-> IF z = n THEN {x} ELSE IF z \in A THEN K[z] \cup {x} ELSE K[z]]
<1>0. /\ t \in Trees /\ Linked(t, M) /\ M \subseteq Nodes /\ Nil \notin Nodes
      /\ n \in Nodes /\ n \notin M /\ p \in Nodes /\ n # p /\ n # Nil
  BY TreeAssumption DEF Shaped, Linked
<1>1. A \subseteq M /\ p \in A /\ \A m \in A : m # t.root => t.parent[m] \in A
  BY UpFacts
<1> HIDE DEF A
<1>2. L \in [Nodes -> SUBSET Int]
  BY DEF Ordered
<1>3. L[n] = {x} /\ \A z \in M : L[z] = IF z \in A THEN K[z] \cup {x} ELSE K[z]
  BY <1>0
<1> HIDE DEF L
<1>4. \A z \in M \cup {n} : e[z] \in L[z]
  BY <1>3 DEF Ordered
<1>5. ASSUME NEW z \in M \cup {n}, NEW q \in Sides, v.child[z][q] # Nil
      PROVE  /\ L[v.child[z][q]] \subseteq L[z]
             /\ \A y \in L[v.child[z][q]] : Beside(q, y, e[z])
  <2>1. z # n /\ z \in M /\ z \in Nodes
    BY <1>0, <1>5 DEF Hung
  <2>2. CASE z = p /\ q = s
    <3>1. v.child[z][q] = n
      BY <2>1, <2>2 DEF Hung
    <3>2. L[z] = K[z] \cup {x} /\ e[z] = f[p]
      BY <1>1, <1>3, <2>1, <2>2
    <3>3. L[v.child[z][q]] = {x}
      BY <1>3, <3>1
    <3> QED
      BY <2>2, <3>2, <3>3
  <2>3. CASE ~(z = p /\ q = s)
    <3> DEFINE c == t.child[z][q]
    <3>1. v.child[z][q] = c
      BY <2>1, <2>3 DEF Hung
    <3>2. c # Nil /\ c \in M /\ t.parent[c] = z
      BY <1>0, <1>5, <2>1, <3>1 DEF Linked
    <3>3. K[c] \subseteq K[z] /\ \A y \in K[c] : Beside(q, y, f[z])
      BY <2>1, <3>2 DEF Ordered
    <3>4. c \in A => z \in A /\ Beside(q, x, f[z])
      <4>1. c # t.root
        BY <1>0, <2>1, <3>2 DEF Linked
      <4> QED
        BY <1>1, <2>1, <3>2, <4>1 DEF BelowOn, A
    <3> HIDE DEF c
    <3> QED
      BY <1>3, <2>1, <3>1, <3>2, <3>3, <3>4
  <2> QED
    BY <2>2, <2>3
<1>6. Ordered(v, M \cup {n}, e, L)
  BY <1>2, <1>4, <1>5 DEF Ordered
<1>7. ASSUME Strict(t, M, f, K), s = "lh" => x < f[p],
             \A a \in M : BelowOn(t, p, a, "lh") => x < f[a],
             NEW z \in M \cup {n}, v.child[z]["lh"] # Nil, NEW y \in L[v.child[z]["lh"]]
      PROVE  y < e[z]
  <2>0. "lh" \in Sides
    BY SidesFacts
  <2>1. z # n /\ z \in M /\ z \in Nodes /\ e[z] = f[z]
    BY <1>0, <1>7, <2>0 DEF Hung
  <2>2. CASE z = p /\ s = "lh"
    <3>1. v.child[z]["lh"] = n
      BY <2>0, <2>1, <2>2 DEF Hung
    <3> QED
      BY <1>3, <1>7, <2>1, <2>2, <3>1
  <2>3. CASE ~(z = p /\ s = "lh")
    <3> DEFINE c == t.child[z]["lh"]
    <3>1. v.child[z]["lh"] = c
      BY <2>0, <2>1, <2>3 DEF Hung
    <3>2. c # Nil /\ c \in M
      BY <1>0, <1>7, <2>0, <2>1, <3>1 DEF Linked
    <3>3. \A k1 \in K[c] : k1 < f[z]
      BY <1>7, <2>1, <3>2 DEF Strict
    <3>4. c \in A => x < f[z]
      BY <1>7, <2>1, <3>2 DEF BelowOn, A
    <3> HIDE DEF c
    <3> QED
      BY <1>3, <1>7, <2>1, <3>1, <3>2, <3>3, <3>4
  <2> QED
    BY <2>2, <2>3
<1>8. strictly => Strict(v, M \cup {n}, e, L)
  <2> HIDE DEF L
  <2>1. SUFFICES ASSUME Strict(t, M, f, K), s = "lh" => x < f[p],
                        \A a \in M : BelowOn(t, p, a, "lh") => x < f[a]
                 PROVE  Strict(v, M \cup {n}, e, L)
    BY <1>k DEF FitsStrictly
  <2> QED
    BY <1>7, <2>1 DEF Strict
<1> QED
  <2> HIDE DEF L
  <2> QED
    BY <1>6, <1>8 DEF InOrder

LEMMA HungMid ==
  ASSUME NEW t, NEW M, Shaped(t, M), NEW n \in Nodes \ M, NEW p \in M, NEW s \in Sides,
         NEW k, NEW d, t.child[p][s] = Nil, NEW v, Hung(v, t, n, k, d, p, s),
         NoTwoReds(t, M, Nil), NEW b, Balanced(t, M, b)
  PROVE  Mid(v, M \cup {n}, n)
<1>0. /\ t \in Trees /\ Linked(t, M) /\ M \subseteq Nodes /\ Nil \notin Nodes
      /\ n \in Nodes /\ n \notin M /\ p \in Nodes /\ n # p /\ n # Nil
  BY TreeAssumption DEF Shaped, Linked
<1>1. Red(v, n) /\ \A z \in Nodes : z # n => (Red(v, z) <=> Red(t, z))
  BY <1>0 DEF Red, Hung
<1>2. ASSUME NEW m \in M, Red(v, m), Red(v, v.parent[m]) PROVE FALSE
  <2>1. v.parent[m] = t.parent[m] /\ m \in Nodes /\ m # n
    BY <1>0 DEF Hung
  <2>2. t.parent[m] \in Nodes /\ t.parent[m] # n
    BY <1>0, <1>2, <2>1 DEF Linked, Red
  <2> QED
    BY <1>0, <1>1, <1>2, <2>1, <2>2 DEF NoTwoReds
<1> DEFINE c == [b EXCEPT ![n] = 0]
<1>3. c \in [Nodes -> Nat] /\ c[n] = 0 /\ \A z \in Nodes : z # n => c[z] = b[z]
  BY <1>0 DEF Balanced
<1> HIDE DEF c
<1>4. ASSUME NEW z \in M \cup {n}, NEW q \in Sides PROVE c[z] = Height(v, c, v.child[z][q])
  <2>1. CASE z = n
    <3>1. v.child[z][q] = Nil
      BY <1>0, <2>1 DEF Hung
    <3> QED
      BY <1>3, <2>1, <3>1 DEF Height
  <2>2. CASE z # n
    <3>1. z \in M /\ z \in Nodes /\ c[z] = b[z] /\ b[z] = Height(t, b, t.child[z][q])
      BY <1>0, <1>3, <2>2 DEF Balanced
    <3>2. CASE z = p /\ q = s
      <4>1. v.child[z][q] = n /\ v.colour[n] = "red"
        BY <1>0, <3>1, <3>2 DEF Hung
      <4>2. b[z] = 0
        BY <3>1, <3>2 DEF Height
      <4> QED
        BY <1>0, <1>3, <3>1, <4>1, <4>2 DEF Height
    <3>3. CASE ~(z = p /\ q = s)
      <4> DEFINE w == t.child[z][q]
      <4>1. v.child[z][q] = w
        BY <2>2, <3>1, <3>3 DEF Hung
      <4>2. w # Nil => w \in Nodes /\ w # n
        BY <1>0, <3>1 DEF Linked
      <4>3. w # Nil => v.colour[w] = t.colour[w] /\ c[w] = b[w]
        BY <1>3, <4>2 DEF Hung
      <4> HIDE DEF w
      <4>4. Height(v, c, w) = Height(t, b, w)
        BY <4>3 DEF Height
      <4> QED
        BY <3>1, <4>1, <4>4 DEF w
    <3> QED
      BY <3>2, <3>3
  <2> QED
    BY <2>1, <2>2
<1>5. Balanced(v, M \cup {n}, c)
  BY <1>3, <1>4 DEF Balanced
<1> QED
  BY <1>1, <1>2, <1>5 DEF Mid, NoTwoReds

-----------------------------------------------------------------------------
\* A way down from the root, by one child or the other of each node.

LEMMA DownWay ==
  ASSUME NEW t, NEW M, Shaped(t, M), t.root # Nil, NEW way \in Onwards,
         \A m \in M : way[m] = Nil \/ \E s \in Sides : way[m] = t.child[m][s]
  PROVE  LET p == LastOf(way, t.root)
         IN  /\ p \in M /\ way[p] = Nil
             /\ \A a \in M, q \in Sides : BelowOn(t, p, a, q) => way[a] = t.child[a][q]
<1>0. /\ t \in Trees /\ Linked(t, M) /\ M \subseteq Nodes /\ Nil \notin Nodes
      /\ t.root \in M /\ t.root \in Nodes /\ t.parent[t.root] = Nil
  BY TreeAssumption DEF Shaped, Linked
<1>1. PICK h : Down(t, M, h)
  BY DEF Shaped
<1> DEFINE D == Way(way, t.root)
           p == LastOf(way, t.root)
<1>2. \A m \in M : way[m] # Nil => way[m] \in M /\ h[way[m]] < h[m] /\ t.parent[way[m]] = m
  BY <1>0, <1>1 DEF Linked, Down
<1>3. D \subseteq M /\ t.root \in D
  <2>1. Leads(way, M)
    BY <1>0, <1>2 DEF Leads
  <2> QED
    BY <1>0, <2>1, WayFacts
<1>4. p \in D /\ way[p] = Nil
  <2>1. \A m \in D : way[m] # Nil => h[way[m]] < h[m]
    BY <1>2, <1>3
  <2>2. h \in [Nodes -> Nat]
    BY <1>1 DEF Down
  <2> QED
    BY <1>0, <2>1, <2>2, Ends
<1> HIDE DEF p
<1>5. \A m \in D : m # t.root => t.parent[m] \in D /\ way[t.parent[m]] = m
  <2> TAKE m \in D
  <2> HAVE m # t.root
  <2>1. PICK x \in D : way[x] = m
    BY <1>0, WayBack
  <2>2. x \in M /\ m # Nil
    BY <1>0, <1>3, <2>1
  <2>3. t.parent[m] = x
    BY <1>2, <2>1, <2>2
  <2> QED
    BY <2>1, <2>3
<1> HIDE DEF D
<1>6. Way(t.parent, p) \subseteq D
  <2>1. p \in M
    BY <1>3, <1>4
  <2>2. \A m \in D : m # t.root => t.parent[m] \in D
    BY <1>5
  <2> QED
    BY <1>3, <1>4, <2>1, <2>2, UpFacts
<1>7. ASSUME NEW a \in M, NEW q \in Sides, BelowOn(t, p, a, q) PROVE way[a] = t.child[a][q]
  <2> DEFINE c == t.child[a][q]
  <2>1. c # Nil /\ c \in D /\ t.parent[c] = a
    BY <1>0, <1>6, <1>7 DEF BelowOn, Linked
  <2>2. c # t.root
    BY <1>0, <2>1
  <2> HIDE DEF c
  <2> QED
    BY <1>5, <2>1, <2>2 DEF c
<1> QED
  BY <1>3, <1>4, <1>7 DEF p

LEMMA HookIs ==
  ASSUME NEW t, NEW M, Shaped(t, M), t.root # Nil, NEW k
  PROVE  LET p == Hook(t, k)
         IN  /\ p \in M /\ Side(t, p, k) \in Sides /\ t.child[p][Side(t, p, k)] = Nil
             /\ \A a \in M, q \in Sides : BelowOn(t, p, a, q) => q = Side(t, a, k)
<1> DEFINE way == [m \in Nodes |-> t.child[m][Side(t, m, k)]]
           p == LastOf(way, t.root)
<1>0. t \in Trees /\ Linked(t, M) /\ M \subseteq Nodes /\ Nil \notin Nodes
  BY TreeAssumption DEF Shaped, Linked
<1>1. \A m : Side(t, m, k) \in Sides
  BY DEF Side, Sides
<1>2. way \in Onwards
  BY <1>0, <1>1 DEF Trees, Onwards
<1>3. \A m \in M : way[m] = t.child[m][Side(t, m, k)]
  BY <1>0
<1>4. p = Hook(t, k)
  BY DEF Hook
<1> HIDE DEF way
<1>5. /\ p \in M /\ way[p] = Nil
      /\ \A a \in M, q \in Sides : BelowOn(t, p, a, q) => way[a] = t.child[a][q]
  <2>1. \A m \in M : way[m] = Nil \/ \E s \in Sides : way[m] = t.child[m][s]
    BY <1>1, <1>3
  <2> QED
    BY <1>2, <2>1, DownWay
<1> HIDE DEF p
<1>6. ASSUME NEW a \in M, NEW q \in Sides, BelowOn(t, p, a, q) PROVE q = Side(t, a, k)
  <2>1. t.child[a][Side(t, a, k)] = t.child[a][q] /\ t.child[a][q] # Nil
    BY <1>3, <1>5, <1>6 DEF BelowOn
  <2>2. t.child[a]["lh"] = t.child[a]["rh"] => t.child[a]["lh"] = Nil
    BY <1>0 DEF Linked
  <2> QED
    BY <1>1, <2>1, <2>2 DEF Sides
<1> QED
  BY <1>1, <1>3, <1>4, <1>5, <1>6

Filled(u, t, count, key, data, child, colour, parent) ==
  /\ u \in Trees /\ u.root = t.root /\ u.count = count /\ u.key = key /\ u.data = data
  /\ u.child = child /\ u.colour = colour /\ u.parent = parent

LEMMA NewFields ==
  ASSUME NEW t \in Trees, NEW count \in Nat, NEW key \in [Nodes -> Keys \cup {0}],
         NEW data \in [Nodes -> Data \cup {Nil}],
         NEW child \in [Nodes -> [Sides -> Nodes \cup {Nil}]],
         NEW colour \in [Nodes -> {"red", "black"}], NEW parent \in [Nodes -> Nodes \cup {Nil}]
  PROVE  Filled([t EXCEPT !.count = count, !.key = key, !.data = data, !.child = child,
                          !.colour = colour, !.parent = parent],
                t, count, key, data, child, colour, parent)
BY DEF Trees, Filled

\* What bt_tree_insert does before it balances.
Filling(t, n, k, d) ==
  [t EXCEPT !.count = @ + 1, !.key[n] = k, !.data[n] = d,
            !.child[n] = Leaf, !.colour[n] = "red", !.parent[n] = Nil]

LEMMA FilledIs ==
  ASSUME NEW t \in Trees, NEW n \in Nodes, NEW k \in Keys, NEW d \in Data \cup {Nil}
  PROVE  LET u == Filling(t, n, k, d)
         IN  /\ u \in Trees /\ u.root = t.root /\ u.count = t.count + 1
             /\ u.key[n] = k /\ u.data[n] = d /\ u.parent[n] = Nil
             /\ \A e \in Sides : u.child[n][e] = Nil
             /\ \A z \in Nodes : /\ u.key[z] = IF z = n THEN k ELSE t.key[z]
                                 /\ u.data[z] = IF z = n THEN d ELSE t.data[z]
                                 /\ u.colour[z] = IF z = n THEN "red" ELSE t.colour[z]
                                 /\ u.parent[z] = IF z = n THEN Nil ELSE t.parent[z]
                                 /\ u.child[z] = IF z = n THEN Leaf ELSE t.child[z]
<1> DEFINE u == Filling(t, n, k, d)
<1>1. Leaf \in [Sides -> Nodes \cup {Nil}] /\ \A e \in Sides : Leaf[e] = Nil
  BY DEF Leaf
<1>2. /\ u \in Trees /\ u.root = t.root /\ u.count = t.count + 1
      /\ \A z \in Nodes : /\ u.key[z] = IF z = n THEN k ELSE t.key[z]
                          /\ u.data[z] = IF z = n THEN d ELSE t.data[z]
                          /\ u.colour[z] = IF z = n THEN "red" ELSE t.colour[z]
                          /\ u.parent[z] = IF z = n THEN Nil ELSE t.parent[z]
                          /\ u.child[z] = IF z = n THEN Leaf ELSE t.child[z]
  <2> DEFINE key == [t.key EXCEPT ![n] = k]
             data == [t.data EXCEPT ![n] = d]
             child == [t.child EXCEPT ![n] = Leaf]
             colour == [t.colour EXCEPT ![n] = "red"]
             parent == [t.parent EXCEPT ![n] = Nil]
  <2>1. key \in [Nodes -> Keys \cup {0}] /\ \A z \in Nodes : key[z] = IF z = n THEN k ELSE t.key[z]
    BY DEF Trees
  <2>2. data \in [Nodes -> Data \cup {Nil}] /\ \A z \in Nodes : data[z] = IF z = n THEN d ELSE t.data[z]
    BY DEF Trees
  <2>3. /\ colour \in [Nodes -> {"red", "black"}]
        /\ \A z \in Nodes : colour[z] = IF z = n THEN "red" ELSE t.colour[z]
    BY DEF Trees
  <2>4. /\ parent \in [Nodes -> Nodes \cup {Nil}]
        /\ \A z \in Nodes : parent[z] = IF z = n THEN Nil ELSE t.parent[z]
    BY DEF Trees
  <2>5. /\ child \in [Nodes -> [Sides -> Nodes \cup {Nil}]]
        /\ \A z \in Nodes : child[z] = IF z = n THEN Leaf ELSE t.child[z]
    BY <1>1 DEF Trees
  <2>6. t.count + 1 \in Nat
    BY DEF Trees
  <2>7. u = [t EXCEPT !.count = t.count + 1, !.key = key, !.data = data, !.child = child,
                      !.colour = colour, !.parent = parent]
    BY DEF Filling, Trees
  <2> HIDE DEF u, key, data, child, colour, parent
  <2>8. Filled(u, t, t.count + 1, key, data, child, colour, parent)
    BY <2>1, <2>2, <2>3, <2>4, <2>5, <2>6, <2>7, NewFields
  <2> QED
    BY <2>1, <2>2, <2>3, <2>4, <2>5, <2>8 DEF Filled
<1> HIDE DEF u
<1>3. /\ u.key[n] = k /\ u.data[n] = d /\ u.parent[n] = Nil /\ \A e \in Sides : u.child[n][e] = Nil
  BY <1>1, <1>2
<1> QED
  BY <1>2, <1>3 DEF u

LEMMA LeafHung ==
  ASSUME NEW t \in Trees, NEW n \in Nodes, NEW p \in Nodes, n # p, NEW s \in Sides,
         NEW k \in Keys, NEW d \in Data \cup {Nil}
  PROVE  Hung([Filling(t, n, k, d) EXCEPT !.parent[n] = p, !.child[p][s] = n], t, n, k, d, p, s)
<1> DEFINE u == Filling(t, n, k, d)
           v == [u EXCEPT !.parent[n] = p, !.child[p][s] = n]
<1>1. Leaf \in [Sides -> Nodes \cup {Nil}] /\ \A e \in Sides : Leaf[e] = Nil
  BY DEF Leaf
<1>2. /\ u \in Trees /\ u.root = t.root /\ u.count = t.count + 1
      /\ \A z \in Nodes : /\ u.key[z] = IF z = n THEN k ELSE t.key[z]
                          /\ u.data[z] = IF z = n THEN d ELSE t.data[z]
                          /\ u.colour[z] = IF z = n THEN "red" ELSE t.colour[z]
                          /\ u.parent[z] = IF z = n THEN Nil ELSE t.parent[z]
                          /\ u.child[z] = IF z = n THEN Leaf ELSE t.child[z]
  BY FilledIs
<1> HIDE DEF u
<1>3. /\ v \in Trees /\ v.root = u.root /\ v.count = u.count /\ v.key = u.key
      /\ v.data = u.data /\ v.colour = u.colour
      /\ \A z \in Nodes : v.parent[z] = IF z = n THEN p ELSE u.parent[z]
      /\ \A z \in Nodes, e \in Sides :
           v.child[z][e] = IF z = p /\ e = s THEN n ELSE u.child[z][e]
  BY <1>2 DEF Trees
<1> HIDE DEF v
<1>4. \A z \in Nodes, e \in Sides : v.child[z][e] =
        IF z = p /\ e = s THEN n ELSE IF z = n THEN Nil ELSE t.child[z][e]
  BY <1>1, <1>2, <1>3
<1>5. Hung(v, t, n, k, d, p, s)
  BY <1>2, <1>3, <1>4 DEF Hung
<1> QED
  BY <1>5 DEF v, u

-----------------------------------------------------------------------------
\* Trees that look alike from the root down.

Alike(u, t, M) ==
  /\ u.root = t.root
  /\ \A n \in M : /\ u.key[n] = t.key[n] /\ u.data[n] = t.data[n] /\ u.child[n] = t.child[n]
                  /\ u.parent[n] = t.parent[n] /\ u.colour[n] = t.colour[n]

LEMMA AlikeShaped ==
  ASSUME NEW t, NEW M, Shaped(t, M), NEW u \in Trees, Alike(u, t, M)
  PROVE  /\ Shaped(u, M) /\ Members(u) = M
         /\ \A v, K : Ordered(t, M, v, K) => Ordered(u, M, v, K)
         /\ \A v, K : Strict(t, M, v, K) => Strict(u, M, v, K)
<1>0. /\ t \in Trees /\ Linked(t, M) /\ M \subseteq Nodes /\ Nil \notin Nodes
      /\ (t.root # Nil => t.root \in M)
  BY TreeAssumption DEF Shaped, Linked
<1>1. PICK h : Down(t, M, h)
  BY DEF Shaped
<1>2. Linked(u, M)
  <2>1. M \subseteq Nodes /\ u.root \in M \cup {Nil} /\ (u.root = Nil => M = {})
        /\ (u.root # Nil => u.parent[u.root] = Nil)
    BY <1>0 DEF Linked, Alike
  <2>2. \A n \in M, s \in Sides :
          u.child[n][s] # Nil => u.child[n][s] \in M /\ u.parent[u.child[n][s]] = n
    BY <1>0 DEF Linked, Alike
  <2>3. \A n \in M : u.child[n]["lh"] = u.child[n]["rh"] => u.child[n]["lh"] = Nil
    BY <1>0 DEF Linked, Alike
  <2>4. \A n \in M \ {u.root} : u.parent[n] \in M /\ \E s \in Sides : u.child[u.parent[n]][s] = n
    BY <1>0 DEF Linked, Alike
  <2> QED
    BY <2>1, <2>2, <2>3, <2>4 DEF Linked
<1>3. Down(u, M, h)
  BY <1>1 DEF Down, Alike
<1>4. \A v, K : Ordered(t, M, v, K) => Ordered(u, M, v, K)
  BY DEF Ordered, Alike
<1>5. \A v, K : Strict(t, M, v, K) => Strict(u, M, v, K)
  BY DEF Strict, Alike
<1>6. Members(u) = M
  BY <1>2, <1>3, MembersAre
<1> QED
  BY <1>2, <1>3, <1>4, <1>5, <1>6 DEF Shaped

LEMMA ShapedMembers ==
  ASSUME NEW t, NEW M, Shaped(t, M)
  PROVE  Members(t) = M
BY MembersAre DEF Shaped

LEMMA CleanIs ==
  ASSUME NEW t, NEW M, Shaped(t, M)
  PROVE  Clean(t) \in Trees /\ Alike(Clean(t), t, M) /\ Clean(t).count = t.count
<1> DEFINE Kept(f, x) == [n \in Nodes |-> IF n \in M THEN f[n] ELSE x]
           key == Kept(t.key, 0)
           data == Kept(t.data, Nil)
           child == Kept(t.child, Leaf)
           parent == Kept(t.parent, Nil)
           colour == Kept(t.colour, "red")
           u == Clean(t)
<1>0. t \in Trees /\ M \subseteq Nodes
  BY DEF Shaped, Linked
<1>1. u = [t EXCEPT !.key = key, !.data = data, !.child = child, !.parent = parent, !.colour = colour]
  BY <1>0, ShapedMembers DEF Clean, Trees
<1>2. key \in [Nodes -> Keys \cup {0}] /\ data \in [Nodes -> Data \cup {Nil}]
  BY <1>0 DEF Trees
<1>3. child \in [Nodes -> [Sides -> Nodes \cup {Nil}]]
  BY <1>0 DEF Trees, Leaf
<1>4. parent \in [Nodes -> Nodes \cup {Nil}] /\ colour \in [Nodes -> {"red", "black"}]
  BY <1>0 DEF Trees
<1>5. \A n \in M : /\ key[n] = t.key[n] /\ data[n] = t.data[n] /\ child[n] = t.child[n]
                   /\ parent[n] = t.parent[n] /\ colour[n] = t.colour[n]
  BY <1>0
<1> HIDE DEF key, data, child, parent, colour, u
<1>6. u \in Trees /\ u.root = t.root /\ u.count = t.count /\ u.key = key /\ u.data = data
      /\ u.child = child /\ u.parent = parent /\ u.colour = colour
  BY <1>0, <1>1, <1>2, <1>3, <1>4 DEF Trees
<1> QED
  BY <1>5, <1>6 DEF Alike, u

-----------------------------------------------------------------------------
\* The way to one side from a node of the tree.

SideWay(t, s) == [m \in Nodes |-> t.child[m][s]]

LEMMA OutermostIs ==
  ASSUME NEW t, NEW M, Shaped(t, M), NEW n \in M, NEW s \in Sides
  PROVE  LET C == Way(SideWay(t, s), n)
             r == Outermost(t, n, s)
         IN  /\ C \subseteq M /\ n \in C /\ r \in C /\ t.child[r][s] = Nil
             /\ t.parent[n] \notin C
             /\ \A m \in C \ {n} : t.parent[m] \in C /\ t.child[t.parent[m]][s] = m
             /\ \A m \in C : m \in Way(t.parent, r)
             /\ \A m \in C \ {r} : t.child[m][s] \in C /\ BelowOn(t, r, m, s)
<1>0. t \in Trees /\ Linked(t, M) /\ M \subseteq Nodes /\ Nil \notin Nodes /\ n \in Nodes
  BY TreeAssumption DEF Shaped, Linked
<1>1. PICK h : Down(t, M, h)
  BY DEF Shaped
<1>1a. \A m \in M : h[m] \in Nat
  BY <1>0, <1>1 DEF Down
<1> DEFINE f == SideWay(t, s)
           C == Way(f, n)
           r == Outermost(t, n, s)
<1>2. f \in Onwards /\ \A m \in M : f[m] = t.child[m][s]
  BY <1>0 DEF Trees, Onwards, SideWay
<1>3. r = LastOf(f, n)
  BY DEF Outermost, SideWay
<1> HIDE DEF f, r
<1>4. \A m \in M : f[m] # Nil => f[m] \in M /\ h[f[m]] < h[m] /\ t.parent[f[m]] = m
  BY <1>0, <1>1, <1>2 DEF Linked, Down
<1> DEFINE S == {m \in M : h[m] <= h[n]}
<1>5. C \subseteq S /\ n \in C /\ \A m \in C : f[m] \in C \cup {Nil}
  <2>1. Leads(f, S)
    <3>1. ASSUME NEW m \in S, f[m] # Nil PROVE f[m] \in S
      <4>1. h[f[m]] < h[m] /\ h[m] <= h[n] /\ f[m] \in M
        BY <1>4, <3>1
      <4> QED
        BY <1>1a, <4>1
    <3> QED
      BY <1>0, <3>1 DEF Leads
  <2>2. n \in S
    BY <1>1a
  <2>3. Leads(f, C)
    BY <1>0, <1>2, WayFacts
  <2> HIDE DEF S
  <2> QED
    BY <1>0, <1>2, <2>1, <2>2, <2>3, WayFacts DEF Leads
<1>6. r \in C /\ f[r] = Nil
  <2>1. \A m \in C : f[m] # Nil => h[f[m]] < h[m]
    BY <1>4, <1>5
  <2>2. h \in [Nodes -> Nat]
    BY <1>1 DEF Down
  <2> QED
    BY <1>0, <1>2, <1>3, <2>1, <2>2, Ends
<1>7. t.parent[n] \notin C
  <2>1. SUFFICES ASSUME t.parent[n] \in C PROVE FALSE
    OBVIOUS
  <2>2. t.parent[n] \in M /\ h[t.parent[n]] <= h[n] /\ n # Nil /\ t.parent[n] # Nil
    BY <1>0, <1>5, <2>1
  <2>3. n # t.root
    BY <1>0, <2>2 DEF Linked
  <2>4. h[n] < h[t.parent[n]]
    BY <1>0, <1>1, <2>2, <2>3 DEF Linked, Down
  <2> QED
    BY <1>1a, <2>2, <2>4
<1>8. \A m \in C \ {n} : t.parent[m] \in C /\ t.child[t.parent[m]][s] = m
  <2> TAKE m \in C \ {n}
  <2>1. PICK x \in C : f[x] = m
    BY <1>0, <1>2, WayBack
  <2>2. x \in M /\ m # Nil
    BY <1>0, <1>5, <2>1
  <2>3. t.parent[m] = x
    BY <1>4, <2>1, <2>2
  <2> QED
    BY <1>2, <2>1, <2>2, <2>3
<1> DEFINE U == Way(t.parent, r)
<1>9. \A m \in C : m \in U
  <2> DEFINE B == {m \in C : m \notin U}
  <2>1. SUFFICES ASSUME B # {} PROVE FALSE
    OBVIOUS
  <2>2. \A m \in B : h[m] \in Nat
    BY <1>1a, <1>5
  <2>3. PICK m \in B : \A x \in B : h[m] <= h[x]
    <3> HIDE DEF B
    <3> QED
      BY <2>1, <2>2, LeastBy
  <2>4. r \in M /\ r \in U /\ \A x \in U : x # t.root => t.parent[x] \in U
    <3>1. r \in M
      BY <1>5, <1>6
    <3> QED
      BY <3>1, UpFacts
  <2>5. f[m] # Nil
    <3>1. f[m] = Nil => m = r
      BY <1>0, <1>2, <1>6, <2>3, OneEnd
    <3> QED
      BY <2>3, <2>4, <3>1
  <2>6. f[m] \in C /\ h[f[m]] < h[m] /\ t.parent[f[m]] = m /\ m \in M /\ f[m] \in M
    BY <1>4, <1>5, <2>3, <2>5
  <2>7. f[m] \in U
    <3>1. h[f[m]] \in Nat /\ h[m] \in Nat
      BY <1>1a, <2>6
    <3>2. ~(h[m] <= h[f[m]])
      BY <2>6, <3>1
    <3> QED
      BY <2>3, <2>6, <3>2
  <2>8. f[m] # t.root
    BY <1>0, <2>6 DEF Linked
  <2> QED
    BY <2>3, <2>4, <2>6, <2>7, <2>8
<1>10. \A m \in C \ {r} : t.child[m][s] \in C /\ BelowOn(t, r, m, s)
  <2> TAKE m \in C \ {r}
  <2>1. f[m] # Nil
    BY <1>0, <1>2, <1>6, OneEnd
  <2>2. t.child[m][s] = f[m] /\ f[m] \in C
    BY <1>2, <1>5, <2>1
  <2> QED
    BY <1>9, <2>1, <2>2 DEF BelowOn
<1> QED
  BY <1>2, <1>5, <1>6, <1>7, <1>8, <1>9, <1>10 DEF r, f

-----------------------------------------------------------------------------
\* A node with at most one child c is cut out below p.

Cut(u, t, M, n, p, c) ==
  /\ SameNodes(u, t) /\ u.root = IF p = Nil THEN c ELSE t.root
  /\ \A z \in M \ {n}, d \in Sides :
       u.child[z][d] = IF z = p /\ t.child[p][d] = n THEN c ELSE t.child[z][d]
  /\ \A z \in M \ {n} : u.parent[z] = IF z = c THEN p ELSE t.parent[z]

Apart(u, t, n) ==
  /\ SameNodes(u, t) /\ u.root = t.root
  /\ \A z \in Nodes \ {n} : u.parent[z] = t.parent[z] /\ \A d \in Sides : u.child[z][d] = t.child[z][d]

LEMMA NewApart ==
  ASSUME NEW t \in Trees, NEW n \in Nodes
  PROVE  Apart([t EXCEPT !.child[n] = Leaf, !.parent[n] = Nil], t, n)
<1>1. Leaf \in [Sides -> Nodes \cup {Nil}]
  BY DEF Leaf
<1> QED
  BY <1>1 DEF Trees, SameNodes, Apart

LEMMA NoRoot ==
  ASSUME NEW t \in Trees
  PROVE  LET u == [t EXCEPT !.root = Nil]
         IN  SameNodes(u, t) /\ u.root = Nil /\ u.child = t.child /\ u.parent = t.parent
BY DEF Trees, SameNodes

LEMMA NewGap ==
  ASSUME NEW t \in Trees, NEW p \in Nodes, NEW s \in Sides, NEW n \in Nodes
  PROVE  Relinked([t EXCEPT !.child[p][s] = Nil, !.parent[n] = Nil], t, p, s, Nil, n, Nil)
BY DEF Trees, SameNodes, Relinked

LEMMA UnlinkedIs ==
  ASSUME NEW t, NEW M, Shaped(t, M), NEW n \in M, NEW s \in Sides, t.child[n][s] = Nil
  PROVE  Cut(Unlinked(t, n), t, M, n, t.parent[n], t.child[n][Other(s)])
<1> DEFINE p == t.parent[n]
           c == t.child[n][Other(s)]
           only == IF t.child[n]["lh"] # Nil THEN t.child[n]["lh"] ELSE t.child[n]["rh"]
           side == IF t.child[p]["lh"] = n THEN "lh" ELSE "rh"
           u == Unlinked(t, n)
<1>0. /\ t \in Trees /\ Linked(t, M) /\ M \subseteq Nodes /\ Nil \notin Nodes
      /\ n \in Nodes /\ n # Nil
  BY TreeAssumption DEF Shaped, Linked
<1>1. only = c
  BY DEF Sides, Other
<1>2. p # Nil => p \in M /\ p \in Nodes /\ \A d \in Sides : d = side <=> t.child[p][d] = n
  <2>1. SUFFICES ASSUME p # Nil
                 PROVE  p \in M /\ p \in Nodes /\ \A d \in Sides : d = side <=> t.child[p][d] = n
    OBVIOUS
  <2>2. n # t.root
    BY <1>0, <2>1 DEF Linked
  <2>3. p \in M /\ \E d \in Sides : t.child[p][d] = n
    BY <1>0, <2>2 DEF Linked
  <2>4. ~(t.child[p]["lh"] = n /\ t.child[p]["rh"] = n)
    BY <1>0, <2>3 DEF Linked
  <2> QED
    BY <1>0, <2>3, <2>4 DEF Sides
<1>3. side \in Sides /\ c \in Nodes \cup {Nil} /\ p \in Nodes \cup {Nil}
  BY <1>0, SidesFacts DEF Trees
<1>3a. c # n
  <2>1. PICK h : Down(t, M, h)
    BY DEF Shaped
  <2>2. c # Nil => h[c] < h[n] /\ h[n] \in Nat
    BY <1>0, <2>1, SidesFacts DEF Down
  <2> QED
    BY <1>0, <2>2
<1>4. u = IF only # Nil THEN [Replaced(t, n, only) EXCEPT !.child[n] = Leaf, !.parent[n] = Nil]
          ELSE IF p = Nil THEN [t EXCEPT !.root = Nil]
          ELSE [t EXCEPT !.child[p][side] = Nil, !.parent[n] = Nil]
  BY DEF Unlinked
<1> HIDE DEF u, only, side, c
<1>5. CASE c = Nil /\ p = Nil
  <2>1. SameNodes(u, t) /\ u.root = Nil /\ u.child = t.child /\ u.parent = t.parent
    BY <1>0, <1>1, <1>4, <1>5, NoRoot
  <2> QED
    BY <1>0, <1>5, <2>1 DEF Cut, u, c
<1>6. CASE c = Nil /\ p # Nil
  <2>1. u = [t EXCEPT !.child[p][side] = Nil, !.parent[n] = Nil]
    BY <1>1, <1>4, <1>6
  <2>1a. p \in Nodes
    BY <1>2, <1>6
  <2> HIDE DEF p
  <2>1b. Relinked([t EXCEPT !.child[p][side] = Nil, !.parent[n] = Nil], t, p, side, Nil, n, Nil)
    BY <1>0, <1>3, <2>1a, NewGap
  <2>2. Relinked(u, t, p, side, Nil, n, Nil)
    BY <2>1, <2>1b
  <2>3. /\ SameNodes(u, t) /\ u.root = t.root
    BY <2>2 DEF Relinked
  <2>4. \A z \in M \ {n}, d \in Sides :
          u.child[z][d] = IF z = p /\ t.child[p][d] = n THEN c ELSE t.child[z][d]
    BY <1>0, <1>2, <1>6, <2>2 DEF Relinked
  <2>5. \A z \in M \ {n} : u.parent[z] = IF z = c THEN p ELSE t.parent[z]
    BY <1>0, <1>6, <2>2 DEF Relinked
  <2> QED
    BY <1>6, <2>3, <2>4, <2>5 DEF Cut, u, c, p
<1>7. CASE c # Nil
  <2> DEFINE w == Replaced(t, n, c)
  <2>1. u = [w EXCEPT !.child[n] = Leaf, !.parent[n] = Nil]
    BY <1>1, <1>4, <1>7
  <2>2. IF p = Nil THEN Parented(w, t, c, c, Nil) ELSE Relinked(w, t, p, side, c, c, p)
    <3>1. CASE p = Nil
      <4>1. w = [t EXCEPT !.root = c, !.parent[c] = Nil]
        BY <3>1 DEF Replaced
      <4> HIDE DEF w
      <4> QED
        BY <1>0, <1>3, <1>7, <3>1, <4>1, NewRoot
    <3>2. CASE p # Nil
      <4>1. w = [t EXCEPT !.child[p][side] = c, !.parent[c] = p]
        BY <3>2 DEF Replaced, side
      <4> HIDE DEF w, p
      <4> QED
        BY <1>0, <1>2, <1>3, <1>7, <3>2, <4>1, NewLink
    <3> QED
      BY <3>1, <3>2
  <2> HIDE DEF w, p
  <2>3. Apart(u, w, n)
    <3>1. w \in Trees
      BY <2>2 DEF Parented, Relinked, SameNodes
    <3> QED
      BY <1>0, <2>1, <3>1, NewApart
  <2>4. SameNodes(u, t) /\ u.root = IF p = Nil THEN c ELSE t.root
    BY <2>2, <2>3 DEF Parented, Relinked, Apart, SameNodes
  <2>5. \A z \in M \ {n}, d \in Sides :
          u.child[z][d] = IF z = p /\ t.child[p][d] = n THEN c ELSE t.child[z][d]
    <3>1. CASE p = Nil
      BY <1>0, <2>2, <2>3, <3>1 DEF Parented, Apart
    <3>2. CASE p # Nil
      BY <1>0, <1>2, <2>2, <2>3, <3>2 DEF Relinked, Apart
    <3> QED
      BY <3>1, <3>2
  <2>6. \A z \in M \ {n} : u.parent[z] = IF z = c THEN p ELSE t.parent[z]
    <3>1. CASE p = Nil
      BY <1>0, <2>2, <2>3, <3>1 DEF Parented, Apart
    <3>2. CASE p # Nil
      BY <1>0, <2>2, <2>3, <3>2 DEF Relinked, Apart
    <3> QED
      BY <3>1, <3>2
  <2> QED
    BY <2>4, <2>5, <2>6 DEF Cut, u, c, p
<1> QED
  BY <1>5, <1>6, <1>7

LEMMA CutShaped ==
  ASSUME NEW t, NEW M, Shaped(t, M), NEW n \in M, NEW s \in Sides, t.child[n][s] = Nil,
         NEW p, p = t.parent[n], NEW c, c = t.child[n][Other(s)], NEW u, Cut(u, t, M, n, p, c)
  PROVE  Shaped(u, M \ {n})
<1>0. /\ t \in Trees /\ Linked(t, M) /\ M \subseteq Nodes /\ Nil \notin Nodes
      /\ n \in Nodes /\ n # Nil /\ Nil \notin M
  BY TreeAssumption DEF Shaped, Linked
<1>1. PICK h : Down(t, M, h)
  BY DEF Shaped
<1>2. \A m \in M : h[m] \in Nat
  BY <1>0, <1>1 DEF Down
<1> DEFINE L == M \ {n}
<1>3. c # Nil => c \in L /\ t.parent[c] = n /\ h[c] < h[n]
  <2>1. c # Nil => c \in M /\ t.parent[c] = n /\ h[c] < h[n]
    BY <1>0, <1>1, SidesFacts DEF Linked, Down
  <2> QED
    BY <1>0, <1>2, <2>1
<1>4. p # Nil => p \in L /\ n # t.root /\ h[n] < h[p] /\ \E d \in Sides : t.child[p][d] = n
  <2>1. p # Nil => n # t.root
    BY <1>0 DEF Linked
  <2>2. p # Nil => p \in M /\ \E d \in Sides : t.child[p][d] = n
    BY <1>0, <2>1 DEF Linked
  <2>3. p # Nil => h[n] < h[p]
    BY <1>0, <1>1, <2>2 DEF Down
  <2> QED
    BY <1>2, <2>1, <2>2, <2>3
<1>5. p = Nil => n = t.root
  BY <1>0 DEF Linked
<1>6. \A z \in M, d \in Sides : t.child[z][d] = n => z = p
  BY <1>0 DEF Linked
<1>7. \A z \in M, d \in Sides : t.child[z][d] = c /\ c # Nil => z = n
  BY <1>0, <1>3 DEF Linked
<1>8. u.root \in L \cup {Nil} /\ (u.root # Nil => u.parent[u.root] = Nil)
  <2>1. CASE p = Nil
    BY <1>3, <2>1 DEF Cut
  <2>2. CASE p # Nil
    <3>1. u.root = t.root /\ t.root # n /\ t.root \in M /\ t.parent[t.root] = Nil
      BY <1>0, <1>4, <2>2 DEF Cut, Linked
    <3>2. t.root # c
      BY <1>0, <1>3, <3>1
    <3> QED
      BY <3>1, <3>2 DEF Cut
  <2> QED
    BY <2>1, <2>2
<1>9. ASSUME NEW z \in L, NEW d \in Sides, u.child[z][d] # Nil
      PROVE  u.child[z][d] \in L /\ u.parent[u.child[z][d]] = z /\ h[u.child[z][d]] < h[z]
  <2>1. CASE z = p /\ t.child[p][d] = n
    <3>1. u.child[z][d] = c
      BY <2>1 DEF Cut
    <3>2. h[c] < h[p]
      BY <1>0, <1>2, <1>3, <1>4, <1>9, <2>1, <3>1
    <3> QED
      BY <1>3, <1>9, <2>1, <3>1, <3>2 DEF Cut
  <2>2. CASE ~(z = p /\ t.child[p][d] = n)
    <3>1. u.child[z][d] = t.child[z][d]
      BY <2>2 DEF Cut
    <3>2. t.child[z][d] \in M /\ t.parent[t.child[z][d]] = z /\ h[t.child[z][d]] < h[z]
      BY <1>0, <1>1, <1>9, <3>1 DEF Linked, Down
    <3>3. t.child[z][d] # n /\ t.child[z][d] # c
      BY <1>6, <1>7, <1>9, <2>2, <3>1
    <3> QED
      BY <3>1, <3>2, <3>3 DEF Cut
  <2> QED
    BY <2>1, <2>2
<1>10. ASSUME NEW z \in L, u.child[z]["lh"] = u.child[z]["rh"] PROVE u.child[z]["lh"] = Nil
  <2>1. "lh" \in Sides /\ "rh" \in Sides
    BY SidesFacts
  <2>2. t.child[z]["lh"] = t.child[z]["rh"] => t.child[z]["lh"] = Nil
    BY <1>0 DEF Linked
  <2>3. CASE z # p
    BY <1>10, <2>1, <2>2, <2>3 DEF Cut
  <2>4. CASE z = p
    <3>1. \A d \in Sides : c # Nil => t.child[z][d] # c
      BY <1>7
    <3>2. t.child[z]["lh"] # n \/ t.child[z]["rh"] # n
      BY <1>0, <2>2
    <3> QED
      BY <1>10, <2>1, <2>2, <2>4, <3>1, <3>2 DEF Cut
  <2> QED
    BY <2>3, <2>4
<1>11. ASSUME NEW z \in L \ {u.root}
       PROVE  u.parent[z] \in L /\ \E d \in Sides : u.child[u.parent[z]][d] = z
  <2>1. CASE z = c
    <3>1. p # Nil
      BY <1>11, <2>1 DEF Cut
    <3>2. PICK d \in Sides : t.child[p][d] = n
      BY <1>4, <3>1
    <3> QED
      BY <1>4, <2>1, <3>1, <3>2 DEF Cut
  <2>2. CASE z # c
    <3>1. z # t.root
      BY <1>5, <1>11 DEF Cut
    <3>2. PICK d \in Sides : t.parent[z] \in M /\ t.child[t.parent[z]][d] = z
      BY <1>0, <3>1 DEF Linked
    <3>3. t.parent[z] # n
      <4>1. \A e \in Sides : t.child[n][e] = Nil \/ t.child[n][e] = c
        BY SidesFacts
      <4> QED
        BY <1>0, <2>2, <3>2, <4>1
    <3>4. u.parent[z] = t.parent[z] /\ u.child[t.parent[z]][d] = z
      BY <2>2, <3>2, <3>3 DEF Cut
    <3> QED
      BY <3>2, <3>3, <3>4
  <2> QED
    BY <2>1, <2>2
<1>12. u.root = Nil => L = {}
  <2>1. SUFFICES ASSUME u.root = Nil, L # {} PROVE FALSE
    OBVIOUS
  <2>2. IsFiniteSet(L) /\ \A m \in L : h[m] \in Nat
    BY <1>0, <1>2, TreeAssumption, FS_Subset
  <2>3. PICK z \in L : \A m \in L : h[m] <= h[z]
    <3> HIDE DEF L
    <3> QED
      BY <2>1, <2>2, GreatestBy
  <2>4. PICK d \in Sides : u.parent[z] \in L /\ u.child[u.parent[z]][d] = z
    BY <1>0, <1>11, <2>1
  <2>5. h[z] < h[u.parent[z]] /\ h[u.parent[z]] <= h[z]
    BY <1>0, <1>9, <2>3, <2>4
  <2> QED
    BY <2>2, <2>4, <2>5
<1>13. Linked(u, L)
  BY <1>0, <1>8, <1>9, <1>10, <1>11, <1>12 DEF Linked
<1>14. Down(u, L, h)
  BY <1>1, <1>9 DEF Down
<1> QED
  BY <1>13, <1>14 DEF Shaped, Cut, SameNodes

LEMMA CutOrdered ==
  ASSUME NEW t, NEW M, Shaped(t, M), NEW n \in M, NEW s \in Sides, t.child[n][s] = Nil,
         NEW p, p = t.parent[n], NEW c, c = t.child[n][Other(s)], NEW u, Cut(u, t, M, n, p, c),
         NEW v, NEW K, Ordered(t, M, v, K)
  PROVE  /\ Ordered(u, M \ {n}, v, K)
         /\ Strict(t, M, v, K) => Strict(u, M \ {n}, v, K)
<1>0. t \in Trees /\ Linked(t, M) /\ M \subseteq Nodes /\ Nil \notin Nodes /\ n # Nil
  BY TreeAssumption DEF Shaped, Linked
<1>1. c # Nil => K[c] \subseteq K[n]
  BY SidesFacts DEF Ordered
<1>2. ASSUME NEW z \in M \ {n}, NEW d \in Sides, u.child[z][d] # Nil
      PROVE  t.child[z][d] # Nil /\ K[u.child[z][d]] \subseteq K[t.child[z][d]]
  BY <1>0, <1>1, <1>2 DEF Cut
<1>3. Ordered(u, M \ {n}, v, K)
  <2>1. ASSUME NEW z \in M \ {n}, NEW d \in Sides, u.child[z][d] # Nil
        PROVE  K[u.child[z][d]] \subseteq K[z] /\ \A k \in K[u.child[z][d]] : Beside(d, k, v[z])
    <3>1. t.child[z][d] # Nil /\ K[u.child[z][d]] \subseteq K[t.child[z][d]]
      BY <1>2, <2>1
    <3>2. K[t.child[z][d]] \subseteq K[z] /\ \A k \in K[t.child[z][d]] : Beside(d, k, v[z])
      BY <3>1 DEF Ordered
    <3> QED
      BY <3>1, <3>2
  <2> QED
    BY <2>1 DEF Ordered
<1>4. Strict(t, M, v, K) => Strict(u, M \ {n}, v, K)
  BY <1>2, SidesFacts DEF Strict
<1> QED
  BY <1>3, <1>4

\* The least node on the right of n is cut out, and n gets its value.
LEMMA SuccessorIs ==
  ASSUME NEW t, NEW M, Shaped(t, M), NEW n \in M, NEW R, R = t.child[n]["rh"], R # Nil,
         NEW r, r = Successor(t, n), NEW C, C = Way(SideWay(t, "lh"), R)
  PROVE  /\ r \in C /\ R \in C /\ C \subseteq M /\ n \notin C /\ t.child[r]["lh"] = Nil
         /\ \A m \in C \ {r} : t.child[m]["lh"] \in C /\ BelowOn(t, r, m, "lh")
         /\ R \in Way(t.parent, r)
<1>1. R \in M /\ t.parent[R] = n /\ "lh" \in Sides
  BY SidesFacts DEF Shaped, Linked
<1>2. r = Outermost(t, R, "lh")
  BY DEF Successor
<1> QED
  BY <1>1, <1>2, OutermostIs

Carried(w, v, M, n, r) == w[n] = v[r] /\ \A m \in M \ {n} : w[m] = v[m]

LEMMA MovedOrdered ==
  ASSUME NEW t, NEW M, Shaped(t, M), NEW n \in M, NEW R, R = t.child[n]["rh"], R # Nil,
         NEW r, r = Successor(t, n), NEW c, c = t.child[r]["rh"],
         NEW u, Cut(u, t, M, r, t.parent[r], c),
         NEW v, NEW strictly, InOrder(t, M, v, strictly), NEW w, Carried(w, v, M, n, r)
  PROVE  InOrder(u, M \ {r}, w, strictly)
<1>k. PICK K : Ordered(t, M, v, K) /\ (strictly => Strict(t, M, v, K))
  BY DEF InOrder
<1> Ordered(t, M, v, K) /\ w[n] = v[r] /\ \A m \in M \ {n} : w[m] = v[m]
  BY <1>k DEF Carried
<1> DEFINE C == Way(SideWay(t, "lh"), R)
           L == [m \in Nodes |-> IF m \in C \ {r} THEN {k \in K[m] : v[r] <= k} ELSE K[m]]
<1>0. /\ t \in Trees /\ Linked(t, M) /\ M \subseteq Nodes /\ Nil \notin Nodes /\ Nil \notin M
      /\ "lh" \in Sides /\ "rh" \in Sides
  BY TreeAssumption, SidesFacts DEF Shaped, Linked
<1>1. /\ r \in C /\ R \in C /\ C \subseteq M /\ n \notin C
      /\ \A m \in C \ {r} : t.child[m]["lh"] \in C /\ BelowOn(t, r, m, "lh")
      /\ R \in Way(t.parent, r)
  BY SuccessorIs
<1> HIDE DEF C
<1>2. /\ \A m \in Nodes : K[m] \in SUBSET Int
      /\ \A m \in M : v[m] \in K[m] /\ v[m] \in Int
  BY <1>0 DEF Ordered
<1>3. \A z \in M, d \in Sides : t.child[z][d] # Nil =>
        K[t.child[z][d]] \subseteq K[z] /\ \A k \in K[t.child[z][d]] : Beside(d, k, v[z])
  BY DEF Ordered
<1>4. /\ \A m \in Way(t.parent, r) : K[r] \subseteq K[m]
      /\ \A m \in C \ {r} : v[r] <= v[m]
  <2>1. r \in M
    BY <1>1
  <2>2. /\ \A m \in Way(t.parent, r) : K[r] \subseteq K[m]
        /\ \A a \in M, s \in Sides : BelowOn(t, r, a, s) => Beside(s, v[r], v[a])
    BY <2>1, UpOrdered
  <2> QED
    BY <1>0, <1>1, <2>2 DEF Beside
<1>5. \A m \in C : K[r] \subseteq K[m]
  <2>1. \A m \in C \ {r} : m \in Way(t.parent, r)
    <3> TAKE m \in C \ {r}
    <3> DEFINE x == t.child[m]["lh"]
    <3>1. x \in Way(t.parent, r) /\ x # Nil /\ t.parent[x] = m /\ x # t.root /\ r \in M
      BY <1>0, <1>1 DEF BelowOn, Linked
    <3> QED
      BY <3>1, UpFacts
  <2> QED
    BY <1>4, <2>1
<1>6. v[r] \in K[R] /\ K[R] \subseteq K[n] /\ v[n] <= v[r] /\ v[r] \in Int /\ v[n] \in Int
  <2>1. v[r] \in K[R]
    BY <1>1, <1>2, <1>5
  <2>2. K[R] \subseteq K[n] /\ \A k \in K[R] : Beside("rh", k, v[n])
    BY <1>0, <1>3
  <2> QED
    BY <1>1, <1>2, <2>1, <2>2 DEF Beside
<1>7. c # Nil => K[c] \subseteq K[r] /\ \A k \in K[c] : v[r] <= k
  BY <1>0, <1>1, <1>3 DEF Beside
<1>8. /\ L \in [Nodes -> SUBSET Int] /\ \A m \in M : L[m] \subseteq K[m]
      /\ \A m \in C \ {r} : L[m] = {k \in K[m] : v[r] <= k}
      /\ \A m \in M : m \notin C => L[m] = K[m]
  <2>1. \A m \in M : m \in Nodes
    BY <1>0
  <2>2. L \in [Nodes -> SUBSET Int]
    BY <1>2
  <2> QED
    BY <1>1, <2>1, <2>2
<1> HIDE DEF L
<1>9. \A z \in M \ {r} : w[z] \in L[z]
  <2> TAKE z \in M \ {r}
  <2>1. CASE z = n
    BY <1>1, <1>6, <1>8, <2>1
  <2>2. CASE z # n /\ z \in C
    BY <1>2, <1>4, <1>8, <2>2
  <2>3. CASE z # n /\ z \notin C
    BY <1>2, <1>8, <2>3
  <2> QED
    BY <2>1, <2>2, <2>3
<1>10. ASSUME NEW z \in M \ {r}, NEW d \in Sides, u.child[z][d] # Nil
       PROVE  LET e == u.child[z][d]
              IN  /\ e \in M /\ t.child[z][d] # Nil /\ K[e] \subseteq K[t.child[z][d]] /\ L[e] \subseteq K[e]
                  /\ t.child[z][d] = r => e = c /\ \A k \in L[e] : v[r] <= k
                  /\ t.child[z][d] # r => e = t.child[z][d]
  <2> DEFINE e == u.child[z][d]
  <2>1. CASE t.child[z][d] = r
    <3>1. z = t.parent[r]
      BY <1>0, <1>1, <2>1 DEF Linked
    <3>2. e = c
      BY <2>1, <3>1 DEF Cut
    <3>3. c \in M
      BY <1>0, <1>1, <1>10, <3>2 DEF Linked
    <3>4. L[e] \subseteq K[e] /\ K[e] \subseteq K[r] /\ \A k \in L[e] : v[r] <= k
      BY <1>7, <1>8, <1>10, <3>2, <3>3
    <3> HIDE DEF e
    <3> QED
      BY <1>0, <1>1, <2>1, <3>2, <3>3, <3>4 DEF e
  <2>2. CASE t.child[z][d] # r
    <3>1. e = t.child[z][d]
      BY <2>2 DEF Cut
    <3>2. e \in M
      BY <1>0, <1>10, <3>1 DEF Linked
    <3> HIDE DEF e
    <3> QED
      BY <1>8, <1>10, <2>2, <3>1, <3>2 DEF e
  <2> QED
    BY <2>1, <2>2
<1>11. ASSUME NEW z \in M \ {r}, NEW d \in Sides, u.child[z][d] # Nil
       PROVE  L[u.child[z][d]] \subseteq L[z] /\ \A k \in L[u.child[z][d]] : Beside(d, k, w[z])
  <2> DEFINE e == u.child[z][d]
             x == t.child[z][d]
  <2>1. /\ e \in M /\ x # Nil /\ K[e] \subseteq K[x] /\ L[e] \subseteq K[e]
        /\ x = r => e = c /\ \A k \in L[e] : v[r] <= k
        /\ x # r => e = x
    BY <1>10, <1>11
  <2>2. K[x] \subseteq K[z] /\ \A k \in K[x] : Beside(d, k, v[z])
    BY <1>3, <2>1
  <2>3. CASE z \in C
    <3>1. z # n /\ w[z] = v[z] /\ L[z] = {k \in K[z] : v[r] <= k} /\ v[r] <= v[z]
      BY <1>1, <1>4, <1>8, <2>3
    <3>2. \A k \in L[e] : v[r] <= k
      <4>1. CASE d = "lh"
        <5>1. x \in C
          BY <1>1, <2>3, <4>1
        <5> HIDE DEF e, x
        <5> QED
          BY <1>8, <2>1, <5>1
      <4>2. CASE d # "lh"
        <5>1. d = "rh"
          BY <4>2 DEF Sides
        <5>2. \A k \in L[e] : v[z] <= k /\ k \in Int
          <6>1. L[e] \subseteq K[x]
            BY <2>1
          <6>2. K[z] \subseteq Int
            BY <1>0, <1>2
          <6> HIDE DEF e, x
          <6> QED
            BY <2>2, <5>1, <6>1, <6>2 DEF Beside
        <5>3. v[z] \in Int /\ v[r] \in Int
          BY <1>2, <1>6
        <5> HIDE DEF e, x
        <5> QED
          BY <3>1, <5>2, <5>3
      <4> QED
        BY <4>1, <4>2
    <3> HIDE DEF e, x
    <3>3. L[e] \subseteq L[z] /\ \A k \in L[e] : Beside(d, k, w[z])
      BY <2>1, <2>2, <3>1, <3>2
    <3> QED
      BY <3>3 DEF e
  <2>4. CASE z = n
    <3>1. w[z] = v[r] /\ L[z] = K[z]
      BY <1>1, <1>8, <2>4
    <3>2. \A k \in L[e] : Beside(d, k, v[r])
      <4>1. CASE d = "lh"
        <5>1. \A k \in L[e] : k <= v[n] /\ k \in Int
          <6>1. L[e] \subseteq K[x]
            BY <2>1
          <6>2. K[z] \subseteq Int
            BY <1>0, <1>2
          <6> HIDE DEF e, x
          <6> QED
            BY <2>2, <2>4, <4>1, <6>1, <6>2 DEF Beside
        <5> HIDE DEF e, x
        <5> QED
          BY <1>6, <4>1, <5>1 DEF Beside
      <4>2. CASE d # "lh"
        <5>1. d = "rh" /\ x = R
          BY <2>4, <4>2 DEF Sides
        <5> HIDE DEF e, x
        <5>2. \A k \in L[e] : v[r] <= k
          BY <1>1, <1>8, <2>1, <5>1
        <5> QED
          BY <5>1, <5>2 DEF Beside
      <4> QED
        BY <4>1, <4>2
    <3> HIDE DEF e, x
    <3>3. L[e] \subseteq L[z]
      BY <2>1, <2>2, <3>1
    <3> QED
      BY <3>1, <3>2, <3>3 DEF e
  <2>5. CASE z \notin C /\ z # n
    <3>1. w[z] = v[z] /\ L[z] = K[z]
      BY <1>8, <2>5
    <3> HIDE DEF e, x
    <3>2. L[e] \subseteq L[z] /\ \A k \in L[e] : Beside(d, k, w[z])
      BY <2>1, <2>2, <3>1
    <3> QED
      BY <3>2 DEF e
  <2> QED
    BY <2>3, <2>4, <2>5
<1>12. Ordered(u, M \ {r}, w, L)
  BY <1>8, <1>9, <1>11 DEF Ordered
<1>13. ASSUME Strict(t, M, v, K), NEW z \in M \ {r}, u.child[z]["lh"] # Nil,
              NEW k \in L[u.child[z]["lh"]]
       PROVE  k < w[z]
  <2>1. t.child[z]["lh"] # Nil /\ k \in K[t.child[z]["lh"]]
    BY <1>0, <1>10, <1>13
  <2>2. k < v[z]
    BY <1>13, <2>1 DEF Strict
  <2>3. k \in Int /\ v[z] \in Int
    <3>1. K[t.child[z]["lh"]] \subseteq K[z] /\ K[z] \subseteq Int
      BY <1>0, <1>2, <1>3, <2>1
    <3> QED
      BY <1>2, <2>1, <3>1
  <2> QED
    BY <1>6, <2>2, <2>3
<1>14. Strict(t, M, v, K) => Strict(u, M \ {r}, w, L)
  BY <1>13 DEF Strict
<1> QED
  <2> HIDE DEF L
  <2> QED
    BY <1>k, <1>12, <1>14 DEF InOrder

-----------------------------------------------------------------------------
\* What is above what.

LEMMA UpAndUp ==
  ASSUME NEW t, NEW M, Shaped(t, M)
  PROVE  /\ \A a, b, c \in M : a \in Way(t.parent, b) /\ b \in Way(t.parent, c) => a \in Way(t.parent, c)
         /\ \A a, b \in M : a \in Way(t.parent, b) /\ a # b =>
              b # t.root /\ t.parent[b] \in M /\ a \in Way(t.parent, t.parent[b])
         /\ \A a \in M : t.root \in Way(t.parent, a)
         /\ \A a, b \in M : a \in Way(t.parent, b) /\ b \in Way(t.parent, a) => a = b
         /\ \A n, a \in M, s \in Sides : BelowOn(t, n, a, s) =>
              n # a /\ a \in Way(t.parent, n) /\ t.child[a][s] \in M
<1>0. /\ t \in Trees /\ Linked(t, M) /\ M \subseteq Nodes /\ Nil \notin Nodes /\ Nil \notin M
      /\ IsFiniteSet(M)
  BY TreeAssumption, FS_Subset DEF Shaped, Linked
<1>1. PICK h : Down(t, M, h)
  BY DEF Shaped
<1>2. \A m \in M : h[m] \in Nat
  BY <1>0, <1>1 DEF Down
<1>3. \A m \in M : m # t.root => t.parent[m] \in M /\ h[m] < h[t.parent[m]]
  <2> TAKE m \in M
  <2> HAVE m # t.root
  <2>1. t.parent[m] \in M /\ \E s \in Sides : t.child[t.parent[m]][s] = m
    BY <1>0 DEF Linked
  <2> QED
    BY <1>0, <1>1, <2>1 DEF Down
<1>4. ASSUME NEW n \in M PROVE \A m \in Way(t.parent, n) : h[n] <= h[m] /\ m \in M
  <2> DEFINE S == {m \in M : h[n] <= h[m]}
  <2>1. ASSUME NEW m \in S, m # t.root PROVE t.parent[m] \in S
    <3>1. t.parent[m] \in M /\ h[m] < h[t.parent[m]] /\ h[n] <= h[m]
      BY <1>3, <2>1
    <3> QED
      BY <1>2, <3>1
  <2>2. n \in S /\ S \subseteq M
    BY <1>2
  <2> HIDE DEF S
  <2>3. Way(t.parent, n) \subseteq S
    BY <2>1, <2>2, UpFacts
  <2> QED
    BY <2>3 DEF S
<1>5. ASSUME NEW a \in M, NEW b \in M, NEW c \in M,
             a \in Way(t.parent, b), b \in Way(t.parent, c)
      PROVE  a \in Way(t.parent, c)
  <2>1. Way(t.parent, b) \subseteq Way(t.parent, c)
    <3>1. /\ Way(t.parent, c) \subseteq M
          /\ \A m \in Way(t.parent, c) : m # t.root => t.parent[m] \in Way(t.parent, c)
      BY UpFacts
    <3> QED
      BY <1>5, <3>1, UpFacts
  <2> QED
    BY <1>5, <2>1
<1>6. ASSUME NEW a \in M, NEW b \in M, a \in Way(t.parent, b), a # b
      PROVE  b # t.root /\ t.parent[b] \in M /\ a \in Way(t.parent, t.parent[b])
  <2>1. b # t.root
    <3>1. SUFFICES ASSUME b = t.root PROVE FALSE
      OBVIOUS
    <3>2. Way(t.parent, b) \subseteq {b}
      <4> DEFINE S == {b}
      <4>1. b \in S /\ S \subseteq M /\ \A m \in S : m # t.root => t.parent[m] \in S
        BY <3>1
      <4> HIDE DEF S
      <4>2. Way(t.parent, b) \subseteq S
        BY <4>1, UpFacts
      <4> QED
        BY <4>2 DEF S
    <3> QED
      BY <1>6, <3>2
  <2> DEFINE p == t.parent[b]
             S == {b} \cup Way(t.parent, p)
  <2>2. p \in M
    BY <1>3, <2>1
  <2> HIDE DEF p
  <2>3. /\ Way(t.parent, p) \subseteq M /\ p \in Way(t.parent, p)
        /\ \A m \in Way(t.parent, p) : m # t.root => t.parent[m] \in Way(t.parent, p)
    BY <2>2, UpFacts
  <2>4. b \in S /\ S \subseteq M /\ \A m \in S : m # t.root => t.parent[m] \in S
    BY <2>3 DEF p
  <2>5. Way(t.parent, b) \subseteq S
    <3> HIDE DEF S
    <3> QED
      BY <2>4, UpFacts
  <2> QED
    BY <1>6, <2>1, <2>2, <2>5 DEF p
<1>7. ASSUME NEW a \in M PROVE t.root \in Way(t.parent, a)
  <2> DEFINE W == Way(t.parent, a)
  <2>1. W \subseteq M /\ a \in W /\ \A m \in W : m # t.root => t.parent[m] \in W
    BY UpFacts
  <2>2. IsFiniteSet(W) /\ \A m \in W : h[m] \in Nat
    BY <1>0, <1>2, <2>1, FS_Subset
  <2> HIDE DEF W
  <2>3. PICK m \in W : \A x \in W : h[x] <= h[m]
    BY <2>1, <2>2, GreatestBy
  <2>4. m = t.root
    <3>1. SUFFICES ASSUME m # t.root PROVE FALSE
      OBVIOUS
    <3>2. h[t.parent[m]] <= h[m] /\ h[m] < h[t.parent[m]] /\ t.parent[m] \in W
      BY <1>3, <2>1, <2>3, <3>1
    <3> QED
      BY <2>2, <3>2
  <2> QED
    BY <2>4 DEF W
<1>8. ASSUME NEW a \in M, NEW b \in M, a \in Way(t.parent, b), b \in Way(t.parent, a) PROVE a = b
  <2>1. SUFFICES ASSUME a # b PROVE FALSE
    OBVIOUS
  <2>2. b # t.root /\ t.parent[b] \in M /\ a \in Way(t.parent, t.parent[b])
    BY <1>6, <1>8, <2>1
  <2>3. h[t.parent[b]] <= h[a] /\ h[b] < h[t.parent[b]] /\ h[a] <= h[b]
    BY <1>3, <1>4, <1>8, <2>2
  <2>4. h[a] \in Nat /\ h[b] \in Nat /\ h[t.parent[b]] \in Nat
    BY <1>2, <2>2
  <2> QED
    BY <2>3, <2>4
<1>9. ASSUME NEW n \in M, NEW a \in M, NEW s \in Sides, BelowOn(t, n, a, s)
      PROVE  n # a /\ a \in Way(t.parent, n) /\ t.child[a][s] \in M
  <2> DEFINE c == t.child[a][s]
  <2>1. c # Nil /\ c \in M /\ t.parent[c] = a /\ c \in Way(t.parent, n) /\ h[c] < h[a]
    BY <1>0, <1>1, <1>9 DEF BelowOn, Linked, Down
  <2> HIDE DEF c
  <2>2. c # t.root
    BY <1>0, <2>1 DEF Linked
  <2>3. h[n] <= h[c] /\ a \in Way(t.parent, n)
    BY <1>4, <2>1, <2>2, UpFacts
  <2>4. h[n] \in Nat /\ h[c] \in Nat /\ h[a] \in Nat
    BY <1>2, <2>1
  <2>5. n # a
    BY <2>1, <2>3, <2>4
  <2> QED
    BY <2>1, <2>3, <2>5 DEF c
<1> QED
  BY <1>5, <1>6, <1>7, <1>8, <1>9

\* Of two nodes one is above the other, or they are on two sides of a third.
LEMMA Fork ==
  ASSUME NEW t, NEW M, Shaped(t, M), NEW x \in M, NEW y \in M
  PROVE  \/ x \in Way(t.parent, y) \/ y \in Way(t.parent, x)
         \/ \E c \in M, s \in Sides : BelowOn(t, x, c, s) /\ BelowOn(t, y, c, Other(s))
<1>0. t \in Trees /\ Linked(t, M) /\ M \subseteq Nodes
  BY DEF Shaped, Linked
<1>1. PICK h : Down(t, M, h)
  BY DEF Shaped
<1>2. \A m \in M : h[m] \in Nat
  BY <1>0, <1>1 DEF Down
<1> DEFINE I == Way(t.parent, x) \cap Way(t.parent, y)
<1>3. I \subseteq M /\ t.root \in I
  BY UpAndUp, UpFacts
<1>4. PICK c \in I : \A m \in I : h[c] <= h[m]
  <2>1. \A m \in I : h[m] \in Nat
    BY <1>2, <1>3
  <2> HIDE DEF I
  <2> QED
    BY <1>3, <2>1, LeastBy
<1>5. SUFFICES ASSUME c # x, c # y
               PROVE  \E s \in Sides : BelowOn(t, x, c, s) /\ BelowOn(t, y, c, Other(s))
  BY <1>3, <1>4
<1>6. PICK s \in Sides : BelowOn(t, x, c, s)
  BY <1>4, <1>5, UpFacts
<1>7. PICK d \in Sides : BelowOn(t, y, c, d)
  BY <1>4, <1>5, UpFacts
<1>8. d # s
  <2>1. SUFFICES ASSUME d = s PROVE FALSE
    OBVIOUS
  <2> DEFINE z == t.child[c][s]
  <2>2. z \in I /\ z # Nil /\ z \in M /\ h[z] < h[c]
    BY <1>0, <1>1, <1>3, <1>6, <1>7, <2>1 DEF BelowOn, Linked, Down
  <2>3. h[c] <= h[z] /\ h[c] \in Nat /\ h[z] \in Nat
    BY <1>2, <1>3, <1>4, <2>2
  <2> HIDE DEF z
  <2> QED
    BY <2>2, <2>3
<1>9. d = Other(s)
  BY <1>8, SidesFacts
<1> QED
  BY <1>6, <1>7, <1>9

-----------------------------------------------------------------------------
\* The nodes in order, by values of which no two are equal.

InPlace(t, M, v) ==
  /\ Shaped(t, M) /\ \E K : Ordered(t, M, v, K)
  /\ \A a, b \in M : v[a] = v[b] => a = b

\* x comes after n on the way to side s.
After(v, s, x, n) == Beside(s, v[x], v[n]) /\ x # n

LEMMA AfterFacts ==
  ASSUME NEW t, NEW M, NEW v, InPlace(t, M, v), NEW s \in Sides
  PROVE  /\ \A a, b \in M : a = b \/ After(v, s, a, b) \/ After(v, s, b, a)
         /\ \A a, b \in M : ~(After(v, s, a, b) /\ After(v, s, b, a)) /\ ~After(v, s, a, a)
         /\ \A a, b, c \in M : After(v, s, a, b) /\ After(v, s, b, c) => After(v, s, a, c)
         /\ \A a, b \in M : After(v, Other(s), a, b) <=> After(v, s, b, a)
         /\ \A n, a \in M : /\ BelowOn(t, n, a, s) => After(v, s, n, a)
                            /\ BelowOn(t, n, a, Other(s)) => After(v, s, a, n)
<1>1. PICK K : Ordered(t, M, v, K)
  BY DEF InPlace
<1>2. Shaped(t, M) /\ \A a, b \in M : v[a] = v[b] => a = b
  BY DEF InPlace
<1>3. \A a \in M : v[a] \in Int
  <2>1. M \subseteq Nodes
    BY <1>2 DEF Shaped, Linked
  <2> QED
    BY <1>1, <2>1 DEF Ordered
<1>4. s = "lh" \/ s = "rh"
  BY DEF Sides
<1>5. \A a, b \in M : a = b \/ After(v, s, a, b) \/ After(v, s, b, a)
  BY <1>3, <1>4 DEF After, Beside
<1>6. \A a, b \in M : ~(After(v, s, a, b) /\ After(v, s, b, a)) /\ ~After(v, s, a, a)
  BY <1>2, <1>3, <1>4 DEF After, Beside
<1>7. \A a, b \in M : After(v, Other(s), a, b) <=> After(v, s, b, a)
  BY <1>3, <1>4 DEF After, Beside, Other
<1>8. \A a, b, c \in M : After(v, s, a, b) /\ After(v, s, b, c) => After(v, s, a, c)
  <2> TAKE a, b, c \in M
  <2>1. v[a] \in Int /\ v[b] \in Int /\ v[c] \in Int
    BY <1>3
  <2>2. v[a] = v[b] => a = b
    BY <1>2
  <2> QED
    BY <1>4, <2>1, <2>2 DEF After, Beside
<1>9. \A n, a \in M, d \in Sides : BelowOn(t, n, a, d) => After(v, d, n, a)
  BY <1>1, <1>2, UpOrdered, UpAndUp DEF After
<1>10. Other(s) \in Sides
  BY SidesFacts
<1> QED
  BY <1>5, <1>6, <1>7, <1>8, <1>9, <1>10

\* From R down to side q the last node is x, if none below R is further on.
LEMMA ChainReaches ==
  ASSUME NEW t, NEW M, NEW v, InPlace(t, M, v), NEW q \in Sides, NEW R \in M, NEW x \in M,
         R \in Way(t.parent, x), \A y \in M : R \in Way(t.parent, y) => ~After(v, q, y, x)
  PROVE  Outermost(t, R, q) = x
<1>0. Shaped(t, M) /\ t \in Trees /\ Linked(t, M) /\ M \subseteq Nodes /\ Nil \notin Nodes
  BY TreeAssumption DEF InPlace, Shaped, Linked
<1> DEFINE f == SideWay(t, q)
           C == Way(f, R)
           r == Outermost(t, R, q)
           S == {y \in M : y \in Way(t.parent, x) /\ R \in Way(t.parent, y)}
<1>1. f \in Onwards /\ \A m \in M : f[m] = t.child[m][q]
  BY <1>0 DEF Trees, Onwards, SideWay
<1>2. C \subseteq M /\ R \in C /\ r \in C /\ t.child[r][q] = Nil
  BY <1>0, OutermostIs
<1> HIDE DEF f, r
<1>3. \A n, a \in M : /\ BelowOn(t, n, a, q) => After(v, q, n, a)
                      /\ BelowOn(t, n, a, Other(q)) => After(v, q, a, n)
  BY AfterFacts
<1>4. ASSUME NEW y \in S, y # x PROVE BelowOn(t, x, y, q)
  <2>1. PICK d \in Sides : BelowOn(t, x, y, d)
    BY <1>0, <1>4, UpFacts
  <2>2. d # Other(q)
    BY <1>3, <1>4, <2>1
  <2> QED
    BY <2>1, <2>2, SidesFacts
<1>5. Leads(f, S)
  <2>1. ASSUME NEW y \in S, f[y] # Nil PROVE f[y] \in S
    <3> DEFINE z == t.child[y][q]
    <3>1. f[y] = z /\ z # Nil /\ z \in M /\ t.parent[z] = y /\ y \in M
      BY <1>0, <1>1, <2>1 DEF Linked
    <3>2. y \in Way(t.parent, z) /\ z \in Way(t.parent, z)
      <4>1. z # t.root
        BY <1>0, <3>1 DEF Linked
      <4> HIDE DEF z
      <4> QED
        BY <1>0, <3>1, <4>1, UpFacts
    <3>3. R \in Way(t.parent, z)
      <4> HIDE DEF z
      <4> QED
        BY <1>0, <2>1, <3>1, <3>2, UpAndUp
    <3>4. y # x
      <4>1. SUFFICES ASSUME y = x PROVE FALSE
        OBVIOUS
      <4>2. BelowOn(t, z, y, q)
        BY <3>1, <3>2 DEF BelowOn
      <4>3. After(v, q, z, x)
        BY <1>3, <3>1, <4>1, <4>2
      <4> HIDE DEF z
      <4> QED
        BY <3>1, <3>3, <4>3
    <3>5. z \in Way(t.parent, x)
      BY <1>4, <2>1, <3>4 DEF BelowOn
    <3> QED
      BY <3>1, <3>3, <3>5
  <2> QED
    BY <1>0, <2>1 DEF Leads
<1>6. C \subseteq S
  <2>1. R \in S
    <3>1. R \in Way(t.parent, R)
      BY <1>0, UpFacts
    <3> QED
      BY <3>1
  <2> HIDE DEF S
  <2> QED
    BY <1>0, <1>1, <1>5, <2>1, WayFacts
<1>7. r = x
  BY <1>2, <1>4, <1>6 DEF BelowOn
<1> QED
  BY <1>7 DEF r

-----------------------------------------------------------------------------
\* The way bt_tree_next goes.

Ahead(back) == IF back THEN "lh" ELSE "rh"

\* The keys tell on which side of a node another node is.
Tells(t, M, back) ==
  \A n, a \in M, d \in Sides :
    BelowOn(t, n, a, d) => (Passed(back, t.key[a], t.key[n]) <=> d = Ahead(back))

Climbing(t, n, back) ==
  [m \in Nodes |-> IF m = n \/ Passed(back, t.key[m], t.key[n]) THEN t.parent[m] ELSE Nil]

LEMMA ClimbEnds ==
  ASSUME NEW t, NEW M, Shaped(t, M), NEW back \in BOOLEAN, NEW n \in M
  PROVE  LET up == Climbing(t, n, back)
             top == LastOf(up, n)
         IN  /\ up \in Onwards
             /\ \A m \in M : up[m] = IF m = n \/ Passed(back, t.key[m], t.key[n])
                                     THEN t.parent[m] ELSE Nil
             /\ top \in Way(up, n) /\ top \in Way(t.parent, n) /\ up[top] = Nil
             /\ Climb(t, n, back) = IF top = n \/ Passed(back, t.key[top], t.key[n]) THEN Nil ELSE top
<1> DEFINE up == Climbing(t, n, back)
           top == LastOf(up, n)
           W == Way(t.parent, n)
<1>0. t \in Trees /\ Linked(t, M) /\ M \subseteq Nodes /\ Nil \notin Nodes /\ n \in Nodes
  BY TreeAssumption DEF Shaped, Linked
<1>1. PICK h : Down(t, M, h)
  BY DEF Shaped
<1>2. Climb(t, n, back) = IF top = n \/ Passed(back, t.key[top], t.key[n]) THEN Nil ELSE top
  BY DEF Climb, Climbing
<1>3. up \in Onwards
  BY <1>0 DEF Climbing, Onwards, Trees
<1>4. \A m \in M : up[m] = IF m = n \/ Passed(back, t.key[m], t.key[n])
                           THEN t.parent[m] ELSE Nil
  BY <1>0 DEF Climbing
<1> HIDE DEF up, top
<1>5. W \subseteq M /\ n \in W /\ \A m \in W : m # t.root => t.parent[m] \in W
  BY UpFacts
<1> HIDE DEF W
<1>6. Leads(up, W)
  BY <1>0, <1>4, <1>5 DEF Leads, Linked
<1>7. Way(up, n) \subseteq W
  BY <1>0, <1>3, <1>5, <1>6, WayFacts
<1>8. \A m \in Way(up, n) : up[m] # Nil => h[m] < h[up[m]]
  <2> TAKE m \in Way(up, n)
  <2> HAVE up[m] # Nil
  <2>1. m \in M /\ up[m] = t.parent[m]
    BY <1>4, <1>5, <1>7
  <2>2. m # t.root /\ m # Nil
    BY <1>0, <2>1 DEF Linked
  <2>3. t.parent[m] \in M /\ \E s \in Sides : t.child[t.parent[m]][s] = m
    BY <1>0, <2>1, <2>2 DEF Linked
  <2> QED
    BY <1>1, <2>1, <2>2, <2>3 DEF Down
<1>9. h \in [Nodes -> Nat]
  BY <1>1 DEF Down
<1>10. top \in Way(up, n) /\ up[top] = Nil
  BY <1>0, <1>3, <1>8, <1>9, Ends DEF top
<1> QED
  BY <1>2, <1>3, <1>4, <1>7, <1>10 DEF up, top, W

\* It climbs to the first node above that has n on the far side,
LEMMA ClimbTo ==
  ASSUME NEW t, NEW M, Shaped(t, M), NEW back \in BOOLEAN, Tells(t, M, back), NEW n \in M,
         NEW x \in M, x # n, x \in Way(t.parent, n), NEW d \in Sides, d # Ahead(back),
         BelowOn(t, n, x, d),
         \A m \in Way(t.parent, n) \ {n, x} :
           x \in Way(t.parent, m) => BelowOn(t, n, m, Ahead(back))
  PROVE  Climb(t, n, back) = x
<1> DEFINE up == Climbing(t, n, back)
           top == LastOf(up, n)
           S == {m \in Way(t.parent, n) : x \in Way(t.parent, m)}
<1>0. t \in Trees /\ Linked(t, M) /\ M \subseteq Nodes /\ Nil \notin Nodes /\ n \in Nodes /\ Nil \notin M
  BY TreeAssumption DEF Shaped, Linked
<1>1. /\ up \in Onwards
      /\ \A m \in M : up[m] = IF m = n \/ Passed(back, t.key[m], t.key[n])
                              THEN t.parent[m] ELSE Nil
      /\ top \in Way(up, n) /\ up[top] = Nil
      /\ Climb(t, n, back) = IF top = n \/ Passed(back, t.key[top], t.key[n]) THEN Nil ELSE top
  BY ClimbEnds
<1> HIDE DEF up, top
<1>2. Ahead(back) \in Sides
  BY DEF Ahead, Sides
<1>3. /\ Way(t.parent, n) \subseteq M /\ n \in Way(t.parent, n)
      /\ \A m \in Way(t.parent, n) : m # t.root => t.parent[m] \in Way(t.parent, n)
  BY UpFacts
<1>4. ~Passed(back, t.key[x], t.key[n])
  BY DEF Tells
<1>5. ASSUME NEW m \in S, m # x
      PROVE  up[m] = t.parent[m] /\ t.parent[m] \in S /\ t.parent[m] # Nil
  <2>1. m \in M /\ m \in Way(t.parent, n) /\ x \in Way(t.parent, m)
    BY <1>3
  <2>2. m = n \/ Passed(back, t.key[m], t.key[n])
    <3>1. SUFFICES ASSUME m # n PROVE Passed(back, t.key[m], t.key[n])
      OBVIOUS
    <3>2. BelowOn(t, n, m, Ahead(back))
      BY <1>5, <2>1, <3>1
    <3> QED
      BY <1>2, <2>1, <3>2 DEF Tells
  <2>3. m # t.root /\ t.parent[m] \in M /\ x \in Way(t.parent, t.parent[m])
    BY <1>5, <2>1, UpAndUp
  <2> QED
    BY <1>0, <1>1, <1>3, <2>1, <2>2, <2>3
<1>6. Way(up, n) \subseteq S
  <2>1. n \in S
    BY <1>3
  <2>2. up[x] = Nil
    BY <1>1, <1>4
  <2>3. S \subseteq Nodes
    BY <1>0, <1>3
  <2> HIDE DEF S
  <2>4. Leads(up, S)
    BY <1>5, <2>2, <2>3 DEF Leads
  <2> QED
    BY <1>0, <1>1, <2>1, <2>4, WayFacts
<1>7. top = x
  <2> HIDE DEF S
  <2> QED
    BY <1>1, <1>5, <1>6
<1> QED
  BY <1>1, <1>4, <1>7

\* and past the root if there is none.
LEMMA ClimbOut ==
  ASSUME NEW t, NEW M, Shaped(t, M), NEW back \in BOOLEAN, Tells(t, M, back), NEW n \in M,
         \A m \in Way(t.parent, n) \ {n} : BelowOn(t, n, m, Ahead(back))
  PROVE  Climb(t, n, back) = Nil
<1> DEFINE top == LastOf(Climbing(t, n, back), n)
<1>1. /\ top \in Way(t.parent, n)
      /\ Climb(t, n, back) = IF top = n \/ Passed(back, t.key[top], t.key[n]) THEN Nil ELSE top
  BY ClimbEnds
<1> HIDE DEF top
<1>2. Ahead(back) \in Sides /\ top \in M
  BY <1>1, UpFacts DEF Ahead, Sides
<1>3. top # n => Passed(back, t.key[top], t.key[n])
  BY <1>1, <1>2 DEF Tells
<1> QED
  BY <1>1, <1>3

\* x comes next after n.
Follows(v, s, M, x, n) == After(v, s, x, n) /\ \A m \in M : ~(After(v, s, m, n) /\ After(v, s, x, m))

LEMMA NextIs ==
  ASSUME NEW t, NEW M, NEW v, InPlace(t, M, v), NEW back \in BOOLEAN, Tells(t, M, back),
         NEW n \in M, NEW x \in M, Follows(v, Ahead(back), M, x, n)
  PROVE  bt_tree_next(t, n, back) = x
<1> DEFINE s == Ahead(back)
           R == t.child[n][s]
<1>0. Shaped(t, M) /\ t \in Trees /\ Linked(t, M) /\ M \subseteq Nodes /\ Nil \notin Nodes
  BY TreeAssumption DEF InPlace, Shaped, Linked
<1>1. bt_tree_next(t, n, back) =
        IF R # Nil THEN Outermost(t, R, Other(s)) ELSE Climb(t, n, back)
  BY DEF bt_tree_next, Ahead
<1>2. s \in Sides /\ Other(s) \in Sides /\ Other(s) # s /\ Other(Other(s)) = s
      /\ \A d \in Sides : d = s \/ d = Other(s)
  BY SidesFacts DEF Ahead, Sides
<1>3. After(v, s, x, n) /\ \A m \in M : ~(After(v, s, m, n) /\ After(v, s, x, m))
  BY DEF Follows
<1> HIDE DEF s
<1>4. \A a, b \in M : ~(After(v, s, a, b) /\ After(v, s, b, a)) /\ ~After(v, s, a, a)
  BY <1>2, AfterFacts
<1>5. \A a, b, c \in M : After(v, s, a, b) /\ After(v, s, b, c) => After(v, s, a, c)
  BY <1>2, AfterFacts
<1>6. \A a, b \in M : After(v, Other(s), a, b) <=> After(v, s, b, a)
  BY <1>2, AfterFacts
<1>7. \A m, a \in M : /\ BelowOn(t, m, a, s) => After(v, s, m, a)
                      /\ BelowOn(t, m, a, Other(s)) => After(v, s, a, m)
  BY <1>2, AfterFacts
<1>8. R # Nil => R \in M /\ BelowOn(t, R, n, s) /\ R # t.root /\ n \in Way(t.parent, R)
  <2>1. SUFFICES ASSUME R # Nil PROVE R \in M /\ BelowOn(t, R, n, s) /\ R # t.root /\ n \in Way(t.parent, R)
    OBVIOUS
  <2>2. R \in M /\ t.parent[R] = n /\ R # t.root
    BY <1>0, <1>2, <2>1 DEF Linked
  <2>3. R \in Way(t.parent, R) /\ n \in Way(t.parent, R)
    <3> HIDE DEF R
    <3> QED
      BY <1>0, <2>2, UpFacts
  <2> QED
    BY <2>1, <2>2, <2>3 DEF BelowOn
<1>9. CASE x \in Way(t.parent, n)
  <2>1. x # n
    BY <1>3, <1>4
  <2>2. BelowOn(t, n, x, Other(s))
    <3>1. PICK d \in Sides : BelowOn(t, n, x, d)
      BY <1>0, <1>9, <2>1, UpFacts
    <3>2. d # s
      BY <1>3, <1>4, <1>7, <3>1
    <3> QED
      BY <1>2, <3>1, <3>2
  <2>3. ASSUME NEW m \in M, n \in Way(t.parent, m) PROVE After(v, s, x, m)
    <3> DEFINE z == t.child[x][Other(s)]
    <3>1. z # Nil /\ z \in Way(t.parent, n) /\ z \in M
      BY <1>0, <1>2, <2>2 DEF BelowOn, Linked
    <3>2. z \in Way(t.parent, m)
      <4> HIDE DEF z
      <4> QED
        BY <1>0, <2>3, <3>1, UpAndUp
    <3>3. BelowOn(t, m, x, Other(s))
      BY <3>1, <3>2 DEF BelowOn
    <3> QED
      BY <1>7, <3>3
  <2>4. R = Nil
    BY <1>3, <1>7, <1>8, <2>3
  <2>5. ASSUME NEW m \in Way(t.parent, n) \ {n, x}, x \in Way(t.parent, m)
        PROVE  BelowOn(t, n, m, s)
    <3>1. m \in M
      BY <1>0, UpFacts
    <3>2. PICK d \in Sides : BelowOn(t, n, m, d)
      BY <1>0, UpFacts
    <3>3. PICK e \in Sides : BelowOn(t, m, x, e)
      BY <1>0, <2>5, <3>1, UpFacts
    <3>4. e # s
      <4>1. SUFFICES ASSUME e = s PROVE FALSE
        OBVIOUS
      <4> DEFINE z == t.child[x][s]
      <4>2. z # Nil /\ z \in Way(t.parent, m) /\ z \in M
        BY <1>0, <1>2, <3>3, <4>1 DEF BelowOn, Linked
      <4>3. z \in Way(t.parent, n)
        <5> HIDE DEF z
        <5> QED
          BY <1>0, <3>1, <4>2, UpAndUp
      <4>4. BelowOn(t, n, x, s)
        BY <4>2, <4>3 DEF BelowOn
      <4> QED
        BY <1>3, <1>4, <1>7, <4>4
    <3>5. After(v, s, x, m)
      BY <1>2, <1>7, <3>1, <3>3, <3>4
    <3>6. d # Other(s)
      BY <1>3, <1>7, <3>1, <3>2, <3>5
    <3> QED
      BY <1>2, <3>2, <3>6
  <2>6. Climb(t, n, back) = x
    BY <1>0, <1>2, <1>9, <2>1, <2>2, <2>5, ClimbTo DEF s
  <2> QED
    BY <1>1, <2>4, <2>6
<1>10. CASE n \in Way(t.parent, x)
  <2>1. x # n
    BY <1>3, <1>4
  <2>2. BelowOn(t, x, n, s)
    <3>1. PICK d \in Sides : BelowOn(t, x, n, d)
      BY <1>0, <1>10, <2>1, UpFacts
    <3>2. d # Other(s)
      BY <1>3, <1>4, <1>7, <3>1
    <3> QED
      BY <1>2, <3>1, <3>2
  <2>3. R # Nil /\ R \in Way(t.parent, x) /\ R \in M
    BY <1>8, <2>2 DEF BelowOn
  <2>4. ASSUME NEW y \in M, R \in Way(t.parent, y) PROVE ~After(v, Other(s), y, x)
    <3>1. BelowOn(t, y, n, s)
      BY <2>3, <2>4 DEF BelowOn
    <3> QED
      BY <1>3, <1>6, <1>7, <3>1
  <2>5. Outermost(t, R, Other(s)) = x
    <3> HIDE DEF R
    <3> QED
      BY <1>2, <2>3, <2>4, ChainReaches
  <2> QED
    BY <1>1, <2>3, <2>5
<1>11. ASSUME NEW c \in M, NEW d \in Sides, BelowOn(t, x, c, d), BelowOn(t, n, c, Other(d))
       PROVE  FALSE
  <2>1. CASE d = s
    BY <1>3, <1>7, <1>11, <2>1
  <2>2. CASE d = Other(s)
    <3>1. After(v, s, c, x) /\ After(v, s, n, c)
      BY <1>2, <1>7, <1>11, <2>2
    <3> QED
      BY <1>3, <1>4, <1>5, <3>1
  <2> QED
    BY <1>2, <2>1, <2>2
<1> QED
  BY <1>0, <1>9, <1>10, <1>11, Fork

LEMMA NextNone ==
  ASSUME NEW t, NEW M, NEW v, InPlace(t, M, v), NEW back \in BOOLEAN, Tells(t, M, back),
         NEW n \in M, \A m \in M : ~After(v, Ahead(back), m, n)
  PROVE  bt_tree_next(t, n, back) = Nil
<1> DEFINE s == Ahead(back)
           R == t.child[n][s]
<1>0. Shaped(t, M) /\ t \in Trees /\ Linked(t, M) /\ M \subseteq Nodes /\ Nil \notin Nodes
  BY TreeAssumption DEF InPlace, Shaped, Linked
<1>1. bt_tree_next(t, n, back) =
        IF R # Nil THEN Outermost(t, R, Other(s)) ELSE Climb(t, n, back)
  BY DEF bt_tree_next, Ahead
<1>2. s \in Sides /\ \A d \in Sides : d = s \/ d = Other(s)
  BY SidesFacts DEF Ahead, Sides
<1>3. \A m \in M : ~After(v, s, m, n)
  OBVIOUS
<1> HIDE DEF s
<1>4. \A m, a \in M : /\ BelowOn(t, m, a, s) => After(v, s, m, a)
                      /\ BelowOn(t, m, a, Other(s)) => After(v, s, a, m)
  BY <1>2, AfterFacts
<1>5. R = Nil
  <2>1. SUFFICES ASSUME R # Nil PROVE FALSE
    OBVIOUS
  <2>2. R \in M
    BY <1>0, <1>2, <2>1 DEF Linked
  <2>3. R \in Way(t.parent, R)
    <3> HIDE DEF R
    <3> QED
      BY <1>0, <2>2, UpFacts
  <2> QED
    BY <1>3, <1>4, <2>1, <2>2, <2>3 DEF BelowOn
<1>6. ASSUME NEW m \in Way(t.parent, n) \ {n} PROVE BelowOn(t, n, m, s)
  <2>1. m \in M
    BY <1>0, UpFacts
  <2>2. PICK d \in Sides : BelowOn(t, n, m, d)
    BY <1>0, UpFacts
  <2> QED
    BY <1>2, <1>3, <1>4, <2>1, <2>2
<1>7. Climb(t, n, back) = Nil
  BY <1>0, <1>6, ClimbOut DEF s
<1> QED
  BY <1>1, <1>5, <1>7

LEMMA FirstIs ==
  ASSUME NEW t, NEW M, NEW v, InPlace(t, M, v), NEW s \in Sides,
         NEW x \in M, \A m \in M : ~After(v, s, x, m)
  PROVE  t.root \in M /\ Outermost(t, t.root, Other(s)) = x
<1>0. Shaped(t, M) /\ Linked(t, M)
  BY DEF InPlace, Shaped
<1>1. t.root \in M /\ t.root \in Way(t.parent, x)
  BY <1>0, UpAndUp DEF Linked
<1>2. \A y \in M : t.root \in Way(t.parent, y) => ~After(v, Other(s), y, x)
  BY AfterFacts
<1>3. Other(s) \in Sides
  BY SidesFacts
<1> QED
  BY <1>1, <1>2, <1>3, ChainReaches

-----------------------------------------------------------------------------
\* The place of a node in the order.

UpTo(v, s, M, m) == {y \in M : y = m \/ After(v, s, m, y)}
Rank(v, s, M, m) == Cardinality(UpTo(v, s, M, m))

LEMMA RankFacts ==
  ASSUME NEW t, NEW M, NEW v, InPlace(t, M, v), NEW s \in Sides
  PROVE  /\ IsFiniteSet(M) /\ Cardinality(M) \in Nat
         /\ \A m \in M : Rank(v, s, M, m) \in 1 .. Cardinality(M)
         /\ \A a, b \in M : After(v, s, a, b) => Rank(v, s, M, b) < Rank(v, s, M, a)
         /\ \A a, b \in M : Rank(v, s, M, a) = Rank(v, s, M, b) => a = b
<1>0. IsFiniteSet(M) /\ Cardinality(M) \in Nat
  <2>1. M \subseteq Nodes /\ IsFiniteSet(Nodes)
    BY TreeAssumption DEF InPlace, Shaped, Linked
  <2> QED
    BY <2>1, FS_Subset, FS_CardinalityType
<1>1. ASSUME NEW m \in M
      PROVE  /\ IsFiniteSet(UpTo(v, s, M, m)) /\ Rank(v, s, M, m) \in Nat
             /\ Rank(v, s, M, m) <= Cardinality(M) /\ Rank(v, s, M, m) # 0
  <2> DEFINE U == UpTo(v, s, M, m)
  <2>1. U \subseteq M /\ m \in U
    BY DEF UpTo
  <2> HIDE DEF U
  <2>2. IsFiniteSet(U) /\ Cardinality(U) <= Cardinality(M) /\ Cardinality(U) \in Nat
    BY <1>0, <2>1, FS_Subset, FS_CardinalityType
  <2>3. Cardinality(U) # 0
    BY <2>1, <2>2, FS_EmptySet
  <2> QED
    BY <2>2, <2>3 DEF U, Rank
<1>2. ASSUME NEW a \in M, NEW b \in M, After(v, s, a, b)
      PROVE  Rank(v, s, M, b) < Rank(v, s, M, a)
  <2> DEFINE A == UpTo(v, s, M, a)
             B == UpTo(v, s, M, b)
  <2>1. B \subseteq A
    BY <1>2, AfterFacts DEF UpTo
  <2>2. a \in A /\ a \notin B
    BY <1>2, AfterFacts DEF UpTo
  <2>3. IsFiniteSet(A) /\ Cardinality(A) \in Nat /\ Cardinality(B) \in Nat
    BY <1>1 DEF Rank
  <2> HIDE DEF A, B
  <2>4. Cardinality(B) <= Cardinality(A) /\ Cardinality(B) # Cardinality(A)
    BY <2>1, <2>2, <2>3, FS_Subset
  <2>5. Cardinality(B) < Cardinality(A)
    BY <2>3, <2>4
  <2> QED
    BY <2>5 DEF A, B, Rank
<1>3. \A m \in M : Rank(v, s, M, m) \in 1 .. Cardinality(M)
  BY <1>0, <1>1
<1>4. ASSUME NEW a \in M, NEW b \in M, Rank(v, s, M, a) = Rank(v, s, M, b) PROVE a = b
  <2>1. Rank(v, s, M, a) \in Nat /\ Rank(v, s, M, b) \in Nat
    BY <1>1
  <2>2. ~(Rank(v, s, M, b) < Rank(v, s, M, a)) /\ ~(Rank(v, s, M, a) < Rank(v, s, M, b))
    BY <1>4, <2>1
  <2>3. ~After(v, s, a, b) /\ ~After(v, s, b, a)
    BY <1>2, <2>2
  <2> QED
    BY <2>3, AfterFacts
<1> QED
  BY <1>0, <1>2, <1>3, <1>4

\* Of some nodes of the tree one comes before all others.
LEMMA Foremost ==
  ASSUME NEW t, NEW M, NEW v, InPlace(t, M, v), NEW s \in Sides, NEW S \in SUBSET M, S # {}
  PROVE  \E x \in S : \A m \in S : ~After(v, s, x, m)
<1> DEFINE h == [m \in M |-> Rank(v, s, M, m)]
<1>1. \A m \in M : h[m] = Rank(v, s, M, m) /\ Rank(v, s, M, m) \in Nat
  BY RankFacts
<1> HIDE DEF h
<1>2. PICK x \in S : \A m \in S : h[x] <= h[m]
  <2>1. \A m \in S : h[m] \in Nat
    BY <1>1
  <2> QED
    BY <2>1, LeastBy
<1>3. ASSUME NEW m \in S, After(v, s, x, m) PROVE FALSE
  <2>1. Rank(v, s, M, m) < Rank(v, s, M, x)
    BY <1>3, RankFacts
  <2>2. h[x] <= h[m]
    BY <1>2
  <2> QED
    BY <1>1, <2>1, <2>2
<1> QED
  BY <1>3

LEMMA RankNext ==
  ASSUME NEW t, NEW M, NEW v, InPlace(t, M, v), NEW s \in Sides, NEW n \in M
  PROVE  IF Rank(v, s, M, n) = Cardinality(M)
         THEN \A m \in M : ~After(v, s, m, n)
         ELSE \E x \in M : Follows(v, s, M, x, n) /\ Rank(v, s, M, x) = Rank(v, s, M, n) + 1
<1> DEFINE U == UpTo(v, s, M, n)
           S == {m \in M : After(v, s, m, n)}
<1>0. IsFiniteSet(M) /\ U \subseteq M /\ IsFiniteSet(U) /\ S \subseteq M
  <2>1. IsFiniteSet(M)
    BY RankFacts
  <2> QED
    BY <2>1, FS_Subset DEF UpTo
<1>1. \A m \in M : m \in U \/ m \in S
  BY AfterFacts DEF UpTo
<1>2. \A m \in M : ~(m \in U /\ m \in S)
  BY AfterFacts DEF UpTo
<1>3. CASE S = {}
  <2>1. U = M
    BY <1>0, <1>1, <1>3
  <2>2. Rank(v, s, M, n) = Cardinality(M)
    BY <2>1 DEF Rank
  <2> QED
    BY <1>3, <2>2
<1>4. CASE S # {}
  <2>1. PICK x \in S : \A m \in S : ~After(v, s, x, m)
    <3> HIDE DEF S
    <3> QED
      BY <1>0, <1>4, Foremost
  <2>2. Follows(v, s, M, x, n)
    BY <2>1 DEF Follows
  <2>3. UpTo(v, s, M, x) = U \cup {x}
    <3>1. ASSUME NEW y \in UpTo(v, s, M, x) PROVE y \in U \cup {x}
      <4>1. y \in M /\ (y # x => After(v, s, x, y))
        BY DEF UpTo
      <4> QED
        BY <1>1, <2>1, <4>1
    <3>2. ASSUME NEW y \in U PROVE y \in UpTo(v, s, M, x)
      <4>1. y \in M /\ (y = n \/ After(v, s, n, y)) /\ After(v, s, x, n) /\ x \in M
        BY <2>1 DEF UpTo
      <4>2. After(v, s, x, y)
        BY <4>1, AfterFacts
      <4> QED
        BY <4>1, <4>2 DEF UpTo
    <3>3. x \in UpTo(v, s, M, x)
      BY DEF UpTo
    <3> HIDE DEF U
    <3> QED
      BY <3>1, <3>2, <3>3
  <2>4. x \notin U
    BY <1>0, <1>2, <2>1
  <2> HIDE DEF U
  <2>5. Cardinality(U \cup {x}) = Cardinality(U) + 1
    BY <1>0, <2>4, FS_AddElement
  <2>6. Rank(v, s, M, x) = Rank(v, s, M, n) + 1
    BY <2>3, <2>5 DEF Rank, U
  <2>7. Rank(v, s, M, n) # Cardinality(M)
    <3>1. Rank(v, s, M, x) \in 1 .. Cardinality(M) /\ Rank(v, s, M, n) \in Nat /\ Cardinality(M) \in Nat
      BY <1>0, RankFacts
    <3> QED
      BY <2>6, <3>1
  <2> QED
    BY <1>0, <2>2, <2>6, <2>7
<1> QED
  BY <1>3, <1>4

LEMMA RankFirst ==
  ASSUME NEW t, NEW M, NEW v, InPlace(t, M, v), NEW s \in Sides, M # {}
  PROVE  \E x \in M : (\A m \in M : ~After(v, s, x, m)) /\ Rank(v, s, M, x) = 1
<1>1. PICK x \in M : \A m \in M : ~After(v, s, x, m)
  BY Foremost
<1>2. UpTo(v, s, M, x) = {x}
  BY <1>1 DEF UpTo
<1> QED
  BY <1>1, <1>2, FS_Singleton DEF Rank

\* The walk takes the nodes one after the other, and then stops.
Place(v, s, M, i, x) ==
  IF i <= Cardinality(M) THEN x \in M /\ Rank(v, s, M, x) = i ELSE x = Nil

LEMMA TraversalIs ==
  ASSUME NEW t, NEW M, NEW v, InPlace(t, M, v), NEW back \in BOOLEAN, Tells(t, M, back)
  PROVE  LET w == Traversal(t, back)
         IN  /\ w \in Seq(Nodes \cup {Nil}) /\ Len(w) = t.count + 1
             /\ \A i \in 1 .. t.count + 1 : Place(v, Ahead(back), M, i, w[i])
<1> DEFINE s == Ahead(back)
           N == t.count + 1
           First == IF t.root = Nil THEN Nil ELSE Outermost(t, t.root, IF back THEN "rh" ELSE "lh")
           Good(w) == \A i \in 1 .. Len(w) : Place(v, s, M, i, w[i])
           S == {w \in Seq(Nodes \cup {Nil}) : Good(w)}
           After1(w, i) == IF i = 1 THEN First
                           ELSE IF w[i - 1] = Nil THEN Nil ELSE bt_tree_next(t, w[i - 1], back)
           f == [w \in S |-> Append(w, After1(w, Len(w) + 1))]
           Is(g) == g = [i \in 0 .. N |-> IF i = 0 THEN <<>> ELSE LET w == g[i - 1] IN Append(w, After1(w, i))]
           visited == CHOOSE g : Is(g)
<1>0. /\ Shaped(t, M) /\ t \in Trees /\ Linked(t, M) /\ M \subseteq Nodes /\ Nil \notin Nodes
      /\ N \in Nat /\ N # 0 /\ Nil \notin M
  BY TreeAssumption DEF InPlace, Shaped, Linked, Trees
<1>1. s \in Sides /\ Other(s) = IF back THEN "rh" ELSE "lh"
  BY DEF Ahead, Sides, Other
<1> HIDE DEF s, N
<1>2. Place(v, s, M, 1, First)
  <2>1. CASE M = {}
    <3>1. t.root = Nil /\ Cardinality(M) = 0
      BY <1>0, <2>1, FS_EmptySet DEF Linked
    <3> QED
      BY <3>1 DEF Place
  <2>2. CASE M # {}
    <3>1. PICK x \in M : (\A m \in M : ~After(v, s, x, m)) /\ Rank(v, s, M, x) = 1
      BY <1>1, <2>2, RankFirst
    <3>2. t.root \in M /\ Outermost(t, t.root, Other(s)) = x
      BY <1>1, <3>1, FirstIs
    <3>3. First = x
      BY <1>0, <1>1, <3>2
    <3>4. 1 <= Cardinality(M)
      BY <1>1, <3>1, RankFacts
    <3> HIDE DEF First
    <3> QED
      BY <3>1, <3>3, <3>4 DEF Place
  <2> QED
    BY <2>1, <2>2
<1>3. ASSUME NEW i \in Nat, i # 0, NEW x, Place(v, s, M, i, x)
      PROVE  Place(v, s, M, i + 1, IF x = Nil THEN Nil ELSE bt_tree_next(t, x, back))
  <2>0. Cardinality(M) \in Nat
    BY <1>1, RankFacts
  <2>1. CASE ~(i <= Cardinality(M))
    <3>1. x = Nil /\ ~(i + 1 <= Cardinality(M))
      BY <1>3, <2>0, <2>1 DEF Place
    <3> QED
      BY <3>1 DEF Place
  <2>2. CASE i <= Cardinality(M)
    <3>1. x \in M /\ Rank(v, s, M, x) = i /\ x # Nil
      BY <1>0, <1>3, <2>2 DEF Place
    <3>2. CASE i = Cardinality(M)
      <4>1. \A m \in M : ~After(v, s, m, x)
        BY <1>1, <3>1, <3>2, RankNext
      <4>2. bt_tree_next(t, x, back) = Nil
        BY <3>1, <4>1, NextNone DEF s
      <4>3. ~(i + 1 <= Cardinality(M))
        BY <2>0, <3>2
      <4> QED
        BY <3>1, <4>2, <4>3 DEF Place
    <3>3. CASE i # Cardinality(M)
      <4>1. PICK y \in M : Follows(v, s, M, y, x) /\ Rank(v, s, M, y) = i + 1
        BY <1>1, <3>1, <3>3, RankNext
      <4>2. bt_tree_next(t, x, back) = y
        BY <3>1, <4>1, NextIs DEF s
      <4>3. i + 1 <= Cardinality(M)
        BY <2>0, <2>2, <3>3
      <4> QED
        BY <3>1, <4>1, <4>2, <4>3 DEF Place
    <3> QED
      BY <3>2, <3>3
  <2> QED
    BY <2>1, <2>2
<1>4. \A i, x : Place(v, s, M, i, x) => x \in Nodes \cup {Nil}
  BY <1>0 DEF Place
<1>5. ASSUME NEW w \in S PROVE Append(w, After1(w, Len(w) + 1)) \in S
  <2> DEFINE l == Len(w)
             y == After1(w, l + 1)
             u == Append(w, y)
  <2>1. w \in Seq(Nodes \cup {Nil}) /\ l \in Nat /\ Good(w)
    OBVIOUS
  <2>2. Place(v, s, M, l + 1, y)
    <3>1. CASE l = 0
      BY <1>2, <3>1
    <3>2. CASE l # 0
      <4>1. l \in 1 .. l /\ l + 1 # 1 /\ l + 1 - 1 = l
        BY <2>1, <3>2
      <4>2. Place(v, s, M, l, w[l])
        BY <2>1, <4>1
      <4>3. y = IF w[l] = Nil THEN Nil ELSE bt_tree_next(t, w[l], back)
        BY <4>1
      <4> HIDE DEF l, y
      <4> QED
        BY <1>3, <2>1, <3>2, <4>2, <4>3
    <3> QED
      BY <3>1, <3>2
  <2> HIDE DEF y
  <2>3. u \in Seq(Nodes \cup {Nil}) /\ Len(u) = l + 1 /\ u[l + 1] = y
        /\ \A i \in 1 .. l : u[i] = w[i]
    BY <1>4, <2>1, <2>2
  <2>4. \A i \in 1 .. l + 1 : i \in 1 .. l \/ i = l + 1
    BY <2>1
  <2> HIDE DEF u
  <2>5. Good(u)
    BY <2>1, <2>2, <2>3, <2>4
  <2> QED
    BY <2>3, <2>5 DEF u, y
<1>6. f \in [S -> S] /\ \A w \in S : f[w] = Append(w, After1(w, Len(w) + 1))
  <2> HIDE DEF S, After1
  <2> QED
    BY <1>5
<1>7. <<>> \in S
  OBVIOUS
<1>8. \A w \in S : w \in Seq(Nodes \cup {Nil}) /\ Len(w) \in Nat /\ Good(w)
  OBVIOUS
<1> HIDE DEF f, S
<1>9. PICK g : Iteration(g, S, <<>>, f, N)
  BY <1>0, <1>6, <1>7, Iterated
<1>10. \A i \in 0 .. N : i # 0 => i \in 1 .. N /\ i - 1 \in 0 .. N
  BY <1>0
<1>11. g \in [0 .. N -> S] /\ g[0] = <<>>
       /\ \A i \in 1 .. N : g[i] = Append(g[i - 1], After1(g[i - 1], Len(g[i - 1]) + 1))
  <2>1. g \in [0 .. N -> S] /\ g[0] = <<>> /\ \A i \in 1 .. N : g[i] = f[g[i - 1]]
    BY <1>9 DEF Iteration
  <2>2. \A i \in 1 .. N : g[i - 1] \in S
    BY <1>0, <2>1
  <2> HIDE DEF After1
  <2> QED
    BY <1>6, <2>1, <2>2
<1> HIDE DEF After1, Good
<1>12. \A i \in 0 .. N : Len(g[i]) = i
  <2> DEFINE B == {i \in 0 .. N : Len(g[i]) # i}
  <2>1. SUFFICES ASSUME B # {} PROVE FALSE
    OBVIOUS
  <2>2. PICK i \in B : \A m \in B : i <= m
    <3>1. B \in SUBSET Nat
      BY <1>0
    <3> HIDE DEF B
    <3> QED
      BY <2>1, <3>1, LeastNumber
  <2>3. i # 0
    BY <1>11, <2>2
  <2>4. i \in 1 .. N /\ i - 1 \in 0 .. N /\ ~(i <= i - 1)
    BY <1>0, <2>2, <2>3
  <2>5. Len(g[i - 1]) = i - 1
    BY <2>2, <2>4
  <2>6. g[i - 1] \in Seq(Nodes \cup {Nil})
    BY <1>8, <1>11, <2>4
  <2>7. Len(g[i]) = Len(g[i - 1]) + 1
    BY <1>11, <2>4, <2>6
  <2> QED
    BY <2>2, <2>4, <2>5, <2>7
<1>13. Is(g)
  <2>1. ASSUME NEW i \in 0 .. N, i # 0 PROVE g[i] = Append(g[i - 1], After1(g[i - 1], i))
    <3>1. i \in 1 .. N /\ Len(g[i - 1]) + 1 = i
      BY <1>10, <1>12, <2>1
    <3> QED
      BY <1>11, <3>1
  <2> QED
    BY <1>11, <2>1
<1>14. Is(visited)
  <2> HIDE DEF Is
  <2> QED
    BY <1>13
<1>15. Traversal(t, back) = visited[N]
  BY DEF Traversal, N, After1
<1> HIDE DEF visited
<1>16. visited[0] = <<>> /\ \A i \in 1 .. N : visited[i] = Append(visited[i - 1], After1(visited[i - 1], i))
  <2>1. 0 \in 0 .. N /\ \A i \in 1 .. N : i \in 0 .. N /\ i # 0
    BY <1>0
  <2> QED
    BY <1>14, <2>1
<1>17. \A i \in 0 .. N : visited[i] = g[i]
  <2> DEFINE B == {i \in 0 .. N : visited[i] # g[i]}
  <2>1. SUFFICES ASSUME B # {} PROVE FALSE
    OBVIOUS
  <2>2. PICK i \in B : \A m \in B : i <= m
    <3>1. B \in SUBSET Nat
      BY <1>0
    <3> HIDE DEF B
    <3> QED
      BY <2>1, <3>1, LeastNumber
  <2>3. i # 0
    BY <1>11, <1>16, <2>2
  <2>4. i \in 1 .. N /\ i - 1 \in 0 .. N /\ ~(i <= i - 1)
    BY <1>0, <2>2, <2>3
  <2>5. visited[i - 1] = g[i - 1]
    BY <2>2, <2>4
  <2>6. Len(g[i - 1]) + 1 = i
    BY <1>12, <2>4
  <2> QED
    BY <1>11, <1>16, <2>2, <2>4, <2>5, <2>6
<1>18. N \in 0 .. N
  BY <1>0
<1>19. visited[N] \in S /\ Len(visited[N]) = N
  BY <1>11, <1>12, <1>17, <1>18
<1> QED
  BY <1>8, <1>15, <1>19 DEF N, Good, s

-----------------------------------------------------------------------------
\* What the walk visits, and what the tree counts by it.

LEMMA KeysAre ==
  ASSUME NEW t \in Trees, NEW n \in Nodes
  PROVE  t.key[n] \in Int /\ t.key[n] \in Keys \cup {0}
<1>1. t.key[n] \in Keys \cup {0}
  BY DEF Trees
<1>2. \A k \in Keys : k \in Int
  BY TreeAssumption
<1> QED
  BY <1>1, <1>2

\* All orders of one tree agree.
LEMMA SameOrder ==
  ASSUME NEW t, NEW M, NEW v, InPlace(t, M, v), NEW f, NEW K, Ordered(t, M, f, K),
         NEW s \in Sides, NEW x \in M, NEW n \in M, After(v, s, x, n)
  PROVE  Beside(s, f[x], f[n])
<1>0. Shaped(t, M) /\ M \subseteq Nodes
  BY DEF InPlace, Shaped, Linked
<1>1. \A m \in M : f[m] \in Int
  BY <1>0 DEF Ordered
<1>2. Other(s) \in Sides /\ Other(Other(s)) = s /\ (\A d \in Sides : d = s \/ d = Other(s))
      /\ (s = "lh" \/ s = "rh") /\ Other("lh") = "rh" /\ Other("rh") = "lh"
  BY SidesFacts DEF Sides
<1>3. \A m, a \in M, d \in Sides : BelowOn(t, m, a, d) => Beside(d, f[m], f[a])
  BY <1>0, UpOrdered
<1>4. \A m, a \in M : /\ BelowOn(t, m, a, s) => After(v, s, m, a)
                      /\ BelowOn(t, m, a, Other(s)) => After(v, s, a, m)
  BY AfterFacts
<1>5. \A a, b \in M : ~(After(v, s, a, b) /\ After(v, s, b, a)) /\ ~After(v, s, a, a)
  BY AfterFacts
<1>6. \A a, b \in M : Beside(Other(s), f[a], f[b]) <=> Beside(s, f[b], f[a])
  BY <1>2 DEF Beside
<1>7. x # n
  BY <1>5
<1>8. CASE x \in Way(t.parent, n)
  <2>1. PICK d \in Sides : BelowOn(t, n, x, d)
    BY <1>0, <1>7, <1>8, UpFacts
  <2>2. d = Other(s)
    BY <1>2, <1>4, <1>5, <2>1
  <2> QED
    BY <1>3, <1>6, <2>1, <2>2
<1>9. CASE n \in Way(t.parent, x)
  <2>1. PICK d \in Sides : BelowOn(t, x, n, d)
    BY <1>0, <1>7, <1>9, UpFacts
  <2>2. d = s
    BY <1>2, <1>4, <1>5, <2>1
  <2> QED
    BY <1>3, <2>1, <2>2
<1>10. ASSUME NEW c \in M, NEW d \in Sides, BelowOn(t, x, c, d), BelowOn(t, n, c, Other(d))
       PROVE  Beside(s, f[x], f[n])
  <2>1. CASE d = s
    <3>1. Beside(s, f[x], f[c]) /\ Beside(s, f[c], f[n])
      BY <1>2, <1>3, <1>6, <1>10, <2>1
    <3>2. f[x] \in Int /\ f[n] \in Int /\ f[c] \in Int
      BY <1>1
    <3> QED
      BY <3>1, <3>2 DEF Beside
  <2>2. CASE d = Other(s)
    <3>1. After(v, s, c, x) /\ After(v, s, n, c)
      BY <1>2, <1>4, <1>10, <2>2
    <3>2. After(v, s, n, x)
      BY <3>1, AfterFacts
    <3> QED
      BY <1>5, <3>2
  <2> QED
    BY <1>2, <2>1, <2>2
<1> QED
  BY <1>0, <1>8, <1>9, <1>10, Fork

Distinct(t, M) == \A a, b \in M : t.key[a] = t.key[b] => a = b

\* The keys tell the side going forward, where all on the left is less, and both
\* ways where all keys are distinct.
LEMMA KeysTell ==
  ASSUME NEW t, NEW M, Shaped(t, M), NEW K, Ordered(t, M, t.key, K)
  PROVE  /\ Strict(t, M, t.key, K) => Tells(t, M, FALSE)
         /\ Distinct(t, M) => \A back \in BOOLEAN : Tells(t, M, back)
<1>0. t \in Trees /\ M \subseteq Nodes
  BY DEF Shaped, Linked
<1>1. \A n \in M : t.key[n] \in Int
  BY <1>0, KeysAre
<1>2. \A n, a \in M, d \in Sides : BelowOn(t, n, a, d) => Beside(d, t.key[n], t.key[a]) /\ n # a
  BY UpOrdered, UpAndUp
<1>3. ASSUME Strict(t, M, t.key, K), NEW n \in M, NEW a \in M, BelowOn(t, n, a, "lh")
      PROVE  t.key[n] < t.key[a]
  <2>1. K[n] \subseteq K[t.child[a]["lh"]] /\ t.child[a]["lh"] # Nil
    BY <1>3, UpOrdered DEF BelowOn
  <2>2. t.key[n] \in K[n]
    BY DEF Ordered
  <2> QED
    BY <1>3, <2>1, <2>2 DEF Strict
<1>4. ASSUME Strict(t, M, t.key, K) PROVE Tells(t, M, FALSE)
  <2>1. ASSUME NEW n \in M, NEW a \in M, NEW d \in Sides, BelowOn(t, n, a, d)
        PROVE  Passed(FALSE, t.key[a], t.key[n]) <=> d = Ahead(FALSE)
    <3>1. CASE d = "lh"
      <4>1. t.key[n] < t.key[a] /\ t.key[n] \in Int /\ t.key[a] \in Int
        BY <1>1, <1>3, <1>4, <2>1, <3>1
      <4> QED
        BY <3>1, <4>1 DEF Passed, Ahead
    <3>2. CASE d = "rh"
      BY <1>2, <2>1, <3>2 DEF Passed, Ahead, Beside
    <3> QED
      BY <3>1, <3>2 DEF Sides
  <2> QED
    BY <2>1 DEF Tells
<1>5. ASSUME Distinct(t, M), NEW back \in BOOLEAN PROVE Tells(t, M, back)
  <2>1. ASSUME NEW n \in M, NEW a \in M, NEW d \in Sides, BelowOn(t, n, a, d)
        PROVE  Passed(back, t.key[a], t.key[n]) <=> d = Ahead(back)
    <3>1. t.key[n] \in Int /\ t.key[a] \in Int /\ t.key[n] # t.key[a]
          /\ Beside(d, t.key[n], t.key[a]) /\ (d = "lh" \/ d = "rh")
      BY <1>1, <1>2, <1>5, <2>1 DEF Distinct, Sides
    <3> QED
      BY <3>1 DEF Passed, Ahead, Beside
  <2> QED
    BY <2>1 DEF Tells
<1> QED
  BY <1>4, <1>5

LEMMA CountIs ==
  ASSUME NEW t, NEW M, NEW v, InPlace(t, M, v), Tells(t, M, FALSE), Cardinality(M) <= t.count
  PROVE  bt_tree_count(t) = Cardinality(M)
<1> DEFINE w == Traversal(t, FALSE)
           N == Cardinality(M)
           I == {i \in 1 .. t.count + 1 : w[i] # Nil}
<1>0. N \in Nat /\ t.count \in Nat /\ Nil \notin M
  BY TreeAssumption, SidesFacts, RankFacts DEF InPlace, Shaped, Linked, Trees
<1>1. \A i \in 1 .. t.count + 1 : Place(v, Ahead(FALSE), M, i, w[i])
  BY TraversalIs
<1>2. bt_tree_count(t) = Cardinality(I)
  BY DEF bt_tree_count
<1>3. N <= t.count
  OBVIOUS
<1> HIDE DEF w, N
<1>4. \A i \in 1 .. t.count + 1 : w[i] # Nil <=> i <= N
  BY <1>0, <1>1 DEF Place, N
<1>5. I = 1 .. N
  BY <1>0, <1>3, <1>4
<1>6. Cardinality(1 .. N) = N
  BY <1>0, FS_Interval
<1> QED
  BY <1>2, <1>5, <1>6 DEF N

LEMMA CountType ==
  ASSUME NEW t \in Trees
  PROVE  bt_tree_count(t) \in Nat
<1>1. \A w : /\ {i \in 1 .. t.count + 1 : w[i] # Nil} \subseteq 1 .. t.count + 1
             /\ IsFiniteSet(1 .. t.count + 1)
  BY FS_Interval DEF Trees
<1>2. \A w : Cardinality({i \in 1 .. t.count + 1 : w[i] # Nil}) \in Nat
  BY <1>1, FS_Subset, FS_CardinalityType
<1> QED
  BY <1>2 DEF bt_tree_count

LEMMA VisitsAll ==
  ASSUME NEW M, M = Members(tree), NEW v, InPlace(tree, M, v), NEW back \in BOOLEAN,
         Tells(tree, M, back), NEW K, Ordered(tree, M, tree.key, K),
         tree.count = Cardinality(M)
  PROVE  Visits(back)
<1> DEFINE w == Traversal(tree, back)
           s == Ahead(back)
           N == tree.count
           R(m) == Rank(v, s, M, m)
<1>0. s \in Sides /\ N \in Nat /\ M \subseteq Nodes /\ tree \in Trees
  BY DEF Ahead, Sides, InPlace, Shaped, Linked, Trees
<1>1. \A i \in 1 .. N + 1 : Place(v, s, M, i, w[i])
  BY TraversalIs
<1> HIDE DEF w
<1>2. \A i \in 1 .. N : i \in 1 .. N + 1 /\ i <= Cardinality(M)
  BY <1>0
<1>3. \A i \in 1 .. N : w[i] \in M /\ R(w[i]) = i
  BY <1>1, <1>2 DEF Place
<1>4. N + 1 \in 1 .. N + 1 /\ ~(N + 1 <= Cardinality(M))
  BY <1>0
<1>5. w[N + 1] = Nil
  BY <1>1, <1>4 DEF Place
<1>6. \A m \in M : R(m) \in 1 .. N
  BY <1>0, RankFacts
<1>7. \A a, b \in M : R(a) = R(b) => a = b
  BY <1>0, RankFacts
<1>8. \A a, b \in M : After(v, s, a, b) => R(b) < R(a)
  BY <1>0, RankFacts
<1>9. \A a, b \in M : a = b \/ After(v, s, a, b) \/ After(v, s, b, a)
  BY <1>0, AfterFacts
<1> HIDE DEF R
<1>10. \A m \in M : w[R(m)] = m
  BY <1>3, <1>6, <1>7
<1>11. {w[i] : i \in 1 .. N} = M
  BY <1>3, <1>6, <1>10
<1>12. ASSUME NEW i \in 2 .. N, Passed(back, tree.key[w[i]], tree.key[w[i - 1]])
       PROVE  tree.key[w[i]] = tree.key[w[i - 1]]
  <2> DEFINE a == w[i]
             b == w[i - 1]
  <2>1. i \in 1 .. N /\ i - 1 \in 1 .. N /\ i # i - 1 /\ ~(i < i - 1)
    BY <1>0
  <2>2. a \in M /\ b \in M /\ R(a) = i /\ R(b) = i - 1
    BY <1>3, <2>1
  <2> HIDE DEF a, b
  <2>3. After(v, s, a, b)
    BY <1>8, <1>9, <2>1, <2>2
  <2>4. Beside(s, tree.key[a], tree.key[b])
    BY <1>0, <2>2, <2>3, SameOrder
  <2>5. tree.key[a] \in Int /\ tree.key[b] \in Int
    BY <1>0, <2>2, KeysAre
  <2>6. Passed(back, tree.key[a], tree.key[b])
    BY <1>12 DEF a, b
  <2>7. tree.key[a] = tree.key[b]
    BY <2>4, <2>5, <2>6 DEF Beside, Passed, Ahead
  <2> QED
    BY <2>7 DEF a, b
<1> QED
  BY <1>5, <1>11, <1>12 DEF Visits, w

-----------------------------------------------------------------------------
\* Balancing a tree that a removal has left with any colours.

LEMMA RecolouredIs ==
  ASSUME NEW t \in Trees, NEW p \in Nodes, NEW c \in Nodes, NEW g \in Nodes
  PROVE  LET u == Recoloured(t, p, c, g)
         IN  /\ u \in Trees /\ u.root = t.root /\ u.child = t.child /\ u.parent = t.parent
             /\ u.count = t.count /\ u.key = t.key /\ u.data = t.data
BY DEF Trees, Recoloured

LEMMA MendTurns ==
  ASSUME NEW o, NEW M, NEW at, Turned(at.tree, o, M), at.node \in M
  PROVE  Turned(Mend(at).tree, o, M) /\ Mend(at).node \in M
<1> DEFINE t == at.tree
           n == at.node
           p == t.parent[n]
           g == t.parent[p]
           s == IF p = t.child[g]["lh"] THEN "lh" ELSE "rh"
           c == t.child[g][Other(s)]
           q == t.child[p][Other(s)]
<1>0. /\ t \in Trees /\ Shaped(t, M) /\ Linked(t, M) /\ M \subseteq Nodes /\ Nil \notin Nodes
      /\ n \in M
  BY TreeAssumption DEF Turned, Shaped, Linked
<1>1. CASE Settled(t, n)
  BY <1>0, <1>1 DEF Mend
<1>2. CASE ~Settled(t, n)
  <2>1. n # t.root /\ Red(t, p) /\ p # Nil /\ g # Nil
    BY <1>2 DEF Settled, Red
  <2>2. p \in M /\ \E d \in Sides : t.child[p][d] = n
    BY <1>0, <2>1 DEF Linked
  <2>3. p # t.root
    BY <1>0, <2>1 DEF Linked
  <2>4. g \in M /\ \E d \in Sides : t.child[g][d] = p
    BY <1>0, <2>2, <2>3 DEF Linked
  <2>5. s \in Sides /\ Other(s) \in Sides /\ Other(Other(s)) = s /\ t.child[g][s] = p
        /\ \A d \in Sides : d = s \/ d = Other(s)
    <3>1. s \in Sides /\ t.child[g][s] = p
      <4> HIDE DEF p, g
      <4> QED
        BY <2>4 DEF Sides
    <3> HIDE DEF s
    <3> QED
      BY <3>1, SidesFacts
  <2>6. c # Nil => c \in M
    BY <1>0, <2>4, <2>5 DEF Linked
  <2>7. Mend(at) = IF Red(t, c) THEN [tree |-> Recoloured(t, p, c, g), node |-> g]
                   ELSE IF n = t.child[p][s] THEN [tree |-> Raised(t, p, g, s), node |-> n]
                   ELSE [tree |-> Raised(Rotate(t, p, s), n, g, s), node |-> p]
    BY <1>2 DEF Mend
  <2> HIDE DEF t, n, p, g, s, c
  <2>8. CASE Red(t, c)
    <3>1. c \in Nodes /\ p \in Nodes /\ g \in Nodes
      BY <1>0, <2>2, <2>4, <2>6, <2>8 DEF Red
    <3>2. Turned(Recoloured(t, p, c, g), t, M)
      BY <1>0, <3>1, RecolouredIs, Repainted
    <3>3. Turned(Recoloured(t, p, c, g), o, M)
      BY <3>2, TurnedFacts DEF t
    <3> QED
      BY <2>4, <2>7, <2>8, <3>3
  <2>9. CASE ~Red(t, c) /\ n = t.child[p][s]
    <3>1. Raising(Raised(t, p, g, s), t, M, g, s, p, t.parent[g], t.child[p][Other(s)])
      BY <1>0, <2>1, <2>4, <2>5, RaisedIs
    <3>2. Turned(Raised(t, p, g, s), o, M)
      BY <3>1, TurnedFacts DEF Raising, t
    <3> QED
      BY <1>0, <2>7, <2>9, <3>2
  <2>10. CASE ~Red(t, c) /\ n # t.child[p][s]
    <3> DEFINE r == Rotate(t, p, s)
    <3>1. t.child[p][Other(s)] = n /\ n # Nil
      BY <1>0, <2>2, <2>5, <2>10
    <3>2. Turned(r, t, M) /\ Near(t, M, p, s, n, g, t.child[n][s])
          /\ Rotation(r, t, p, s, n, g, t.child[n][s])
      <4>1. Turned(r, t, M) /\ Near(t, M, p, s, t.child[p][Other(s)], t.parent[p], t.child[t.child[p][Other(s)]][s])
            /\ Rotation(r, t, p, s, t.child[p][Other(s)], t.parent[p], t.child[t.child[p][Other(s)]][s])
        BY <1>0, <2>2, <2>5, <3>1, RotateTurns
      <4> QED
        BY <3>1, <4>1 DEF g
    <3> HIDE DEF r
    <3>3. r.child[g][s] = n
      <4>1. g # p /\ g # n /\ g \in Nodes
        BY <1>0, <2>4, <3>2 DEF Near
      <4> QED
        BY <2>5, <3>2, <4>1 DEF Rotation
    <3>4. Shaped(r, M)
      BY <3>2 DEF Turned
    <3>5. Raising(Raised(r, n, g, s), r, M, g, s, n, r.parent[g], r.child[n][Other(s)])
      BY <2>4, <2>5, <3>1, <3>3, <3>4, RaisedIs
    <3>6. Turned(Raised(r, n, g, s), o, M)
      BY <3>2, <3>5, TurnedFacts DEF Raising, t
    <3> QED
      BY <2>2, <2>7, <2>10, <3>6 DEF r
  <2> QED
    BY <2>8, <2>9, <2>10
<1> QED
  BY <1>1, <1>2

LEMMA BalanceTurns ==
  ASSUME NEW o, NEW M, NEW t, NEW n \in M, Turned(t, o, M)
  PROVE  Turned(rb_tree_balance(t, n), o, M)
<1> DEFINE N == Cardinality(Nodes)
           Good(at) == Turned(at.tree, o, M) /\ at.node \in M
           S == {at \in [tree : Trees, node : Nodes] : Good(at)}
           f == [at \in S |-> Mend(at)]
           x == [tree |-> t, node |-> n]
           Is(g) == g = [i \in 0 .. N |-> IF i = 0 THEN x ELSE Mend(g[i - 1])]
           w == CHOOSE g : Is(g)
<1>1. N \in Nat /\ M \subseteq Nodes /\ Nil \notin Nodes /\ t \in Trees
  BY FS_CardinalityType, TreeAssumption DEF Turned, Shaped, Linked
<1>2. ASSUME NEW at \in S PROVE Mend(at) \in S
  <2>1. Good(at)
    OBVIOUS
  <2>2. Good(Mend(at))
    <3> HIDE DEF S
    <3> QED
      BY <2>1, MendTurns
  <2>3. Mend(at) = [tree |-> Mend(at).tree, node |-> Mend(at).node]
    <3>1. at = [tree |-> at.tree, node |-> at.node]
      OBVIOUS
    <3> HIDE DEF S
    <3> QED
      BY <3>1 DEF Mend
  <2>4. Mend(at).tree \in Trees /\ Mend(at).node \in Nodes
    BY <1>1, <2>2 DEF Turned, Shaped
  <2>5. Mend(at) \in [tree : Trees, node : Nodes]
    BY <2>3, <2>4
  <2> HIDE DEF Good
  <2> QED
    BY <2>2, <2>5
<1>3. x \in S
  BY <1>1
<1>4. f \in [S -> S] /\ \A at \in S : f[at] = Mend(at)
  <2> HIDE DEF S
  <2> QED
    BY <1>2
<1>5. \A at \in S : Turned(at.tree, o, M)
  OBVIOUS
<1> HIDE DEF f, x, S, N
<1>6. PICK g : Iteration(g, S, x, f, N)
  BY <1>1, <1>3, <1>4, Iterated
<1>7. \A i \in 0 .. N : i # 0 => i \in 1 .. N /\ i - 1 \in 0 .. N
  BY <1>1
<1>8. g \in [0 .. N -> S] /\ g[0] = x /\ \A i \in 1 .. N : g[i] = f[g[i - 1]]
  BY <1>6 DEF Iteration
<1>9. Is(g)
  <2>1. \A i \in 0 .. N : i # 0 => g[i] = Mend(g[i - 1])
    BY <1>4, <1>7, <1>8
  <2> QED
    BY <1>8, <2>1
<1>10. Is(w)
  <2> HIDE DEF Is
  <2> QED
    BY <1>9
<1>11. Mended(t, n) = w[N].tree
  BY DEF Mended, N, x
<1> HIDE DEF w
<1>12. w[0] = x /\ \A i \in 1 .. N : w[i] = Mend(w[i - 1])
  <2>1. 0 \in 0 .. N /\ \A i \in 1 .. N : i \in 0 .. N /\ i # 0
    BY <1>1
  <2> QED
    BY <1>10, <2>1
<1> DEFINE B == {i \in 0 .. N : w[i] \notin S}
<1>13. B = {}
  <2>1. SUFFICES ASSUME B # {} PROVE FALSE
    OBVIOUS
  <2>2. PICK i \in B : \A m \in B : i <= m
    <3>1. B \in SUBSET Nat
      BY <1>1
    <3> HIDE DEF B
    <3> QED
      BY <2>1, <3>1, LeastNumber
  <2>3. i # 0
    BY <1>3, <1>12, <2>2
  <2>4. i \in 1 .. N /\ i - 1 \in 0 .. N /\ ~(i <= i - 1)
    BY <1>1, <2>2, <2>3
  <2>5. w[i - 1] \in S
    BY <2>2, <2>4
  <2> QED
    BY <1>2, <1>12, <2>2, <2>4, <2>5
<1>14. N \in 0 .. N
  BY <1>1
<1>15. Turned(Mended(t, n), o, M)
  BY <1>5, <1>11, <1>13, <1>14
<1> DEFINE m == Mended(t, n)
           u == [m EXCEPT !.colour[m.root] = "black"]
<1>16. u = rb_tree_balance(t, n)
  BY DEF rb_tree_balance
<1> HIDE DEF m
<1>17. m \in Trees /\ Shaped(m, M) /\ m.root \in Nodes
  BY <1>1, <1>15 DEF Turned, Shaped, Linked, m
<1>18. Painted(u, m, m.root, m.root, Nil)
  BY <1>17, PaintOne
<1> HIDE DEF u
<1>19. Turned(u, m, M)
  BY <1>17, <1>18, Repainted DEF Painted
<1> QED
  BY <1>15, <1>16, <1>19, TurnedFacts DEF m

-----------------------------------------------------------------------------
\* What holds of a tree t of the nodes M at all times.

Sorted(t, M, strictly) == InOrder(t, M, t.key, strictly)
Placed(t, M)  == \E v : InPlace(t, M, v)
Counted(t, M) == t.count = Cardinality(M)
Painting(t, M) ==
  NoTwoReds(t, M, Nil) /\ (\E b : Balanced(t, M, b)) /\ (Red(t, t.root) => M = {t.root})

Sound(t, M, kind, tw, pr) ==
  /\ Shaped(t, M) /\ Sorted(t, M, kind = "none") /\ Placed(t, M)
  /\ ~tw => Distinct(t, M)
  /\ ~pr \/ ~tw \/ kind = "none" => Counted(t, M)
  /\ kind = "rb" /\ ~pr => Painting(t, M)

\* What an insertion puts in.
Holds(u, t, M, n, k, d) ==
  /\ u.key[n] = k /\ u.data[n] = d
  /\ \A z \in M : u.key[z] = t.key[z] /\ u.data[z] = t.data[z]

LEMMA HungPlaced ==
  ASSUME NEW t, NEW M, Placed(t, M), NEW n \in Nodes \ M, NEW p \in M, NEW s \in Sides,
         NEW k, NEW d, t.child[p][s] = Nil, NEW v, Hung(v, t, n, k, d, p, s)
  PROVE  Placed(v, M \cup {n})
<1>1. PICK f : InPlace(t, M, f)
  BY DEF Placed
<1>2. PICK K : Ordered(t, M, f, K)
  BY <1>1 DEF InPlace
<1>3. /\ Shaped(t, M) /\ M \subseteq Nodes /\ n \in Nodes /\ n \notin M /\ p \in Nodes
      /\ \A a, b \in M : f[a] = f[b] => a = b
  BY <1>1 DEF InPlace, Shaped, Linked
<1>4. \A m \in M : f[m] \in Int /\ f[m] \in K[m]
  BY <1>2, <1>3 DEF Ordered
<1> DEFINE x == IF s = "lh" THEN 2 * f[p] - 1 ELSE 2 * f[p] + 1
           g == [m \in Nodes |-> 2 * f[m]]
           e == [m \in Nodes |-> IF m = n THEN x ELSE 2 * f[m]]
           G == [m \in Nodes |-> {2 * i : i \in K[m]}]
<1>5. x \in Int /\ e[n] = x /\ \A m \in M : e[m] = 2 * f[m] /\ g[m] = 2 * f[m]
  BY <1>3, <1>4
<1>6. Ordered(t, M, g, G)
  <2>1. G \in [Nodes -> SUBSET Int]
    BY <1>2 DEF Ordered
  <2>2. \A m \in M : g[m] \in G[m]
    BY <1>3, <1>4
  <2>3. ASSUME NEW m \in M, NEW q \in Sides, t.child[m][q] # Nil
        PROVE  G[t.child[m][q]] \subseteq G[m] /\ \A j \in G[t.child[m][q]] : Beside(q, j, g[m])
    <3> DEFINE c == t.child[m][q]
    <3>1. c \in M
      BY <1>3, <2>3 DEF Shaped, Linked
    <3>2. K[c] \subseteq K[m] /\ \A i \in K[c] : Beside(q, i, f[m])
      BY <1>2, <2>3 DEF Ordered
    <3>3. K[c] \subseteq Int
      BY <1>2, <1>3, <3>1 DEF Ordered
    <3>4. G[c] = {2 * i : i \in K[c]} /\ G[m] = {2 * i : i \in K[m]}
      BY <1>3, <3>1
    <3> HIDE DEF c, G, g
    <3>5. G[c] \subseteq G[m]
      BY <3>2, <3>4
    <3>6. ASSUME NEW j \in G[c] PROVE Beside(q, j, g[m])
      <4>1. PICK i \in K[c] : j = 2 * i
        BY <3>4
      <4>2. i \in Int /\ f[m] \in Int /\ Beside(q, i, f[m]) /\ g[m] = 2 * f[m]
        BY <1>4, <1>5, <3>2, <3>3
      <4> QED
        BY <4>1, <4>2 DEF Beside
    <3> QED
      BY <3>5, <3>6 DEF c
  <2> HIDE DEF G, g
  <2> QED
    BY <2>1, <2>2, <2>3 DEF Ordered
<1> HIDE DEF e, g, G
<1>7. Beside(s, x, g[p])
  BY <1>4, <1>5 DEF Beside, Sides
<1>8. ASSUME NEW a \in M, NEW q \in Sides, BelowOn(t, p, a, q) PROVE Beside(q, x, g[a])
  <2>1. After(f, q, p, a)
    BY <1>1, <1>8, AfterFacts
  <2>2. f[p] \in Int /\ f[a] \in Int /\ f[p] # f[a] /\ Beside(q, f[p], f[a])
    BY <1>3, <1>4, <2>1 DEF After
  <2>3. g[a] = 2 * f[a]
    BY <1>5
  <2> QED
    BY <2>2, <2>3 DEF Beside
<1>9. InOrder(v, M \cup {n}, e, FALSE)
  <2>1. Extended(e, g, M, n, x)
    BY <1>5 DEF Extended
  <2>2. Fits(t, M, g, p, s, x)
    BY <1>5, <1>7, <1>8 DEF Fits
  <2>3. InOrder(t, M, g, FALSE)
    BY <1>6 DEF InOrder
  <2> HIDE DEF x
  <2> QED
    BY <1>3, <2>1, <2>2, <2>3, HungOrdered
<1>10. Shaped(v, M \cup {n})
  BY <1>3, HungShaped
<1>11. ASSUME NEW a \in M, NEW b \in M \cup {n}, e[a] = e[b] PROVE a = b
  <2>1. e[a] = 2 * f[a] /\ f[a] \in Int /\ f[p] \in Int
    <3> HIDE DEF x
    <3> QED
      BY <1>4, <1>5
  <2>2. b # n
    <3>1. SUFFICES ASSUME b = n PROVE FALSE
      OBVIOUS
    <3>2. 2 * f[a] = x
      BY <1>5, <1>11, <2>1, <3>1
    <3>3. 2 * f[a] = 2 * f[p] - 1 \/ 2 * f[a] = 2 * f[p] + 1
      BY <3>2
    <3> QED
      BY <2>1, <3>3, Z3
  <2>3. e[b] = 2 * f[b] /\ f[b] \in Int /\ b \in M
    <3> HIDE DEF x
    <3> QED
      BY <1>4, <1>5, <2>2
  <2>4. f[a] = f[b]
    <3> HIDE DEF x
    <3>1. 2 * f[a] = 2 * f[b]
      BY <1>11, <2>1, <2>3
    <3> QED
      BY <2>1, <2>3, <3>1
  <2> QED
    BY <1>3, <2>3, <2>4
<1>12. \A a, b \in M \cup {n} : e[a] = e[b] => a = b
  BY <1>11
<1> QED
  BY <1>9, <1>10, <1>12 DEF Placed, InPlace, InOrder

\* A tree of one node.
Alone(u, n, k, d, c) ==
  /\ u \in Trees /\ u.root = n /\ u.count = c /\ u.key[n] = k /\ u.data[n] = d
  /\ u.parent[n] = Nil /\ \A e \in Sides : u.child[n][e] = Nil

LEMMA LeafAlone ==
  ASSUME NEW t \in Trees, NEW n \in Nodes, NEW k \in Keys, NEW d \in Data \cup {Nil}
  PROVE  Alone([Filling(t, n, k, d) EXCEPT !.root = n], n, k, d, t.count + 1)
<1> DEFINE u == Filling(t, n, k, d)
<1>1. /\ u \in Trees /\ u.count = t.count + 1 /\ u.key[n] = k /\ u.data[n] = d
      /\ u.parent[n] = Nil /\ \A e \in Sides : u.child[n][e] = Nil
  BY FilledIs
<1> HIDE DEF u
<1> QED
  BY <1>1 DEF Trees, Alone, u

LEMMA AloneSound ==
  ASSUME NEW n \in Nodes, NEW k \in Int, NEW d, NEW c, NEW u, Alone(u, n, k, d, c), c = 1,
         NEW kind, NEW tw, NEW pr
  PROVE  Sound(u, {n}, kind, tw, pr)
<1> DEFINE M == {n}
<1>1. /\ u \in Trees /\ u.root = n /\ u.count = 1 /\ u.key[n] = k
      /\ u.parent[n] = Nil /\ \A e \in Sides : u.child[n][e] = Nil
  BY DEF Alone
<1>2. Nil \notin Nodes /\ n # Nil
  BY TreeAssumption
<1>3. Linked(u, M)
  BY <1>1, <1>2 DEF Linked, Sides
<1>4. Down(u, M, [m \in Nodes |-> 0])
  BY <1>1 DEF Down
<1>5. Shaped(u, M)
  BY <1>1, <1>3, <1>4 DEF Shaped
<1> DEFINE K == [m \in Nodes |-> {k}]
<1>6. Ordered(u, M, u.key, K) /\ Strict(u, M, u.key, K)
  BY <1>1, SidesFacts DEF Ordered, Strict
<1>7. Sorted(u, M, kind = "none")
  BY <1>6 DEF Sorted, InOrder
<1>8. Placed(u, M)
  BY <1>5, <1>6 DEF Placed, InPlace
<1>9. Distinct(u, M) /\ Counted(u, M)
  BY <1>1, FS_Singleton DEF Distinct, Counted
<1>10. NoTwoReds(u, M, Nil) /\ (Red(u, u.root) => M = {u.root})
  BY <1>1 DEF NoTwoReds, Red
<1>11. Balanced(u, M, [m \in Nodes |-> 0])
  BY <1>1 DEF Balanced, Height
<1>12. Painting(u, M)
  BY <1>10, <1>11 DEF Painting
<1> QED
  BY <1>5, <1>7, <1>8, <1>9, <1>12 DEF Sound

\* Balancing leaves a tree sorted, in its places and of as many nodes.
LEMMA TurnedSound ==
  ASSUME NEW t, NEW M, NEW u, Turned(u, t, M), Sorted(t, M, FALSE), Placed(t, M)
  PROVE  /\ Shaped(u, M) /\ Sorted(u, M, FALSE) /\ Placed(u, M)
         /\ Distinct(t, M) => Distinct(u, M)
         /\ Counted(t, M) => Counted(u, M)
<1>1. Shaped(u, M) /\ u.key = t.key /\ u.count = t.count
  BY DEF Turned
<1>2. Sorted(u, M, FALSE)
  BY <1>1 DEF Turned, Sorted, InOrder
<1>3. Placed(u, M)
  <2>1. PICK v : InPlace(t, M, v)
    BY DEF Placed
  <2>2. \E L : Ordered(u, M, v, L)
    BY <2>1 DEF Turned, InPlace
  <2> QED
    BY <1>1, <2>1, <2>2 DEF Placed, InPlace
<1> QED
  BY <1>1, <1>2, <1>3 DEF Distinct, Counted

LEMMA InsertSound ==
  ASSUME NEW t, NEW M, NEW tw, NEW pr \in BOOLEAN, tw \in BOOLEAN, balancing \in {"none", "rb"},
         Sound(t, M, balancing, tw, pr),
         NEW n \in Nodes \ M, NEW k \in Keys, NEW d \in Data \cup {Nil},
         NEW keyed, keyed <=> \E m \in M : t.key[m] = k
  PROVE  LET u == bt_tree_insert(t, n, k, d)
         IN  /\ Sound(u, M \cup {n}, balancing, tw \/ keyed, pr)
             /\ Holds(u, t, M, n, k, d)
<1> DEFINE u == bt_tree_insert(t, n, k, d)
           f == Filling(t, n, k, d)
           p == Hook(t, k)
           s == Side(t, p, k)
           v == [f EXCEPT !.parent[n] = p, !.child[p][s] = n]
           L == M \cup {n}
<1>0. /\ t \in Trees /\ Shaped(t, M) /\ Linked(t, M) /\ M \subseteq Nodes /\ Nil \notin Nodes
      /\ n \in Nodes /\ n \notin M /\ k \in Int
  BY TreeAssumption DEF Sound, Shaped, Linked
<1>1. u = IF t.root = Nil THEN [f EXCEPT !.root = n]
          ELSE IF balancing = "rb" THEN rb_tree_balance(v, n) ELSE v
  BY DEF bt_tree_insert, Filling
<1> HIDE DEF u, f
<1>2. /\ IsFiniteSet(M) /\ Cardinality(L) = Cardinality(M) + 1
  <2>1. IsFiniteSet(M)
    BY <1>0, TreeAssumption, FS_Subset
  <2> QED
    BY <1>0, <2>1, FS_AddElement
<1>3. CASE t.root = Nil
  <2>1. M = {}
    BY <1>0, <1>3 DEF Linked
  <2>2. u = [f EXCEPT !.root = n]
    BY <1>1, <1>3
  <2>3. Alone(u, n, k, d, t.count + 1)
    BY <1>0, <2>2, LeafAlone DEF f
  <2>4. Holds(u, t, M, n, k, d)
    BY <2>1, <2>3 DEF Alone, Holds
  <2>5. keyed = FALSE \/ ~keyed
    BY <2>1
  <2>6. CASE t.count = 0
    <3>1. Sound(u, {n}, balancing, tw \/ keyed, pr)
      BY <1>0, <2>3, <2>6, AloneSound
    <3> QED
      BY <2>1, <2>4, <3>1 DEF u
  <2>7. CASE t.count # 0
    <3>1. ~(~pr \/ ~tw \/ balancing = "none")
      BY <2>1, <2>7, FS_EmptySet DEF Sound, Counted
    <3>2. Alone([u EXCEPT !.count = 1], n, k, d, 1)
      BY <2>3 DEF Alone, Trees
    <3> DEFINE w == [u EXCEPT !.count = 1]
    <3>3. Sound(w, {n}, balancing, tw \/ keyed, pr)
      BY <1>0, <3>2, AloneSound
    <3>4. /\ w.root = u.root /\ w.key = u.key /\ w.child = u.child /\ w.parent = u.parent
          /\ u \in Trees
      BY <2>3 DEF Alone, Trees
    <3> HIDE DEF w
    <3>5. Shaped(u, {n})
      BY <3>3, <3>4 DEF Sound, Shaped, Linked, Down
    <3>6. Sorted(u, {n}, balancing = "none")
      BY <3>1, <3>3, <3>4 DEF Sound, Sorted, InOrder, Ordered
    <3>7. Placed(u, {n})
      BY <3>3, <3>4, <3>5 DEF Sound, Placed, InPlace, Ordered
    <3>8. Sound(u, {n}, balancing, tw \/ keyed, pr)
      BY <3>1, <3>5, <3>6, <3>7 DEF Sound
    <3> QED
      BY <2>1, <2>4, <3>8 DEF u
  <2> QED
    BY <2>6, <2>7
<1>4. CASE t.root # Nil
  <2>1. /\ p \in M /\ s \in Sides /\ t.child[p][s] = Nil
        /\ \A a \in M, q \in Sides : BelowOn(t, p, a, q) => q = Side(t, a, k)
    BY <1>0, <1>4, HookIs
  <2> HIDE DEF p
  <2>2. p \in Nodes /\ n # p
    BY <1>0, <2>1
  <2>3. \A a \in M : t.key[a] \in Int
    BY <1>0, KeysAre
  <2>4. \A a \in M : /\ Side(t, a, k) = "lh" => k < t.key[a]
                     /\ Beside(Side(t, a, k), k, t.key[a])
    BY <1>0, <2>3 DEF Side, Beside
  <2>5. /\ Beside(s, k, t.key[p]) /\ (s = "lh" => k < t.key[p])
        /\ \A a \in M, q \in Sides : BelowOn(t, p, a, q) =>
             Beside(q, k, t.key[a]) /\ (q = "lh" => k < t.key[a])
    BY <2>1, <2>4
  <2> HIDE DEF s
  <2>6. Hung(v, t, n, k, d, p, s)
    BY <1>0, <2>1, <2>2, LeafHung DEF f
  <2> HIDE DEF v
  <2>7. Shaped(v, L)
    BY <1>0, <2>1, <2>6, HungShaped
  <2>8. /\ v.key[n] = k /\ v.data[n] = d /\ v.count = t.count + 1 /\ t.count \in Nat
        /\ \A m \in M : v.key[m] = t.key[m] /\ v.data[m] = t.data[m]
    BY <1>0, <2>6 DEF Hung, Trees
  <2>9. Sorted(v, L, balancing = "none")
    <3>1. InOrder(t, M, t.key, balancing = "none")
      BY DEF Sound, Sorted
    <3>2. Extended(v.key, t.key, M, n, k)
      BY <2>8 DEF Extended
    <3>3. Fits(t, M, t.key, p, s, k)
      BY <1>0, <2>5 DEF Fits
    <3>4. FitsStrictly(t, M, t.key, p, s, k)
      BY <2>5, SidesFacts DEF FitsStrictly
    <3>5. InOrder(v, M \cup {n}, v.key, balancing = "none")
      BY <1>0, <2>1, <2>6, <3>1, <3>2, <3>3, <3>4, HungOrdered
    <3> QED
      BY <3>5 DEF Sorted
  <2>10. Placed(v, L)
    BY <1>0, <2>1, <2>6, HungPlaced DEF Sound
  <2>11. ~(tw \/ keyed) => Distinct(v, L)
    BY <2>8 DEF Sound, Distinct
  <2>12. ~pr \/ ~(tw \/ keyed) \/ balancing = "none" => Counted(v, L)
    BY <1>2, <2>8 DEF Sound, Counted
  <2>13. Sorted(v, L, FALSE)
    BY <2>9 DEF Sorted, InOrder
  <2>14. CASE balancing # "rb"
    <3>1. u = v
      BY <1>1, <1>4, <2>14 DEF v, s, p
    <3>2. Sound(v, L, balancing, tw \/ keyed, pr)
      BY <2>7, <2>9, <2>10, <2>11, <2>12, <2>14 DEF Sound
    <3>3. Holds(v, t, M, n, k, d)
      BY <2>8 DEF Holds
    <3> QED
      BY <3>1, <3>2, <3>3 DEF u
  <2>15. CASE balancing = "rb"
    <3>1. u = rb_tree_balance(v, n)
      BY <1>1, <1>4, <2>15 DEF v, s, p
    <3>2. Turned(v, v, L) /\ n \in L
      BY <2>7, TurnedFacts
    <3>3. Turned(u, v, L)
      BY <3>1, <3>2, BalanceTurns
    <3>4. ~pr => Painting(u, L)
      <4>1. SUFFICES ASSUME ~pr PROVE Painting(u, L)
        OBVIOUS
      <4>2. Painting(t, M)
        BY <2>15, <4>1 DEF Sound
      <4>3. PICK b : Balanced(t, M, b)
        BY <4>2 DEF Painting
      <4>4. Mid(v, L, n)
        BY <1>0, <2>1, <2>6, <4>2, <4>3, HungMid DEF Painting
      <4>5. Coloured(u, L)
        BY <3>1, <3>2, <4>4, BalanceKeeps
      <4> QED
        BY <4>5 DEF Coloured, Painting
    <3>5. /\ Shaped(u, L) /\ Sorted(u, L, FALSE) /\ Placed(u, L)
          /\ (Distinct(v, L) => Distinct(u, L)) /\ (Counted(v, L) => Counted(u, L))
      BY <2>10, <2>13, <3>3, TurnedSound
    <3>6. Sound(u, L, balancing, tw \/ keyed, pr)
      <4>1. Sorted(u, L, balancing = "none")
        BY <2>15, <3>5 DEF Sorted
      <4> QED
        BY <2>11, <2>12, <2>15, <3>4, <3>5, <4>1 DEF Sound
    <3>7. Holds(u, t, M, n, k, d)
      BY <2>8, <3>3 DEF Holds, Turned
    <3> QED
      BY <3>6, <3>7 DEF u
  <2> QED
    BY <2>14, <2>15
<1> QED
  BY <1>3, <1>4

-----------------------------------------------------------------------------
\* What a removal leaves.

\* Only the values of the nodes of the tree matter.
LEMMA SameOn ==
  ASSUME NEW t, NEW M, Shaped(t, M), NEW v, NEW w, \A m \in M : w[m] = v[m]
  PROVE  /\ \A strictly \in BOOLEAN : InOrder(t, M, v, strictly) => InOrder(t, M, w, strictly)
         /\ InPlace(t, M, v) => InPlace(t, M, w)
<1>1. \A K : Ordered(t, M, v, K) => Ordered(t, M, w, K)
  BY DEF Ordered
<1>2. \A K : Strict(t, M, v, K) => Strict(t, M, w, K)
  BY DEF Strict
<1> QED
  BY <1>1, <1>2 DEF InOrder, InPlace

\* n is taken out of the tree, or x is, and n gets what x held.
Removed(u, t, M, n, x) ==
  /\ n \in M /\ x \in M
  /\ \A m \in M \ {n, x} : u.key[m] = t.key[m] /\ u.data[m] = t.data[m]
  /\ x # n => u.key[n] = t.key[x] /\ u.data[n] = t.data[x]

LEMMA SwappedIs ==
  ASSUME NEW t \in Trees, NEW n \in Nodes, NEW r \in Nodes, n # r
  PROVE  LET u == Swapped(t, n, r)
         IN  /\ u \in Trees /\ u.root = t.root /\ u.count = t.count
             /\ u.child = t.child /\ u.parent = t.parent /\ u.colour = t.colour
             /\ u.key[n] = t.key[r] /\ u.data[n] = t.data[r]
             /\ \A m \in Nodes \ {n, r} : u.key[m] = t.key[m] /\ u.data[m] = t.data[m]
<1> DEFINE u == Swapped(t, n, r)
           key == [t.key EXCEPT ![n] = t.key[r], ![r] = t.key[n]]
           data == [t.data EXCEPT ![n] = t.data[r], ![r] = t.data[n]]
<1>1. key \in [Nodes -> Keys \cup {0}] /\ key[n] = t.key[r] /\ \A m \in Nodes \ {n, r} : key[m] = t.key[m]
  BY DEF Trees
<1>2. data \in [Nodes -> Data \cup {Nil}] /\ data[n] = t.data[r]
      /\ \A m \in Nodes \ {n, r} : data[m] = t.data[m]
  BY DEF Trees
<1>3. u = [t EXCEPT !.key = key, !.data = data]
  BY DEF Swapped, Trees
<1> HIDE DEF u, key, data
<1>4. /\ u \in Trees /\ u.root = t.root /\ u.count = t.count /\ u.child = t.child
      /\ u.parent = t.parent /\ u.colour = t.colour /\ u.key = key /\ u.data = data
  BY <1>1, <1>2, <1>3 DEF Trees
<1> QED
  BY <1>1, <1>2, <1>4 DEF u

\* A node with less than two children is cut out.
LEMMA CutOut ==
  ASSUME NEW t, NEW M, Shaped(t, M), Placed(t, M), NEW strictly \in BOOLEAN, Sorted(t, M, strictly),
         NEW n \in M, NEW s \in Sides, t.child[n][s] = Nil
  PROVE  LET u == Unlinked(t, n)
         IN  /\ Shaped(u, M \ {n}) /\ Placed(u, M \ {n}) /\ Sorted(u, M \ {n}, strictly)
             /\ u.count = t.count /\ Removed(u, t, M, n, n)
<1> DEFINE u == Unlinked(t, n)
           p == t.parent[n]
           c == t.child[n][Other(s)]
<1>1. Cut(u, t, M, n, p, c)
  BY UnlinkedIs
<1> HIDE DEF u
<1>2. Shaped(u, M \ {n})
  BY <1>1, CutShaped
<1>3. \A v, K : Ordered(t, M, v, K) =>
        Ordered(u, M \ {n}, v, K) /\ (Strict(t, M, v, K) => Strict(u, M \ {n}, v, K))
  <2> HIDE DEF p, c
  <2>1. p = t.parent[n] /\ c = t.child[n][Other(s)]
    BY DEF p, c
  <2> QED
    BY <1>1, <2>1, CutOrdered
<1>4. u.count = t.count /\ u.key = t.key /\ u.data = t.data
  BY <1>1 DEF Cut, SameNodes
<1>5. Sorted(u, M \ {n}, strictly)
  BY <1>3, <1>4 DEF Sorted, InOrder
<1>6. Placed(u, M \ {n})
  BY <1>2, <1>3 DEF Placed, InPlace
<1> QED
  BY <1>2, <1>4, <1>5, <1>6 DEF Removed, u

\* Of a node with two the successor is cut out.
LEMMA MovedOut ==
  ASSUME NEW t, NEW M, Shaped(t, M), Placed(t, M), NEW strictly \in BOOLEAN, Sorted(t, M, strictly),
         NEW n \in M, t.child[n]["rh"] # Nil
  PROVE  LET r == Successor(t, n)
             u == Unlinked(Swapped(t, n, r), r)
         IN  /\ Shaped(u, M \ {r}) /\ Placed(u, M \ {r}) /\ Sorted(u, M \ {r}, strictly)
             /\ u.count = t.count /\ Removed(u, t, M, n, r)
<1> DEFINE r == Successor(t, n)
           R == t.child[n]["rh"]
           w == Swapped(t, n, r)
           u == Unlinked(w, r)
           p == w.parent[r]
           c == w.child[r]["rh"]
           L == M \ {r}
<1>0. /\ t \in Trees /\ M \subseteq Nodes /\ "lh" \in Sides /\ Other("lh") = "rh" /\ "rh" \in Sides
  BY SidesFacts DEF Shaped, Linked
<1>1. r \in M /\ r # n /\ t.child[r]["lh"] = Nil
  <2>1. /\ r \in Way(SideWay(t, "lh"), R) /\ Way(SideWay(t, "lh"), R) \subseteq M
        /\ n \notin Way(SideWay(t, "lh"), R) /\ t.child[r]["lh"] = Nil
    BY SuccessorIs
  <2> QED
    BY <2>1
<1> HIDE DEF r
<1>2. /\ w \in Trees /\ w.root = t.root /\ w.count = t.count
      /\ w.child = t.child /\ w.parent = t.parent /\ w.colour = t.colour
      /\ w.key[n] = t.key[r] /\ w.data[n] = t.data[r]
      /\ \A m \in Nodes \ {n, r} : w.key[m] = t.key[m] /\ w.data[m] = t.data[m]
  BY <1>0, <1>1, SwappedIs
<1> HIDE DEF w
<1>3. Shaped(w, M) /\ \A v, K : /\ Ordered(t, M, v, K) => Ordered(w, M, v, K)
                                /\ Strict(t, M, v, K) => Strict(w, M, v, K)
  BY <1>2 DEF Shaped, Linked, Down, Ordered, Strict
<1>4. r = Successor(w, n)
  BY <1>2 DEF Successor, Outermost, r
<1>5. Cut(u, w, M, r, p, c)
  BY <1>0, <1>1, <1>2, <1>3, UnlinkedIs
<1> HIDE DEF u
<1>6. Shaped(u, L)
  BY <1>0, <1>1, <1>2, <1>3, <1>5, CutShaped
<1>7. ASSUME NEW v, NEW strict, InOrder(t, M, v, strict), NEW e, Carried(e, v, M, n, r)
      PROVE  InOrder(u, L, e, strict)
  <2>1. InOrder(w, M, v, strict)
    BY <1>3, <1>7 DEF InOrder
  <2>2. w.child[n]["rh"] # Nil
    BY <1>2
  <2> HIDE DEF p, c
  <2>3. p = w.parent[r] /\ c = w.child[r]["rh"]
    BY DEF p, c
  <2> QED
    BY <1>3, <1>4, <1>5, <1>7, <2>1, <2>2, <2>3, MovedOrdered
<1>8. u.count = t.count /\ u.key = w.key /\ u.data = w.data
  BY <1>2, <1>5 DEF Cut, SameNodes
<1>9. Sorted(u, L, strictly)
  <2>1. InOrder(t, M, t.key, strictly)
    BY DEF Sorted
  <2> DEFINE e == [m \in Nodes |-> IF m = n THEN t.key[r] ELSE t.key[m]]
  <2>2. Carried(e, t.key, M, n, r) /\ \A m \in M : e[m] = IF m = n THEN t.key[r] ELSE t.key[m]
    BY <1>0 DEF Carried
  <2>3. \A m \in L : u.key[m] = e[m]
    BY <1>0, <1>2, <1>8, <2>2
  <2> HIDE DEF e
  <2>4. InOrder(u, L, e, strictly)
    BY <1>7, <2>1, <2>2
  <2> QED
    BY <1>6, <2>3, <2>4, SameOn DEF Sorted
<1>10. Placed(u, L)
  <2>1. PICK v : InPlace(t, M, v)
    BY DEF Placed
  <2>2. InOrder(t, M, v, FALSE)
    BY <2>1 DEF InPlace, InOrder
  <2> DEFINE e == [m \in Nodes |-> IF m = n THEN v[r] ELSE v[m]]
  <2>3. Carried(e, v, M, n, r)
    BY <1>0 DEF Carried
  <2> HIDE DEF e
  <2>4. InOrder(u, L, e, FALSE)
    BY <1>7, <2>2, <2>3
  <2>5. \A a, b \in M : v[a] = v[b] => a = b
    BY <2>1 DEF InPlace
  <2>6. \A a, b \in L : e[a] = e[b] => a = b
    BY <1>1, <2>3, <2>5 DEF Carried
  <2> QED
    BY <1>6, <2>4, <2>6 DEF Placed, InPlace, InOrder
<1>11. Removed(u, t, M, n, r)
  BY <1>0, <1>1, <1>2, <1>8 DEF Removed
<1> QED
  BY <1>6, <1>8, <1>9, <1>10, <1>11 DEF u, w, r

LEMMA NewCount ==
  ASSUME NEW t \in Trees, NEW c \in Nat
  PROVE  LET u == [t EXCEPT !.count = c]
         IN  /\ u \in Trees /\ u.count = c /\ \A M : Alike(u, t, M)
BY DEF Trees, Alike

\* Where a tree looks like another it is as sound.
LEMMA AlikeSound ==
  ASSUME NEW t, NEW M, Shaped(t, M), NEW u \in Trees, Alike(u, t, M)
  PROVE  /\ Shaped(u, M) /\ Members(u) = M
         /\ Placed(t, M) => Placed(u, M)
         /\ \A strictly \in BOOLEAN : Sorted(t, M, strictly) => Sorted(u, M, strictly)
         /\ Distinct(t, M) => Distinct(u, M)
<1>1. /\ Shaped(u, M) /\ Members(u) = M
      /\ \A v, K : Ordered(t, M, v, K) => Ordered(u, M, v, K)
      /\ \A v, K : Strict(t, M, v, K) => Strict(u, M, v, K)
  BY AlikeShaped
<1>2. \A m \in M : u.key[m] = t.key[m]
  BY DEF Alike
<1>3. \A v, strictly : InOrder(t, M, v, strictly) => InOrder(u, M, v, strictly)
  BY <1>1 DEF InOrder
<1>4. ASSUME NEW strictly \in BOOLEAN, Sorted(t, M, strictly) PROVE Sorted(u, M, strictly)
  <2>1. InOrder(u, M, t.key, strictly)
    BY <1>3, <1>4 DEF Sorted
  <2> QED
    BY <1>1, <1>2, <2>1, SameOn DEF Sorted
<1>5. Placed(t, M) => Placed(u, M)
  BY <1>1 DEF Placed, InPlace
<1>6. Distinct(t, M) => Distinct(u, M)
  BY <1>2 DEF Distinct
<1> QED
  BY <1>1, <1>4, <1>5, <1>6

LEMMA RemoveSound ==
  ASSUME NEW t, NEW M, NEW kind \in {"none", "rb"}, NEW tw \in BOOLEAN, NEW pr \in BOOLEAN,
         Sound(t, M, kind, tw, pr), NEW n \in M
  PROVE  LET u == bt_tree_remove(t, n)
         IN  \E x \in M : Sound(u, M \ {x}, kind, tw, TRUE) /\ Removed(u, t, M, n, x)
<1> DEFINE r == Successor(t, n)
           w == IF \A s \in Sides : t.child[n][s] # Nil
                THEN Unlinked(Swapped(t, n, r), r) ELSE Unlinked(t, n)
           u == [w EXCEPT !.count = bt_tree_count(w)]
           strictly == kind = "none"
<1>0. /\ Shaped(t, M) /\ Placed(t, M) /\ strictly \in BOOLEAN /\ Sorted(t, M, strictly)
      /\ t \in Trees /\ M \subseteq Nodes
  BY DEF Sound, Shaped, Linked
<1>1. u = bt_tree_remove(t, n)
  BY DEF bt_tree_remove
<1>2. PICK x \in M : /\ Shaped(w, M \ {x}) /\ Placed(w, M \ {x}) /\ Sorted(w, M \ {x}, strictly)
                     /\ w.count = t.count /\ Removed(w, t, M, n, x)
  <2> HIDE DEF strictly
  <2>1. CASE \A s \in Sides : t.child[n][s] # Nil
    <3>1. t.child[n]["rh"] # Nil
      BY <2>1, SidesFacts
    <3>2. /\ Shaped(w, M \ {r}) /\ Placed(w, M \ {r}) /\ Sorted(w, M \ {r}, strictly)
          /\ w.count = t.count /\ Removed(w, t, M, n, r)
      BY <1>0, <2>1, <3>1, MovedOut
    <3>3. r \in M
      BY <3>2 DEF Removed
    <3> QED
      BY <3>2, <3>3
  <2>2. CASE ~\A s \in Sides : t.child[n][s] # Nil
    <3>1. PICK s \in Sides : t.child[n][s] = Nil
      BY <2>2
    <3>2. w = Unlinked(t, n)
      BY <2>2
    <3> HIDE DEF w
    <3>3. /\ Shaped(w, M \ {n}) /\ Placed(w, M \ {n}) /\ Sorted(w, M \ {n}, strictly)
          /\ w.count = t.count /\ Removed(w, t, M, n, n)
      BY <1>0, <3>1, <3>2, CutOut
    <3> QED
      BY <3>3
  <2> QED
    BY <2>1, <2>2
<1> HIDE DEF w
<1> DEFINE L == M \ {x}
<1>3. w \in Trees /\ bt_tree_count(w) \in Nat
  BY <1>2, CountType DEF Shaped
<1>4. u \in Trees /\ u.count = bt_tree_count(w) /\ Alike(u, w, L)
  BY <1>3, NewCount
<1> HIDE DEF u, strictly
<1>5. /\ Shaped(u, L) /\ Placed(u, L) /\ Sorted(u, L, strictly)
      /\ Distinct(w, L) => Distinct(u, L)
  BY <1>0, <1>2, <1>4, AlikeSound
<1>6. ASSUME Distinct(t, M) PROVE Distinct(w, L)
  BY <1>2, <1>6 DEF Distinct, Removed
<1>7. ASSUME ~tw \/ kind = "none" PROVE Counted(u, L)
  <2>1. Cardinality(L) <= w.count
    <3>1. t.count = Cardinality(M)
      BY <1>7 DEF Sound, Counted
    <3>2. IsFiniteSet(M)
      BY <1>0, TreeAssumption, FS_Subset
    <3>3. Cardinality(L) <= Cardinality(M)
      BY <3>2, FS_Subset
    <3> QED
      BY <1>2, <3>1, <3>3
  <2>2. Tells(w, L, FALSE)
    <3>1. PICK K : Ordered(w, L, w.key, K) /\ (strictly => Strict(w, L, w.key, K))
      BY <1>2 DEF Sorted, InOrder
    <3>2. CASE ~tw
      <4>1. Distinct(w, L)
        BY <1>6, <3>2 DEF Sound
      <4> QED
        BY <1>2, <3>1, <4>1, KeysTell
    <3>3. CASE kind = "none"
      <4>1. Strict(w, L, w.key, K)
        BY <3>1, <3>3 DEF strictly
      <4> QED
        BY <1>2, <3>1, <4>1, KeysTell
    <3> QED
      BY <1>7, <3>2, <3>3
  <2>3. PICK v : InPlace(w, L, v)
    BY <1>2 DEF Placed
  <2>4. bt_tree_count(w) = Cardinality(L)
    BY <2>1, <2>2, <2>3, CountIs
  <2> QED
    BY <1>4, <2>4 DEF Counted
<1>8. Sound(u, L, kind, tw, TRUE)
  BY <1>5, <1>6, <1>7 DEF Sound, strictly
<1>9. Removed(u, t, M, n, x)
  BY <1>2, <1>4 DEF Removed, Alike
<1> QED
  BY <1>1, <1>8, <1>9

\* Clearing what the other nodes hold changes nothing.
LEMMA CleanSound ==
  ASSUME NEW t, NEW M, NEW kind \in {"none", "rb"}, NEW tw \in BOOLEAN, Sound(t, M, kind, tw, TRUE)
  PROVE  LET u == Clean(t)
         IN  /\ Sound(u, M, kind, tw, TRUE) /\ Members(u) = M
             /\ \A m \in M : u.key[m] = t.key[m] /\ u.data[m] = t.data[m]
<1> DEFINE u == Clean(t)
<1>1. Shaped(t, M)
  BY DEF Sound
<1>2. u \in Trees /\ Alike(u, t, M) /\ u.count = t.count
  BY <1>1, CleanIs
<1> HIDE DEF u
<1>3. /\ Shaped(u, M) /\ Members(u) = M /\ (Placed(t, M) => Placed(u, M))
      /\ \A strictly \in BOOLEAN : Sorted(t, M, strictly) => Sorted(u, M, strictly)
      /\ Distinct(t, M) => Distinct(u, M)
  BY <1>1, <1>2, AlikeSound
<1>4. (kind = "none") \in BOOLEAN
  OBVIOUS
<1>5. Sound(u, M, kind, tw, TRUE)
  BY <1>2, <1>3, <1>4 DEF Sound, Counted
<1> QED
  BY <1>2, <1>3, <1>5 DEF Alike, u

-----------------------------------------------------------------------------
\* What a search finds.

LEMMA SearchFinds ==
  ASSUME NEW t, NEW M, Shaped(t, M), NEW K, Ordered(t, M, t.key, K), NEW k \in Int
  PROVE  LET n == Search(t, k)
         IN  IF \E m \in M : t.key[m] = k THEN n # Nil /\ t.key[n] = k ELSE n = Nil
<1> DEFINE way == [m \in Nodes |-> IF t.key[m] = k THEN Nil ELSE t.child[m][Side(t, m, k)]]
           p == LastOf(way, t.root)
<1>0. /\ t \in Trees /\ Linked(t, M) /\ M \subseteq Nodes /\ Nil \notin Nodes
  BY TreeAssumption DEF Shaped, Linked
<1>1. Search(t, k) = IF t.root = Nil \/ t.key[p] # k THEN Nil ELSE p
  BY DEF Search
<1>2. \A m : Side(t, m, k) \in Sides
  BY DEF Side, Sides
<1>3. way \in Onwards /\ \A m \in M : way[m] = IF t.key[m] = k THEN Nil ELSE t.child[m][Side(t, m, k)]
  BY <1>0, <1>2 DEF Trees, Onwards
<1> HIDE DEF way
<1>4. CASE t.root = Nil
  <2>1. M = {}
    BY <1>0, <1>4 DEF Linked
  <2> QED
    BY <1>1, <1>4, <2>1
<1>5. CASE t.root # Nil
  <2>1. /\ p \in M /\ way[p] = Nil
        /\ \A a \in M, q \in Sides : BelowOn(t, p, a, q) => way[a] = t.child[a][q]
    <3>1. \A m \in M : way[m] = Nil \/ \E s \in Sides : way[m] = t.child[m][s]
      BY <1>2, <1>3
    <3> QED
      BY <1>3, <1>5, <3>1, DownWay
  <2> HIDE DEF p
  <2>2. \A m \in M : t.key[m] \in Int
    BY <1>0, KeysAre
  <2>3. \A m, a \in M, q \in Sides : BelowOn(t, m, a, q) => Beside(q, t.key[m], t.key[a])
    BY UpOrdered
  <2>4. ASSUME NEW m \in M, NEW a \in M, NEW q \in Sides, BelowOn(t, m, a, q),
               t.key[m] = k, t.key[a] # k
        PROVE  way[a] = t.child[a][q] /\ t.child[a][q] # Nil
    <3>1. Beside(q, k, t.key[a]) /\ t.key[a] \in Int
      BY <2>2, <2>3, <2>4
    <3>2. q = Side(t, a, k)
      BY <2>4, <3>1 DEF Side, Beside, Sides
    <3> QED
      BY <1>3, <2>4, <3>2 DEF BelowOn
  <2>5. ASSUME NEW m \in M, t.key[m] = k, t.key[p] # k PROVE FALSE
    <3>1. CASE m \in Way(t.parent, p)
      <4>1. PICK q \in Sides : BelowOn(t, p, m, q)
        BY <2>1, <2>5, <3>1, UpFacts
      <4>2. way[m] = t.child[m][q] /\ t.child[m][q] # Nil
        BY <2>1, <4>1 DEF BelowOn
      <4> QED
        BY <1>3, <2>5, <4>2
    <3>2. CASE p \in Way(t.parent, m)
      <4>1. PICK q \in Sides : BelowOn(t, m, p, q)
        BY <2>1, <2>5, <3>2, UpFacts
      <4> QED
        BY <2>1, <2>4, <2>5, <4>1
    <3>3. ASSUME NEW c \in M, NEW q \in Sides, BelowOn(t, m, c, q), BelowOn(t, p, c, Other(q))
          PROVE  FALSE
      <4>1. Other(q) \in Sides /\ Other(q) # q
        BY SidesFacts
      <4>2. way[c] = t.child[c][Other(q)] /\ t.child[c][Other(q)] # Nil
        BY <2>1, <3>3, <4>1 DEF BelowOn
      <4>3. t.key[c] # k
        BY <1>3, <4>2
      <4>4. t.child[c][q] = t.child[c][Other(q)]
        BY <2>4, <2>5, <3>3, <4>2, <4>3
      <4>5. t.child[c]["lh"] = t.child[c]["rh"]
        BY <4>1, <4>4 DEF Sides
      <4> QED
        BY <1>0, <4>2, <4>4, <4>5 DEF Linked, Sides
    <3> QED
      BY <2>1, <3>1, <3>2, <3>3, Fork
  <2>6. p # Nil
    BY <1>0, <2>1
  <2> QED
    BY <1>1, <1>5, <2>1, <2>5, <2>6 DEF p
<1> QED
  BY <1>4, <1>5

-----------------------------------------------------------------------------
\* As many black nodes on every way up.

BlacksOn(t, n) == {m \in Way(t.parent, n) : ~Red(t, m)}

LEMMA BlacksAbove ==
  ASSUME NEW t, NEW M, Shaped(t, M), NEW b, Balanced(t, M, b)
  PROVE  \E C : \A n \in M : Cardinality(BlacksOn(t, n)) \in Nat
                             /\ Cardinality(BlacksOn(t, n)) + b[n] = C
<1> DEFINE N(n) == Cardinality(BlacksOn(t, n))
           C == N(t.root) + b[t.root]
<1>0. t \in Trees /\ Linked(t, M) /\ M \subseteq Nodes /\ Nil \notin Nodes /\ IsFiniteSet(M)
  BY TreeAssumption, FS_Subset DEF Shaped, Linked
<1>1. PICK h : Down(t, M, h)
  BY DEF Shaped
<1>2. ASSUME NEW n \in M PROVE IsFiniteSet(BlacksOn(t, n)) /\ N(n) \in Nat
  <2>1. BlacksOn(t, n) \subseteq M
    BY UpFacts DEF BlacksOn
  <2> QED
    BY <1>0, <2>1, FS_Subset, FS_CardinalityType
<1>3. ASSUME NEW n \in M, n # t.root
      PROVE  LET p == t.parent[n]
             IN  p \in M /\ h[n] < h[p] /\ N(n) + b[n] = N(p) + b[p]
  <2> DEFINE p == t.parent[n]
             W == Way(t.parent, p)
  <2>1. p \in M /\ \E s \in Sides : t.child[p][s] = n
    BY <1>0, <1>3 DEF Linked
  <2>2. n # Nil /\ h[n] < h[p]
    BY <1>0, <1>1, <2>1 DEF Down
  <2>3. b[p] = IF t.colour[n] = "black" THEN b[n] + 1 ELSE b[n]
    BY <2>1, <2>2 DEF Balanced, Height
  <2>4. t.colour[n] = "black" <=> ~Red(t, n)
    BY <1>0, <2>2 DEF Red, Trees
  <2>5. n \notin W /\ Way(t.parent, n) = W \cup {n}
    <3>1. W \subseteq M /\ p \in W /\ \A m \in W : m # t.root => t.parent[m] \in W
      BY <2>1, UpFacts
    <3>2. p \in Way(t.parent, n) /\ n \in Way(t.parent, n) /\ Way(t.parent, n) \subseteq M
          /\ \A m \in Way(t.parent, n) : m # t.root => t.parent[m] \in Way(t.parent, n)
      BY <1>3, UpFacts
    <3>3. W \subseteq Way(t.parent, n)
      BY <2>1, <3>2, UpFacts
    <3>4. n \notin W
      <4>1. SUFFICES ASSUME n \in W PROVE FALSE
        OBVIOUS
      <4>2. n = p
        <5> HIDE DEF p
        <5> QED
          BY <2>1, <3>2, <4>1, UpAndUp
      <4>3. h[n] \in Nat
        BY <1>0, <1>1 DEF Down
      <4> QED
        BY <2>2, <4>2, <4>3
    <3>5. Way(t.parent, n) \subseteq W \cup {n}
      <4> DEFINE S == W \cup {n}
      <4>1. n \in S /\ S \subseteq M /\ \A m \in S : m # t.root => t.parent[m] \in S
        BY <3>1
      <4> HIDE DEF S
      <4>2. Way(t.parent, n) \subseteq S
        BY <4>1, UpFacts
      <4> QED
        BY <4>2 DEF S
    <3> HIDE DEF W
    <3> QED
      BY <3>2, <3>3, <3>4, <3>5
  <2> HIDE DEF p
  <2>6. IF Red(t, n) THEN BlacksOn(t, n) = BlacksOn(t, p)
        ELSE BlacksOn(t, n) = BlacksOn(t, p) \cup {n} /\ n \notin BlacksOn(t, p)
    BY <2>5 DEF BlacksOn
  <2>7. N(n) = IF Red(t, n) THEN N(p) ELSE N(p) + 1
    BY <1>2, <2>1, <2>6, FS_AddElement
  <2>8. b[n] \in Nat /\ b[p] \in Nat /\ N(p) \in Nat
    BY <1>0, <1>2, <2>1 DEF Balanced
  <2> HIDE DEF N
  <2>9. N(n) + b[n] = N(p) + b[p]
    BY <2>3, <2>4, <2>7, <2>8
  <2> QED
    BY <2>1, <2>2, <2>9 DEF p
<1> HIDE DEF N
<1>4. \A n \in M : N(n) + b[n] = C
  <2> DEFINE B == {n \in M : N(n) + b[n] # C}
  <2>1. SUFFICES ASSUME B # {} PROVE FALSE
    OBVIOUS
  <2>2. IsFiniteSet(B) /\ \A n \in M : h[n] \in Nat
    BY <1>0, <1>1, FS_Subset DEF Down
  <2>3. PICK n \in B : \A m \in B : h[m] <= h[n]
    <3>1. \A m \in B : h[m] \in Nat
      BY <2>2
    <3> HIDE DEF B
    <3> QED
      BY <2>1, <2>2, <3>1, GreatestBy
  <2>4. n \in M /\ n # t.root
    BY <2>3
  <2> DEFINE p == t.parent[n]
  <2>5. p \in M /\ h[n] < h[p] /\ N(n) + b[n] = N(p) + b[p]
    BY <1>3, <2>4
  <2> HIDE DEF p
  <2>6. p \in B
    BY <2>3, <2>5
  <2>7. h[p] <= h[n] /\ h[p] \in Nat /\ h[n] \in Nat
    BY <2>2, <2>3, <2>4, <2>5, <2>6
  <2> QED
    BY <2>5, <2>7
<1> QED
  BY <1>2, <1>4 DEF N

LEMMA SameBlacks ==
  ASSUME NEW M, M = Members(tree), Shaped(tree, M), M # {}, NEW b, Balanced(tree, M, b)
  PROVE  Cardinality({Blacks(n) : n \in {m \in M : \E s \in Sides : tree.child[m][s] = Nil}}) = 1
<1> DEFINE Ends1 == {m \in M : \E s \in Sides : tree.child[m][s] = Nil}
<1>1. PICK C : \A n \in M : /\ Cardinality(BlacksOn(tree, n)) \in Nat
                            /\ Cardinality(BlacksOn(tree, n)) + b[n] = C
  BY BlacksAbove
<1>2. \A n \in Ends1 : b[n] = 0
  BY DEF Balanced, Height
<1>3. \A n \in Ends1 : Blacks(n) = C
  <2> TAKE n \in Ends1
  <2>1. Blacks(n) = Cardinality(BlacksOn(tree, n))
    BY DEF Blacks, BlacksOn
  <2> QED
    BY <1>1, <1>2, <2>1
<1>4. PICK n \in M : tree.child[n]["lh"] = Nil
  <2>1. tree.root \in M /\ "lh" \in Sides
    BY SidesFacts DEF Shaped, Linked
  <2> DEFINE r == Outermost(tree, tree.root, "lh")
  <2>2. r \in M /\ tree.child[r]["lh"] = Nil
    BY <2>1, OutermostIs
  <2> QED
    BY <2>2
<1>5. n \in Ends1
  BY <1>4, SidesFacts
<1>6. {Blacks(m) : m \in Ends1} = {C}
  <2> HIDE DEF Ends1
  <2> QED
    BY <1>3, <1>5
<1> QED
  BY <1>6, FS_Singleton

-----------------------------------------------------------------------------
\* How many nodes hold an entry.

Holders(t, M, e) == {n \in M : t.key[n] = e[1] /\ t.data[n] = e[2]}

LEMMA HeldIs ==
  ASSUME NEW t, NEW M, Shaped(t, M)
  PROVE  /\ \A e \in Entries : Held(t)[e] = Cardinality(Holders(t, M, e))
         /\ \A e : IsFiniteSet(Holders(t, M, e)) /\ Cardinality(Holders(t, M, e)) \in Nat
<1>1. \A e \in Entries : Held(t)[e] = Cardinality(Holders(t, M, e))
  BY ShapedMembers DEF Held, Holders
<1>2. IsFiniteSet(M)
  BY TreeAssumption, FS_Subset DEF Shaped, Linked
<1>3. \A e : Holders(t, M, e) \subseteq M
  BY DEF Holders
<1> QED
  BY <1>1, <1>2, <1>3, FS_Subset, FS_CardinalityType

LEMMA HeldMore ==
  ASSUME NEW t, NEW M, Shaped(t, M), NEW n, n \notin M, NEW u, NEW k, NEW d, Holds(u, t, M, n, k, d),
         NEW e
  PROVE  Cardinality(Holders(u, M \cup {n}, e)) =
           Cardinality(Holders(t, M, e)) + (IF e[1] = k /\ e[2] = d THEN 1 ELSE 0)
<1> DEFINE H == Holders(t, M, e)
<1>1. IsFiniteSet(H) /\ n \notin H /\ Cardinality(H) \in Nat
  BY HeldIs DEF Holders
<1>2. Holders(u, M \cup {n}, e) = IF e[1] = k /\ e[2] = d THEN H \cup {n} ELSE H
  BY DEF Holders, Holds
<1> HIDE DEF H
<1>3. Cardinality(H \cup {n}) = Cardinality(H) + 1
  BY <1>1, FS_AddElement
<1> QED
  BY <1>1, <1>2, <1>3 DEF H

LEMMA HeldLess ==
  ASSUME NEW t, NEW M, Shaped(t, M), NEW n, NEW x, NEW u, Removed(u, t, M, n, x), NEW e
  PROVE  Cardinality(Holders(u, M \ {x}, e)) =
           Cardinality(Holders(t, M, e)) - (IF e[1] = t.key[n] /\ e[2] = t.data[n] THEN 1 ELSE 0)
<1> DEFINE H == Holders(t, M, e)
           A == H \ {n}
           B == A \ {x}
           U == Holders(u, M \ {x}, e)
<1>1. n \in H <=> e[1] = t.key[n] /\ e[2] = t.data[n]
  BY DEF Holders, Removed
<1>2. U = IF x # n /\ x \in H THEN B \cup {n} ELSE B
  BY DEF Holders, Removed
<1>3. IsFiniteSet(H) /\ Cardinality(H) \in Nat
  BY HeldIs
<1> HIDE DEF H, U
<1>4. IsFiniteSet(A) /\ Cardinality(A) = IF n \in H THEN Cardinality(H) - 1 ELSE Cardinality(H)
  BY <1>3, FS_RemoveElement
<1>5. IsFiniteSet(B) /\ Cardinality(B) = IF x \in A THEN Cardinality(A) - 1 ELSE Cardinality(A)
  <2> HIDE DEF A
  <2> QED
    BY <1>4, FS_RemoveElement
<1>6. n \notin B /\ (x \in A <=> x \in H /\ x # n)
  OBVIOUS
<1>7. Cardinality(B \cup {n}) = Cardinality(B) + 1
  <2> HIDE DEF B
  <2> QED
    BY <1>5, <1>6, FS_AddElement
<1>8. Cardinality(A) \in Int /\ Cardinality(B) \in Int
  BY <1>3, <1>4, <1>5
<1> HIDE DEF A, B
<1>9. Cardinality(U) = Cardinality(A)
  BY <1>2, <1>5, <1>6, <1>7, <1>8
<1>10. Cardinality(U) = Cardinality(H) - (IF n \in H THEN 1 ELSE 0)
  BY <1>3, <1>4, <1>9
<1> QED
  BY <1>1, <1>10 DEF H, U

-----------------------------------------------------------------------------
\* What two trees hold differs by what is in A, and by what is in R.
Single(A) == \A e, f \in A : e = f
Differ(after, before, A, R) ==
  \A e \in Entries : /\ after[e] \in Int /\ before[e] \in Int
                     /\ after[e] - before[e] = (IF e \in A THEN 1 ELSE 0) - (IF e \in R THEN 1 ELSE 0)
Calm(after, before) ==
  \A c, d \in Changes(after, before) :
    c[2] \in -1 .. 1 /\ (c # d /\ c[2] = d[2] => c[2] = 0)

LEMMA OneEach ==
  ASSUME NEW after, NEW before, NEW A, NEW R,
         Single(A), Single(R), Differ(after, before, A, R)
  PROVE  Calm(after, before)
<1> SUFFICES ASSUME NEW c \in Changes(after, before), NEW d \in Changes(after, before)
             PROVE  c[2] \in -1 .. 1 /\ (c # d /\ c[2] = d[2] => c[2] = 0)
  BY DEF Calm
<1>1. PICK e \in Entries : c = <<e, after[e] - before[e]>>
  BY DEF Changes
<1>2. PICK f \in Entries : d = <<f, after[f] - before[f]>>
  BY DEF Changes
<1> DEFINE x == after[e] - before[e]
           y == after[f] - before[f]
<1>3. x = (IF e \in A THEN 1 ELSE 0) - (IF e \in R THEN 1 ELSE 0)
      /\ y = (IF f \in A THEN 1 ELSE 0) - (IF f \in R THEN 1 ELSE 0)
  BY DEF Differ
<1>4. c = <<e, x>> /\ d = <<f, y>>
  BY <1>1, <1>2
<1> HIDE DEF x, y
<1>5. x \in -1 .. 1
  BY <1>3
<1>6. ASSUME x = y, x # 0 PROVE e = f
  <2>1. CASE e \in A /\ e \notin R
    <3>1. f \in A
      BY <1>3, <1>6, <2>1
    <3> QED
      BY <2>1, <3>1 DEF Single
  <2>2. CASE e \in R /\ e \notin A
    <3>1. f \in R
      BY <1>3, <1>6, <2>2
    <3> QED
      BY <2>2, <3>1 DEF Single
  <2> QED
    BY <1>3, <1>6, <2>1, <2>2
<1> QED
  BY <1>4, <1>5, <1>6

\* Cleaning leaves a sound tree sound.
Cleaned(u, t, M, kind, tw) ==
  /\ Sound(u, M, kind, tw, TRUE) /\ Members(u) = M
  /\ \A m \in M : u.key[m] = t.key[m] /\ u.data[m] = t.data[m]

LEMMA CleanedIs ==
  ASSUME NEW t, NEW M, NEW kind \in {"none", "rb"}, NEW tw \in BOOLEAN, Sound(t, M, kind, tw, TRUE)
  PROVE  Cleaned(Clean(t), t, M, kind, tw)
BY CleanSound DEF Cleaned

-----------------------------------------------------------------------------
\* The inductive invariant: the tree is sound, of the nodes met from its root.

IInv ==
  /\ balancing \in {"none", "rb"} /\ twice \in BOOLEAN /\ pruned \in BOOLEAN
  /\ Sound(tree, Members(tree), balancing, twice, pruned)

LEMMA EmptySound ==
  ASSUME NEW kind, NEW tw, NEW pr
  PROVE  Sound(EmptyTree, {}, kind, tw, pr) /\ Members(EmptyTree) = {} /\ EmptyTree.root = Nil
<1> DEFINE t == EmptyTree
<1>1. t \in Trees /\ t.root = Nil /\ t.count = 0
  BY DEF EmptyTree, Trees, Leaf
<1> HIDE DEF t
<1>2. Linked(t, {}) /\ Down(t, {}, [n \in Nodes |-> 0])
  BY <1>1 DEF Linked, Down
<1>3. Shaped(t, {})
  BY <1>1, <1>2 DEF Shaped
<1>4. \A v : Ordered(t, {}, v, [n \in Nodes |-> {}]) /\ Strict(t, {}, v, [n \in Nodes |-> {}])
  BY DEF Ordered, Strict
<1>5. Sorted(t, {}, kind = "none")
  BY <1>4 DEF Sorted, InOrder
<1>6. Placed(t, {})
  BY <1>3, <1>4 DEF Placed, InPlace
<1>7. Distinct(t, {}) /\ Counted(t, {})
  BY <1>1, FS_EmptySet DEF Distinct, Counted
<1>8. Balanced(t, {}, [n \in Nodes |-> 0])
  BY DEF Balanced
<1>9. Painting(t, {})
  BY <1>1, <1>8 DEF Painting, NoTwoReds, Red
<1> QED
  BY <1>1, <1>3, <1>5, <1>6, <1>7, <1>9, ShapedMembers DEF Sound, t

LEMMA SoundMembers ==
  ASSUME NEW t, NEW M, NEW kind, NEW tw, NEW pr, Sound(t, M, kind, tw, pr)
  PROVE  Members(t) = M /\ Shaped(t, M) /\ M \subseteq Nodes
BY ShapedMembers DEF Sound, Shaped, Linked

LEMMA SpareIs ==
  ASSUME Free(tree) # {}
  PROVE  Spare(tree) \in Nodes \ Members(tree)
BY DEF Free, Spare

\* One step of each operation.
LEMMA InsertStep ==
  ASSUME IInv, Insert
  PROVE  IInv' /\ OneByOne
<1> DEFINE M == Members(tree)
           n == Spare(tree)
<1>1. PICK k \in Keys, d \in Data :
        /\ tree' = bt_tree_insert(tree, n, k, d) /\ Free(tree) # {}
        /\ twice' = (twice \/ Keyed(tree, k)) /\ balancing' = balancing /\ pruned' = pruned
  BY DEF Insert
<1>2. /\ balancing \in {"none", "rb"} /\ twice \in BOOLEAN /\ pruned \in BOOLEAN
      /\ Sound(tree, M, balancing, twice, pruned)
  BY DEF IInv
<1>3. n \in Nodes \ M
  BY <1>1, SpareIs
<1>4. Keyed(tree, k) <=> \E m \in M : tree.key[m] = k
  BY DEF Keyed
<1> HIDE DEF M, n
<1>5. /\ Sound(tree', M \cup {n}, balancing, twice \/ Keyed(tree, k), pruned)
      /\ Holds(tree', tree, M, n, k, d)
  BY <1>1, <1>2, <1>3, <1>4, InsertSound
<1>6. Members(tree') = M \cup {n} /\ Shaped(tree', M \cup {n}) /\ Shaped(tree, M)
  BY <1>2, <1>5, SoundMembers
<1>7. Keyed(tree, k) \in BOOLEAN
  BY DEF Keyed
<1>8. IInv'
  BY <1>1, <1>2, <1>5, <1>6, <1>7 DEF IInv
<1>9. OneByOne
  <2> DEFINE A == {e \in Entries : e[1] = k /\ e[2] = d}
             a == Held(tree')
             b == Held(tree)
  <2>1. Single(A) /\ Single({})
    BY DEF Entries, Single
  <2>2. ASSUME NEW e \in Entries
        PROVE  /\ a[e] \in Int /\ b[e] \in Int
               /\ a[e] - b[e] = (IF e \in A THEN 1 ELSE 0) - (IF e \in {} THEN 1 ELSE 0)
    <3>1. a[e] = Cardinality(Holders(tree', M \cup {n}, e)) /\ b[e] = Cardinality(Holders(tree, M, e))
          /\ Cardinality(Holders(tree, M, e)) \in Nat
      BY <1>6, HeldIs
    <3>2. Cardinality(Holders(tree', M \cup {n}, e)) =
            Cardinality(Holders(tree, M, e)) + (IF e[1] = k /\ e[2] = d THEN 1 ELSE 0)
      BY <1>3, <1>5, <1>6, HeldMore
    <3>3. e \in A <=> e[1] = k /\ e[2] = d
      OBVIOUS
    <3> HIDE DEF A, a, b
    <3> QED
      BY <3>1, <3>2, <3>3
  <2> HIDE DEF A, a, b
  <2>3. Differ(a, b, A, {})
    BY <2>2 DEF Differ
  <2>4. Calm(a, b)
    BY <2>1, <2>3, OneEach
  <2> QED
    BY <2>4 DEF Calm, OneByOne, a, b
<1> QED
  BY <1>8, <1>9

LEMMA TakeOutStep ==
  ASSUME IInv, TakeOut
  PROVE  IInv' /\ OneByOne
<1> DEFINE M == Members(tree)
<1>1. PICK n \in M :
        /\ tree' = Clean(bt_tree_remove(tree, n)) /\ pruned' = TRUE
        /\ balancing' = balancing /\ twice' = twice
  BY DEF TakeOut
<1>2. /\ balancing \in {"none", "rb"} /\ twice \in BOOLEAN /\ pruned \in BOOLEAN
      /\ Sound(tree, M, balancing, twice, pruned)
  BY DEF IInv
<1> HIDE DEF M
<1> DEFINE t == bt_tree_remove(tree, n)
<1>3. PICK x \in M : Sound(t, M \ {x}, balancing, twice, TRUE) /\ Removed(t, tree, M, n, x)
  BY <1>1, <1>2, RemoveSound
<1>4. tree' = Clean(t)
  BY <1>1
<1> HIDE DEF t
<1>5. /\ Sound(tree', M \ {x}, balancing, twice, TRUE) /\ Members(tree') = M \ {x}
      /\ \A m \in M \ {x} : tree'.key[m] = t.key[m] /\ tree'.data[m] = t.data[m]
  <2>1. Cleaned(Clean(t), t, M \ {x}, balancing, twice)
    BY <1>2, <1>3, CleanedIs
  <2> QED
    BY <1>4, <2>1 DEF Cleaned
<1>6. Shaped(tree', M \ {x}) /\ Shaped(tree, M)
  BY <1>2, <1>5, SoundMembers
<1>7. Removed(tree', tree, M, n, x)
  BY <1>3, <1>5 DEF Removed
<1>8. IInv'
  BY <1>1, <1>2, <1>5 DEF IInv
<1>9. OneByOne
  <2> DEFINE A == {e \in Entries : e[1] = tree.key[n] /\ e[2] = tree.data[n]}
             a == Held(tree')
             b == Held(tree)
  <2>1. Single(A) /\ Single({})
    BY DEF Entries, Single
  <2>2. ASSUME NEW e \in Entries
        PROVE  /\ a[e] \in Int /\ b[e] \in Int
               /\ a[e] - b[e] = (IF e \in {} THEN 1 ELSE 0) - (IF e \in A THEN 1 ELSE 0)
    <3>1. a[e] = Cardinality(Holders(tree', M \ {x}, e)) /\ b[e] = Cardinality(Holders(tree, M, e))
          /\ Cardinality(Holders(tree, M, e)) \in Nat
      BY <1>6, HeldIs
    <3>2. Cardinality(Holders(tree', M \ {x}, e)) =
            Cardinality(Holders(tree, M, e))
              - (IF e[1] = tree.key[n] /\ e[2] = tree.data[n] THEN 1 ELSE 0)
      BY <1>6, <1>7, HeldLess
    <3>3. e \in A <=> e[1] = tree.key[n] /\ e[2] = tree.data[n]
      OBVIOUS
    <3> HIDE DEF A, a, b
    <3> QED
      BY <3>1, <3>2, <3>3
  <2> HIDE DEF A, a, b
  <2>3. Differ(a, b, {}, A)
    BY <2>2 DEF Differ
  <2>4. Calm(a, b)
    BY <2>1, <2>3, OneEach
  <2> QED
    BY <2>4 DEF Calm, OneByOne, a, b
<1> QED
  BY <1>8, <1>9

LEMMA UpdateStep ==
  ASSUME IInv, Update
  PROVE  IInv' /\ OneByOne
<1> DEFINE M == Members(tree)
           s == Spare(tree)
<1>1. PICK n \in M :
        LET t == bt_tree_remove(tree, n)
        IN  \E k \in Keys :
              /\ Free(tree) # {} /\ MayGetKey(t, k)
              /\ tree' = Clean(bt_tree_insert(t, s, k, t.data[n]))
              /\ twice' = (twice \/ Keyed(t, k)) /\ pruned' = TRUE
              /\ balancing' = balancing
  BY DEF Update
<1> DEFINE t == bt_tree_remove(tree, n)
           d == t.data[n]
<1>2. PICK k \in Keys :
        /\ Free(tree) # {} /\ tree' = Clean(bt_tree_insert(t, s, k, d))
        /\ twice' = (twice \/ Keyed(t, k)) /\ pruned' = TRUE /\ balancing' = balancing
  BY <1>1
<1>3. /\ balancing \in {"none", "rb"} /\ twice \in BOOLEAN /\ pruned \in BOOLEAN
      /\ Sound(tree, M, balancing, twice, pruned)
  BY DEF IInv
<1>4. s \in Nodes \ M /\ M \subseteq Nodes
  BY <1>2, <1>3, SpareIs, SoundMembers
<1> HIDE DEF M, s
<1>5. PICK x \in M : Sound(t, M \ {x}, balancing, twice, TRUE) /\ Removed(t, tree, M, n, x)
  BY <1>1, <1>3, RemoveSound
<1> DEFINE L == M \ {x}
           u == bt_tree_insert(t, s, k, d)
           tw == twice \/ Keyed(t, k)
<1> HIDE DEF t
<1>6. Members(t) = L /\ Shaped(t, L) /\ Shaped(tree, M)
  BY <1>3, <1>5, SoundMembers
<1>7. Keyed(t, k) <=> \E m \in L : t.key[m] = k
  BY <1>6 DEF Keyed
<1>8. tw \in BOOLEAN /\ d \in Data \cup {Nil} /\ s \in Nodes \ L
  BY <1>3, <1>4, <1>6 DEF Keyed, Shaped, Trees
<1> HIDE DEF d, L
<1>9. Sound(u, L \cup {s}, balancing, tw, TRUE) /\ Holds(u, t, L, s, k, d)
  BY <1>3, <1>5, <1>7, <1>8, InsertSound DEF L
<1>10. tree' = Clean(u)
  BY <1>2
<1> HIDE DEF u, tw
<1>11. /\ Sound(tree', L \cup {s}, balancing, tw, TRUE) /\ Members(tree') = L \cup {s}
       /\ \A m \in L \cup {s} : tree'.key[m] = u.key[m] /\ tree'.data[m] = u.data[m]
  <2>1. Cleaned(Clean(u), u, L \cup {s}, balancing, tw)
    BY <1>3, <1>8, <1>9, CleanedIs
  <2> QED
    BY <1>10, <2>1 DEF Cleaned
<1>12. Shaped(tree', L \cup {s})
  BY <1>11, SoundMembers
<1>13. Holds(tree', t, L, s, k, d)
  BY <1>9, <1>11 DEF Holds
<1>14. IInv'
  BY <1>2, <1>3, <1>8, <1>11 DEF IInv, tw
<1>15. OneByOne
  <2> DEFINE A == {e \in Entries : e[1] = k /\ e[2] = d}
             R == {e \in Entries : e[1] = tree.key[n] /\ e[2] = tree.data[n]}
             a == Held(tree')
             b == Held(tree)
  <2>1. Single(A) /\ Single(R)
    BY DEF Entries, Single
  <2>2. ASSUME NEW e \in Entries
        PROVE  /\ a[e] \in Int /\ b[e] \in Int
               /\ a[e] - b[e] = (IF e \in A THEN 1 ELSE 0) - (IF e \in R THEN 1 ELSE 0)
    <3> DEFINE at == Cardinality(Holders(tree', L \cup {s}, e))
               bt == Cardinality(Holders(tree, M, e))
               ct == Cardinality(Holders(t, L, e))
    <3>1. a[e] = at /\ b[e] = bt /\ bt \in Nat /\ ct \in Nat
      BY <1>6, <1>12, HeldIs
    <3>2. ct = bt - (IF e[1] = tree.key[n] /\ e[2] = tree.data[n] THEN 1 ELSE 0)
      BY <1>5, <1>6, HeldLess DEF L
    <3>3. at = ct + (IF e[1] = k /\ e[2] = d THEN 1 ELSE 0)
      BY <1>6, <1>8, <1>13, HeldMore
    <3>4. (e \in R <=> e[1] = tree.key[n] /\ e[2] = tree.data[n]) /\ (e \in A <=> e[1] = k /\ e[2] = d)
      OBVIOUS
    <3> HIDE DEF A, R, a, b, at, bt, ct
    <3> QED
      BY <3>1, <3>2, <3>3, <3>4
  <2> HIDE DEF A, R, a, b
  <2>3. Differ(a, b, A, R)
    BY <2>2 DEF Differ
  <2>4. Calm(a, b)
    BY <2>1, <2>3, OneEach
  <2> QED
    BY <2>4 DEF Calm, OneByOne, a, b
<1> QED
  BY <1>14, <1>15

LEMMA InvInit ==
  Init => IInv
BY EmptySound DEF Init, IInv

LEMMA InvNext ==
  ASSUME IInv, [Next]_vars
  PROVE  IInv' /\ (tree' = tree \/ tree'.root = Nil \/ OneByOne)
<1>1. CASE Insert
  BY <1>1, InsertStep
<1>2. CASE TakeOut
  BY <1>2, TakeOutStep
<1>3. CASE Update
  BY <1>3, UpdateStep
<1>4. CASE bt_reset
  BY <1>4, EmptySound DEF bt_reset, IInv
<1>5. CASE UNCHANGED vars
  BY <1>5 DEF vars, IInv
<1> QED
  BY <1>1, <1>2, <1>3, <1>4, <1>5 DEF Next

THEOREM Invariance ==
  Spec => []IInv
<1>1. IInv /\ [Next]_vars => IInv'
  BY InvNext
<1> QED
  BY <1>1, InvInit, PTL DEF Spec

\* Every node knows its parent, whatever was rotated and removed.
THEOREM TypeCorrect ==
  Spec => []TypeOK
<1>1. IInv => TypeOK
  <2> HAVE IInv
  <2> DEFINE M == Members(tree)
  <2>1. Shaped(tree, M)
    BY DEF IInv, Sound
  <2> HIDE DEF M
  <2>2. tree \in Trees /\ Linked(tree, M)
    BY <2>1 DEF Shaped
  <2>3. /\ tree.root \in Nodes \cup {Nil} /\ tree.count \in Nat
        /\ tree.key \in [Nodes -> Keys \cup {0}] /\ tree.data \in [Nodes -> Data \cup {Nil}]
        /\ tree.colour \in [Nodes -> {"red", "black"}]
    BY <2>2 DEF Trees
  <2>4. /\ tree.root # Nil => tree.parent[tree.root] = Nil
        /\ \A n \in M, s \in Sides :
             tree.child[n][s] # Nil => tree.parent[tree.child[n][s]] = n
    BY <2>2 DEF Linked
  <2> QED
    BY <2>3, <2>4 DEF TypeOK, M
<1> QED
  BY <1>1, Invariance, PTL

\* A key is found if and only if a node has it.
THEOREM Found ==
  Spec => []Findable
<1>1. IInv => Findable
  <2> HAVE IInv
  <2> DEFINE M == Members(tree)
  <2>1. Shaped(tree, M) /\ Sorted(tree, M, balancing = "none")
    BY DEF IInv, Sound
  <2>2. PICK K : Ordered(tree, M, tree.key, K)
    BY <2>1 DEF Sorted, InOrder
  <2> HIDE DEF M
  <2>3. ASSUME NEW k \in Keys
        PROVE  LET n == Search(tree, k)
               IN  IF Keyed(tree, k) THEN n # Nil /\ tree.key[n] = k ELSE n = Nil
    <3>1. k \in Int
      BY TreeAssumption
    <3> DEFINE n == Search(tree, k)
    <3>2. IF \E m \in M : tree.key[m] = k THEN n # Nil /\ tree.key[n] = k ELSE n = Nil
      BY <2>1, <2>2, <3>1, SearchFinds
    <3> HIDE DEF n
    <3>3. Keyed(tree, k) <=> \E m \in M : tree.key[m] = k
      BY DEF Keyed, M
    <3> QED
      BY <3>2, <3>3 DEF n
  <2> QED
    BY <2>3 DEF Findable
<1> QED
  BY <1>1, Invariance, PTL

\* Walking the tree visits every node once and in order, forward and backward,
\* where equal keys do not break it.
THEOREM Walks ==
  Spec => []Walkable
<1>1. IInv => Walkable
  <2> HAVE IInv
  <2> DEFINE M == Members(tree)
  <2>1. /\ Shaped(tree, M) /\ Sorted(tree, M, balancing = "none") /\ Placed(tree, M)
        /\ ~twice => Distinct(tree, M)
        /\ ~twice \/ balancing = "none" => Counted(tree, M)
    BY DEF IInv, Sound
  <2>2. PICK K : /\ Ordered(tree, M, tree.key, K)
                 /\ balancing = "none" => Strict(tree, M, tree.key, K)
    BY <2>1 DEF Sorted, InOrder
  <2>3. PICK v : InPlace(tree, M, v)
    BY <2>1 DEF Placed
  <2>4. ASSUME ~twice \/ balancing = "none", NEW back \in BOOLEAN, Tells(tree, M, back)
        PROVE  Visits(back)
    <3>1. tree.count = Cardinality(M)
      BY <2>1, <2>4 DEF Counted
    <3> QED
      BY <2>2, <2>3, <2>4, <3>1, VisitsAll
  <2> HIDE DEF M
  <2>5. ~twice => \A back \in BOOLEAN : Visits(back)
    <3>1. ~twice => \A back \in BOOLEAN : Tells(tree, M, back)
      BY <2>1, <2>2, KeysTell
    <3> QED
      BY <2>4, <3>1
  <2>6. balancing = "none" => Visits(FALSE)
    <3>1. balancing = "none" => Tells(tree, M, FALSE)
      BY <2>1, <2>2, KeysTell
    <3> QED
      BY <2>4, <3>1
  <2> QED
    BY <2>5, <2>6 DEF Walkable
<1> QED
  BY <1>1, Invariance, PTL

\* Insertion keeps the conditions of a red-black tree.
THEOREM RedBlackKept ==
  Spec => []RedBlack
<1>1. IInv => RedBlack
  <2> SUFFICES ASSUME IInv, balancing = "rb", ~pruned, tree.count > 1
               PROVE  LET in == Members(tree)
                      IN  /\ ~Red(tree, tree.root)
                          /\ \A n \in in \ {tree.root} : ~(Red(tree, n) /\ Red(tree, tree.parent[n]))
                          /\ Cardinality({Blacks(n) : n \in {m \in in : \E s \in Sides : tree.child[m][s] = Nil}}) = 1
    BY DEF RedBlack
  <2> DEFINE M == Members(tree)
  <2>1. Shaped(tree, M) /\ Counted(tree, M) /\ Painting(tree, M)
    BY DEF IInv, Sound
  <2>2. PICK b : Balanced(tree, M, b)
    BY <2>1 DEF Painting
  <2>3. ~Red(tree, tree.root) /\ M # {}
    <3>1. Cardinality(M) # 1 /\ Cardinality(M) # 0
      BY <2>1 DEF Counted
    <3> HIDE DEF M
    <3>2. M # {tree.root} /\ M # {}
      BY <3>1, FS_Singleton, FS_EmptySet
    <3> QED
      BY <2>1, <3>2 DEF Painting
  <2>4. \A n \in M \ {tree.root} : ~(Red(tree, n) /\ Red(tree, tree.parent[n]))
    <3>1. Nil \notin M
      BY <2>1, TreeAssumption DEF Shaped, Linked
    <3> QED
      BY <2>1, <3>1 DEF Painting, NoTwoReds
  <2>5. Cardinality({Blacks(n) : n \in {m \in M : \E s \in Sides : tree.child[m][s] = Nil}}) = 1
    BY <2>1, <2>2, <2>3, SameBlacks
  <2> QED
    BY <2>3, <2>4, <2>5
<1> QED
  BY <1>1, Invariance, PTL

\* A step adds one entry and takes one out at most, and changes no other.
THEOREM EntriesAreKept ==
  Spec => EntriesKept
<1>1. IInv /\ [Next]_vars => [EntryKept]_vars
  <2> SUFFICES ASSUME IInv, [Next]_vars PROVE [EntryKept]_vars
    OBVIOUS
  <2>1. tree' = tree \/ tree'.root = Nil \/ OneByOne
    BY InvNext
  <2>2. CASE tree' = tree
    <3>1. Held(tree') = Held(tree)
      BY <2>2
    <3> DEFINE b == Held(tree)
    <3>2. OneByOne
      <4>1. \A e \in Entries : b[e] \in Int
        <5>1. Shaped(tree, Members(tree))
          BY DEF IInv, Sound
        <5> QED
          BY <5>1, HeldIs
      <4> HIDE DEF b
      <4>2. \A c, d \in Changes(b, b) :
              c[2] \in -1 .. 1 /\ (c # d /\ c[2] = d[2] => c[2] = 0)
        BY <4>1 DEF Changes
      <4> QED
        BY <3>1, <4>2 DEF OneByOne, b
    <3> QED
      BY <3>2 DEF EntryKept
  <2> QED
    BY <2>1, <2>2 DEF EntryKept
<1> QED
  BY <1>1, Invariance, PTL DEF Spec, EntriesKept
===============================================================================

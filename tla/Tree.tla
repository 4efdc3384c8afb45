--------------------------------- MODULE Tree ---------------------------------
(***************************************************************************)
(* The binary search trees of data/struct/bt_tree.c, plain or balanced as  *)
(* red-black trees by rb_tree.c.  Insertion balances, removal does not.    *)
(* A removed node stays with the client; the model may use it again.       *)
(***************************************************************************)
EXTENDS Integers, Sequences, FiniteSets

CONSTANTS Nodes,    \* the blocks nodes are made of
          Nil,
          Keys, Data,
          Repeated  \* bound of the model: keys that more than one node may have

ASSUME TreeAssumption ==
  /\ IsFiniteSet(Nodes) /\ Nil \notin Nodes \cup Data
  /\ Keys \subseteq Int /\ Repeated \subseteq Keys

VARIABLES balancing,  \* "none" or "rb"
          tree,
          twice,      \* history: two nodes have had the same key at a time
          pruned      \* history: a node was taken out
vars == <<balancing, tree, twice, pruned>>

Sides    == {"lh", "rh"}
Other(s) == IF s = "lh" THEN "rh" ELSE "lh"
Leaf     == [s \in Sides |-> Nil]

EmptyTree ==
  [root |-> Nil, count |-> 0,
   key    |-> [n \in Nodes |-> 0],   data   |-> [n \in Nodes |-> Nil],
   child  |-> [n \in Nodes |-> Leaf], parent |-> [n \in Nodes |-> Nil],
   colour |-> [n \in Nodes |-> "red"]]

Init ==
  /\ balancing \in {"none", "rb"} /\ tree = EmptyTree
  /\ twice = FALSE /\ pruned = FALSE

\* The nodes met from n on, going from each node m to all of next[m].
Met(next, n) ==
  LET within[i \in 0 .. Cardinality(Nodes)] ==
        IF i = 0 THEN {n} \ {Nil}
        ELSE LET in == within[i - 1] IN (in \cup UNION {next[m] : m \in in}) \ {Nil}
  IN  within[Cardinality(Nodes)]

Members(t) == Met([m \in Nodes |-> {t.child[m][s] : s \in Sides}], t.root)

\* Where a way ends that goes on from each node m to f[m], or stops if that is Nil.
Way(f, n)    == Met([m \in Nodes |-> {f[m]}], n)
LastOf(f, n) == CHOOSE m \in Way(f, n) : f[m] = Nil

\* bt_tree_leftmost, bt_tree_rightmost
Outermost(t, n, s) == LastOf([m \in Nodes |-> t.child[m][s]], n)

-----------------------------------------------------------------------------
\* bt_tree_next goes by the keys when it climbs.
PassedLess(back, k, key) == IF back THEN k > key ELSE k < key

Passed(back, k, key) == IF back THEN k >= key ELSE k <= key

Climb(t, n, back) ==
  LET up == [m \in Nodes |-> IF m = n \/ Passed(back, t.key[m], t.key[n])
                             THEN t.parent[m] ELSE Nil]
      top == LastOf(up, n)
  IN  IF top = n \/ Passed(back, t.key[top], t.key[n]) THEN Nil ELSE top

bt_tree_next(t, n, back) ==
  LET s == IF back THEN "lh" ELSE "rh"
  IN  IF t.child[n][s] # Nil THEN Outermost(t, t.child[n][s], Other(s)) ELSE Climb(t, n, back)

\* The nodes it gives one after the other, then Nil.  It would give one more
\* than the tree has counted, never two.
Traversal(t, back) ==
  LET First == IF t.root = Nil THEN Nil ELSE Outermost(t, t.root, IF back THEN "rh" ELSE "lh")
      visited[i \in 0 .. t.count + 1] ==
        IF i = 0 THEN <<>>
        ELSE LET w == visited[i - 1]
             IN  Append(w, IF i = 1 THEN First
                           ELSE IF w[i - 1] = Nil THEN Nil ELSE bt_tree_next(t, w[i - 1], back))
  IN  visited[t.count + 1]

bt_tree_count(t) ==
  LET w == Traversal(t, FALSE) IN Cardinality({i \in 1 .. t.count + 1 : w[i] # Nil})

-----------------------------------------------------------------------------
\* y takes the place of x below x's parent, which it does not know.
ReplacedBelow(t, x, y) ==
  LET p == t.parent[x]
  IN  IF p = Nil THEN [t EXCEPT !.root = y]
      ELSE [t EXCEPT !.child[p][IF t.child[p]["lh"] = x THEN "lh" ELSE "rh"] = y]

\* y replaces x below x's parent.
Replaced(t, x, y) ==
  LET p == t.parent[x]
  IN  IF p = Nil THEN [t EXCEPT !.root = y, !.parent[y] = Nil]
      ELSE [t EXCEPT !.child[p][IF t.child[p]["lh"] = x THEN "lh" ELSE "rh"] = y,
                     !.parent[y] = p]

\* rb_left_rotate and rb_right_rotate: x goes down on side s.
Rotate(t, x, s) ==
  LET y == t.child[x][Other(s)]
      inner == t.child[y][s]
      u == IF inner = Nil THEN t ELSE [t EXCEPT !.parent[inner] = x]
  IN  [Replaced([u EXCEPT !.child[x][Other(s)] = inner], x, y)
         EXCEPT !.child[y][s] = x, !.parent[x] = y]

Red(t, n) == n # Nil /\ t.colour[n] = "red"

\* The loop of rb_tree_balance, once round, in a tree at a node.
Settled(t, n) == n = t.root \/ ~Red(t, t.parent[n]) \/ t.parent[t.parent[n]] = Nil

Recoloured(t, p, uncle, g) ==
  [t EXCEPT !.colour[p] = "black", !.colour[uncle] = "black", !.colour[g] = "red"]

\* p comes up to where g, its parent, was.
Raised(t, p, g, s) ==
  Rotate([t EXCEPT !.colour[p] = "black", !.colour[g] = "red"], g, Other(s))

Mend(at) ==
  LET t == at.tree
      n == at.node
      p == t.parent[n]
      g == t.parent[p]
      s == IF p = t.child[g]["lh"] THEN "lh" ELSE "rh"
      uncle == t.child[g][Other(s)]
  IN  IF Settled(t, n) THEN at
      ELSE IF Red(t, uncle) THEN [tree |-> Recoloured(t, p, uncle, g), node |-> g]
      ELSE IF n = t.child[p][s] THEN [tree |-> Raised(t, p, g, s), node |-> n]
      ELSE [tree |-> Raised(Rotate(t, p, s), n, g, s), node |-> p]

\* It climbs, so it goes round less often than there are nodes.
Mended(t, n) ==
  LET loop[i \in 0 .. Cardinality(Nodes)] ==
        IF i = 0 THEN [tree |-> t, node |-> n] ELSE Mend(loop[i - 1])
  IN  loop[Cardinality(Nodes)].tree

rb_tree_balanceBelow(t, n) == Mended(t, n)

rb_tree_balance(t, n) ==
  LET u == Mended(t, n) IN [u EXCEPT !.colour[u.root] = "black"]

\* Where bt_tree_insert hangs a new key: equal keys go to the right.
Side(t, n, k) == IF t.key[n] > k THEN "lh" ELSE "rh"

Hook(t, k) == LastOf([m \in Nodes |-> t.child[m][Side(t, m, k)]], t.root)

bt_tree_insert(t, n, k, d) ==
  LET p == Hook(t, k)
      u == [t EXCEPT !.count = @ + 1, !.key[n] = k, !.data[n] = d,
                     !.child[n] = Leaf, !.colour[n] = "red", !.parent[n] = Nil]
      v == [u EXCEPT !.parent[n] = p, !.child[p][Side(t, p, k)] = n]
  IN  IF t.root = Nil THEN [u EXCEPT !.root = n]
      ELSE IF balancing = "rb" THEN rb_tree_balance(v, n) ELSE v

\* bt_tree_find_node, without a query of the client's own.
Search(t, k) ==
  LET way == [m \in Nodes |-> IF t.key[m] = k THEN Nil ELSE t.child[m][Side(t, m, k)]]
  IN  IF t.root = Nil \/ t.key[LastOf(way, t.root)] # k THEN Nil ELSE LastOf(way, t.root)

\* A node with at most one child leaves the tree.
Unlinked(t, n) ==
  LET p == t.parent[n]
      only == IF t.child[n]["lh"] # Nil THEN t.child[n]["lh"] ELSE t.child[n]["rh"]
  IN  IF only # Nil THEN [Replaced(t, n, only) EXCEPT !.child[n] = Leaf, !.parent[n] = Nil]
      ELSE IF p = Nil THEN [t EXCEPT !.root = Nil]
      ELSE [t EXCEPT !.child[p][IF t.child[p]["lh"] = n THEN "lh" ELSE "rh"] = Nil,
                     !.parent[n] = Nil]

\* bt_tree_swap: two nodes swap what they hold, not their colours.
SwappedKeys(t, n, r) == [t EXCEPT !.key[n] = t.key[r], !.key[r] = t.key[n]]

Swapped(t, n, r) ==
  [t EXCEPT !.key[n]  = t.key[r],  !.key[r]  = t.key[n],
            !.data[n] = t.data[r], !.data[r] = t.data[n]]

LargestBelow(t, n) == Outermost(t, t.child[n]["rh"], "rh")

Successor(t, n) == Outermost(t, t.child[n]["rh"], "lh")

bt_tree_remove(t, n) ==
  LET r == Successor(t, n)
      u == IF \A s \in Sides : t.child[n][s] # Nil
           THEN Unlinked(Swapped(t, n, r), r) ELSE Unlinked(t, n)
  IN  [u EXCEPT !.count = bt_tree_count(u)]

-----------------------------------------------------------------------------
\* What a node that is not in the tree holds does not matter.
Clean(t) ==
  LET in == Members(t)
      Kept(f, x) == [n \in Nodes |-> IF n \in in THEN f[n] ELSE x]
  IN  [t EXCEPT !.key = Kept(@, 0), !.data = Kept(@, Nil), !.child = Kept(@, Leaf),
                !.parent = Kept(@, Nil), !.colour = Kept(@, "red")]

Keyed(t, k) == \E n \in Members(t) : t.key[n] = k
MayGetKey(t, k) == Keyed(t, k) => k \in Repeated

Free(t) == Nodes \ Members(t)
Spare(t) == CHOOSE n \in Free(t) : TRUE

Insert ==
  \E k \in Keys :
    /\ Free(tree) # {} /\ MayGetKey(tree, k)
    /\ \E d \in Data : tree' = bt_tree_insert(tree, Spare(tree), k, d)
    /\ twice' = (twice \/ Keyed(tree, k)) /\ UNCHANGED <<balancing, pruned>>

TakeOut ==
  \E n \in Members(tree) :
    /\ tree' = Clean(bt_tree_remove(tree, n)) /\ pruned' = TRUE
    /\ UNCHANGED <<balancing, twice>>

\* bt_tree_update: what the node holds once it was removed goes in again, in a
\* node of its own.
Update ==
  \E n \in Members(tree) :
    LET t == bt_tree_remove(tree, n)
    IN  \E k \in Keys :
          /\ Free(tree) # {} /\ MayGetKey(t, k)
          /\ tree' = Clean(bt_tree_insert(t, Spare(tree), k, t.data[n]))
          /\ twice' = (twice \/ Keyed(t, k)) /\ pruned' = TRUE
          /\ UNCHANGED balancing

bt_reset == tree' = EmptyTree /\ twice' = FALSE /\ pruned' = FALSE /\ balancing' = balancing

Next == Insert \/ TakeOut \/ Update \/ bt_reset

Spec == Init /\ [][Next]_vars

-----------------------------------------------------------------------------
\* The type invariant: every node knows its parent, as rotations and removals
\* have to keep it (bt_tree.c:96-124, rb_tree.c:11-39).
TypeOK ==
  /\ tree.root \in Nodes \cup {Nil} /\ tree.count \in Nat
  /\ tree.key \in [Nodes -> Keys \cup {0}] /\ tree.data \in [Nodes -> Data \cup {Nil}]
  /\ tree.colour \in [Nodes -> {"red", "black"}]
  /\ tree.root # Nil => tree.parent[tree.root] = Nil
  /\ \A n \in Members(tree), s \in Sides :
       tree.child[n][s] # Nil => tree.parent[tree.child[n][s]] = n

\* Whatever is inserted, rotated and removed, a key is found if some node has
\* it, since nothing above it leads astray (bt_tree.c:55-74, 179-198).
Findable ==
  \A k \in Keys : LET n == Search(tree, k)
                  IN  IF Keyed(tree, k) THEN n # Nil /\ tree.key[n] = k ELSE n = Nil

\* Walking the tree in either direction visits every node once and in order, and
\* the tree counts its nodes right (bt_tree.c:222-262).  The walk goes by the
\* keys, so equal keys break it backwards, and both ways once a rotation has
\* put one to the left of the other.
Visits(back) ==
  LET w == Traversal(tree, back)
      in == Members(tree)
  IN  /\ tree.count = Cardinality(in)
      /\ {w[i] : i \in 1 .. tree.count} = in /\ w[tree.count + 1] = Nil
      /\ \A i \in 2 .. tree.count :
           Passed(back, tree.key[w[i]], tree.key[w[i - 1]]) => tree.key[w[i]] = tree.key[w[i - 1]]
Walkable ==
  /\ ~twice \/ balancing = "none" => Visits(FALSE)
  /\ ~twice => Visits(TRUE)

\* The conditions of rb_tree_test (rb_tree.c:116-140), while nothing is removed.
\* A tree of a single node has a red root, against that test.
Blacks(n) == Cardinality({m \in Way(tree.parent, n) : ~Red(tree, m)})
RedBlack ==
  balancing = "rb" /\ ~pruned /\ tree.count > 1 =>
    LET in == Members(tree)
    IN  /\ ~Red(tree, tree.root)
        /\ \A n \in in \ {tree.root} : ~(Red(tree, n) /\ Red(tree, tree.parent[n]))
        /\ Cardinality({Blacks(n) : n \in {m \in in : \E s \in Sides : tree.child[m][s] = Nil}}) = 1

\* Whatever nodes trade places or what they hold for it, a step adds one entry
\* and takes one out at most, and changes no other (bt_tree.c:128-177).
Entries == Keys \X Data
Held(t) ==
  LET in == Members(t)
  IN  [e \in Entries |-> Cardinality({n \in in : t.key[n] = e[1] /\ t.data[n] = e[2]})]
Changes(after, before) == {<<e, after[e] - before[e]>> : e \in Entries}
OneByOne ==
  \A c, d \in Changes(Held(tree'), Held(tree)) :
    c[2] \in -1 .. 1 /\ (c # d /\ c[2] = d[2] => c[2] = 0)
EntryKept == tree'.root # Nil => OneByOne
EntriesKept == [][EntryKept]_vars

-----------------------------------------------------------------------------
\* For TLC, trees that differ in which blocks they are made of are one state:
\* what is at which place, numbered from the root on, is all that matters.
View ==
  LET at[i \in 1 .. 2 ^ Cardinality(Nodes) - 1] ==
        IF i = 1 THEN tree.root
        ELSE LET p == at[i \div 2]
             IN  IF p = Nil THEN Nil ELSE tree.child[p][IF i % 2 = 0 THEN "lh" ELSE "rh"]
      Parent(i) == IF i = 1 THEN Nil ELSE at[i \div 2]
  IN  <<balancing, twice, pruned, tree.count,
        {<<i, tree.key[at[i]], tree.data[at[i]], tree.colour[at[i]],
           tree.parent[at[i]] = Parent(i)>> : i \in {j \in DOMAIN at : at[j] # Nil}}>>

=============================================================================

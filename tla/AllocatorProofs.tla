--------------------------- MODULE AllocatorProofs ---------------------------
(***************************************************************************)
(* Proofs about Allocator, for every page size, every set of pages and     *)
(* every request.  PageOK says of one page that its blocks tile it, that   *)
(* its counter is exact and that its free space is merged; each operation  *)
(* on a page keeps it.  HeapOK adds what the pages are for: a page is on   *)
(* the chain, in a block of whole pages, on the index or lost, never two   *)
(* of these, and one that is off the chain is fresh when it comes back.    *)
(* Every operation on the heap keeps HeapOK, and is a step of Heap: what   *)
(* the clients hold grows by one extent, loses one, or swaps one for one   *)
(* that is as long, and no two of them ever meet.  Last comes what the     *)
(* blocks contain: MemKept says that a page's blocks keep what they had    *)
(* and that new ones are clear, for every operation but the one that moves *)
(* a block, for which MovedInto says what the new block holds.             *)
(***************************************************************************)
EXTENDS Allocator, FiniteSetTheorems, SequenceTheorems, TLAPS

PageOK(p) ==
  /\ p \in Page
  /\ p.free_mem = 0 \/ p.free_mem >= Hdr
  /\ PageTiled(p)
  /\ PageMerged(p)
  /\ p.used = Cardinality(CellsOf(p.live))

-----------------------------------------------------------------------------
\* Facts about blocks and the units they cover.

LEMMA CellsOfIn ==
  ASSUME NEW S, NEW x
  PROVE  x \in CellsOf(S) <=> \E b \in S : x \in Cells(b)
BY DEF CellsOf

LEMMA CellsOfUnion ==
  ASSUME NEW S, NEW T
  PROVE  CellsOf(S \cup T) = CellsOf(S) \cup CellsOf(T)
BY DEF CellsOf

LEMMA CellsOfOne ==
  ASSUME NEW b
  PROVE  CellsOf({b}) = Cells(b)
BY DEF CellsOf

LEMMA CellsOfEmpty == CellsOf({}) = {}
BY DEF CellsOf

LEMMA IntervalCard ==
  ASSUME NEW a \in Int, NEW n \in Int, n > 0
  PROVE  IsFiniteSet(a .. (a + n) - 1) /\ Cardinality(a .. (a + n) - 1) = n
<1> DEFINE z == (a + n) - 1
<1>1. z \in Int /\ ~(a > z) /\ z - a + 1 = n
  OBVIOUS
<1> HIDE DEF z
<1>2. IsFiniteSet(a .. z) /\ Cardinality(a .. z) = z - a + 1
  BY <1>1, FS_Interval
<1>3. IsFiniteSet(a .. z) /\ Cardinality(a .. z) = n
  BY <1>1, <1>2
<1> QED
  BY <1>3 DEF z

\* A block that shares no unit with the others counts for its size.
LEMMA CardAdd ==
  ASSUME NEW S \in SUBSET Block, NEW b \in Block,
         IsFiniteSet(CellsOf(S)),
         Cells(b) \cap CellsOf(S) = {}
  PROVE  /\ IsFiniteSet(CellsOf(S \cup {b}))
         /\ Cardinality(CellsOf(S \cup {b})) = Cardinality(CellsOf(S)) + b.size
<1>1. b.at \in Int /\ b.size \in Int /\ b.size > 0
  BY DEF Block, Hdr
<1>2. IsFiniteSet(Cells(b)) /\ Cardinality(Cells(b)) = b.size
  BY <1>1, IntervalCard DEF Cells, Ends
<1>3. CellsOf(S \cup {b}) = CellsOf(S) \cup Cells(b)
  <2>1. CellsOf(S \cup {b}) = CellsOf(S) \cup CellsOf({b})
    BY CellsOfUnion
  <2> QED
    BY <2>1, CellsOfOne
<1>4. CellsOf(S) \cap Cells(b) = {} /\ Cardinality({}) = 0
  BY FS_EmptySet
<1>5. Cardinality(CellsOf(S)) \in Nat
  BY FS_CardinalityType
<1>6. /\ IsFiniteSet(CellsOf(S) \cup Cells(b))
      /\ Cardinality(CellsOf(S) \cup Cells(b)) =
           Cardinality(CellsOf(S)) + Cardinality(Cells(b))
             - Cardinality(CellsOf(S) \cap Cells(b))
  BY <1>2, FS_Union
<1>7. Cardinality(CellsOf(S) \cap Cells(b)) = 0
  BY <1>4
<1>8. Cardinality(CellsOf(S) \cup Cells(b)) = Cardinality(CellsOf(S)) + b.size
  BY <1>1, <1>2, <1>5, <1>6, <1>7
<1> QED
  BY <1>3, <1>6, <1>8

\* The blocks of a tiled page lie between the header and free_mem.
LEMMA TiledBounds ==
  ASSUME NEW p, PageOK(p)
  PROVE  /\ \A b \in p.live \cup p.free :
              /\ b \in Block
              /\ Hdr <= b.at /\ b.at < Ends(b) /\ Ends(b) <= p.free_mem
         /\ IsFiniteSet(CellsOf(p.live))
<1>1. CellsOf(p.live \cup p.free) = Hdr .. p.free_mem - 1 /\ p.free_mem \in Nat
  BY DEF PageOK, PageTiled, Page
<1>2. ASSUME NEW b \in p.live \cup p.free
      PROVE  /\ b \in Block
             /\ Hdr <= b.at /\ b.at < Ends(b) /\ Ends(b) <= p.free_mem
  <2>1. b \in Block
    BY <1>2 DEF PageOK, Page
  <2>2. b.at \in Int /\ b.size \in Int /\ b.size > 0 /\ Ends(b) \in Int
        /\ Ends(b) = b.at + b.size /\ Hdr <= b.at
    BY <2>1 DEF Block, Ends, Hdr
  <2>3. Ends(b) - 1 \in Cells(b)
    BY <2>2 DEF Cells
  <2>4. Ends(b) - 1 \in Hdr .. p.free_mem - 1
    BY <2>3, <1>1, <1>2, CellsOfIn
  <2> QED
    BY <2>1, <2>2, <2>4, <1>1
<1>3. CellsOf(p.live) \subseteq Hdr .. p.free_mem - 1
  <2>1. CellsOf(p.live \cup p.free) = CellsOf(p.live) \cup CellsOf(p.free)
    BY CellsOfUnion
  <2> QED
    BY <1>1, <2>1
<1>4. IsFiniteSet(Hdr .. p.free_mem - 1)
  <2>1. Hdr \in Int /\ p.free_mem - 1 \in Int
    BY <1>1 DEF Hdr
  <2> QED
    BY ONLY <2>1, FS_Interval, Zenon
<1> QED
  BY <1>2, <1>3, <1>4, FS_Subset

-----------------------------------------------------------------------------
\* PageTiled said of the two sets of blocks one by one.
Split(L, F, m) ==
  /\ L \subseteq Block /\ F \subseteq Block
  /\ Disjoint(L) /\ Disjoint(F)
  /\ CellsOf(L) \cap CellsOf(F) = {}
  /\ CellsOf(L) \cup CellsOf(F) = Hdr .. m - 1

LEMMA BlockCells ==
  ASSUME NEW b \in Block
  PROVE  /\ b.at \in Int /\ b.size \in Int /\ b.size > 0 /\ Hdr <= b.at
         /\ Ends(b) = b.at + b.size
         /\ b.at \in Cells(b) /\ Ends(b) - 1 \in Cells(b)
         /\ \A x : x \in Cells(b) <=> x \in Int /\ b.at <= x /\ x < Ends(b)
BY DEF Block, Ends, Cells, Hdr

LEMMA TiledSplit ==
  ASSUME NEW p, p \in Page
  PROVE  PageTiled(p) <=> Split(p.live, p.free, p.free_mem)
<1>1. p.live \subseteq Block /\ p.free \subseteq Block
  BY DEF Page
<1>2. CellsOf(p.live \cup p.free) = CellsOf(p.live) \cup CellsOf(p.free)
  BY CellsOfUnion
<1>3. ASSUME PageTiled(p) PROVE Split(p.live, p.free, p.free_mem)
  <2>1. CellsOf(p.live) \cap CellsOf(p.free) = {}
    <3>1. SUFFICES ASSUME NEW x, NEW b \in p.live, NEW c \in p.free,
                          x \in Cells(b), x \in Cells(c)
                   PROVE  FALSE
      BY CellsOfIn
    <3>2. b # c
      BY <1>3 DEF PageTiled
    <3> QED
      BY <1>3, <3>1, <3>2 DEF PageTiled, Disjoint
  <2> QED
    BY <1>1, <1>2, <1>3, <2>1 DEF PageTiled, Split, Disjoint
<1>4. ASSUME Split(p.live, p.free, p.free_mem) PROVE PageTiled(p)
  <2>1. \A b \in p.live, c \in p.free : Cells(b) \cap Cells(c) = {}
    BY <1>4, CellsOfIn DEF Split
  <2>2. p.live \cap p.free = {}
    BY <2>1, <1>1, BlockCells
  <2>3. Disjoint(p.live \cup p.free)
    <3>1. SUFFICES ASSUME NEW b \in p.live \cup p.free,
                          NEW c \in p.live \cup p.free, b # c
                   PROVE  Cells(b) \cap Cells(c) = {}
      BY DEF Disjoint
    <3> QED
      BY <1>4, <2>1, <3>1 DEF Split, Disjoint
  <2> QED
    BY <1>2, <1>4, <2>2, <2>3 DEF PageTiled, Split
<1> QED
  BY <1>3, <1>4

\* Replacing some blocks by others that cover the same units.
LEMMA Regroup ==
  ASSUME NEW S \in SUBSET Block, NEW R \in SUBSET S, NEW T \in SUBSET Block,
         Disjoint(S), Disjoint(T), CellsOf(T) = CellsOf(R)
  PROVE  /\ Disjoint((S \ R) \cup T)
         /\ CellsOf((S \ R) \cup T) = CellsOf(S)
<1>1. ASSUME NEW b \in S \ R, NEW c \in T PROVE Cells(b) \cap Cells(c) = {}
  <2>1. SUFFICES ASSUME NEW x, x \in Cells(b), x \in Cells(c) PROVE FALSE
    OBVIOUS
  <2>2. x \in CellsOf(R)
    BY <2>1, CellsOfIn
  <2>3. PICK d \in R : x \in Cells(d)
    BY <2>2, CellsOfIn
  <2> QED
    BY <2>1, <2>3 DEF Disjoint
<1>2. Disjoint((S \ R) \cup T)
  BY <1>1 DEF Disjoint
<1>3. S = (S \ R) \cup R
  OBVIOUS
<1>4. CellsOf(S) = CellsOf(S \ R) \cup CellsOf(R)
  BY <1>3, CellsOfUnion
<1>5. CellsOf((S \ R) \cup T) = CellsOf(S \ R) \cup CellsOf(T)
  BY CellsOfUnion
<1> QED
  BY <1>2, <1>4, <1>5

LEMMA DisjointSubset ==
  ASSUME NEW S, Disjoint(S), NEW T \in SUBSET S
  PROVE  Disjoint(T)
BY DEF Disjoint

\* What is left of a disjoint set of blocks when some go.
LEMMA CellsOfMinus ==
  ASSUME NEW S \in SUBSET Block, Disjoint(S), NEW b \in S
  PROVE  CellsOf(S \ {b}) = CellsOf(S) \ Cells(b)
<1>1. CellsOf(S \ {b}) \cap Cells(b) = {}
  BY CellsOfIn DEF Disjoint
<1>2. S = (S \ {b}) \cup {b}
  OBVIOUS
<1>3. CellsOf((S \ {b}) \cup {b}) = CellsOf(S \ {b}) \cup CellsOf({b})
  BY CellsOfUnion
<1>4. CellsOf({b}) = Cells(b)
  BY CellsOfOne
<1> QED
  BY <1>1, <1>2, <1>3, <1>4

\* A block added to others it shares no unit with.
LEMMA DisjointAdd ==
  ASSUME NEW S \in SUBSET Block, Disjoint(S), NEW b \in Block,
         Cells(b) \cap CellsOf(S) = {}
  PROVE  /\ Disjoint(S \cup {b})
         /\ CellsOf(S \cup {b}) = CellsOf(S) \cup Cells(b)
<1>1. \A c \in S : Cells(b) \cap Cells(c) = {}
  BY CellsOfIn
<1>2. CellsOf(S \cup {b}) = CellsOf(S) \cup CellsOf({b})
  BY CellsOfUnion
<1> QED
  BY <1>1, <1>2, CellsOfOne DEF Disjoint

\* The counter when a block of a disjoint set goes.
LEMMA CardRemove ==
  ASSUME NEW S \in SUBSET Block, Disjoint(S), NEW b \in S,
         IsFiniteSet(CellsOf(S))
  PROVE  /\ IsFiniteSet(CellsOf(S \ {b}))
         /\ Cardinality(CellsOf(S)) = Cardinality(CellsOf(S \ {b})) + b.size
<1>1. CellsOf(S \ {b}) = CellsOf(S) \ Cells(b)
  BY CellsOfMinus
<1>2. IsFiniteSet(CellsOf(S \ {b}))
  BY <1>1, FS_Subset
<1>3. S \ {b} \in SUBSET Block /\ b \in Block
      /\ Cells(b) \cap CellsOf(S \ {b}) = {}
  BY <1>1
<1>4. (S \ {b}) \cup {b} = S
  OBVIOUS
<1>5. Cardinality(CellsOf((S \ {b}) \cup {b})) = Cardinality(CellsOf(S \ {b})) + b.size
  BY <1>2, <1>3, CardAdd
<1> QED
  BY <1>2, <1>4, <1>5

\* Two neighbours cover what one block of their common length covers.
LEMMA CutInTwo ==
  ASSUME NEW b \in Block, NEW c \in Block, NEW d \in Block,
         b.at = c.at, Ends(c) = d.at, Ends(d) = Ends(b)
  PROVE  /\ CellsOf({c, d}) = Cells(b)
         /\ Cells(c) \cap Cells(d) = {}
         /\ Disjoint({c, d})
<1>1. \A x : x \in Cells(b) <=> (x \in Cells(c) \/ x \in Cells(d))
  BY BlockCells
<1>2. Cells(c) \cap Cells(d) = {}
  BY BlockCells
<1>3. CellsOf({c, d}) = Cells(b)
  <2>1. {c, d} = {c} \cup {d}
    OBVIOUS
  <2>2. CellsOf({c} \cup {d}) = CellsOf({c}) \cup CellsOf({d})
    BY CellsOfUnion
  <2>3. CellsOf({c}) = Cells(c) /\ CellsOf({d}) = Cells(d)
    BY CellsOfOne
  <2> QED
    BY <1>1, <2>1, <2>2, <2>3
<1> QED
  BY <1>2, <1>3 DEF Disjoint

-----------------------------------------------------------------------------
\* Each operation on one page keeps PageOK.

LEMMA FillType ==
  ASSUME NEW mem \in [Hdr .. PageUnits - 1 -> Content], NEW cs, NEW x \in Content
  PROVE  Fill(mem, cs, x) \in [Hdr .. PageUnits - 1 -> Content]
BY DEF Fill

LEMMA FreshOK == PageOK(FreshPage)
<1>1. FreshPage \in Page
  BY PageAssumption DEF FreshPage, Page, Content, Hdr
<1>2. CellsOf({}) = {} /\ Cardinality({}) = 0
  BY CellsOfEmpty, FS_EmptySet
<1>3. FreshPage.live \cup FreshPage.free = {} /\ FreshPage.free_mem = 0
      /\ FreshPage.used = 0 /\ FreshPage.live = {} /\ FreshPage.free = {}
  BY DEF FreshPage
<1>4. Hdr .. FreshPage.free_mem - 1 = {}
  BY <1>3 DEF Hdr
<1> QED
  BY <1>1, <1>2, <1>3, <1>4 DEF PageOK, PageTiled, PageMerged, Disjoint

\* An unused page has no blocks.
LEMMA UntouchedEmpty ==
  ASSUME NEW p, PageOK(p), p.free_mem = 0
  PROVE  p.live = {} /\ p.free = {}
BY TiledBounds DEF Block, Ends, Hdr

LEMMA TouchedOK ==
  ASSUME NEW p, PageOK(p)
  PROVE  PageOK(Touched(p)) /\ Touched(p).free_mem >= Hdr
<1>1. CASE p.free_mem # 0
  <2>1. Touched(p) = p
    BY <1>1 DEF Touched, PageOK, Page
  <2> QED
    BY <1>1, <2>1 DEF PageOK
<1>2. CASE p.free_mem = 0
  <2>1. p.live = {} /\ p.free = {}
    BY <1>2, UntouchedEmpty
  <2> DEFINE t == Touched(p)
  <2>2. t \in Page /\ t.live = {} /\ t.free = {} /\ t.free_mem = Hdr
        /\ t.used = p.used
    BY <1>2, <2>1, PageAssumption DEF Touched, PageOK, Page, Hdr, BlockHdr
  <2>3. Hdr .. Hdr - 1 = {} /\ {} \cup {} = {}
    BY DEF Hdr
  <2>4. CellsOf({}) = {}
    BY CellsOfEmpty
  <2>5. PageTiled(t)
    BY <2>2, <2>3, <2>4 DEF PageTiled, Disjoint
  <2>6. PageMerged(t)
    BY <2>2 DEF PageMerged
  <2> QED
    BY <2>1, <2>2, <2>5, <2>6 DEF PageOK, Hdr
<1> QED
  BY <1>1, <1>2

\* A block handed out: what the counter and the blocks in use become.
LEMMA HandFacts ==
  ASSUME NEW p \in Page, NEW b \in Block
  PROVE  /\ Hand(p, b) \in Page
         /\ Hand(p, b).live = p.live \cup {b}
         /\ Hand(p, b).free = p.free
         /\ Hand(p, b).free_mem = p.free_mem
         /\ Hand(p, b).used = p.used + b.size
<1> DEFINE m == Fill(Fill(p.mem, {b.at}, "junk"), Payload(b), "zero")
<1>1. m \in [Hdr .. PageUnits - 1 -> Content]
  BY FillType DEF Page, Content
<1> HIDE DEF m
<1>2. Hand(p, b) = [p EXCEPT !.used = p.used + b.size,
                             !.live = p.live \cup {b}, !.mem = m]
  BY DEF Hand, m
<1>3. p.used + b.size \in Nat /\ p.live \cup {b} \in SUBSET Block
  BY DEF Page, Block
<1> QED
  BY <1>1, <1>2, <1>3 DEF Page

\* The units a block is carved from stay covered: by it and by the rest.
LEMMA RestFacts ==
  ASSUME NEW b \in Block, Ends(b) <= PageUnits,
         NEW size \in Nat \ {0}, size <= b.size
  PROVE  LET rest == Rest(b, size)
             got  == [at |-> b.at, size |-> IF rest = {} THEN b.size ELSE size]
         IN  /\ got \in Block /\ rest \in SUBSET Block /\ Disjoint(rest)
             /\ Disjoint({got} \cup rest)
             /\ Cells(got) \cap CellsOf(rest) = {}
             /\ Cells(got) \cup CellsOf(rest) = Cells(b)
             /\ \A r \in rest : Ends(r) = Ends(b) /\ r.at = Ends(got)
                                /\ b.at < r.at
             /\ rest = {} => got = b
<1>0. b = [at |-> b.at, size |-> b.size]
  BY DEF Block
<1>1. CASE size = b.size
  <2>1. Rest(b, size) = {}
    BY <1>1, BlockCells DEF Rest, MinFree
  <2> QED
    BY <1>0, <2>1, CellsOfEmpty DEF Disjoint
<1>2. CASE size < b.size
  <2> DEFINE r == [at |-> b.at + size, size |-> b.size - size]
             g == [at |-> b.at, size |-> size]
  <2>1. Rest(b, size) = {r}
    BY <1>2, BlockCells DEF Rest, MinFree
  <2>2. r \in Block /\ g \in Block
    <3>1. b.at \in Hdr .. PageUnits - 1 /\ b.size \in 1 .. PageUnits
          /\ b.at + b.size <= PageUnits
      BY DEF Block, Ends
    <3>2. b.at + size \in Hdr .. PageUnits - 1 /\ b.size - size \in 1 .. PageUnits
          /\ size \in 1 .. PageUnits
      BY <1>2, <3>1, PageAssumption DEF Hdr
    <3> QED
      BY <3>1, <3>2 DEF Block
  <2>3. g.at = b.at /\ Ends(g) = r.at /\ Ends(r) = Ends(b) /\ b.at < r.at
    BY <1>2, BlockCells DEF Ends
  <2>4. /\ CellsOf({g, r}) = Cells(b) /\ Cells(g) \cap Cells(r) = {}
        /\ Disjoint({g, r})
    BY <2>2, <2>3, CutInTwo
  <2>5. CellsOf({r}) = Cells(r) /\ CellsOf({g}) = Cells(g)
        /\ {g} \cup {r} = {g, r} /\ {r} # {}
    BY CellsOfOne
  <2>6. CellsOf({g} \cup {r}) = CellsOf({g}) \cup CellsOf({r})
    BY CellsOfUnion
  <2>7. Disjoint({r})
    BY DEF Disjoint
  <2> HIDE DEF r, g
  <2>8. [at |-> b.at, size |-> IF {r} = {} THEN b.size ELSE size] = g
    BY <2>5 DEF g
  <2> QED
    BY <2>1, <2>2, <2>3, <2>4, <2>5, <2>6, <2>7, <2>8
<1> QED
  BY <1>1, <1>2, BlockCells

LEMMA PageBound ==
  ASSUME NEW p, PageOK(p), NEW b \in p.live \cup p.free
  PROVE  b \in Block /\ Ends(b) <= PageUnits
<1>1. b \in Block /\ Ends(b) <= p.free_mem
  BY TiledBounds
<1>2. p.free_mem \in 0 .. PageUnits
  BY DEF PageOK, Page
<1> QED
  BY <1>1, <1>2, BlockCells, PageAssumption

\* What a carved page consists of.
LEMMA CarveFacts ==
  ASSUME NEW p, PageOK(p), NEW size \in Nat \ {0},
         NEW b \in p.free, size <= b.size
  PROVE  LET rest == Rest(b, size)
             got  == [at |-> b.at, size |-> IF rest = {} THEN b.size ELSE size]
             c    == Carve(p, b, size)
         IN  /\ c \in Page /\ c.live = p.live \cup {got}
             /\ c.free = (p.free \ {b}) \cup rest
             /\ c.free_mem = p.free_mem /\ c.used = p.used + got.size
<1> DEFINE rest == Rest(b, size)
           got  == [at |-> b.at, size |-> IF rest = {} THEN b.size ELSE size]
           F    == (p.free \ {b}) \cup rest
           c    == Carve(p, b, size)
           m    == Fill(p.mem, {r.at : r \in rest}, "junk")
           q    == [p EXCEPT !.free = F, !.mem = m]
<1>1. b \in Block /\ Ends(b) <= PageUnits
  BY PageBound
<1>2. got \in Block /\ rest \in SUBSET Block
  BY <1>1, RestFacts
<1>3. p \in Page /\ p.free \in SUBSET Block
  BY DEF PageOK, Page
<1>4. m \in [Hdr .. PageUnits - 1 -> Content]
  BY <1>3, FillType DEF Page, Content
<1>5. F \in SUBSET Block
  BY <1>2, <1>3
<1> HIDE DEF m, F
<1>6. q \in Page /\ q.live = p.live /\ q.free = F
      /\ q.free_mem = p.free_mem /\ q.used = p.used
  BY <1>3, <1>4, <1>5 DEF Page
<1>7. c = Hand(q, got)
  BY DEF Carve, m, F
<1> HIDE DEF q, c, got
<1>8. /\ c \in Page /\ c.live = p.live \cup {got} /\ c.free = F
      /\ c.free_mem = p.free_mem /\ c.used = p.used + got.size
  BY <1>2, <1>6, <1>7, HandFacts
<1> QED
  BY <1>8 DEF c, got, F

LEMMA CarveOK ==
  ASSUME NEW p, PageOK(p), NEW size \in Nat \ {0},
         NEW b \in p.free, size <= b.size
  PROVE  PageOK(Carve(p, b, size))
<1> DEFINE rest == Rest(b, size)
           got  == [at |-> b.at, size |-> IF rest = {} THEN b.size ELSE size]
           L    == p.live \cup {got}
           F    == (p.free \ {b}) \cup rest
           c    == Carve(p, b, size)
<1>1. b \in Block /\ Ends(b) <= PageUnits
  BY PageBound
<1>2. /\ got \in Block /\ rest \in SUBSET Block /\ Disjoint(rest)
      /\ Disjoint({got} \cup rest)
      /\ Cells(got) \cap CellsOf(rest) = {}
      /\ Cells(got) \cup CellsOf(rest) = Cells(b)
      /\ \A r \in rest : Ends(r) = Ends(b) /\ r.at = Ends(got) /\ b.at < r.at
  BY <1>1, RestFacts
<1>3. /\ p \in Page /\ Split(p.live, p.free, p.free_mem) /\ PageMerged(p)
      /\ p.used = Cardinality(CellsOf(p.live)) /\ p.free_mem >= Hdr
  <2>1. p.free_mem # 0
    BY UntouchedEmpty
  <2> QED
    BY <2>1, TiledSplit DEF PageOK
<1>4. /\ c \in Page /\ c.live = L /\ c.free = F /\ c.free_mem = p.free_mem
      /\ c.used = p.used + got.size
  BY CarveFacts
<1> HIDE DEF c, got, rest
<1>5. CellsOf(p.free \ {b}) = CellsOf(p.free) \ Cells(b)
      /\ Disjoint(p.free \ {b}) /\ Cells(b) \subseteq CellsOf(p.free)
  BY <1>3, CellsOfMinus, DisjointSubset, CellsOfIn DEF Split
<1>6. CellsOf(F) = CellsOf(p.free) \ Cells(got)
  <2>1. CellsOf(F) = CellsOf(p.free \ {b}) \cup CellsOf(rest)
    BY CellsOfUnion
  <2> QED
    BY <1>2, <1>5, <2>1
<1>7. Disjoint(F)
  <2>1. CellsOf(p.free \ {b}) \cap CellsOf(rest) = {}
    BY <1>2, <1>5
  <2> QED
    BY <1>2, <1>5, <2>1, CellsOfIn DEF Disjoint
<1>8. Disjoint(L) /\ CellsOf(L) = CellsOf(p.live) \cup Cells(got)
      /\ Cells(got) \cap CellsOf(p.live) = {}
  <2>1. Cells(got) \cap CellsOf(p.live) = {}
    BY <1>2, <1>3, <1>5 DEF Split
  <2> QED
    BY <1>2, <1>3, <2>1, DisjointAdd DEF Split
<1>9. Split(L, F, p.free_mem)
  BY <1>2, <1>3, <1>5, <1>6, <1>7, <1>8 DEF Split
<1>10. PageTiled(c)
  BY <1>4, <1>9, TiledSplit
<1>11. PageMerged(c)
  <2>1. SUFFICES ASSUME NEW f \in F
                 PROVE  Ends(f) # p.free_mem /\ \A g \in F : Ends(f) # g.at
    BY <1>4 DEF PageMerged
  <2>2. \A f1 \in p.free : /\ Ends(f1) # p.free_mem
                           /\ \A g \in p.free : Ends(f1) # g.at
    BY <1>3 DEF PageMerged
  <2>3. PICK f1 \in p.free : Ends(f1) = Ends(f) /\ f1.at <= f.at
        /\ (f \in rest => f1 = b)
    <3>1. \A f2 \in p.free : f2.at <= f2.at
      BY <1>3, BlockCells DEF Split
    <3>2. \A r \in rest : b.at <= r.at
      BY <1>1, <1>2, BlockCells
    <3> QED
      BY <1>2, <3>1, <3>2
  <2>4. ASSUME NEW g \in rest PROVE Ends(f) # g.at
    <3>1. g.at = Ends(got) /\ got.at = b.at /\ got \in Block /\ b \in Block
          /\ g \in Block /\ Ends(g) = Ends(b)
      BY <1>1, <1>2, <2>4 DEF got
    <3>2. CASE f \in rest
      BY <3>1, <3>2, <1>2, BlockCells
    <3>3. CASE f \notin rest
      <4>1. f \in p.free \ {b} /\ f \in Block
        BY <2>1, <3>3, <1>3 DEF Split
      <4>2. Cells(f) \cap Cells(b) = {}
        BY <4>1, <1>3 DEF Split, Disjoint
      <4>3. SUFFICES ASSUME Ends(f) = g.at PROVE FALSE
        OBVIOUS
      <4>4. Ends(f) - 1 \in Cells(f) /\ Ends(f) - 1 \in Cells(b)
        BY <3>1, <4>1, <4>3, BlockCells
      <4> QED
        BY <4>2, <4>4
    <3> QED
      BY <3>2, <3>3
  <2> QED
    BY <2>1, <2>2, <2>3, <2>4
<1>12. c.used = Cardinality(CellsOf(c.live))
  <2>1. IsFiniteSet(CellsOf(p.live))
    BY TiledBounds
  <2> QED
    BY <1>2, <1>3, <1>4, <1>8, <2>1, CardAdd DEF Split
<1> QED
  BY <1>3, <1>4, <1>10, <1>11, <1>12 DEF PageOK, c

LEMMA BumpFacts ==
  ASSUME NEW p \in Page, p.free_mem >= Hdr, NEW size \in Nat \ {0},
         HasRoom(p, size)
  PROVE  LET g == [at |-> p.free_mem, size |-> size]
             c == Bump(p, size)
         IN  /\ g \in Block /\ Ends(g) = p.free_mem + size
             /\ c \in Page /\ c.live = p.live \cup {g} /\ c.free = p.free
             /\ c.free_mem = p.free_mem + size /\ c.used = p.used + size
<1> DEFINE g == [at |-> p.free_mem, size |-> size]
           q == [p EXCEPT !.free_mem = p.free_mem + size]
           c == Bump(p, size)
<1>1. p.free_mem \in 0 .. PageUnits /\ p.free_mem + size <= PageUnits
  BY DEF Page, HasRoom
<1>2. g \in Block /\ Ends(g) = p.free_mem + size
  BY <1>1, PageAssumption DEF Block, Ends, Hdr
<1>3. /\ q \in Page /\ q.live = p.live /\ q.free = p.free
      /\ q.free_mem = p.free_mem + size /\ q.used = p.used
  BY <1>1, PageAssumption DEF Page
<1>4. c = Hand(q, g)
  BY DEF Bump
<1>5. g.size = size
  OBVIOUS
<1> HIDE DEF q, c, g
<1>6. /\ c \in Page /\ c.live = p.live \cup {g} /\ c.free = p.free
      /\ c.free_mem = p.free_mem + size /\ c.used = p.used + size
  BY <1>2, <1>3, <1>4, <1>5, HandFacts
<1> QED
  BY <1>2, <1>6 DEF c, g

LEMMA BumpOK ==
  ASSUME NEW p, PageOK(p), p.free_mem >= Hdr, NEW size \in Nat \ {0},
         HasRoom(p, size)
  PROVE  PageOK(Bump(p, size))
<1> DEFINE g == [at |-> p.free_mem, size |-> size]
           c == Bump(p, size)
<1>1. /\ p \in Page /\ Split(p.live, p.free, p.free_mem) /\ PageMerged(p)
      /\ p.used = Cardinality(CellsOf(p.live))
      /\ p.free_mem \in 0 .. PageUnits /\ p.free_mem + size <= PageUnits
  BY TiledSplit DEF PageOK, Page, HasRoom
<1>2. g \in Block /\ Ends(g) = p.free_mem + size /\ g.size = size
  BY <1>1, BumpFacts
<1>6. /\ c \in Page /\ c.live = p.live \cup {g} /\ c.free = p.free
      /\ c.free_mem = p.free_mem + size /\ c.used = p.used + size
  BY <1>1, BumpFacts
<1> HIDE DEF c, g
<1>7. Cells(g) = p.free_mem .. (p.free_mem + size) - 1
  BY <1>2 DEF Cells, g
<1>8. Cells(g) \cap CellsOf(p.live) = {} /\ Cells(g) \cap CellsOf(p.free) = {}
  BY <1>1, <1>7 DEF Split, Hdr
<1>9. Disjoint(p.live \cup {g})
      /\ CellsOf(p.live \cup {g}) = CellsOf(p.live) \cup Cells(g)
  BY <1>1, <1>2, <1>8, DisjointAdd DEF Split
<1>10. Hdr .. (p.free_mem + size) - 1 = (Hdr .. p.free_mem - 1) \cup Cells(g)
  BY <1>1, <1>7 DEF Hdr
<1>11. Split(c.live, c.free, c.free_mem)
  BY <1>1, <1>2, <1>6, <1>8, <1>9, <1>10 DEF Split
<1>12. PageTiled(c)
  BY <1>6, <1>11, TiledSplit
<1>13. PageMerged(c)
  <2>1. \A f \in p.free : Ends(f) <= p.free_mem /\ f \in Block
    BY TiledBounds
  <2> QED
    BY <1>1, <1>6, <2>1, BlockCells DEF PageMerged
<1>14. c.used = Cardinality(CellsOf(c.live))
  <2>1. IsFiniteSet(CellsOf(p.live))
    BY TiledBounds
  <2>2. Cardinality(CellsOf(p.live \cup {g})) = Cardinality(CellsOf(p.live)) + size
    BY <1>1, <1>2, <1>8, <2>1, CardAdd DEF Split
  <2> QED
    BY <1>1, <1>6, <2>2
<1>15. c.free_mem >= Hdr
  BY <1>1, <1>6 DEF Hdr
<1> QED
  BY <1>6, <1>12, <1>13, <1>14, <1>15 DEF PageOK, c

-----------------------------------------------------------------------------
\* The loops of release stop where CHOOSE says: there is one such place.

LEMMA RunEndIs ==
  ASSUME NEW F, NEW x \in Int, NEW e \in x .. PageUnits,
         e \notin CellsOf(F), \A c \in x .. e - 1 : c \in CellsOf(F)
  PROVE  RunEnd(F, x) = e
<1>1. ASSUME NEW d \in x .. PageUnits, d \notin CellsOf(F),
             \A c \in x .. d - 1 : c \in CellsOf(F)
      PROVE  d = e
  <2>1. ~(d < e) /\ ~(e < d)
    BY <1>1, PageAssumption
  <2> QED
    BY <2>1, PageAssumption
<1> QED
  BY <1>1 DEF RunEnd

LEMMA RunStartIs ==
  ASSUME NEW F, NEW x \in Int, NEW s \in Hdr .. x,
         s - 1 \notin CellsOf(F), \A c \in s .. x - 1 : c \in CellsOf(F)
  PROVE  RunStart(F, x) = s
<1>1. ASSUME NEW d \in Hdr .. x, d - 1 \notin CellsOf(F),
             \A c \in d .. x - 1 : c \in CellsOf(F)
      PROVE  d = s
  <2>1. ~(d < s)
    <3>1. SUFFICES ASSUME d < s PROVE FALSE
      OBVIOUS
    <3>2. s - 1 \in d .. x - 1
      BY <3>1 DEF Hdr
    <3> QED
      BY <1>1, <3>2
  <2>2. ~(s < d)
    <3>1. SUFFICES ASSUME s < d PROVE FALSE
      OBVIOUS
    <3>2. d - 1 \in s .. x - 1
      BY <3>1 DEF Hdr
    <3> QED
      BY <1>1, <3>2
  <2> QED
    BY <2>1, <2>2 DEF Hdr
<1> QED
  BY <1>1 DEF RunStart

\* What release makes of a freed block and its free neighbours: a block that
\* covers it, reaches only over free units and has none left on either side.
LEMMA CoalescedFacts ==
  ASSUME NEW p, PageOK(p), NEW b \in p.live
  PROVE  LET m == Coalesced(p.free, b)
         IN  /\ m \in Block /\ Ends(m) <= p.free_mem
             /\ Cells(b) \subseteq Cells(m)
             /\ Cells(m) \subseteq CellsOf(p.free) \cup Cells(b)
             /\ m.at - 1 \notin CellsOf(p.free)
             /\ Ends(m) \notin CellsOf(p.free)
<1> DEFINE F == p.free
           x == Ends(b)
<1>1. /\ p \in Page /\ Split(p.live, F, p.free_mem)
      /\ \A f \in F : Ends(f) # p.free_mem /\ \A g \in F : Ends(f) # g.at
      /\ p.free_mem \in 0 .. PageUnits
  BY TiledSplit DEF PageOK, Page, PageMerged
<1>2. /\ b \in Block /\ x \in Int /\ x <= p.free_mem /\ b.at < x /\ b.at \in Int
      /\ Hdr <= b.at
      /\ \A f \in F : f \in Block /\ Ends(f) <= p.free_mem
  BY TiledBounds, BlockCells
<1>3. \A f \in F : Cells(f) \cap Cells(b) = {}
  BY <1>1, CellsOfIn DEF Split
<1>4. \A f, g \in F : f # g => Cells(f) \cap Cells(g) = {}
  BY <1>1 DEF Split, Disjoint
<1> HIDE DEF F, x
\* No free block starts right behind another one.
<1>5. ASSUME NEW f \in F PROVE Ends(f) \notin CellsOf(F)
  <2>1. SUFFICES ASSUME NEW g \in F, Ends(f) \in Cells(g) PROVE FALSE
    BY CellsOfIn
  <2>2. g.at < Ends(f)
    BY <1>1, <1>2, <2>1, BlockCells
  <2>3. Ends(f) - 1 \in Cells(g) /\ Ends(f) - 1 \in Cells(f) /\ f # g
    BY <1>2, <2>1, <2>2, BlockCells
  <2> QED
    BY <1>4, <2>3
<1>6. ASSUME NEW f \in F PROVE f.at - 1 \notin CellsOf(F)
  <2>1. SUFFICES ASSUME NEW g \in F, f.at - 1 \in Cells(g) PROVE FALSE
    BY CellsOfIn
  <2>2. Ends(g) # f.at
    BY <1>1
  <2>3. f.at \in Cells(g) /\ f.at \in Cells(f) /\ f # g
    BY <1>2, <2>1, <2>2, BlockCells
  <2> QED
    BY <1>4, <2>3
\* Where the forward loop stops.
<1>7. /\ RunEnd(F, x) \in x .. p.free_mem /\ RunEnd(F, x) \notin CellsOf(F)
      /\ \A c \in x .. RunEnd(F, x) - 1 : c \in CellsOf(F)
  <2>1. CASE \E f \in F : f.at = x
    <3>1. PICK f \in F : f.at = x
      BY <2>1
    <3>2. /\ Ends(f) \in x .. PageUnits /\ Ends(f) \in x .. p.free_mem
          /\ \A c \in x .. Ends(f) - 1 : c \in Cells(f)
      BY <1>1, <1>2, <3>1, BlockCells, PageAssumption
    <3>3. RunEnd(F, x) = Ends(f)
      BY <1>2, <1>5, <3>2, RunEndIs, CellsOfIn
    <3> QED
      BY <1>5, <3>2, <3>3, CellsOfIn
  <2>2. CASE ~ \E f \in F : f.at = x
    <3>1. x \notin CellsOf(F)
      <4>1. SUFFICES ASSUME NEW g \in F, x \in Cells(g) PROVE FALSE
        BY CellsOfIn
      <4>2. x - 1 \in Cells(g) /\ x - 1 \in Cells(b)
        BY <1>2, <2>2, <4>1, BlockCells DEF x
      <4> QED
        BY <1>3, <4>2
    <3>2. RunEnd(F, x) = x
      BY <1>1, <1>2, <3>1, RunEndIs, PageAssumption
    <3> QED
      BY <1>1, <1>2, <3>1, <3>2
  <2> QED
    BY <2>1, <2>2
<1> DEFINE prev == {f \in F : Ends(f) = b.at}
           s    == IF prev = {} THEN b.at ELSE (CHOOSE f \in prev : TRUE).at
           e    == RunEnd(F, x)
           m    == Coalesced(F, b)
<1>8. m = [at |-> s, size |-> e - s]
  BY DEF Coalesced, x
\* Where the block before, if it is free, starts.
<1>9. /\ s \in Hdr .. b.at /\ s - 1 \notin CellsOf(F)
      /\ \A c \in s .. b.at - 1 : c \in CellsOf(F)
  <2>1. CASE prev = {}
    <3>1. b.at - 1 \notin CellsOf(F)
      <4>1. SUFFICES ASSUME NEW g \in F, b.at - 1 \in Cells(g) PROVE FALSE
        BY CellsOfIn
      <4>2. Ends(g) # b.at
        BY <2>1
      <4>3. b.at \in Cells(g) /\ b.at \in Cells(b)
        BY <1>2, <4>1, <4>2, BlockCells
      <4> QED
        BY <1>3, <4>3
    <3> QED
      BY <1>2, <2>1, <3>1 DEF Hdr
  <2>2. CASE prev # {}
    <3>1. PICK f \in F : Ends(f) = b.at /\ s = f.at
      BY <2>2
    <3>2. \A c \in s .. b.at - 1 : c \in Cells(f)
      BY <1>2, <3>1, BlockCells
    <3>3. s \in Hdr .. b.at
      BY <1>2, <3>1, BlockCells DEF Hdr
    <3> QED
      BY <1>6, <3>1, <3>2, <3>3, CellsOfIn
  <2> QED
    BY <2>1, <2>2
<1> HIDE DEF s, e, prev, m
<1>10. s \in Int /\ e \in Int /\ Hdr <= s /\ s <= b.at /\ x <= e /\ e <= p.free_mem
  BY <1>2, <1>7, <1>9 DEF e, Hdr
<1>11. m \in Block /\ Ends(m) = e /\ m.at = s
  <2>1. s \in Hdr .. PageUnits - 1 /\ e - s \in 1 .. PageUnits
    BY <1>1, <1>2, <1>10, PageAssumption DEF Hdr
  <2> QED
    BY <1>8, <1>10, <2>1 DEF Block, Ends
<1>12. \A c : c \in Cells(m) <=> c \in Int /\ s <= c /\ c < e
  BY <1>11, BlockCells
<1>13. Cells(b) \subseteq Cells(m)
  BY <1>2, <1>10, <1>12, BlockCells DEF x
<1>14. Cells(m) \subseteq CellsOf(F) \cup Cells(b)
  <2>1. SUFFICES ASSUME NEW c \in Int, s <= c, c < e, c \notin Cells(b)
                 PROVE  c \in CellsOf(F)
    BY <1>12
  <2>2. c < b.at \/ x <= c
    BY <1>2, <2>1, BlockCells DEF x
  <2> QED
    BY <1>2, <1>7, <1>9, <1>10, <2>1, <2>2 DEF e
<1> QED
  BY <1>7, <1>9, <1>10, <1>11, <1>13, <1>14 DEF m, F, e

\* A page from which its client's block has gone.
Less(p, b) == [Poisoned(p, b) EXCEPT !.used = @ - b.size]

LEMMA LessFacts ==
  ASSUME NEW p, PageOK(p), NEW b \in p.live
  PROVE  /\ Less(p, b) \in Page
         /\ Less(p, b).live = p.live \ {b} /\ Less(p, b).free = p.free
         /\ Less(p, b).free_mem = p.free_mem
         /\ Less(p, b).used = p.used - b.size
         /\ p.used >= b.size
         /\ Less(p, b).used = Cardinality(CellsOf(p.live \ {b}))
         /\ Less(p, b).used = 0 => p.live \ {b} = {}
<1>1. /\ p \in Page /\ Split(p.live, p.free, p.free_mem)
      /\ p.used = Cardinality(CellsOf(p.live)) /\ b \in Block
      /\ IsFiniteSet(CellsOf(p.live)) /\ b.size \in Int /\ b.size > 0
  BY TiledSplit, TiledBounds, BlockCells DEF PageOK
<1>2. /\ IsFiniteSet(CellsOf(p.live \ {b}))
      /\ p.used = Cardinality(CellsOf(p.live \ {b})) + b.size
  BY <1>1, CardRemove DEF Split
<1>3. Cardinality(CellsOf(p.live \ {b})) \in Nat
  BY <1>2, FS_CardinalityType
<1> DEFINE m == Fill(p.mem, Cells(b), "junk")
<1>4. m \in [Hdr .. PageUnits - 1 -> Content]
  BY <1>1, FillType DEF Page, Content
<1> HIDE DEF m
<1>5. Poisoned(p, b) = [p EXCEPT !.live = p.live \ {b}, !.mem = m]
  BY DEF Poisoned, m
<1>6. /\ Poisoned(p, b) \in Page
      /\ Poisoned(p, b).live = p.live \ {b} /\ Poisoned(p, b).free = p.free
      /\ Poisoned(p, b).free_mem = p.free_mem /\ Poisoned(p, b).used = p.used
  BY <1>1, <1>4, <1>5 DEF Page
<1>7. p.used - b.size \in Nat
  BY <1>1, <1>2, <1>3
<1>8. /\ Less(p, b) \in Page
      /\ Less(p, b).live = p.live \ {b} /\ Less(p, b).free = p.free
      /\ Less(p, b).free_mem = p.free_mem
      /\ Less(p, b).used = p.used - b.size
  BY <1>6, <1>7 DEF Less, Page
<1>9. ASSUME Cardinality(CellsOf(p.live \ {b})) = 0, NEW c \in p.live \ {b}
      PROVE  FALSE
  <2>1. CellsOf(p.live \ {b}) = {}
    BY <1>2, <1>9, FS_EmptySet
  <2>2. c \in Block
    BY <1>1, <1>9 DEF Split
  <2>3. c.at \in Cells(c)
    BY <2>2, BlockCells
  <2>4. c.at \in CellsOf(p.live \ {b})
    BY <1>9, <2>3, CellsOfIn
  <2> QED
    BY <2>1, <2>4
<1> QED
  BY <1>1, <1>2, <1>3, <1>8, <1>9

LEMMA InsertedOK ==
  ASSUME NEW p, PageOK(p), NEW b \in p.live
  PROVE  PageOK(Inserted(Less(p, b), b))
<1> DEFINE q == Less(p, b)
           F == p.free
           L == p.live \ {b}
           m == Coalesced(F, b)
           G == {f \in F : Cells(f) \cap Cells(m) = {}}
           r == [q EXCEPT !.free = G \cup {m}]
<1>1. /\ p \in Page /\ Split(p.live, F, p.free_mem)
      /\ \A f \in F : Ends(f) # p.free_mem /\ \A g \in F : Ends(f) # g.at
      /\ p.free_mem \in 0 .. PageUnits
  BY TiledSplit DEF PageOK, Page, PageMerged
<1>2. /\ q \in Page /\ q.live = L /\ q.free = F /\ q.free_mem = p.free_mem
      /\ q.used = Cardinality(CellsOf(L))
  BY LessFacts
<1>3. /\ m \in Block /\ Ends(m) <= p.free_mem
      /\ Cells(b) \subseteq Cells(m)
      /\ Cells(m) \subseteq CellsOf(F) \cup Cells(b)
      /\ m.at - 1 \notin CellsOf(F) /\ Ends(m) \notin CellsOf(F)
  BY CoalescedFacts
<1>4. Inserted(q, b) = Trimmed(r, m)
  BY <1>2 DEF Inserted
<1> HIDE DEF q, m
<1>5. G \subseteq F /\ G \in SUBSET Block /\ Cells(m) \cap CellsOf(G) = {}
  BY <1>1, CellsOfIn DEF Split
<1>6. Disjoint(G) /\ Disjoint(L) /\ L \in SUBSET Block
  BY <1>1, DisjointSubset DEF Split
<1>7. Disjoint(G \cup {m}) /\ CellsOf(G \cup {m}) = CellsOf(G) \cup Cells(m)
  BY <1>3, <1>5, <1>6, DisjointAdd
<1>8. /\ r \in Page /\ r.live = L /\ r.free = G \cup {m}
      /\ r.free_mem = p.free_mem /\ r.used = Cardinality(CellsOf(L))
  BY <1>2, <1>3, <1>5 DEF Page
<1> HIDE DEF r
\* A free block is swallowed whole or not touched.
<1>9. CellsOf(G) \cup Cells(m) = CellsOf(F) \cup Cells(b)
  <2>1. ASSUME NEW f \in F, NEW y, y \in Cells(f), y \in Cells(m)
        PROVE  Cells(f) \subseteq Cells(m)
    <3>1. f \in Block /\ Cells(f) \subseteq CellsOf(F)
      BY <1>1, CellsOfIn DEF Split
    <3>2. m.at - 1 \notin Cells(f) /\ Ends(m) \notin Cells(f)
      BY <1>3, <3>1
    <3> QED
      BY <1>3, <2>1, <3>1, <3>2, BlockCells
  <2>2. CellsOf(F) \subseteq CellsOf(G) \cup Cells(m)
    <3>1. SUFFICES ASSUME NEW f \in F, NEW y \in Cells(f), y \notin Cells(m)
                   PROVE  y \in CellsOf(G)
      BY CellsOfIn
    <3>2. f \in G
      BY <2>1, <3>1
    <3> QED
      BY <3>1, <3>2, CellsOfIn
  <2>3. CellsOf(G) \subseteq CellsOf(F)
    BY <1>5, CellsOfIn
  <2> QED
    BY <1>3, <2>2, <2>3
<1>10. CellsOf(L) = CellsOf(p.live) \ Cells(b) /\ Cells(b) \subseteq CellsOf(p.live)
  BY <1>1, CellsOfMinus, CellsOfIn DEF Split
<1>11. Split(L, G \cup {m}, p.free_mem)
  BY <1>1, <1>3, <1>5, <1>6, <1>7, <1>9, <1>10 DEF Split
<1>12. p.free_mem >= Hdr /\ m.at >= Hdr /\ m.at \in 0 .. PageUnits
  BY <1>1, <1>3, BlockCells, PageAssumption DEF Hdr, Block
\* The neighbours of the joined block.
<1>13. ASSUME NEW f \in G PROVE Ends(f) # m.at /\ Ends(m) # f.at /\ f # m
  <2>1. f \in F /\ f \in Block /\ Cells(f) \subseteq CellsOf(F)
    BY <1>5, <1>1, CellsOfIn DEF Split
  <2>2. Ends(f) - 1 \in Cells(f) /\ f.at \in Cells(f)
    BY <2>1, BlockCells
  <2>3. f # m
    BY <1>3, <2>2, BlockCells
  <2> QED
    BY <1>3, <2>1, <2>2, <2>3
<1>14. CASE Ends(m) # p.free_mem
  <2>1. Inserted(q, b) = r
    BY <1>4, <1>8, <1>14 DEF Trimmed
  <2>2. PageMerged(r)
    <3>1. Ends(m) # m.at
      BY <1>3, BlockCells
    <3> QED
      BY <1>1, <1>5, <1>8, <1>13, <1>14, <3>1 DEF PageMerged
  <2> QED
    BY <1>8, <1>11, <1>12, <2>1, <2>2, TiledSplit DEF PageOK, q
<1>15. CASE Ends(m) = p.free_mem
  <2>1. RunStart(r.free, r.free_mem) = m.at
    <3>1. m.at - 1 \notin CellsOf(G \cup {m})
      <4>1. m.at - 1 \notin Cells(m)
        BY <1>3, BlockCells
      <4>2. CellsOf(G) \subseteq CellsOf(F)
        BY <1>5, CellsOfIn
      <4> QED
        BY <1>3, <1>7, <4>1, <4>2
    <3>2. \A c \in m.at .. p.free_mem - 1 : c \in CellsOf(G \cup {m})
      <4>1. ASSUME NEW c \in m.at .. p.free_mem - 1 PROVE c \in Cells(m)
        BY <1>1, <1>3, <1>15, <4>1, BlockCells
      <4> QED
        BY <1>7, <4>1
    <3>3. m.at \in Hdr .. p.free_mem
      BY <1>3, <1>12, <1>15, BlockCells DEF Hdr
    <3>4. p.free_mem \in Int
      BY <1>1
    <3> QED
      BY <1>8, <3>1, <3>2, <3>3, <3>4, RunStartIs
  <2>2. {f \in G \cup {m} : f.at < m.at} = G
    <3>1. ASSUME NEW f \in G PROVE f.at < m.at
      <4>1. f \in Block /\ Ends(f) <= p.free_mem
        BY <1>5, TiledBounds
      <4>2. Cells(f) \cap Cells(m) = {}
        BY <3>1
      <4>3. SUFFICES ASSUME ~(f.at < m.at) PROVE FALSE
        OBVIOUS
      <4>4. f.at \in Cells(m) /\ f.at \in Cells(f)
        BY <1>3, <1>15, <4>1, <4>3, BlockCells
      <4> QED
        BY <4>2, <4>4
    <3>2. ~(m.at < m.at)
      BY <1>3, BlockCells
    <3> QED
      BY <3>1, <3>2
  <2> DEFINE t == [r EXCEPT !.free = G, !.free_mem = m.at]
  <2>3. Inserted(q, b) = t
    BY <1>4, <1>8, <1>15, <2>1, <2>2 DEF Trimmed
  <2>4. /\ t \in Page /\ t.live = L /\ t.free = G /\ t.free_mem = m.at
        /\ t.used = Cardinality(CellsOf(L))
    BY <1>5, <1>8, <1>12 DEF Page
  <2> HIDE DEF t
  <2>5. Split(L, G, m.at)
    <3>1. CellsOf(L) \cup (CellsOf(G) \cup Cells(m)) = Hdr .. p.free_mem - 1
      BY <1>7, <1>11 DEF Split
    <3>2. Cells(m) \cap (CellsOf(L) \cup CellsOf(G)) = {}
      BY <1>5, <1>7, <1>11 DEF Split
    <3>3. \A y : y \in Hdr .. m.at - 1 <=> y \in Hdr .. p.free_mem - 1 /\ y \notin Cells(m)
      BY <1>1, <1>3, <1>12, <1>15, BlockCells DEF Hdr
    <3>4. CellsOf(L) \cup CellsOf(G) = Hdr .. m.at - 1
      BY <3>1, <3>2, <3>3
    <3> QED
      BY <1>5, <1>6, <1>7, <1>11, <3>4 DEF Split
  <2>6. PageMerged(t)
    BY <1>1, <1>5, <1>13, <2>4 DEF PageMerged
  <2> QED
    BY <1>12, <2>3, <2>4, <2>5, <2>6, TiledSplit DEF PageOK, q
<1> QED
  BY <1>14, <1>15

LEMMA EmptiedOK ==
  ASSUME NEW p, PageOK(p), NEW b \in p.live, Less(p, b).used = 0
  PROVE  PageOK(Emptied(Less(p, b)))
<1> DEFINE q == Less(p, b)
           t == Emptied(q)
<1>1. q \in Page /\ q.live = p.live \ {b} /\ p.live \ {b} = {}
  <2>1. q \in Page /\ q.live = p.live \ {b}
    BY LessFacts
  <2>2. p.live \ {b} = {}
    BY LessFacts
  <2> QED
    BY <2>1, <2>2
<1> HIDE DEF q
<1>2. t \in Page /\ t.live = {} /\ t.free = {} /\ t.free_mem = 0 /\ t.used = 0
  <2>1. t.live = q.live /\ t.free = {} /\ t.free_mem = 0 /\ t.used = 0
    BY <1>1 DEF Emptied, Page
  <2>2. 0 \in 0 .. PageUnits /\ 0 \in Nat /\ {} \in SUBSET Block
    BY PageAssumption
  <2>3. t \in Page
    BY <1>1, <2>2 DEF Emptied, Page
  <2> QED
    BY <1>1, <2>1, <2>3
<1>3. CellsOf({}) = {} /\ Cardinality({}) = 0 /\ Hdr .. 0 - 1 = {}
      /\ {} \cup {} = {}
  BY CellsOfEmpty, FS_EmptySet DEF Hdr
<1> HIDE DEF t
<1>4. PageTiled(t) /\ PageMerged(t)
  BY <1>2, <1>3 DEF PageTiled, PageMerged, Disjoint
<1> QED
  BY <1>2, <1>3, <1>4 DEF PageOK, t, q

-----------------------------------------------------------------------------
\* Growing a block in place.

\* Two neighbouring blocks in use made one.
LEMMA JoinOK ==
  ASSUME NEW c, PageOK(c), NEW b \in c.live, NEW d \in c.live,
         Ends(b) = d.at, NEW t \in Page,
         t.live = (c.live \ {b, d})
                    \cup {[at |-> b.at, size |-> b.size + d.size]},
         t.free = c.free, t.free_mem = c.free_mem, t.used = c.used
  PROVE  PageOK(t)
<1> DEFINE g == [at |-> b.at, size |-> b.size + d.size]
<1>1. /\ c \in Page /\ Split(c.live, c.free, c.free_mem)
      /\ b \in Block /\ d \in Block /\ Ends(d) <= PageUnits
  BY TiledSplit, PageBound DEF PageOK
<1>2. g \in Block /\ g.at = b.at /\ Ends(g) = Ends(d)
  <2>1. b.at \in Hdr .. PageUnits - 1 /\ b.size \in 1 .. PageUnits
        /\ d.size \in 1 .. PageUnits /\ b.at + b.size + d.size <= PageUnits
    BY <1>1 DEF Block, Ends
  <2>2. b.size + d.size \in 1 .. PageUnits
    BY <2>1, PageAssumption DEF Hdr
  <2> QED
    BY <1>1, <2>1, <2>2, PageAssumption DEF Block, Ends, Hdr
<1> HIDE DEF g
<1>3. CellsOf({b, d}) = Cells(g)
  BY <1>1, <1>2, CutInTwo
<1>4. CellsOf({g}) = Cells(g) /\ Disjoint({g})
  BY CellsOfOne DEF Disjoint
<1>5. Disjoint(t.live) /\ CellsOf(t.live) = CellsOf(c.live)
      /\ t.live \in SUBSET Block
  <2>1. /\ Disjoint((c.live \ {b, d}) \cup {g})
        /\ CellsOf((c.live \ {b, d}) \cup {g}) = CellsOf(c.live)
    BY <1>1, <1>2, <1>3, <1>4, Regroup DEF Split
  <2> QED
    BY <2>1 DEF g, Page
<1>6. Split(t.live, t.free, t.free_mem)
  BY <1>1, <1>5 DEF Split
<1>7. PageMerged(t) /\ t.used = Cardinality(CellsOf(t.live))
      /\ (t.free_mem = 0 \/ t.free_mem >= Hdr)
  BY <1>5 DEF PageOK, PageMerged
<1> QED
  BY <1>6, <1>7, TiledSplit DEF PageOK

LEMMA GrownFacts ==
  ASSUME NEW p \in Page, NEW b \in p.live, NEW take \in Nat,
         Ends(b) + take <= PageUnits
  PROVE  LET g == [at |-> b.at, size |-> b.size + take]
             t == Grown(p, b, take)
         IN  /\ t \in Page /\ t.live = (p.live \ {b}) \cup {g}
             /\ t.free = p.free /\ t.free_mem = p.free_mem
             /\ t.used = p.used + take
<1> DEFINE g == [at |-> b.at, size |-> b.size + take]
           t == Grown(p, b, take)
           m == Fill(p.mem, Ends(b) .. Ends(b) + take - 1, "zero")
<1>1. b \in Block /\ p.used \in Nat
  BY DEF Page
<1>2. g \in Block
  <2>1. b.at \in Hdr .. PageUnits - 1 /\ b.size \in 1 .. PageUnits
        /\ b.at + b.size + take <= PageUnits
    BY <1>1 DEF Block, Ends
  <2>2. b.size + take \in 1 .. PageUnits
    BY <2>1, PageAssumption DEF Hdr
  <2> QED
    BY <2>1, <2>2 DEF Block
<1>3. m \in [Hdr .. PageUnits - 1 -> Content]
  BY FillType DEF Page, Content
<1>4. (p.live \ {b}) \cup {g} \in SUBSET Block /\ p.used + take \in Nat
  BY <1>1, <1>2 DEF Page
<1> HIDE DEF m, g
<1>5. t = [p EXCEPT !.used = p.used + take, !.live = (p.live \ {b}) \cup {g},
                    !.mem = m]
  BY DEF Grown, m, g
<1> HIDE DEF t
<1>6. /\ t \in Page /\ t.live = (p.live \ {b}) \cup {g}
      /\ t.free = p.free /\ t.free_mem = p.free_mem
      /\ t.used = p.used + take
  BY <1>3, <1>4, <1>5 DEF Page
<1> QED
  BY <1>6 DEF t, g

LEMMA IntoFreeOK ==
  ASSUME NEW p, PageOK(p), NEW b \in p.live, NEW f \in Behind(p, b),
         NEW size \in Nat, b.size < size, size <= b.size + f.size
  PROVE  PageOK(IntoFree(p, b, f, size))
<1> DEFINE more == size - b.size
           rest == Rest(f, more)
           take == IF rest = {} THEN f.size ELSE more
           got  == [at |-> f.at, size |-> take]
           F    == (p.free \ {f}) \cup rest
           c    == Carve(p, f, more)
           m    == Fill(p.mem, {r.at : r \in rest}, "junk")
           q    == [p EXCEPT !.free = F, !.mem = m]
           t    == IntoFree(p, b, f, size)
<1>1. /\ p \in Page /\ f \in p.free /\ f.at = Ends(b)
      /\ b \in Block /\ f \in Block /\ Ends(f) <= PageUnits
  BY PageBound DEF Behind, PageOK
<1>2. more \in Nat \ {0} /\ more <= f.size
  BY <1>1, BlockCells
<1> HIDE DEF more
<1>3. /\ c \in Page /\ c.live = p.live \cup {got} /\ c.free = F
      /\ c.free_mem = p.free_mem /\ c.used = p.used + take
  BY <1>1, <1>2, CarveFacts
<1>4. PageOK(c)
  BY <1>1, <1>2, CarveOK
<1>5. got \notin p.live /\ got # b
  <2>1. f.at \in CellsOf(p.free)
    BY <1>1, BlockCells, CellsOfIn
  <2>2. CellsOf(p.live) \cap CellsOf(p.free) = {}
    BY TiledSplit DEF PageOK, Split
  <2>3. ASSUME got \in p.live PROVE FALSE
    <3>1. got \in Block /\ got.at = f.at
      BY <1>1, <2>3 DEF Page
    <3>2. f.at \in CellsOf(p.live)
      BY <2>3, <3>1, BlockCells, CellsOfIn
    <3> QED
      BY <2>1, <2>2, <3>2
  <2> QED
    BY <2>3
<1>6. take \in Nat /\ take <= f.size
  BY <1>1, <1>2, BlockCells
<1>7. m \in [Hdr .. PageUnits - 1 -> Content]
  BY <1>1, FillType DEF Page, Content
<1>8. F \in SUBSET Block
  BY <1>3 DEF Page
<1>9. q \in Page /\ q.live = p.live /\ q.free = F
      /\ q.free_mem = p.free_mem /\ q.used = p.used
  <2> HIDE DEF m, F
  <2> QED
    BY <1>1, <1>7, <1>8 DEF Page
<1>10. t = Grown(q, b, take)
  BY DEF IntoFree, more
<1>11. Ends(b) + take <= PageUnits
  BY <1>1, <1>6, BlockCells, PageAssumption
<1> HIDE DEF F, c, m, q, t, take
<1>12. /\ t \in Page /\ t.live = (p.live \ {b})
                       \cup {[at |-> b.at, size |-> b.size + take]}
       /\ t.free = F /\ t.free_mem = p.free_mem /\ t.used = p.used + take
  BY <1>6, <1>9, <1>10, <1>11, GrownFacts
<1>13. (c.live \ {b, got}) = p.live \ {b} /\ b \in c.live /\ got \in c.live
       /\ Ends(b) = got.at /\ got.size = take
  BY <1>1, <1>3, <1>5
<1> HIDE DEF got
<1>14. PageOK(t)
  BY <1>3, <1>4, <1>12, <1>13, JoinOK
<1> QED
  BY <1>14 DEF t

LEMMA IntoBumpOK ==
  ASSUME NEW p, PageOK(p), NEW b \in p.live, NEW size \in Nat, b.size < size,
         BumpReaches(p, b, size)
  PROVE  PageOK(IntoBump(p, b, size))
<1> DEFINE more == size - b.size
           got  == [at |-> p.free_mem, size |-> more]
           c    == Bump(p, more)
           q    == [p EXCEPT !.free_mem = p.free_mem + more]
           t    == IntoBump(p, b, size)
<1>1. /\ p \in Page /\ Ends(b) = p.free_mem /\ p.free_mem + size - b.size <= PageUnits
      /\ b \in Block /\ p.free_mem \in 0 .. PageUnits
      /\ Split(p.live, p.free, p.free_mem) /\ p.free_mem >= Hdr
  <2>1. b \in Block /\ Hdr <= b.at /\ b.at < Ends(b) /\ Ends(b) <= p.free_mem
    BY TiledBounds
  <2>2. /\ Ends(b) = p.free_mem /\ p.free_mem + size - b.size <= PageUnits
        /\ p \in Page /\ p.free_mem \in 0 .. PageUnits
    BY DEF PageOK, Page, BumpReaches
  <2>3. p.free_mem # 0
    BY <2>1, <2>2, BlockCells DEF Hdr
  <2>4. p.free_mem >= Hdr
    BY <2>3 DEF PageOK
  <2>5. Split(p.live, p.free, p.free_mem)
    BY TiledSplit DEF PageOK
  <2> QED
    BY <2>1, <2>2, <2>4, <2>5
<1>2. more \in Nat \ {0} /\ p.free_mem + more <= PageUnits
  BY <1>1, BlockCells, PageAssumption
<1>3. HasRoom(p, more)
  <2>1. p.used <= p.free_mem - Hdr
    <3>1. CellsOf(p.live) \subseteq Hdr .. p.free_mem - 1
      BY <1>1 DEF Split
    <3>2. IsFiniteSet(Hdr .. p.free_mem - 1)
          /\ Cardinality(Hdr .. p.free_mem - 1) = p.free_mem - Hdr
      <4>1. p.free_mem > Hdr /\ Hdr \in Int
        BY <1>1, TiledBounds, BlockCells DEF Hdr
      <4> DEFINE n == p.free_mem - Hdr
      <4>2. n \in Int /\ n > 0 /\ (Hdr + n) - 1 = p.free_mem - 1
        BY <1>1, <4>1, PageAssumption DEF Hdr
      <4> HIDE DEF n
      <4>3. IsFiniteSet(Hdr .. (Hdr + n) - 1)
            /\ Cardinality(Hdr .. (Hdr + n) - 1) = n
        BY <4>1, <4>2, IntervalCard
      <4> QED
        BY <4>2, <4>3 DEF n
    <3>3. Cardinality(CellsOf(p.live)) <= Cardinality(Hdr .. p.free_mem - 1)
      BY <3>1, <3>2, FS_Subset
    <3> QED
      BY <3>2, <3>3 DEF PageOK
  <2> QED
    BY <1>1, <1>2, <2>1, PageAssumption DEF HasRoom, Hdr, Page
<1> HIDE DEF more
<1>4. /\ got \in Block /\ c \in Page /\ c.live = p.live \cup {got}
      /\ c.free = p.free /\ c.free_mem = p.free_mem + more
      /\ c.used = p.used + more
  BY <1>1, <1>2, <1>3, BumpFacts
<1>5. PageOK(c)
  BY <1>1, <1>2, <1>3, BumpOK
<1>6. got \notin p.live
  <2>1. ASSUME got \in p.live PROVE FALSE
    <3>1. p.free_mem \in CellsOf(p.live)
      BY <1>4, <2>1, BlockCells, CellsOfIn
    <3> QED
      BY <1>1, <3>1 DEF Split
  <2> QED
    BY <2>1
<1>7. q \in Page /\ q.live = p.live /\ q.free = p.free
      /\ q.free_mem = p.free_mem + more /\ q.used = p.used
  BY <1>1, <1>2, PageAssumption DEF Page
<1>8. t = Grown(q, b, more)
  <2>1. p.free_mem + size - b.size = p.free_mem + more
    BY <1>1, BlockCells, PageAssumption DEF more
  <2> QED
    BY <2>1 DEF IntoBump, more
<1>9. Ends(b) + more <= PageUnits
  BY <1>1, <1>2
<1> HIDE DEF c, q, t
<1>10. /\ t \in Page /\ t.live = (p.live \ {b})
                       \cup {[at |-> b.at, size |-> b.size + more]}
       /\ t.free = p.free /\ t.free_mem = p.free_mem + more
       /\ t.used = p.used + more
  BY <1>2, <1>7, <1>8, <1>9, GrownFacts
<1>11. (c.live \ {b, got}) = p.live \ {b} /\ b \in c.live /\ got \in c.live
       /\ Ends(b) = got.at /\ got.size = more
  BY <1>1, <1>4, <1>6
<1> HIDE DEF got
<1>12. PageOK(t)
  BY <1>4, <1>5, <1>10, <1>11, JoinOK
<1> QED
  BY <1>12 DEF t

\* The contents of a page are nobody's business but its clients'.
LEMMA MemOK ==
  ASSUME NEW p, PageOK(p), NEW m \in [Hdr .. PageUnits - 1 -> Content]
  PROVE  PageOK([p EXCEPT !.mem = m])
<1> DEFINE t == [p EXCEPT !.mem = m]
<1>1. t \in Page /\ t.live = p.live /\ t.free = p.free
      /\ t.free_mem = p.free_mem /\ t.used = p.used
  BY DEF PageOK, Page
<1> QED
  BY <1>1 DEF PageOK, PageTiled, PageMerged

LEMMA ServeOK ==
  ASSUME NEW p, PageOK(p), NEW size \in Nat \ {0}, CanServe(p, size),
         NEW s \in Serve(p, size)
  PROVE  /\ PageOK(s.page) /\ s.at \in Int
         /\ \E b \in Block : /\ s.page.live = p.live \cup {b}
                             /\ b.at = s.at /\ b.size >= size
<1>1. CASE \E b \in p.free : b.size >= size
  <2>1. PICK b \in p.free : /\ b.size >= size
                            /\ s = [page |-> Carve(p, b, size), at |-> b.at]
    BY <1>1 DEF Serve, FirstFits
  <2>2. b \in Block /\ size <= b.size /\ b.size \in Int /\ Ends(b) <= PageUnits
    BY <2>1, PageBound, BlockCells
  <2>3. s.page = Carve(p, b, size) /\ s.at = b.at
    BY <2>1
  <2> DEFINE rest == Rest(b, size)
             got  == [at |-> b.at, size |-> IF rest = {} THEN b.size ELSE size]
  <2>4. s.page.live = p.live \cup {got}
    BY <2>2, <2>3, CarveFacts
  <2>5. got \in Block
    BY <2>2, RestFacts
  <2>6. got.at = s.at /\ got.size >= size
    BY <2>2, <2>3
  <2> HIDE DEF got
  <2> QED
    BY <2>2, <2>3, <2>4, <2>5, <2>6, CarveOK, BlockCells
<1>2. CASE ~ \E b \in p.free : b.size >= size
  <2> DEFINE t == Touched(p)
             got == [at |-> t.free_mem, size |-> size]
  <2>1. s = [page |-> Bump(t, size), at |-> t.free_mem] /\ HasRoom(t, size)
    BY <1>2 DEF Serve, CanServe
  <2>2. s.page = Bump(t, size) /\ s.at = t.free_mem
    BY <2>1
  <2>3. PageOK(t) /\ t.free_mem >= Hdr
    BY TouchedOK
  <2>4. t.live = p.live
    BY DEF Touched, PageOK, Page
  <2> HIDE DEF t
  <2>5. t \in Page /\ t.free_mem \in Int
    BY <2>3 DEF PageOK, Page
  <2>6. got \in Block /\ s.page.live = p.live \cup {got}
    BY <2>1, <2>2, <2>3, <2>4, <2>5, BumpFacts
  <2>7. got.at = s.at /\ got.size >= size
    BY <2>2
  <2> HIDE DEF got
  <2> QED
    BY <2>1, <2>2, <2>3, <2>5, <2>6, <2>7, BumpOK
<1> QED
  BY <1>1, <1>2

\* A block that is released leaves the others in use as they are.
LEMMA InsertedLive ==
  ASSUME NEW p, PageOK(p), NEW b \in p.live
  PROVE  Inserted(Less(p, b), b).live = p.live \ {b}
<1> DEFINE q == Less(p, b)
           m == Coalesced(q.free, b)
           G == {f \in q.free : Cells(f) \cap Cells(m) = {}} \cup {m}
           r == [q EXCEPT !.free = G]
<1>1. q \in Page /\ q.live = p.live \ {b}
  BY LessFacts
<1>2. Inserted(q, b) = Trimmed(r, m)
  BY DEF Inserted
<1> HIDE DEF q, m, G
<1>3. r.live = q.live
  BY <1>1 DEF Page
<1>4. \/ Trimmed(r, m) = r
      \/ \E F, s : Trimmed(r, m) = [r EXCEPT !.free = F, !.free_mem = s]
  BY DEF Trimmed
<1>5. Trimmed(r, m).live = r.live
  <2>1. ASSUME NEW F, NEW s, Trimmed(r, m) = [r EXCEPT !.free = F, !.free_mem = s]
        PROVE  Trimmed(r, m).live = r.live
    BY <1>1, <2>1 DEF Page
  <2> QED
    BY <1>4, <2>1
<1> QED
  BY <1>1, <1>2, <1>3, <1>5 DEF q

\* A block that grew where it is.
LEMMA InPlaceOK ==
  ASSUME NEW p, PageOK(p), NEW b \in p.live, NEW size \in Nat, b.size < size,
         NEW t \in InPlace(p, b, size)
  PROVE  /\ PageOK(t)
         /\ \E d \in Block : /\ t.live = (p.live \ {b}) \cup {d}
                             /\ d.at = b.at /\ d.size >= size
<1>1. b \in Block /\ b.size \in Int /\ p \in Page
  BY TiledBounds, BlockCells DEF PageOK
<1>2. \/ \E f \in Behind(p, b) : b.size + f.size >= size /\ t = IntoFree(p, b, f, size)
      \/ BumpReaches(p, b, size) /\ t = IntoBump(p, b, size)
  BY DEF InPlace
<1>3. ASSUME NEW f \in Behind(p, b), b.size + f.size >= size,
             t = IntoFree(p, b, f, size)
      PROVE  /\ PageOK(t)
             /\ \E x : x \in Nat /\ x >= size - b.size
                       /\ t.live = (p.live \ {b}) \cup {[at |-> b.at, size |-> b.size + x]}
  <2> DEFINE rest == Rest(f, size - b.size)
             take == IF rest = {} THEN f.size ELSE size - b.size
             F    == (p.free \ {f}) \cup rest
             m    == Fill(p.mem, {r.at : r \in rest}, "junk")
             q    == [p EXCEPT !.free = F, !.mem = m]
  <2>1. f \in Block /\ f.size \in Int /\ f.size > 0 /\ f \in p.free
    BY TiledBounds, BlockCells DEF Behind
  <2>2. size <= b.size + f.size
    BY <1>1, <1>3, <2>1
  <2>3. PageOK(t)
    BY <1>3, <2>2, IntoFreeOK
  <2>4. take \in Nat /\ take >= size - b.size
    BY <1>1, <2>1, <2>2
  <2>5. t = Grown(q, b, take)
    BY <1>3 DEF IntoFree
  <2>6. q.live = p.live
    BY <1>1 DEF Page
  <2> HIDE DEF q, take
  <2>7. t.live = (q.live \ {b}) \cup {[at |-> b.at, size |-> b.size + take]}
    <3>1. t \in Page
      BY <2>3 DEF PageOK
    <3>2. q \in [used : {p.used}, free : {q.free}, free_mem : {p.free_mem},
                 live : {p.live}, mem : {q.mem}]
      BY <1>1 DEF q, Page
    <3> QED
      BY <2>5, <3>2 DEF Grown
  <2> QED
    BY <2>3, <2>4, <2>6, <2>7
<1>4. ASSUME BumpReaches(p, b, size), t = IntoBump(p, b, size)
      PROVE  /\ PageOK(t)
             /\ \E x : x \in Nat /\ x >= size - b.size
                       /\ t.live = (p.live \ {b}) \cup {[at |-> b.at, size |-> b.size + x]}
  <2> DEFINE take == size - b.size
             q == [p EXCEPT !.free_mem = p.free_mem + size - b.size]
  <2>1. PageOK(t)
    BY <1>4, IntoBumpOK
  <2>2. t = Grown(q, b, take)
    BY <1>4 DEF IntoBump
  <2>3. take \in Nat /\ take >= size - b.size
    BY <1>1
  <2> HIDE DEF take
  <2>4. t.live = (p.live \ {b}) \cup {[at |-> b.at, size |-> b.size + take]}
    BY <1>1, <2>2 DEF Grown, Page
  <2> QED
    BY <2>1, <2>3, <2>4
<1>5. PICK x \in Nat : /\ PageOK(t) /\ x >= size - b.size
                       /\ t.live = (p.live \ {b}) \cup {[at |-> b.at, size |-> b.size + x]}
  BY <1>2, <1>3, <1>4
<1> DEFINE d == [at |-> b.at, size |-> b.size + x]
<1>6. d \in Block
  BY <1>5 DEF PageOK, Page
<1>7. d.at = b.at /\ d.size >= size
  BY <1>1, <1>5
<1> HIDE DEF d
<1> QED
  BY <1>5, <1>6, <1>7 DEF d

-----------------------------------------------------------------------------
\* What a page is for: the chain, a client's block, the index, or nothing any
\* more.

PagesOf(B)      == {e.page : e \in B}
EntriesAt(B, q) == {e \in B : e.ix = q}

OnePurpose(c, B, x, K) ==
  /\ IsInjective(c) /\ IsInjective(x)
  /\ \A e, f \in B : e.page = f.page => e = f
  /\ Range(c) \cap PagesOf(B) = {} /\ Range(c) \cap Range(x) = {}
  /\ Range(c) \cap K = {}          /\ PagesOf(B) \cap Range(x) = {}
  /\ PagesOf(B) \cap K = {}        /\ Range(x) \cap K = {}

Indexed(B, x) ==
  /\ \A e \in B : e.ix = Nil \/ e.ix \in Range(x)
  /\ \A q \in Range(x) : /\ IsFiniteSet(EntriesAt(B, q))
                         /\ Cardinality(EntriesAt(B, q)) <= IndexLimit

Unheld(c, B, x, K, q) ==
  q \notin Range(c) /\ q \notin PagesOf(B) /\ q \notin Range(x) /\ q \notin K

LEMMA AppendFacts ==
  ASSUME NEW s \in Seq(Pages), NEW q \in Pages
  PROVE  /\ Append(s, q) \in Seq(Pages)
         /\ Range(Append(s, q)) = Range(s) \cup {q}
         /\ IsInjective(s) /\ q \notin Range(s) => IsInjective(Append(s, q))
<1> DEFINE t == Append(s, q)
<1>1. /\ t \in Seq(Pages)
      /\ DOMAIN s = 1 .. Len(s) /\ DOMAIN t = 1 .. Len(s) + 1 /\ Len(s) \in Nat
      /\ \A i \in 1 .. Len(s) : t[i] = s[i]
      /\ t[Len(s) + 1] = q
  OBVIOUS
<1> HIDE DEF t
<1>2. \A y : y \in Range(s) <=> \E i \in DOMAIN s : y = s[i]
  BY DEF Range
<1>3. \A y : y \in Range(t) <=> \E i \in DOMAIN t : y = t[i]
  BY DEF Range
<1>4. Range(t) = Range(s) \cup {q}
  <2>1. ASSUME NEW y \in Range(t) PROVE y \in Range(s) \cup {q}
    <3>1. PICK i \in 1 .. Len(s) + 1 : y = t[i]
      BY <1>1, <1>3
    <3>2. i \in 1 .. Len(s) \/ i = Len(s) + 1
      BY <1>1
    <3> QED
      BY <1>1, <1>2, <3>1, <3>2
  <2>2. ASSUME NEW y \in Range(s) PROVE y \in Range(t)
    <3>1. PICK i \in 1 .. Len(s) : y = s[i]
      BY <1>1, <1>2
    <3>2. i \in DOMAIN t /\ y = t[i]
      BY <1>1, <3>1
    <3> QED
      BY <1>3, <3>2
  <2>3. q \in Range(t)
    BY <1>1, <1>3
  <2> QED
    BY <2>1, <2>2, <2>3
<1>5. ASSUME IsInjective(s), q \notin Range(s) PROVE IsInjective(t)
  <2> SUFFICES ASSUME NEW i \in DOMAIN t, NEW j \in DOMAIN t, t[i] = t[j] PROVE i = j
    BY DEF IsInjective
  <2>1. \A k \in 1 .. Len(s) : t[k] # q
    BY <1>1, <1>2, <1>5
  <2>2. \A k, l \in 1 .. Len(s) : t[k] = t[l] => k = l
    BY <1>1, <1>5 DEF IsInjective
  <2>3. i \in 1 .. Len(s) \/ i = Len(s) + 1
    BY <1>1
  <2>4. j \in 1 .. Len(s) \/ j = Len(s) + 1
    BY <1>1
  <2> QED
    BY <1>1, <2>1, <2>2, <2>3, <2>4
<1> QED
  BY <1>1, <1>4, <1>5 DEF t

LEMMA UnlinkFacts ==
  ASSUME NEW c \in Seq(Pages), NEW q \in Range(c), IsInjective(c)
  PROVE  /\ Unlink(c, q) \in Seq(Pages) /\ IsInjective(Unlink(c, q))
         /\ Range(Unlink(c, q)) = Range(c) \ {q}
<1> DEFINE i == CHOOSE j \in DOMAIN c : c[j] = q
           u == SubSeq(c, 1, i - 1) \o SubSeq(c, i + 1, Len(c))
<1>0. Len(c) \in Nat /\ DOMAIN c = 1 .. Len(c)
  OBVIOUS
<1>1. i \in 1 .. Len(c) /\ c[i] = q
  BY DEF Range
<1> HIDE DEF i
<1>2. Unlink(c, q) = u
  BY DEF Unlink, RemoveAt, i
<1>3. /\ u \in Seq(Pages) /\ Len(u) = Len(c) - 1
      /\ \A j \in 1 .. i - 1 : u[j] = c[j]
      /\ \A j \in i .. Len(c) - 1 : u[j] = c[j + 1]
  <2> DEFINE l == SubSeq(c, 1, i - 1)
             r == SubSeq(c, i + 1, Len(c))
  <2>1. /\ l \in Seq(Pages) /\ Len(l) = i - 1
        /\ \A j \in 1 .. i - 1 : l[j] = c[j]
    BY <1>1
  <2>2. /\ r \in Seq(Pages) /\ Len(r) = Len(c) - i
        /\ \A j \in 1 .. Len(c) - i : r[j] = c[i + j]
    BY <1>1
  <2>3. u = l \o r
    OBVIOUS
  <2> HIDE DEF l, r, u
  <2>4. u \in Seq(Pages) /\ Len(u) = Len(c) - 1
    <3>1. u \in Seq(Pages) /\ Len(u) = Len(l) + Len(r)
      BY <2>1, <2>2, <2>3, ConcatProperties
    <3> QED
      BY <1>1, <2>1, <2>2, <3>1
  <2>5. \A j \in 1 .. i - 1 : u[j] = c[j]
    BY <1>1, <2>1, <2>2, <2>3
  <2>6. ASSUME NEW j \in i .. Len(c) - 1 PROVE u[j] = c[j + 1]
    <3>0. i \in Int /\ j \in Int /\ Len(c) \in Int /\ Len(l) = i - 1 /\ Len(r) = Len(c) - i
      BY <1>0, <1>1, <2>1, <2>2
    <3>1. j - (i - 1) \in 1 .. Len(c) - i /\ i + (j - (i - 1)) = j + 1
          /\ j > Len(l) /\ j <= Len(l) + Len(r) /\ j \in Int
      BY <3>0
    <3>2. u[j] = r[j - Len(l)]
      <4>1. \A k \in 1 .. Len(l) + Len(r) :
              u[k] = IF k <= Len(l) THEN l[k] ELSE r[k - Len(l)]
        BY <2>1, <2>2, <2>3, ConcatProperties
      <4>2. j \in 1 .. Len(l) + Len(r) /\ ~(j <= Len(l))
        BY <1>1, <2>1, <2>2, <3>1
      <4> QED
        BY <4>1, <4>2
    <3> QED
      BY <2>1, <2>2, <3>1, <3>2
  <2> QED
    BY <2>4, <2>5, <2>6
<1> HIDE DEF u
\* Where each remaining page was.
<1> DEFINE was(j) == IF j < i THEN j ELSE j + 1
<1>4. DOMAIN u = 1 .. Len(c) - 1
  BY <1>3
<1>5. ASSUME NEW j \in DOMAIN u
      PROVE  was(j) \in 1 .. Len(c) /\ was(j) # i /\ u[j] = c[was(j)]
  <2>1. CASE j < i
    <3>1. j \in 1 .. i - 1
      BY <1>0, <1>1, <1>4, <2>1
    <3> QED
      BY <1>0, <1>1, <1>3, <1>4, <2>1, <3>1
  <2>2. CASE ~(j < i)
    <3>1. j \in i .. Len(c) - 1
      BY <1>0, <1>1, <1>4, <2>2
    <3> QED
      BY <1>0, <1>1, <1>3, <1>4, <2>2, <3>1
  <2> QED
    BY <2>1, <2>2
<1>6. \A j, k \in DOMAIN u : was(j) = was(k) => j = k
  BY <1>0, <1>1, <1>4
<1>7. ASSUME NEW k \in 1 .. Len(c), k # i PROVE \E j \in DOMAIN u : was(j) = k
  <2>1. CASE k < i
    <3>1. k \in DOMAIN u /\ was(k) = k
      BY <1>0, <1>1, <1>4, <2>1
    <3> QED
      BY <3>1
  <2>2. CASE i < k
    <3>1. k - 1 \in DOMAIN u /\ was(k - 1) = k
      BY <1>0, <1>1, <1>4, <2>2
    <3> QED
      BY <3>1
  <2> QED
    BY <1>0, <1>1, <1>7, <2>1, <2>2
<1> HIDE DEF was
<1>8. \A j, k \in 1 .. Len(c) : c[j] = c[k] => j = k
  BY <1>0, <1>1 DEF IsInjective
<1>9. IsInjective(u)
  BY <1>5, <1>6, <1>8 DEF IsInjective
<1>10. Range(u) = Range(c) \ {q}
  <2>1. ASSUME NEW y \in Range(u) PROVE y \in Range(c) \ {q}
    <3>1. PICK j \in DOMAIN u : y = u[j]
      BY DEF Range
    <3>2. y = c[was(j)] /\ was(j) \in DOMAIN c /\ was(j) # i
      BY <1>0, <1>1, <1>5, <3>1
    <3>3. y # q
      BY <1>0, <1>1, <1>8, <3>2
    <3> QED
      BY <3>2, <3>3 DEF Range
  <2>2. ASSUME NEW y \in Range(c) \ {q} PROVE y \in Range(u)
    <3>1. PICK k \in 1 .. Len(c) : y = c[k]
      BY <1>0, <1>1 DEF Range
    <3>2. k # i
      BY <1>0, <1>1, <2>2, <3>1
    <3>3. PICK j \in DOMAIN u : was(j) = k
      BY <1>7, <3>2
    <3>4. u[j] = y
      BY <1>5, <3>1, <3>3
    <3> QED
      BY <3>4 DEF Range
  <2> QED
    BY <2>1, <2>2
<1> QED
  BY <1>2, <1>3, <1>9, <1>10

\* A page nobody holds may be put to any use.
LEMMA UseFacts ==
  ASSUME NEW c \in Seq(Pages), NEW B, NEW x \in Seq(Pages), NEW K,
         OnePurpose(c, B, x, K), NEW q \in Pages, Unheld(c, B, x, K, q)
  PROVE  /\ OnePurpose(Append(c, q), B, x, K)
         /\ OnePurpose(c, B, Append(x, q), K)
         /\ \A e : e.page = q => OnePurpose(c, B \cup {e}, x, K)
<1>1. /\ Range(Append(c, q)) = Range(c) \cup {q} /\ IsInjective(Append(c, q))
      /\ Range(Append(x, q)) = Range(x) \cup {q} /\ IsInjective(Append(x, q))
  BY AppendFacts DEF OnePurpose, Unheld
<1>2. ASSUME NEW e, e.page = q PROVE OnePurpose(c, B \cup {e}, x, K)
  <2>1. PagesOf(B \cup {e}) = PagesOf(B) \cup {q}
    BY <1>2 DEF PagesOf
  <2>2. \A f \in B : f.page # q
    BY DEF PagesOf, Unheld
  <2>3. \A f, g \in B \cup {e} : f.page = g.page => f = g
    BY <1>2, <2>2 DEF OnePurpose
  <2> QED
    BY <2>1, <2>3 DEF OnePurpose, Unheld
<1>3. OnePurpose(Append(c, q), B, x, K)
  BY <1>1 DEF OnePurpose, Unheld
<1>4. OnePurpose(c, B, Append(x, q), K)
  BY <1>1 DEF OnePurpose, Unheld
<1> QED
  BY <1>2, <1>3, <1>4

\* An entry leaves, and its page may be lost.
LEMMA LessBig ==
  ASSUME NEW c, NEW B, NEW x, NEW K, OnePurpose(c, B, x, K), NEW e \in B
  PROVE  OnePurpose(c, B \ {e}, x, K) /\ OnePurpose(c, B \ {e}, x, K \cup {e.page})
<1>1. PagesOf(B \ {e}) \subseteq PagesOf(B) /\ e.page \in PagesOf(B)
      /\ e.page \notin PagesOf(B \ {e})
  BY DEF PagesOf, OnePurpose
<1> QED
  BY <1>1 DEF OnePurpose

LEMMA LessIndexed ==
  ASSUME NEW B, NEW x, Indexed(B, x), NEW e
  PROVE  Indexed(B \ {e}, x)
<1>1. ASSUME NEW q \in Range(x)
      PROVE  /\ IsFiniteSet(EntriesAt(B \ {e}, q))
             /\ Cardinality(EntriesAt(B \ {e}, q)) <= IndexLimit
  <2>1. EntriesAt(B \ {e}, q) \in SUBSET EntriesAt(B, q)
    BY DEF EntriesAt
  <2>2. /\ IsFiniteSet(EntriesAt(B, q)) /\ Cardinality(EntriesAt(B, q)) \in Nat
        /\ Cardinality(EntriesAt(B, q)) <= IndexLimit
    BY FS_CardinalityType DEF Indexed
  <2>3. /\ IsFiniteSet(EntriesAt(B \ {e}, q))
        /\ Cardinality(EntriesAt(B \ {e}, q)) <= Cardinality(EntriesAt(B, q))
    BY <2>1, <2>2, FS_Subset
  <2>4. Cardinality(EntriesAt(B \ {e}, q)) \in Nat
    BY <2>3, FS_CardinalityType
  <2> QED
    BY <2>2, <2>3, <2>4, IndexAssumption
<1> QED
  BY <1>1 DEF Indexed

\* An entry is added where there is room, beside the index, or in a new page.
LEMMA MoreIndexed ==
  ASSUME NEW B, NEW x \in Seq(Pages), Indexed(B, x), NEW e
  PROVE  /\ e.ix = Nil => Indexed(B \cup {e}, x)
         /\ /\ e.ix \in Range(x)
            /\ ~(Cardinality(EntriesAt(B, e.ix)) >= IndexLimit)
            => Indexed(B \cup {e}, x)
         /\ /\ e.ix \in Pages /\ e.ix \notin Range(x)
            => Indexed(B \cup {e}, Append(x, e.ix))
<1> DEFINE E(q) == EntriesAt(B, q)
           N(q) == EntriesAt(B \cup {e}, q)
<1>1. \A q : N(q) = IF e.ix = q THEN E(q) \cup {e} ELSE E(q)
  BY DEF EntriesAt
<1>2. \A q \in Range(x) : IsFiniteSet(E(q)) /\ Cardinality(E(q)) <= IndexLimit
  BY DEF Indexed
<1>3. \A q \in Range(x) : q \in Pages /\ q # Nil
  BY PagesAssumption DEF Range
<1>4. ASSUME e.ix = Nil PROVE Indexed(B \cup {e}, x)
  <2>1. \A q \in Range(x) : N(q) = E(q)
    BY <1>1, <1>3, <1>4
  <2> HIDE DEF E, N
  <2>2. \A q \in Range(x) : IsFiniteSet(N(q)) /\ Cardinality(N(q)) <= IndexLimit
    BY <1>2, <2>1
  <2> QED
    BY <1>4, <2>2 DEF Indexed, N
<1>5. ASSUME e.ix \in Range(x), ~(Cardinality(EntriesAt(B, e.ix)) >= IndexLimit)
      PROVE  Indexed(B \cup {e}, x)
  <2>1. ASSUME NEW q \in Range(x)
        PROVE  IsFiniteSet(N(q)) /\ Cardinality(N(q)) <= IndexLimit
    <3>1. CASE q # e.ix
      BY <1>1, <1>2, <3>1
    <3>2. CASE q = e.ix
      <4>1. IsFiniteSet(E(q)) /\ N(q) = E(q) \cup {e}
        BY <1>1, <1>2, <3>2
      <4>2. Cardinality(E(q)) \in Nat /\ ~(Cardinality(E(q)) >= IndexLimit)
        BY <1>5, <3>2, <4>1, FS_CardinalityType
      <4> HIDE DEF E, N
      <4>3. /\ IsFiniteSet(N(q))
            /\ Cardinality(N(q)) = Cardinality(E(q))
               \/ Cardinality(N(q)) = Cardinality(E(q)) + 1
        BY <4>1, FS_AddElement
      <4> QED
        BY <4>2, <4>3, IndexAssumption
    <3> QED
      BY <3>1, <3>2
  <2> QED
    BY <1>5, <2>1 DEF Indexed
<1>6. ASSUME e.ix \in Pages, e.ix \notin Range(x)
      PROVE  Indexed(B \cup {e}, Append(x, e.ix))
  <2>1. Range(Append(x, e.ix)) = Range(x) \cup {e.ix}
    BY <1>6, AppendFacts
  <2>2. E(e.ix) = {}
    BY <1>6, PagesAssumption DEF Indexed, EntriesAt
  <2>3. N(e.ix) = {e}
    BY <1>1, <2>2
  <2>4. \A q \in Range(x) : N(q) = E(q)
    BY <1>1, <1>6
  <2> HIDE DEF E, N
  <2>5. \A q \in Range(x) : IsFiniteSet(N(q)) /\ Cardinality(N(q)) <= IndexLimit
    BY <1>2, <2>4
  <2>6. IsFiniteSet(N(e.ix)) /\ Cardinality(N(e.ix)) = 1
    BY <2>3, FS_Singleton
  <2>7. Cardinality(N(e.ix)) <= IndexLimit
    BY <2>6, IndexAssumption
  <2>8. \A f \in B \cup {e} : f.ix = Nil \/ f.ix \in Range(Append(x, e.ix))
    BY <2>1 DEF Indexed
  <2> QED
    BY <2>1, <2>5, <2>6, <2>7, <2>8 DEF Indexed, N
<1> QED
  BY <1>4, <1>5, <1>6

-----------------------------------------------------------------------------
\* The heap: every operation replaces pages by results of the above, and changes
\* what a page is for as its chain, its index and its large blocks allow.

OffChainFresh(h) ==
  \A q \in Pages : q \notin Range(h.chain) => h.pg[q] = FreshPage

HeapOK(h) ==
  /\ h \in Heaps
  /\ \A q \in Pages : PageOK(h.pg[q])
  /\ OnePurpose(h.chain, h.big, h.ix, h.leaked)
  /\ Indexed(h.big, h.ix)
  /\ OffChainFresh(h)

\* What clients hold in h is what they held in g, or differs in one page only.
SameLive(g, h) == \A r \in Pages : h.pg[r].live = g.pg[r].live
SameUse(g, h)  == h.big = g.big /\ SameLive(g, h)
LiveAt(g, h, q, L) ==
  /\ h.big = g.big
  /\ \A r \in Pages : h.pg[r].live = IF r = q THEN L ELSE g.pg[r].live

Entries == [page : Pages, units : Nat, ix : Pages \cup {Nil}]

LEMMA HeapParts ==
  ASSUME NEW h, HeapOK(h)
  PROVE  /\ h.chain \in Seq(Pages) /\ h.ix \in Seq(Pages)
         /\ h.pg \in [Pages -> Page] /\ h.leaked \in SUBSET Pages
         /\ h.big \in SUBSET Entries
         /\ \A q \in Range(h.chain) : q \in Pages
<1>1. h.chain \in Seq(Pages)
  BY DEF HeapOK, Heaps
<1>2. \A q \in Range(h.chain) : q \in Pages
  BY <1>1 DEF Range
<1> QED
  BY <1>2 DEF HeapOK, Heaps, Entries

LEMMA LiveOnChain ==
  ASSUME NEW h, HeapOK(h), NEW q \in Pages, NEW b \in h.pg[q].live
  PROVE  q \in Range(h.chain)
<1>1. FreshPage.live = {}
  BY DEF FreshPage
<1> QED
  BY <1>1 DEF HeapOK, OffChainFresh

LEMMA WithPageOK ==
  ASSUME NEW h, HeapOK(h), NEW q \in Range(h.chain), NEW p, PageOK(p)
  PROVE  LET w == WithPage(h, q, p)
         IN  /\ HeapOK(w) /\ w.chain = h.chain /\ w.pg[q] = p
             /\ LiveAt(h, w, q, p.live)
<1> DEFINE pg == [r \in Pages |-> IF r = q THEN p ELSE h.pg[r]]
           w  == WithPage(h, q, p)
<1>0. q \in Pages
  BY HeapParts
<1>1. pg \in [Pages -> Page] /\ \A r \in Pages : PageOK(pg[r])
  BY DEF HeapOK, Heaps, PageOK
<1>2. \A r \in Pages : r \notin Range(h.chain) => pg[r] = FreshPage
  BY DEF HeapOK, OffChainFresh
<1>3. pg[q] = p /\ \A r \in Pages : pg[r].live = IF r = q THEN p.live ELSE h.pg[r].live
  BY <1>0
<1>4. w = [h EXCEPT !.pg = pg]
  BY DEF WithPage
<1> HIDE DEF pg, w
<1>5. /\ w \in Heaps /\ w.pg = pg /\ w.chain = h.chain /\ w.big = h.big
      /\ w.ix = h.ix /\ w.leaked = h.leaked
  BY <1>1, <1>4 DEF HeapOK, Heaps
<1>6. OffChainFresh(w)
  BY <1>2, <1>5 DEF OffChainFresh
<1>7. HeapOK(w)
  BY <1>1, <1>5, <1>6 DEF HeapOK
<1>8. w.pg[q] = p /\ LiveAt(h, w, q, p.live)
  BY <1>3, <1>5 DEF LiveAt
<1> QED
  BY <1>5, <1>7, <1>8 DEF w

\* The chain changes, and the pages stay as they are.
LEMMA ChainOK ==
  ASSUME NEW h, HeapOK(h), NEW c \in Seq(Pages),
         OnePurpose(c, h.big, h.ix, h.leaked),
         \A q \in Pages : q \notin Range(c) => h.pg[q] = FreshPage
  PROVE  LET g == [h EXCEPT !.chain = c]
         IN  HeapOK(g) /\ g.chain = c /\ g.pg = h.pg /\ g.big = h.big
<1> DEFINE g == [h EXCEPT !.chain = c]
<1>1. /\ g \in Heaps /\ g.pg = h.pg /\ g.chain = c /\ g.big = h.big
      /\ g.ix = h.ix /\ g.leaked = h.leaked
  BY DEF HeapOK, Heaps
<1> HIDE DEF g
<1>2. HeapOK(g)
  BY <1>1 DEF HeapOK, OffChainFresh
<1> QED
  BY <1>1, <1>2 DEF g

\* The index, the large blocks or the lost pages change.
LEMMA BookOK ==
  ASSUME NEW h, HeapOK(h), NEW g \in Heaps, g.chain = h.chain, g.pg = h.pg,
         OnePurpose(g.chain, g.big, g.ix, g.leaked), Indexed(g.big, g.ix)
  PROVE  HeapOK(g) /\ SameLive(h, g)
BY DEF HeapOK, OffChainFresh, SameLive

LEMMA TouchedUpToOK ==
  ASSUME NEW h, HeapOK(h), NEW i \in 0 .. Len(h.chain)
  PROVE  LET g == TouchedUpTo(h, i)
         IN  /\ HeapOK(g) /\ SameUse(h, g) /\ g.chain = h.chain
             /\ g.ix = h.ix /\ g.leaked = h.leaked
             /\ \A q \in Pages : g.pg[q] = h.pg[q] \/ g.pg[q] = Touched(h.pg[q])
<1> DEFINE seen == {h.chain[j] : j \in 1 .. i}
           pg == [q \in Pages |-> IF q \in seen THEN Touched(h.pg[q]) ELSE h.pg[q]]
           g  == TouchedUpTo(h, i)
<1>0. seen \subseteq Range(h.chain)
  <2>1. h.chain \in Seq(Pages)
    BY HeapParts
  <2>2. \A j \in 1 .. i : j \in DOMAIN h.chain
    BY <2>1
  <2> QED
    BY <2>2 DEF Range
<1>1. \A q \in Pages : PageOK(h.pg[q]) /\ PageOK(Touched(h.pg[q]))
                      /\ Touched(h.pg[q]).live = h.pg[q].live
  <2>1. ASSUME NEW q \in Pages PROVE PageOK(h.pg[q]) /\ PageOK(Touched(h.pg[q]))
    BY TouchedOK DEF HeapOK
  <2> QED
    BY <2>1 DEF Touched, PageOK, Page
<1> HIDE DEF seen
<1>2. pg \in [Pages -> Page] /\ \A q \in Pages : PageOK(pg[q])
  BY <1>1 DEF PageOK
<1>3. /\ \A q \in Pages : pg[q].live = h.pg[q].live
      /\ \A q \in Pages : pg[q] = h.pg[q] \/ pg[q] = Touched(h.pg[q])
      /\ \A q \in Pages : q \notin Range(h.chain) => pg[q] = FreshPage
  BY <1>0, <1>1 DEF HeapOK, OffChainFresh
<1>4. g = [h EXCEPT !.pg = pg]
  BY DEF TouchedUpTo, seen
<1> HIDE DEF pg, g
<1>5. /\ g \in Heaps /\ g.pg = pg /\ g.chain = h.chain /\ g.big = h.big
      /\ g.ix = h.ix /\ g.leaked = h.leaked
  BY <1>2, <1>4 DEF HeapOK, Heaps
<1>6. OffChainFresh(g) /\ SameUse(h, g)
  BY <1>3, <1>5 DEF OffChainFresh, SameUse, SameLive
<1>7. HeapOK(g)
  BY <1>2, <1>5, <1>6 DEF HeapOK
<1>8. \A q \in Pages : g.pg[q] = h.pg[q] \/ g.pg[q] = Touched(h.pg[q])
  BY <1>3, <1>5
<1> QED
  BY <1>5, <1>6, <1>7, <1>8 DEF g

\* What page_alloc gives is put to no use yet.
LEMMA PageAllocUnheld ==
  ASSUME NEW h, NEW q \in page_alloc(h), q # Nil
  PROVE  q \in Pages /\ Unheld(h.chain, h.big, h.ix, h.leaked, q)
BY DEF page_alloc, Held, Unheld, PagesOf

\* What zalloc and allocate promise of each outcome: nothing was to be had and
\* clients hold what they held, or they hold one block more, or whole pages.
GotBlock(h, o, size) ==
  /\ o.ptr.page \in Pages
  /\ \E b \in Block :
       /\ b.at = o.ptr.at /\ b.size >= size
       /\ LiveAt(h, o.heap, o.ptr.page, h.pg[o.ptr.page].live \cup {b})

GotPages(h, o, size) ==
  /\ o.ptr.page \in Pages /\ SameLive(h, o.heap)
  /\ \E e \in Entries : /\ e.page = o.ptr.page /\ e.units = WholePages(size)
                        /\ o.heap.big = h.big \cup {e}

Good(h, o, size) ==
  /\ HeapOK(o.heap) /\ o.ptr.at \in Int
  /\ \/ o.ptr.page = Nil /\ SameUse(h, o.heap)
     \/ GotBlock(h, o, size)
     \/ GotPages(h, o, size)

LEMMA OutcomeParts ==
  ASSUME NEW h, NEW q, NEW at
  PROVE  /\ Outcome(h, q, at).heap = h
         /\ Outcome(h, q, at).ptr.page = q /\ Outcome(h, q, at).ptr.at = at
BY DEF Outcome

LEMMA FailureGood ==
  ASSUME NEW h, NEW g, HeapOK(g), SameUse(h, g), NEW size
  PROVE  Good(h, Failure(g), size)
BY OutcomeParts DEF Failure, Good

\* Only what clients hold matters to what an outcome promises.
LEMMA GoodOfSame ==
  ASSUME NEW h, NEW g, SameUse(h, g), NEW o, NEW size, Good(g, o, size)
  PROVE  Good(h, o, size)
<1>1. CASE o.ptr.page = Nil /\ SameUse(g, o.heap)
  BY <1>1 DEF Good, SameUse, SameLive
<1>2. CASE GotBlock(g, o, size)
  <2> DEFINE q == o.ptr.page
  <2>1. q \in Pages /\ h.pg[q].live = g.pg[q].live
    BY <1>2 DEF GotBlock, SameUse, SameLive
  <2>2. ASSUME NEW L, LiveAt(g, o.heap, q, L) PROVE LiveAt(h, o.heap, q, L)
    BY <2>2 DEF LiveAt, SameUse, SameLive
  <2> HIDE DEF q
  <2>3. GotBlock(h, o, size)
    BY <1>2, <2>1, <2>2 DEF GotBlock, q
  <2> QED
    BY <2>3 DEF Good
<1>3. CASE GotPages(g, o, size)
  <2>1. GotPages(h, o, size)
    BY <1>3 DEF GotPages, SameUse, SameLive
  <2> QED
    BY <2>1 DEF Good
<1> QED
  BY <1>1, <1>2, <1>3 DEF Good

LEMMA RegisterOK ==
  ASSUME NEW h, HeapOK(h), NEW page \in Pages, NEW units \in Nat,
         Unheld(h.chain, h.big, h.ix, h.leaked, page),
         h.ix # <<>>, NEW g \in register_page_alloc(h, page, units)
  PROVE  /\ HeapOK(g) /\ SameLive(h, g)
         /\ \E e \in Entries : /\ e.page = page /\ e.units = units
                               /\ g.big = h.big \cup {e}
<1> DEFINE entry(q) == [page |-> page, units |-> units, ix |-> q]
           added(q) == [h EXCEPT !.big = h.big \cup {entry(q)}]
<1>1. h.ix \in Seq(Pages) /\ Last(h.ix) \in Range(h.ix) /\ Last(h.ix) \in Pages
  <2>1. h.ix \in Seq(Pages)
    BY HeapParts
  <2>2. Len(h.ix) \in DOMAIN h.ix
    BY <2>1
  <2> QED
    BY <2>1, <2>2 DEF Last, Range
<1>2. ASSUME NEW q \in Pages \cup {Nil}
      PROVE  /\ entry(q) \in Entries /\ entry(q).page = page /\ entry(q).units = units
             /\ entry(q).ix = q
             /\ OnePurpose(h.chain, h.big \cup {entry(q)}, h.ix, h.leaked)
  <2>1. entry(q) \in Entries /\ entry(q).page = page /\ entry(q).units = units
        /\ entry(q).ix = q
    BY DEF Entries
  <2> HIDE DEF entry
  <2>2. OnePurpose(h.chain, h.big, h.ix, h.leaked)
    BY DEF HeapOK
  <2> QED
    BY <2>1, <2>2, HeapParts, UseFacts
<1>3. \/ /\ ~(Cardinality({e \in h.big : e.ix = Last(h.ix)}) >= IndexLimit)
         /\ g = added(Last(h.ix))
      \/ g = added(Nil)
      \/ \E q \in page_alloc(h) \ {page} :
            q # Nil /\ g = [added(q) EXCEPT !.ix = Append(added(q).ix, q)]
  BY DEF register_page_alloc, IndexFull
<1>4. ASSUME NEW q \in Pages \cup {Nil}
      PROVE  /\ added(q) \in Heaps /\ added(q).chain = h.chain
             /\ added(q).pg = h.pg /\ added(q).big = h.big \cup {entry(q)}
             /\ added(q).ix = h.ix /\ added(q).leaked = h.leaked
  <2> DEFINE B == h.big \cup {entry(q)}
  <2>1. B \in SUBSET Entries
    BY <1>2, HeapParts
  <2> HIDE DEF B, entry
  <2>2. added(q) = [h EXCEPT !.big = B]
    BY DEF B
  <2> HIDE DEF added
  <2>3. /\ added(q) \in Heaps /\ added(q).chain = h.chain
        /\ added(q).pg = h.pg /\ added(q).big = B
        /\ added(q).ix = h.ix /\ added(q).leaked = h.leaked
    BY <2>1, <2>2 DEF HeapOK, Heaps, Entries
  <2> QED
    BY <2>3 DEF B
<1>5. Indexed(h.big, h.ix)
  BY DEF HeapOK
<1> HIDE DEF entry, added
<1>9. ASSUME NEW q \in Pages \cup {Nil}, Indexed(h.big \cup {entry(q)}, h.ix),
             g = added(q)
      PROVE  /\ HeapOK(g) /\ SameLive(h, g)
             /\ \E e \in Entries : /\ e.page = page /\ e.units = units
                                   /\ g.big = h.big \cup {e}
  <2>1. /\ g \in Heaps /\ g.chain = h.chain /\ g.pg = h.pg
        /\ g.big = h.big \cup {entry(q)} /\ g.ix = h.ix /\ g.leaked = h.leaked
    BY <1>4, <1>9
  <2>2. OnePurpose(g.chain, g.big, g.ix, g.leaked) /\ Indexed(g.big, g.ix)
    BY <1>2, <1>9, <2>1
  <2>3. HeapOK(g) /\ SameLive(h, g)
    BY <2>1, <2>2, BookOK
  <2> QED
    BY <1>2, <2>1, <2>3
<1>6. CASE /\ ~(Cardinality({e \in h.big : e.ix = Last(h.ix)}) >= IndexLimit)
           /\ g = added(Last(h.ix))
  <2> DEFINE q == Last(h.ix)
  <2>1. q \in Range(h.ix) /\ q \in Pages \cup {Nil} /\ g = added(q)
        /\ ~(Cardinality(EntriesAt(h.big, q)) >= IndexLimit)
    BY <1>1, <1>6 DEF EntriesAt
  <2> HIDE DEF q
  <2>2. entry(q).ix = q
    BY <1>2, <2>1
  <2>3. Indexed(h.big \cup {entry(q)}, h.ix)
    BY <1>1, <1>5, <2>1, <2>2, MoreIndexed
  <2> QED
    BY <1>9, <2>1, <2>3
<1>7. CASE g = added(Nil)
  <2>1. entry(Nil).ix = Nil
    BY <1>2
  <2>2. Indexed(h.big \cup {entry(Nil)}, h.ix)
    BY <1>1, <1>5, <2>1, MoreIndexed
  <2> QED
    BY <1>7, <1>9, <2>2
<1>8. ASSUME NEW q \in page_alloc(h) \ {page}, q # Nil,
             g = [added(q) EXCEPT !.ix = Append(added(q).ix, q)]
      PROVE  /\ HeapOK(g) /\ SameLive(h, g)
             /\ \E e \in Entries : /\ e.page = page /\ e.units = units
                                   /\ g.big = h.big \cup {e}
  <2> DEFINE B == h.big \cup {entry(q)}
             x == Append(h.ix, q)
  <2>1. q \in Pages /\ Unheld(h.chain, h.big, h.ix, h.leaked, q)
    BY <1>8, PageAllocUnheld
  <2>2. Unheld(h.chain, B, h.ix, h.leaked, q)
    BY <1>2, <1>8, <2>1 DEF Unheld, PagesOf
  <2>0. entry(q).ix = q /\ OnePurpose(h.chain, B, h.ix, h.leaked)
    BY <1>2, <2>1
  <2>3. x \in Seq(Pages) /\ OnePurpose(h.chain, B, x, h.leaked)
    <3> HIDE DEF B
    <3>1. x \in Seq(Pages) /\ h.chain \in Seq(Pages)
      BY <1>1, <2>1, HeapParts
    <3> QED
      BY <1>1, <2>0, <2>1, <2>2, <3>1, UseFacts
  <2>4. Indexed(B, x)
    <3>1. q \notin Range(h.ix)
      BY <2>1 DEF Unheld
    <3> QED
      BY <1>1, <1>5, <2>0, <2>1, <3>1, MoreIndexed
  <2>5. added(q) \in Heaps /\ added(q).chain = h.chain
        /\ added(q).pg = h.pg /\ added(q).big = B
        /\ added(q).ix = h.ix /\ added(q).leaked = h.leaked
    BY <1>4, <2>1
  <2> HIDE DEF B, x
  <2>6. g = [added(q) EXCEPT !.ix = x]
    BY <1>8, <2>5 DEF x
  <2>7. /\ g \in Heaps /\ g.chain = h.chain /\ g.pg = h.pg /\ g.big = B
        /\ g.ix = x /\ g.leaked = h.leaked
    BY <2>3, <2>5, <2>6 DEF Heaps
  <2>8. HeapOK(g) /\ SameLive(h, g)
    BY <2>3, <2>4, <2>7, BookOK
  <2> QED
    BY <1>2, <2>1, <2>7, <2>8 DEF B
<1> QED
  BY <1>3, <1>6, <1>7, <1>8

LEMMA WholePagesType ==
  ASSUME NEW size \in Nat
  PROVE  WholePages(size) \in Nat
<1>1. PageUnits \in Nat /\ PageUnits > 0 /\ size + PageUnits - 1 \in Nat
  BY PageAssumption DEF Hdr, BlockHdr
<1>2. (size + PageUnits - 1) \div PageUnits \in Nat
  BY <1>1
<1> QED
  BY <1>1, <1>2 DEF WholePages

\* The first page of the index.
LEMMA IndexBegunOK ==
  ASSUME NEW h, HeapOK(h), h.ix = <<>>, NEW q \in page_alloc(h), q # Nil
  PROVE  LET g == [h EXCEPT !.ix = <<q>>]
         IN  HeapOK(g) /\ SameUse(h, g)
<1> DEFINE x == <<q>>
           g == [h EXCEPT !.ix = x]
<1>1. q \in Pages /\ Unheld(h.chain, h.big, h.ix, h.leaked, q)
  BY PageAllocUnheld
<1>2. x = Append(h.ix, q) /\ x \in Seq(Pages) /\ h.ix \in Seq(Pages)
  BY <1>1
<1>3. OnePurpose(h.chain, h.big, x, h.leaked)
  <2>1. OnePurpose(h.chain, h.big, h.ix, h.leaked) /\ h.chain \in Seq(Pages)
    BY HeapParts DEF HeapOK
  <2>2. OnePurpose(h.chain, h.big, Append(h.ix, q), h.leaked)
    BY <1>1, <1>2, <2>1, UseFacts
  <2> QED
    BY <1>2, <2>2
<1>4. Indexed(h.big, x)
  <2>1. Range(x) = Range(h.ix) \cup {q} /\ Range(h.ix) = {}
    BY <1>1, <1>2, AppendFacts DEF Range
  <2>2. \A e \in h.big : e.ix = Nil
    BY <2>1 DEF HeapOK, Indexed
  <2>3. EntriesAt(h.big, q) = {}
    BY <1>1, <2>2, PagesAssumption DEF EntriesAt
  <2>4. IsFiniteSet(EntriesAt(h.big, q)) /\ Cardinality(EntriesAt(h.big, q)) <= IndexLimit
    BY <2>3, FS_EmptySet, IndexAssumption
  <2> QED
    BY <2>1, <2>2, <2>4 DEF Indexed
<1> HIDE DEF x
<1>5. /\ g \in Heaps /\ g.chain = h.chain /\ g.pg = h.pg /\ g.big = h.big
      /\ g.ix = x /\ g.leaked = h.leaked
  BY <1>2 DEF HeapOK, Heaps
<1> HIDE DEF g
<1>6. HeapOK(g) /\ SameLive(h, g)
  BY <1>3, <1>4, <1>5, BookOK
<1> QED
  BY <1>5, <1>6 DEF SameUse, g, x

LEMMA FallbackOK ==
  ASSUME NEW h, HeapOK(h), NEW size \in Nat, NEW o \in fallback_proxy(h, size)
  PROVE  Good(h, o, size)
<1> DEFINE indexed == IF h.ix # <<>> THEN {h}
                      ELSE {IF q = Nil THEN h ELSE [h EXCEPT !.ix = <<q>>]
                              : q \in page_alloc(h)}
           placed(g) == UNION {{Outcome(r, p, 0)
                             : r \in register_page_alloc(g, p, WholePages(size))}
                            : p \in page_alloc(g) \ {Nil}}
<1>1. ASSUME NEW g \in indexed PROVE HeapOK(g) /\ SameUse(h, g)
  <2>1. \/ g = h
        \/ /\ h.ix = <<>>
           /\ \E q \in page_alloc(h) : q # Nil /\ g = [h EXCEPT !.ix = <<q>>]
    OBVIOUS
  <2>2. CASE g = h
    BY <2>2 DEF SameUse, SameLive
  <2>3. ASSUME h.ix = <<>>, NEW q \in page_alloc(h), q # Nil, g = [h EXCEPT !.ix = <<q>>]
        PROVE  HeapOK(g) /\ SameUse(h, g)
    BY <2>3, IndexBegunOK
  <2> QED
    BY <2>1, <2>2, <2>3
<1>0. o \in UNION {{Failure(g)} \cup (IF g.ix = <<>> THEN {} ELSE placed(g))
                    : g \in indexed}
  BY Zenon DEF fallback_proxy
<1> HIDE DEF indexed, placed
<1>2. PICK g \in indexed : o = Failure(g) \/ (g.ix # <<>> /\ o \in placed(g))
  <2> DEFINE out(g) == {Failure(g)} \cup (IF g.ix = <<>> THEN {} ELSE placed(g))
  <2>1. o \in UNION {out(g) : g \in indexed}
    BY <1>0
  <2> HIDE DEF out
  <2>2. PICK g \in indexed : o \in out(g)
    BY <2>1
  <2>3. o = Failure(g) \/ (g.ix # <<>> /\ o \in placed(g))
    BY <2>2 DEF out
  <2> QED
    BY <2>3
<1>3. HeapOK(g) /\ SameUse(h, g)
  BY <1>1
<1>4. CASE o = Failure(g)
  BY <1>3, <1>4, FailureGood
<1>5. CASE g.ix # <<>> /\ o \in placed(g)
  <2>1. PICK p \in page_alloc(g) \ {Nil} :
          \E r \in register_page_alloc(g, p, WholePages(size)) : o = Outcome(r, p, 0)
    BY <1>5 DEF placed
  <2>2. PICK r \in register_page_alloc(g, p, WholePages(size)) : o = Outcome(r, p, 0)
    BY <2>1
  <2>3. p \in Pages /\ Unheld(g.chain, g.big, g.ix, g.leaked, p)
    BY PageAllocUnheld
  <2>4. /\ HeapOK(r) /\ SameLive(g, r)
        /\ \E e \in Entries : /\ e.page = p /\ e.units = WholePages(size)
                              /\ r.big = g.big \cup {e}
    BY <1>3, <1>5, <2>3, WholePagesType, RegisterOK
  <2>5. o.heap = r /\ o.ptr.page = p /\ o.ptr.at = 0
    BY <2>2, OutcomeParts
  <2>6. Good(g, o, size)
    BY <2>3, <2>4, <2>5 DEF Good, GotPages
  <2> QED
    BY <1>3, <2>6, GoodOfSame
<1> QED
  BY <1>2, <1>4, <1>5

\* A page of the heap serves.
LEMMA FromOK ==
  ASSUME NEW h, NEW g, HeapOK(g), SameUse(h, g),
         NEW q \in Range(g.chain),
         NEW size \in Nat \ {0}, CanServe(g.pg[q], size),
         NEW s \in Serve(g.pg[q], size)
  PROVE  Good(h, Outcome(WithPage(g, q, s.page), q, s.at), size)
<1>0. q \in Pages
  BY HeapParts
<1>1. PageOK(g.pg[q])
  BY <1>0 DEF HeapOK
<1>2. PageOK(s.page) /\ s.at \in Int
  BY <1>1, ServeOK
<1>3. PICK b \in Block : /\ s.page.live = g.pg[q].live \cup {b}
                         /\ b.at = s.at /\ b.size >= size
  BY <1>1, ServeOK
<1> DEFINE w == WithPage(g, q, s.page)
           o == Outcome(w, q, s.at)
<1>4. HeapOK(w) /\ LiveAt(g, w, q, s.page.live)
  BY <1>2, WithPageOK
<1> HIDE DEF w
<1>5. o.heap = w /\ o.ptr.page = q /\ o.ptr.at = s.at
  BY OutcomeParts
<1> HIDE DEF o
<1>6. GotBlock(g, o, size)
  BY <1>0, <1>3, <1>4, <1>5 DEF GotBlock
<1>7. Good(g, o, size)
  BY <1>2, <1>4, <1>5, <1>6 DEF Good
<1>8. Good(h, o, size)
  BY <1>7, GoodOfSame
<1> QED
  BY <1>8 DEF o, w

\* A touched page serves whatever it could before.
LEMMA TouchedServes ==
  ASSUME NEW p, PageOK(p), NEW size, CanServe(p, size)
  PROVE  CanServe(Touched(p), size)
<1>1. Touched(p) \in Page /\ Touched(p).free = p.free
      /\ Touched(Touched(p)) = Touched(p)
  <2>1. PageOK(Touched(p)) /\ Touched(p).free_mem >= Hdr
    BY TouchedOK
  <2>2. Touched(p) \in Page
    BY <2>1 DEF PageOK
  <2>3. Touched(p).free = p.free
    BY DEF Touched, PageOK, Page
  <2>4. Touched(p).free_mem # 0
    BY <2>1 DEF Hdr
  <2> HIDE DEF Touched
  <2> DEFINE t == Touched(p)
  <2> HIDE DEF t
  <2>5. ASSUME NEW u \in Page, u.free_mem # 0 PROVE Touched(u) = u
    BY <2>5 DEF Touched, Page
  <2> QED
    BY <2>2, <2>3, <2>4, <2>5
<1> QED
  BY <1>1 DEF CanServe

\* A fresh page serves every request that is not for whole pages.
LEMMA FreshServes ==
  ASSUME NEW size \in Nat, size < PageUnits - Hdr
  PROVE  CanServe(FreshPage, size)
<1>1. Touched(FreshPage).used = 0 /\ Touched(FreshPage).free_mem = Hdr
  BY DEF Touched, FreshPage
<1>2. HasRoom(Touched(FreshPage), size)
  BY <1>1, PageAssumption DEF HasRoom, Hdr
<1> QED
  BY <1>1, <1>2 DEF CanServe

\* A page linked at the end of the chain.
LEMMA LinkedOK ==
  ASSUME NEW h, HeapOK(h), NEW q \in Pages,
         Unheld(h.chain, h.big, h.ix, h.leaked, q)
  PROVE  LET g == [WithPage(h, q, FreshPage) EXCEPT !.chain = Append(h.chain, q)]
         IN  /\ HeapOK(g) /\ SameUse(h, g)
             /\ q \in Range(g.chain) /\ g.pg[q] = FreshPage
<1> DEFINE c == Append(h.chain, q)
           w == WithPage(h, q, FreshPage)
           g == [h EXCEPT !.chain = c]
<1>1. h.pg[q] = FreshPage
  BY DEF HeapOK, OffChainFresh, Unheld
<1>2. w = h
  <2> DEFINE pg == [r \in Pages |-> IF r = q THEN FreshPage ELSE h.pg[r]]
  <2>1. pg = h.pg
    BY <1>1 DEF HeapOK, Heaps
  <2>2. w = [h EXCEPT !.pg = pg]
    BY DEF WithPage
  <2> HIDE DEF pg, w
  <2> QED
    BY <2>1, <2>2 DEF HeapOK, Heaps
<1>3. /\ c \in Seq(Pages) /\ Range(c) = Range(h.chain) \cup {q}
      /\ OnePurpose(c, h.big, h.ix, h.leaked)
  BY HeapParts, AppendFacts, UseFacts DEF HeapOK
<1> HIDE DEF c
<1>4. \A r \in Pages : r \notin Range(c) => h.pg[r] = FreshPage
  BY <1>3 DEF HeapOK, OffChainFresh
<1>5. HeapOK(g) /\ g.chain = c /\ g.pg = h.pg /\ g.big = h.big
  BY <1>3, <1>4, ChainOK
<1> HIDE DEF g
<1>6. SameUse(h, g) /\ q \in Range(g.chain) /\ g.pg[q] = FreshPage
  BY <1>1, <1>3, <1>5 DEF SameUse, SameLive
<1> QED
  BY <1>2, <1>5, <1>6 DEF g, c

LEMMA AllocateOK ==
  ASSUME NEW h, HeapOK(h), NEW size \in Nat \ {0}, NEW o \in allocate(h, size)
  PROVE  Good(h, o, size)
<1> DEFINE all == TouchedUpTo(h, Len(h.chain))
           from(g, q) == {Outcome(WithPage(g, q, s.page), q, s.at)
                       : s \in Serve(g.pg[q], size)}
           linked(q) == [WithPage(all, q, FreshPage) EXCEPT !.chain = Append(@, q)]
<1>1. h.chain \in Seq(Pages)
  BY HeapParts
<1>2. \/ size >= PageUnits - Hdr /\ o \in fallback_proxy(h, size)
      \/ \E i \in Servers(h, size) : o \in from(TouchedUpTo(h, i), h.chain[i])
      \/ o = Failure(all)
      \/ /\ ~(size >= PageUnits - Hdr)
         /\ \E q \in page_alloc(h) \ {Nil} : o \in from(linked(q), q)
  BY Zenon DEF allocate
<1>3. CASE o \in fallback_proxy(h, size)
  BY <1>3, FallbackOK
<1>4. ASSUME NEW i \in Servers(h, size), o \in from(TouchedUpTo(h, i), h.chain[i])
      PROVE  Good(h, o, size)
  <2> DEFINE q == h.chain[i]
             g == TouchedUpTo(h, i)
  <2>1. /\ i \in 0 .. Len(h.chain) /\ q \in Pages /\ q \in Range(h.chain)
        /\ CanServe(h.pg[q], size)
    BY <1>1 DEF Servers, Range
  <2>2. /\ HeapOK(g) /\ SameUse(h, g) /\ g.chain = h.chain
        /\ g.pg[q] = h.pg[q] \/ g.pg[q] = Touched(h.pg[q])
    BY <2>1, TouchedUpToOK
  <2>3. CanServe(g.pg[q], size)
    <3>1. PageOK(h.pg[q])
      BY <2>1 DEF HeapOK
    <3>2. CanServe(Touched(h.pg[q]), size)
      BY <2>1, <3>1, TouchedServes
    <3> QED
      BY <2>1, <2>2, <3>2
  <2>4. PICK s \in Serve(g.pg[q], size) : o = Outcome(WithPage(g, q, s.page), q, s.at)
    BY <1>4
  <2> HIDE DEF g, q
  <2> QED
    BY <2>1, <2>2, <2>3, <2>4, FromOK
<1>5. /\ HeapOK(all) /\ SameUse(h, all) /\ all.chain = h.chain
      /\ all.ix = h.ix /\ all.leaked = h.leaked
  BY <1>1, TouchedUpToOK
<1> HIDE DEF all
<1>6. CASE o = Failure(all)
  BY <1>5, <1>6, FailureGood
<1>7. ASSUME ~(size >= PageUnits - Hdr),
             NEW q \in page_alloc(h) \ {Nil}, o \in from(linked(q), q)
      PROVE  Good(h, o, size)
  <2> DEFINE g == [WithPage(all, q, FreshPage) EXCEPT !.chain = Append(all.chain, q)]
  <2>1. q \in Pages /\ Unheld(all.chain, all.big, all.ix, all.leaked, q)
    BY <1>5, PageAllocUnheld DEF SameUse
  <2>2. linked(q) = g
    <3>1. WithPage(all, q, FreshPage).chain = all.chain
      BY <1>5 DEF WithPage, HeapOK, Heaps
    <3> QED
      BY <3>1
  <2>3. HeapOK(g) /\ SameUse(all, g) /\ q \in Range(g.chain) /\ g.pg[q] = FreshPage
    BY <1>5, <2>1, LinkedOK
  <2>4. PICK s \in Serve(g.pg[q], size) : o = Outcome(WithPage(g, q, s.page), q, s.at)
    BY <1>7, <2>2
  <2> HIDE DEF g
  <2>5. SameUse(h, g)
    BY <1>5, <2>3 DEF SameUse, SameLive
  <2>6. CanServe(g.pg[q], size)
    BY <1>7, <2>3, FreshServes, PageAssumption DEF Hdr
  <2> QED
    BY <2>3, <2>4, <2>5, <2>6, FromOK
<1> QED
  BY <1>2, <1>3, <1>4, <1>6, <1>7

LEMMA ZallocOK ==
  ASSUME NEW h, HeapOK(h), NEW n \in Nat, NEW o \in zalloc(h, n)
  PROVE  Good(h, o, n + BlockHdr)
<1>1. n + BlockHdr \in Nat \ {0}
  BY DEF BlockHdr
<1>2. CASE h.chain # <<>>
  BY <1>1, <1>2, AllocateOK DEF zalloc
<1>3. CASE h.chain = <<>>
  <2>1. \/ o = Failure(h)
        \/ \E q \in page_alloc(h) \ {Nil} :
             o \in allocate([WithPage(h, q, FreshPage) EXCEPT !.chain = <<q>>],
                           n + BlockHdr)
    BY <1>3, Zenon DEF zalloc
  <2>2. CASE o = Failure(h)
    BY <2>2, FailureGood DEF SameUse, SameLive
  <2>3. ASSUME NEW q \in page_alloc(h) \ {Nil},
               o \in allocate([WithPage(h, q, FreshPage) EXCEPT !.chain = <<q>>],
                             n + BlockHdr)
        PROVE  Good(h, o, n + BlockHdr)
    <3> DEFINE g == [WithPage(h, q, FreshPage) EXCEPT !.chain = Append(h.chain, q)]
    <3>1. q \in Pages /\ Unheld(h.chain, h.big, h.ix, h.leaked, q)
      BY PageAllocUnheld
    <3>2. Append(h.chain, q) = <<q>>
      BY <1>3, <3>1
    <3>3. HeapOK(g) /\ SameUse(h, g)
      BY <3>1, LinkedOK
    <3>4. o \in allocate(g, n + BlockHdr)
      BY <2>3, <3>2
    <3> HIDE DEF g
    <3>5. Good(g, o, n + BlockHdr)
      BY <1>1, <3>3, <3>4, AllocateOK
    <3> QED
      BY <3>3, <3>5, GoodOfSame
  <2> QED
    BY <2>1, <2>2, <2>3
<1> QED
  BY <1>2, <1>3

LEMMA ReleaseInOK ==
  ASSUME NEW h, HeapOK(h), NEW q \in Pages, NEW b \in h.pg[q].live
  PROVE  /\ HeapOK(ReleaseIn(h, q, b))
         /\ LiveAt(h, ReleaseIn(h, q, b), q, h.pg[q].live \ {b})
<1> DEFINE p == h.pg[q]
           less == [Poisoned(p, b) EXCEPT !.used = @ - b.size]
           w == WithPage(h, q, FreshPage)
           c == Unlink(w.chain, q)
<1>1. PageOK(p) /\ q \in Range(h.chain) /\ h.chain \in Seq(Pages)
  BY LiveOnChain, HeapParts DEF HeapOK
<1>2. /\ less = Less(p, b) /\ less \in Page /\ less.live = p.live \ {b}
      /\ PageOK(Inserted(less, b)) /\ Inserted(less, b).live = p.live \ {b}
      /\ less.used = 0 => p.live \ {b} = {}
  BY <1>1, InsertedOK, InsertedLive, LessFacts DEF Less
<1>3. ~(p.used < b.size) /\ Poisoned(p, b).used = p.used /\ p.used # 0
      /\ less.used \in Nat
  <2>1. /\ p.used >= b.size /\ b \in Block /\ p.used \in Nat
        /\ Less(p, b).used = p.used - b.size /\ Less(p, b) \in Page
    BY <1>1, LessFacts, TiledBounds DEF PageOK, Page
  <2>2. Poisoned(p, b).used = p.used
    BY <1>1 DEF Poisoned, PageOK, Page
  <2>3. b.size \in Int /\ b.size > 0
    BY <2>1, BlockCells
  <2>4. p.used - b.size \in Nat /\ less.used = p.used - b.size
    BY <1>2, <2>1 DEF Page
  <2> QED
    BY <2>1, <2>2, <2>3, <2>4
<1>4. CASE less.used > 0
  <2>1. ReleaseIn(h, q, b) = WithPage(h, q, Inserted(less, b))
    BY <1>3, <1>4 DEF ReleaseIn
  <2> DEFINE r == Inserted(less, b)
  <2>2. PageOK(r) /\ r.live = p.live \ {b}
    BY <1>2
  <2> HIDE DEF r
  <2>3. HeapOK(WithPage(h, q, r)) /\ LiveAt(h, WithPage(h, q, r), q, r.live)
    BY <1>1, <2>2, WithPageOK
  <2> QED
    BY <2>1, <2>2, <2>3 DEF r
<1>5. CASE less.used = 0 /\ q = Head(h.chain)
  <2>1. ReleaseIn(h, q, b) = WithPage(h, q, Emptied(less))
    BY <1>3, <1>5 DEF ReleaseIn
  <2> DEFINE r == Emptied(less)
  <2>2. PageOK(r) /\ r.live = p.live \ {b}
    <3>1. PageOK(r)
      BY <1>1, <1>2, <1>5, EmptiedOK
    <3>2. r.live = less.live
      BY <1>2 DEF Emptied, Page
    <3> QED
      BY <1>2, <3>1, <3>2
  <2> HIDE DEF r
  <2>3. HeapOK(WithPage(h, q, r)) /\ LiveAt(h, WithPage(h, q, r), q, r.live)
    BY <1>1, <2>2, WithPageOK
  <2> QED
    BY <2>1, <2>2, <2>3 DEF r
<1>6. CASE less.used = 0 /\ q # Head(h.chain)
  <2> DEFINE r == [w EXCEPT !.chain = c]
  <2>1. ReleaseIn(h, q, b) = r
    BY <1>3, <1>6 DEF ReleaseIn
  <2>2. FreshPage.live = p.live \ {b}
    BY <1>2, <1>6 DEF FreshPage
  <2>3. /\ HeapOK(w) /\ w.chain = h.chain /\ w.pg[q] = FreshPage
        /\ LiveAt(h, w, q, p.live \ {b})
    <3> DEFINE f == FreshPage
    <3>1. PageOK(f) /\ f.live = p.live \ {b} /\ w = WithPage(h, q, f)
      BY <2>2, FreshOK
    <3> HIDE DEF f, w
    <3>2. /\ HeapOK(w) /\ w.chain = h.chain /\ w.pg[q] = f
          /\ LiveAt(h, w, q, f.live)
      <4>1. q \in Range(h.chain) /\ PageOK(f)
        BY <1>1, <3>1
      <4>2. /\ HeapOK(WithPage(h, q, f)) /\ WithPage(h, q, f).chain = h.chain
            /\ WithPage(h, q, f).pg[q] = f /\ LiveAt(h, WithPage(h, q, f), q, f.live)
        BY ONLY HeapOK(h), <4>1, WithPageOK
      <4> QED
        BY ONLY <3>1, <4>2
    <3> QED
      BY <3>1, <3>2 DEF f
  <2> HIDE DEF w
  <2>4. /\ c \in Seq(Pages) /\ IsInjective(c)
        /\ Range(c) = Range(w.chain) \ {q}
    BY <1>1, <2>3, UnlinkFacts DEF HeapOK, OnePurpose
  <2> HIDE DEF c
  <2>5. OnePurpose(c, w.big, w.ix, w.leaked)
    BY <2>3, <2>4 DEF HeapOK, OnePurpose
  <2>6. \A s \in Pages : s \notin Range(c) => w.pg[s] = FreshPage
    BY <2>3, <2>4 DEF HeapOK, OffChainFresh
  <2>7. HeapOK(r) /\ r.pg = w.pg /\ r.big = w.big
    BY <2>3, <2>4, <2>5, <2>6, ChainOK
  <2> HIDE DEF r
  <2>8. LiveAt(h, r, q, p.live \ {b})
    BY <2>3, <2>7 DEF LiveAt
  <2> QED
    BY <2>1, <2>7, <2>8
<1> QED
  BY <1>3, <1>4, <1>5, <1>6

LEMMA ReleasePagesOK ==
  ASSUME NEW h, HeapOK(h), NEW e \in h.big
  PROVE  LET r == ReleasePages(h, e)
         IN  HeapOK(r) /\ SameLive(h, r) /\ r.big = h.big \ {e}
<1> DEFINE B == h.big \ {e}
           g == [h EXCEPT !.big = B]
           K == h.leaked \cup {e.page}
           r == ReleasePages(h, e)
<1>1. B \in SUBSET Entries /\ K \in SUBSET Pages /\ h.leaked \in SUBSET Pages
  BY HeapParts DEF Entries
<1>2. /\ OnePurpose(h.chain, B, h.ix, h.leaked) /\ OnePurpose(h.chain, B, h.ix, K)
      /\ Indexed(B, h.ix)
  BY LessBig, LessIndexed DEF HeapOK
<1>3. r = g \/ r = [g EXCEPT !.leaked = K]
  <2>1. g.leaked = h.leaked
    BY DEF HeapOK, Heaps
  <2> QED
    BY <2>1 DEF ReleasePages, unregister_page_alloc
<1> HIDE DEF B, K, r
<1>4. /\ r \in Heaps /\ r.chain = h.chain /\ r.pg = h.pg /\ r.big = B /\ r.ix = h.ix
      /\ r.leaked = h.leaked \/ r.leaked = K
  <2>1. CASE r = g
    BY <1>1, <2>1 DEF HeapOK, Heaps, Entries
  <2>2. CASE r = [g EXCEPT !.leaked = K]
    BY <1>1, <2>2 DEF HeapOK, Heaps, Entries
  <2> QED
    BY <1>3, <2>1, <2>2
<1>5. OnePurpose(r.chain, r.big, r.ix, r.leaked) /\ Indexed(r.big, r.ix)
  BY <1>2, <1>4
<1>6. HeapOK(r) /\ SameLive(h, r)
  BY <1>4, <1>5, BookOK
<1> QED
  BY <1>4, <1>6 DEF B, r

\* The contents are copied to where zalloc's outcome is.
LEMMA CopiedOK ==
  ASSUME NEW h, HeapOK(h), NEW q \in Pages, NEW b \in h.pg[q].live,
         NEW ptr, ptr.page \in Pages, ptr.at \in Int,
         \/ ptr.page \in Range(h.chain)
         \/ \E e \in h.big : e.page = ptr.page
  PROVE  HeapOK(Copied(h, q, b, ptr)) /\ SameUse(h, Copied(h, q, b, ptr))
<1> DEFINE p == h.pg[ptr.page]
           from == h.pg[q].mem
           m == Memcpy(p.mem, ptr.at, from, b)
           t == [p EXCEPT !.mem = m]
           w == WithPage(h, ptr.page, t)
<1>1. PageOK(p) /\ PageOK(h.pg[q]) /\ p \in Page /\ h.pg[q] \in Page
  BY DEF HeapOK, PageOK
<1>2. b \in Block /\ Ends(b) <= PageUnits
  BY <1>1, PageBound
<1>3. from \in [Hdr .. PageUnits - 1 -> Content]
      /\ p.mem \in [Hdr .. PageUnits - 1 -> Content]
  BY <1>1 DEF Page
<1>4. \A x \in Payload(b) : x \in Hdr .. PageUnits - 1
  BY <1>2, BlockCells, PageAssumption DEF Payload, Hdr, BlockHdr
<1>5. m \in [Hdr .. PageUnits - 1 -> Content]
  <2> HIDE DEF from, p
  <2> QED
    BY <1>3, <1>4 DEF Memcpy
<1> HIDE DEF m
<1>6. PageOK(t) /\ t.live = p.live
  BY <1>1, <1>5, MemOK DEF Page
<1>7. \/ Copied(h, q, b, ptr) = h
      \/ Copied(h, q, b, ptr) = w /\ ptr.page \in Range(h.chain)
  BY DEF Copied, m
<1>8. CASE Copied(h, q, b, ptr) = h
  BY <1>8 DEF SameUse, SameLive
<1> HIDE DEF t
<1>9. CASE Copied(h, q, b, ptr) = w /\ ptr.page \in Range(h.chain)
  <2>1. HeapOK(w) /\ LiveAt(h, w, ptr.page, t.live)
    BY <1>6, <1>9, WithPageOK
  <2> HIDE DEF w
  <2>2. SameUse(h, w)
    BY <1>6, <2>1 DEF LiveAt, SameUse, SameLive
  <2> QED
    BY <1>9, <2>1, <2>2
<1> QED
  BY <1>7, <1>8, <1>9

\* A block that moves: its client holds the new one, then no longer the old one.
MovedVia(h, o, z, q, b, size) ==
  /\ Good(h, z, size) /\ z.ptr.page # Nil
  /\ LiveAt(z.heap, o.heap, q, z.heap.pg[q].live \ {b})

LEMMA MovedOK ==
  ASSUME NEW h, HeapOK(h), NEW q \in Pages, NEW b \in h.pg[q].live,
         NEW n \in Nat, NEW o \in Moved(h, q, b, n)
  PROVE  /\ HeapOK(o.heap)
         /\ \/ SameUse(h, o.heap)
            \/ \E z : MovedVia(h, o, z, q, b, n + BlockHdr)
<1>1. PICK z \in zalloc(h, n) :
        o = IF z.ptr.page = Nil THEN z
            ELSE [z EXCEPT !.heap = ReleaseIn(Copied(z.heap, q, b, z.ptr), q, b)]
  BY DEF Moved
<1>2. Good(h, z, n + BlockHdr)
  BY ZallocOK
<1>3. CASE z.ptr.page = Nil
  BY <1>1, <1>2, <1>3, PagesAssumption DEF Good, GotBlock, GotPages
<1>4. CASE z.ptr.page # Nil
  <2> DEFINE c == Copied(z.heap, q, b, z.ptr)
             r == ReleaseIn(c, q, b)
  <2>1. z.ptr.page \in Pages /\ z.ptr.at \in Int /\ HeapOK(z.heap)
    BY <1>2, <1>4 DEF Good, GotBlock, GotPages
  <2>2. b \in z.heap.pg[q].live
    BY <1>2, <1>4 DEF Good, GotBlock, GotPages, LiveAt, SameLive
  <2>3. \/ z.ptr.page \in Range(z.heap.chain)
        \/ \E e \in z.heap.big : e.page = z.ptr.page
    <3>1. CASE GotBlock(h, z, n + BlockHdr)
      <4>1. PICK d : d \in z.heap.pg[z.ptr.page].live
        BY <2>1, <3>1 DEF GotBlock, LiveAt
      <4> QED
        BY <2>1, <4>1, LiveOnChain
    <3>2. CASE GotPages(h, z, n + BlockHdr)
      BY <3>2 DEF GotPages
    <3> QED
      BY <1>2, <1>4, <3>1, <3>2 DEF Good
  <2>4. HeapOK(c) /\ SameUse(z.heap, c)
    BY <2>1, <2>2, <2>3, CopiedOK
  <2>0. o = [z EXCEPT !.heap = ReleaseIn(c, q, b)]
    BY <1>1, <1>4
  <2> HIDE DEF c
  <2>5. b \in c.pg[q].live /\ c.pg[q].live = z.heap.pg[q].live
    BY <2>2, <2>4 DEF SameUse, SameLive
  <2>6. HeapOK(r) /\ LiveAt(c, r, q, c.pg[q].live \ {b})
    BY <2>4, <2>5, ReleaseInOK
  <2> HIDE DEF r
  <2>7. LiveAt(z.heap, r, q, z.heap.pg[q].live \ {b})
    BY <2>4, <2>5, <2>6 DEF LiveAt, SameUse, SameLive
  <2>8. o.heap = r
    BY <2>0 DEF r
  <2> QED
    BY <1>2, <1>4, <2>6, <2>7, <2>8 DEF MovedVia
<1> QED
  BY <1>3, <1>4

LEMMA ReallocInOK ==
  ASSUME NEW h, HeapOK(h), NEW q \in Pages, NEW b \in h.pg[q].live,
         NEW n \in Nat, NEW o \in ReallocIn(h, q, b, n)
  PROVE  /\ HeapOK(o.heap)
         /\ \/ SameUse(h, o.heap)
            \/ \E d \in Block : /\ b.size <= d.size
                                /\ LiveAt(h, o.heap, q, (h.pg[q].live \ {b}) \cup {d})
            \/ /\ b.size < n + BlockHdr
               /\ \E z : MovedVia(h, o, z, q, b, n + BlockHdr)
<1> DEFINE size == n + BlockHdr
           p    == h.pg[q]
<1>1. PageOK(p) /\ b \in Block /\ b.size \in Int /\ q \in Range(h.chain)
  BY TiledBounds, BlockCells, LiveOnChain DEF HeapOK
<1>2. size \in Nat
  BY DEF BlockHdr
<1>3. \/ o = Outcome(h, q, b.at)
      \/ /\ ~(size <= b.size)
         /\ \E g \in InPlace(p, b, size) : o = Outcome(WithPage(h, q, g), q, b.at)
      \/ ~(size <= b.size) /\ o \in Moved(h, q, b, n)
  BY DEF ReallocIn
<1>4. CASE o = Outcome(h, q, b.at)
  BY <1>4, OutcomeParts DEF SameUse, SameLive
<1>5. ASSUME ~(size <= b.size), NEW g \in InPlace(p, b, size),
             o = Outcome(WithPage(h, q, g), q, b.at)
      PROVE  /\ HeapOK(o.heap)
             /\ \E d \in Block :
                  /\ b.size <= d.size
                  /\ LiveAt(h, o.heap, q, (p.live \ {b}) \cup {d})
  <2>1. b.size < size
    BY <1>1, <1>2, <1>5
  <2> HIDE DEF size
  <2>2. PICK d \in Block : /\ PageOK(g) /\ g.live = (p.live \ {b}) \cup {d}
                           /\ d.size >= size
    BY <1>1, <1>2, <1>5, <2>1, InPlaceOK
  <2>3. HeapOK(WithPage(h, q, g)) /\ LiveAt(h, WithPage(h, q, g), q, g.live)
    BY <1>1, <2>2, WithPageOK
  <2>4. b.size <= d.size
    <3>1. d.size \in Int
      BY <2>2, BlockCells
    <3> QED
      BY <1>1, <1>2, <2>1, <2>2, <3>1
  <2>5. o.heap = WithPage(h, q, g)
    BY <1>5, OutcomeParts
  <2> QED
    BY <2>2, <2>3, <2>4, <2>5
<1>6. CASE ~(size <= b.size) /\ o \in Moved(h, q, b, n)
  <2>1. b.size < n + BlockHdr
    BY <1>1, <1>2, <1>6
  <2> QED
    BY <1>6, <2>1, MovedOK
<1> QED
  BY <1>3, <1>4, <1>5, <1>6

LEMMA ReallocPagesOK ==
  ASSUME NEW h, HeapOK(h), NEW e \in h.big, NEW n \in Nat,
         NEW o \in ReallocPages(h, e, n)
  PROVE  /\ HeapOK(o.heap)
         /\ \/ SameUse(h, o.heap)
            \/ /\ e.units < n + BlockHdr
               /\ \E z : /\ Good(h, z, n + BlockHdr) /\ z.ptr.page # Nil
                         /\ SameLive(z.heap, o.heap)
                         /\ o.heap.big = z.heap.big \ {e}
<1>0. e \in Entries
  BY HeapParts
<1>1. \/ o = Failure(h) \/ o = Outcome(h, e.page, 0)
      \/ /\ get_alloc_size(e) # 0 /\ ~(n <= get_alloc_size(e) - BlockHdr)
         /\ \E z \in zalloc(h, n) :
              o = IF z.ptr.page = Nil THEN z
                  ELSE [z EXCEPT !.heap = ReleasePages(z.heap, e)]
  BY DEF ReallocPages
<1>2. CASE o = Failure(h) \/ o = Outcome(h, e.page, 0)
  BY <1>2, OutcomeParts DEF Failure, SameUse, SameLive
<1>3. ASSUME get_alloc_size(e) # 0, ~(n <= get_alloc_size(e) - BlockHdr),
             NEW z \in zalloc(h, n),
             o = IF z.ptr.page = Nil THEN z
                 ELSE [z EXCEPT !.heap = ReleasePages(z.heap, e)]
      PROVE  /\ HeapOK(o.heap)
             /\ \/ SameUse(h, o.heap)
                \/ /\ e.units < n + BlockHdr
                   /\ \E y : /\ Good(h, y, n + BlockHdr) /\ y.ptr.page # Nil
                             /\ SameLive(y.heap, o.heap)
                             /\ o.heap.big = y.heap.big \ {e}
  <2>1. Good(h, z, n + BlockHdr)
    BY ZallocOK
  <2>2. CASE z.ptr.page = Nil
    BY <1>3, <2>1, <2>2, PagesAssumption DEF Good, GotBlock, GotPages
  <2>3. CASE z.ptr.page # Nil
    <3> DEFINE r == ReleasePages(z.heap, e)
    <3>1. e \in z.heap.big /\ HeapOK(z.heap)
      BY <2>1, <2>3 DEF Good, GotBlock, GotPages, LiveAt
    <3>2. HeapOK(r) /\ SameLive(z.heap, r) /\ r.big = z.heap.big \ {e}
      BY <3>1, ReleasePagesOK
    <3>3. o = [z EXCEPT !.heap = r]
      BY <1>3, <2>3
    <3> HIDE DEF r
    <3>4. o.heap = r
      BY <3>3
    <3>5. e.units < n + BlockHdr
      <4>1. get_alloc_size(e) = e.units /\ e.units \in Nat
        BY <1>0, <1>3 DEF get_alloc_size, Entries
      <4> QED
        BY <1>3, <4>1 DEF BlockHdr
    <3> QED
      BY <2>1, <2>3, <3>2, <3>4, <3>5
  <2> QED
    BY <2>2, <2>3
<1> QED
  BY <1>1, <1>2, <1>3

-----------------------------------------------------------------------------
\* What clients see of a heap.

BlockExt(q, b) == [page |-> q, at |-> b.at, size |-> b.size]
PagesExt(e)    == [page |-> e.page, at |-> 0, size |-> e.units]

ExtentsIn(h) ==
  (UNION {{BlockExt(q, b) : b \in h.pg[q].live} : q \in Pages})
    \cup {PagesExt(e) : e \in h.big}

LEMMA ExtentIs ==
  ASSUME NEW h, NEW x
  PROVE  x \in ExtentsIn(h) <=> \/ \E q \in Pages : \E b \in h.pg[q].live : x = BlockExt(q, b)
                                \/ \E e \in h.big : x = PagesExt(e)
BY DEF ExtentsIn

LEMMA ExtentsAre == extents = ExtentsIn(heap)
BY DEF extents, ExtentsIn, PageExtents, BlockExt, PagesExt

\* Different blocks, and different large blocks, are different extents.
LEMMA ExtentsDiffer ==
  ASSUME NEW q \in Pages, NEW b \in Block
  PROVE  /\ \A r \in Pages, c \in Block : BlockExt(r, c) = BlockExt(q, b) => r = q /\ c = b
         /\ \A e : PagesExt(e) # BlockExt(q, b)
<1>1. ASSUME NEW r \in Pages, NEW c \in Block, BlockExt(r, c) = BlockExt(q, b)
      PROVE  r = q /\ c = b
  <2>1. r = q /\ c.at = b.at /\ c.size = b.size
    BY <1>1 DEF BlockExt
  <2>2. c = [at |-> c.at, size |-> c.size] /\ b = [at |-> b.at, size |-> b.size]
    BY DEF Block
  <2> QED
    BY <2>1, <2>2
<1>2. b.at # 0
  BY BlockCells DEF Hdr, Block
<1>3. \A e : PagesExt(e) # BlockExt(q, b)
  BY <1>2 DEF PagesExt, BlockExt
<1> QED
  BY <1>1, <1>3

LEMMA LiveBlocks ==
  ASSUME NEW h, HeapOK(h), NEW q \in Pages
  PROVE  /\ h.pg[q].live \in SUBSET Block
         /\ \A b \in h.pg[q].live : b.at \in Int /\ b.size \in Int /\ b.size > 0
<1>1. h.pg[q].live \in SUBSET Block
  BY DEF HeapOK, PageOK, Page
<1>2. ASSUME NEW b \in Block PROVE b.at \in Int /\ b.size \in Int /\ b.size > 0
  BY BlockCells
<1> HIDE DEF Block
<1> QED
  BY <1>1, <1>2

\* Nothing that clients hold overlaps.
LEMMA ExtentsApart ==
  ASSUME NEW h, HeapOK(h), NEW x \in ExtentsIn(h), NEW y \in ExtentsIn(h), x # y
  PROVE  HeapSpec!Apart(x, y)
<1> SUFFICES ASSUME x.page = y.page
             PROVE  x.at + x.size <= y.at \/ y.at + y.size <= x.at
  BY DEF HeapSpec!Apart
<1>1. ASSUME NEW q \in Pages, NEW b \in h.pg[q].live, x = BlockExt(q, b),
             NEW r \in Pages, NEW c \in h.pg[r].live, y = BlockExt(r, c)
      PROVE  x.at + x.size <= y.at \/ y.at + y.size <= x.at
  <2>1. /\ r = q /\ b # c /\ b \in h.pg[q].live /\ c \in h.pg[q].live
        /\ x.at = b.at /\ x.size = b.size /\ y.at = c.at /\ y.size = c.size
    BY <1>1 DEF BlockExt
  <2>2. /\ b.at \in Int /\ b.size \in Int /\ b.size > 0
        /\ c.at \in Int /\ c.size \in Int /\ c.size > 0
    BY <2>1, LiveBlocks
  <2>3. Cells(b) \cap Cells(c) = {}
    BY <2>1 DEF HeapOK, PageOK, PageTiled, Disjoint
  <2>4. b.at \notin Cells(c) /\ c.at \notin Cells(b)
    <3>1. b.at \in Cells(b) /\ c.at \in Cells(c)
      BY <2>2 DEF Cells, Ends
    <3> QED
      BY <2>3, <3>1
  <2> QED
    BY <2>1, <2>2, <2>4 DEF Cells, Ends
<1>2. ASSUME NEW q \in Pages, NEW b \in h.pg[q].live, NEW e \in h.big, e.page = q
      PROVE  FALSE
  <2>1. q \in Range(h.chain) /\ q \in PagesOf(h.big)
    BY <1>2, LiveOnChain DEF PagesOf
  <2> QED
    BY <2>1 DEF HeapOK, OnePurpose
<1>3. ASSUME NEW e \in h.big, x = PagesExt(e), NEW f \in h.big, y = PagesExt(f)
      PROVE  FALSE
  <2>1. e.page = f.page
    BY <1>3 DEF PagesExt
  <2>2. e = f
    BY <2>1 DEF HeapOK, OnePurpose
  <2> QED
    BY <1>3, <2>2
<1>4. ASSUME NEW q \in Pages, NEW b \in h.pg[q].live, NEW e \in h.big,
             \/ x = BlockExt(q, b) /\ y = PagesExt(e)
             \/ y = BlockExt(q, b) /\ x = PagesExt(e)
      PROVE  FALSE
  <2>1. e.page = q
    BY <1>4 DEF BlockExt, PagesExt
  <2> QED
    BY <1>2, <2>1
<1> QED
  BY <1>1, <1>3, <1>4, ExtentIs

LEMMA DivFacts ==
  ASSUME NEW a \in Nat, NEW n \in Nat, n > 0
  PROVE  \E d \in Nat, r \in 0 .. n - 1 : a = n * d + r /\ a \div n = d
OBVIOUS

LEMMA WholePagesEnough ==
  ASSUME NEW size \in Nat
  PROVE  WholePages(size) >= size
<1> DEFINE P == PageUnits
<1>1. P \in Nat /\ P > 0 /\ size + P - 1 \in Nat
  BY PageAssumption DEF Hdr, BlockHdr
<1>2. PICK d \in Nat, r \in 0 .. P - 1 :
        size + P - 1 = P * d + r /\ (size + P - 1) \div P = d
  BY <1>1, DivFacts
<1>3. WholePages(size) = P * d
  BY <1>2 DEF WholePages
<1>4. P * d \in Int
  BY <1>1
<1> QED
  BY <1>1, <1>2, <1>3, <1>4

\* What an outcome adds to what clients hold.
LEMMA AddedExtent ==
  ASSUME NEW h, HeapOK(h), NEW n \in Requests, NEW o,
         Good(h, o, n + BlockHdr), o.ptr.page # Nil
  PROVE  \E f \in Extents : /\ f.size >= n + BlockHdr
                            /\ ExtentsIn(o.heap) = ExtentsIn(h) \cup {f}
<1>0. n + BlockHdr \in Nat
  BY RequestAssumption DEF BlockHdr
<1>1. CASE GotBlock(h, o, n + BlockHdr)
  <2> DEFINE q == o.ptr.page
  <2>1. PICK b \in Block : /\ b.size >= n + BlockHdr
                           /\ LiveAt(h, o.heap, q, h.pg[q].live \cup {b})
    BY <1>1 DEF GotBlock
  <2>2. q \in Pages
    BY <1>1 DEF GotBlock
  <2> HIDE DEF q
  <2> DEFINE f == BlockExt(q, b)
  <2>3. f \in Extents /\ f.size = b.size
    BY <2>2 DEF Extents, BlockExt, Block
  <2>4. ASSUME NEW x PROVE x \in ExtentsIn(o.heap) <=> x \in ExtentsIn(h) \cup {f}
    <3>1. \A r \in Pages : o.heap.pg[r].live
             = IF r = q THEN h.pg[q].live \cup {b} ELSE h.pg[r].live
      BY <2>1 DEF LiveAt
    <3>2. o.heap.big = h.big
      BY <2>1 DEF LiveAt
    <3>3. (\E r \in Pages : \E c \in o.heap.pg[r].live : x = BlockExt(r, c))
            <=> (\E r \in Pages : \E c \in h.pg[r].live : x = BlockExt(r, c)) \/ x = f
      BY <2>2, <3>1
    <3> HIDE DEF f
    <3> QED
      BY <3>2, <3>3, ExtentIs
  <2> HIDE DEF f
  <2> QED
    BY <2>1, <2>3, <2>4
<1>2. CASE GotPages(h, o, n + BlockHdr)
  <2>1. PICK e \in Entries : /\ e.units = WholePages(n + BlockHdr)
                             /\ o.heap.big = h.big \cup {e}
    BY <1>2 DEF GotPages
  <2> DEFINE f == PagesExt(e)
  <2>2. f \in Extents
    BY <2>1 DEF Extents, PagesExt, Entries
  <2>3. f.size >= n + BlockHdr
    BY <1>0, <2>1, WholePagesEnough DEF PagesExt
  <2>4. ASSUME NEW x PROVE x \in ExtentsIn(o.heap) <=> x \in ExtentsIn(h) \cup {f}
    <3>1. \A r \in Pages : o.heap.pg[r].live = h.pg[r].live
      BY <1>2 DEF GotPages, SameLive
    <3>2. (\E d \in o.heap.big : x = PagesExt(d))
            <=> (\E d \in h.big : x = PagesExt(d)) \/ x = f
      BY <2>1
    <3> HIDE DEF f
    <3> QED
      BY <3>1, <3>2, ExtentIs
  <2> HIDE DEF f
  <2> QED
    BY <2>2, <2>3, <2>4
<1> QED
  BY <1>1, <1>2 DEF Good

LEMMA SameExtents ==
  ASSUME NEW g, NEW h, SameUse(g, h)
  PROVE  ExtentsIn(h) = ExtentsIn(g)
BY DEF ExtentsIn, SameUse, SameLive

\* What a released block takes from it.
LEMMA DroppedExtent ==
  ASSUME NEW g, HeapOK(g), NEW h, NEW q \in Pages, NEW b \in g.pg[q].live,
         LiveAt(g, h, q, g.pg[q].live \ {b})
  PROVE  ExtentsIn(h) = ExtentsIn(g) \ {BlockExt(q, b)}
<1>1. ASSUME NEW x PROVE x \in ExtentsIn(h) <=> x \in ExtentsIn(g) \ {BlockExt(q, b)}
  <2>1. /\ h.big = g.big
        /\ \A r \in Pages : h.pg[r].live
              = IF r = q THEN g.pg[q].live \ {b} ELSE g.pg[r].live
    BY DEF LiveAt
  <2>2. \A r \in Pages : \A c \in g.pg[r].live : c \in Block
    BY LiveBlocks
  <2>3. /\ \A r \in Pages, c \in Block : BlockExt(r, c) = BlockExt(q, b) => r = q /\ c = b
        /\ \A e : PagesExt(e) # BlockExt(q, b)
    BY <2>2, ExtentsDiffer
  <2>4. (\E r \in Pages : \E c \in h.pg[r].live : x = BlockExt(r, c))
          <=> /\ x # BlockExt(q, b)
              /\ \E r \in Pages : \E c \in g.pg[r].live : x = BlockExt(r, c)
    BY <2>1, <2>2, <2>3
  <2> QED
    BY <2>1, <2>3, <2>4, ExtentIs
<1> QED
  BY <1>1

\* What a block that grows where it is changes in it.
LEMMA GrownExtent ==
  ASSUME NEW g, HeapOK(g), NEW h, NEW q \in Pages, NEW b \in g.pg[q].live,
         NEW d \in Block, LiveAt(g, h, q, (g.pg[q].live \ {b}) \cup {d})
  PROVE  ExtentsIn(h) = (ExtentsIn(g) \ {BlockExt(q, b)}) \cup {BlockExt(q, d)}
<1>1. ASSUME NEW x
      PROVE  x \in ExtentsIn(h) <=> x \in (ExtentsIn(g) \ {BlockExt(q, b)}) \cup {BlockExt(q, d)}
  <2>1. /\ h.big = g.big
        /\ \A r \in Pages : h.pg[r].live
              = IF r = q THEN (g.pg[q].live \ {b}) \cup {d} ELSE g.pg[r].live
    BY DEF LiveAt
  <2>2. \A r \in Pages : \A c \in g.pg[r].live : c \in Block
    BY LiveBlocks
  <2>3. /\ \A r \in Pages, c \in Block : BlockExt(r, c) = BlockExt(q, b) => r = q /\ c = b
        /\ \A e : PagesExt(e) # BlockExt(q, b)
    BY <2>2, ExtentsDiffer
  <2>4. (\E r \in Pages : \E c \in h.pg[r].live : x = BlockExt(r, c))
          <=> \/ x = BlockExt(q, d)
              \/ /\ x # BlockExt(q, b)
                 /\ \E r \in Pages : \E c \in g.pg[r].live : x = BlockExt(r, c)
    BY <2>1, <2>2, <2>3
  <2> QED
    BY <2>1, <2>3, <2>4, ExtentIs
<1> QED
  BY <1>1

\* What a released large block takes from it.
LEMMA DroppedPages ==
  ASSUME NEW g, HeapOK(g), NEW h, NEW e \in g.big,
         SameLive(g, h), h.big = g.big \ {e}
  PROVE  ExtentsIn(h) = ExtentsIn(g) \ {PagesExt(e)}
<1>1. ASSUME NEW x PROVE x \in ExtentsIn(h) <=> x \in ExtentsIn(g) \ {PagesExt(e)}
  <2>1. \A r \in Pages : h.pg[r].live = g.pg[r].live
    BY DEF SameLive
  <2>2. \A f \in g.big : PagesExt(f) = PagesExt(e) => f = e
    BY DEF HeapOK, OnePurpose, PagesExt
  <2>3. \A r \in Pages : \A c \in g.pg[r].live : PagesExt(e) # BlockExt(r, c)
    <3>1. \A r \in Pages : \A c \in g.pg[r].live : c \in Block
      BY LiveBlocks
    <3> QED
      BY <3>1, ExtentsDiffer
  <2>4. (\E f \in h.big : x = PagesExt(f))
          <=> x # PagesExt(e) /\ \E f \in g.big : x = PagesExt(f)
    BY <2>2
  <2> QED
    BY <2>1, <2>3, <2>4, ExtentIs
<1> QED
  BY <1>1

\* What a move makes of the extents: the new one more, the old one less.
LEMMA MovedExtents ==
  ASSUME NEW h, HeapOK(h), NEW q \in Pages, NEW b \in h.pg[q].live, NEW o, NEW z,
         NEW n \in Requests, MovedVia(h, o, z, q, b, n + BlockHdr)
  PROVE  \E f \in Extents :
           /\ f.size >= n + BlockHdr
           /\ ExtentsIn(o.heap) = (ExtentsIn(h) \cup {f}) \ {BlockExt(q, b)}
<1>1. PICK f \in Extents : /\ f.size >= n + BlockHdr
                           /\ ExtentsIn(z.heap) = ExtentsIn(h) \cup {f}
  BY AddedExtent DEF MovedVia
<1> DEFINE g == z.heap
           k == o.heap
<1>2. HeapOK(g)
  BY DEF MovedVia, Good
<1>3. b \in g.pg[q].live
  <2>1. GotBlock(h, z, n + BlockHdr) \/ GotPages(h, z, n + BlockHdr)
    BY DEF MovedVia, Good
  <2> QED
    BY <2>1 DEF GotBlock, GotPages, LiveAt, SameLive
<1>4. LiveAt(g, k, q, g.pg[q].live \ {b})
  BY DEF MovedVia
<1> HIDE DEF g, k
<1>5. q \in Pages
  OBVIOUS
<1>6. ExtentsIn(k) = ExtentsIn(g) \ {BlockExt(q, b)}
  BY ONLY <1>2, <1>3, <1>4, <1>5, DroppedExtent
<1> QED
  BY <1>1, <1>6 DEF g, k
-----------------------------------------------------------------------------
\* What the blocks contain.  A page that was p and is t keeps the blocks that it
\* had, and those that it got are clear.

PageKept(p, t) ==
  \A b \in t.live : \A x \in Payload(b) :
    t.mem[x] = IF b \in p.live THEN p.mem[x] ELSE "zero"

MemKept(h, g) == \A q \in Pages : PageKept(h.pg[q], g.pg[q])

LEMMA PayloadIs ==
  ASSUME NEW p, PageOK(p), NEW b \in p.live
  PROVE  /\ \A x \in Payload(b) : /\ x \in Hdr .. PageUnits - 1 /\ x \in Cells(b)
                                  /\ x # b.at
         /\ \A i \in Int : b.at + i \in Payload(b) <=> 1 <= i /\ i < b.size
<1>1. b \in Block /\ Ends(b) <= PageUnits
  BY PageBound
<1> QED
  BY <1>1, BlockCells, PageAssumption DEF Payload, Hdr, BlockHdr

LEMMA HandMem ==
  ASSUME NEW p \in Page, NEW b \in Block, NEW x \in Hdr .. PageUnits - 1
  PROVE  Hand(p, b).mem[x] = IF x \in Payload(b) THEN "zero"
                             ELSE IF x = b.at THEN "junk" ELSE p.mem[x]
<1> DEFINE one == Fill(p.mem, {b.at}, "junk")
           m   == Fill(one, Payload(b), "zero")
<1>1. one \in [Hdr .. PageUnits - 1 -> Content] /\ p.mem \in [Hdr .. PageUnits - 1 -> Content]
  BY FillType DEF Page, Content
<1>2. one[x] = IF x = b.at THEN "junk" ELSE p.mem[x]
  BY <1>1 DEF Fill
<1> HIDE DEF one
<1>3. Hand(p, b).mem = m
  <2> DEFINE u == p.used + b.size
             l == p.live \cup {b}
  <2>1. Hand(p, b) = [p EXCEPT !.used = u, !.live = l, !.mem = m]
    BY DEF Hand, one
  <2> HIDE DEF u, l, m
  <2> QED
    BY <2>1 DEF Page
<1>4. m[x] = IF x \in Payload(b) THEN "zero" ELSE one[x]
  <2>1. x \in DOMAIN one
    BY <1>1
  <2> QED
    BY <2>1 DEF Fill
<1> QED
  BY <1>2, <1>3, <1>4

\* Two blocks of a page that share a unit are the same.
LEMMA SharedCell ==
  ASSUME NEW p, PageOK(p), NEW b \in p.live, NEW c \in p.live \cup p.free,
         NEW x, x \in Cells(b), x \in Cells(c)
  PROVE  b = c
BY DEF PageOK, PageTiled, Disjoint

LEMMA SameStart ==
  ASSUME NEW p, PageOK(p), NEW b \in p.live, NEW c \in p.live, b.at = c.at
  PROVE  b = c
<1>1. b \in Block /\ c \in Block
  BY TiledBounds
<1>2. b.at \in Cells(b) /\ c.at \in Cells(c)
  BY <1>1, BlockCells
<1> QED
  BY <1>2, SharedCell

LEMMA CarveMem ==
  ASSUME NEW p, PageOK(p), NEW size \in Nat \ {0},
         NEW b \in p.free, size <= b.size
  PROVE  PageKept(p, Carve(p, b, size)) /\ \A d \in p.live : d.at # b.at
<1> DEFINE rest == Rest(b, size)
           got  == [at |-> b.at, size |-> IF rest = {} THEN b.size ELSE size]
           F    == (p.free \ {b}) \cup rest
           c    == Carve(p, b, size)
           m    == Fill(p.mem, {r.at : r \in rest}, "junk")
           q    == [p EXCEPT !.free = F, !.mem = m]
<1>1. b \in Block /\ Ends(b) <= PageUnits
  BY PageBound
<1>2. /\ got \in Block /\ rest \in SUBSET Block
      /\ Cells(got) \cup CellsOf(rest) = Cells(b)
  BY <1>1, RestFacts
<1>3. p \in Page /\ p.free \in SUBSET Block
  BY DEF PageOK, Page
<1>4. m \in [Hdr .. PageUnits - 1 -> Content] /\ p.mem \in [Hdr .. PageUnits - 1 -> Content]
  BY <1>3, FillType DEF Page, Content
<1>5. F \in SUBSET Block
  BY <1>2, <1>3
<1>6. got.at = b.at
  OBVIOUS
<1>7. \A x \in Hdr .. PageUnits - 1 : x \notin Cells(b) => m[x] = p.mem[x]
  <2>1. \A r \in rest : r.at \in Cells(b)
    BY <1>2, BlockCells, CellsOfIn
  <2> QED
    BY <1>4, <2>1 DEF Fill
<1> HIDE DEF m, F, rest
<1>8. q \in Page /\ q.live = p.live /\ q.mem = m
  BY <1>3, <1>4, <1>5 DEF Page
<1>9. c = Hand(q, got)
  BY DEF Carve, m, F, rest
<1>10. PageOK(c)
  BY CarveOK
<1> HIDE DEF q, c, got
<1>11. c.live = p.live \cup {got}
  BY <1>2, <1>8, <1>9, HandFacts
<1>12. \A x \in Payload(got) : x \in Cells(b)
  <2>1. got \in c.live
    BY <1>11
  <2> QED
    BY <1>2, <1>10, <2>1, PayloadIs
<1>13. ASSUME NEW d \in p.live, NEW x \in Payload(d)
       PROVE  c.mem[x] = p.mem[x]
  <2>1. x \in Hdr .. PageUnits - 1 /\ x \in Cells(d)
    BY PayloadIs
  <2>2. x \notin Cells(b)
    <3>1. p.live \cap p.free = {}
      BY DEF PageOK, PageTiled
    <3> QED
      BY <2>1, <3>1, SharedCell
  <2>3. x \notin Payload(got) /\ x # b.at
    BY <1>1, <1>12, <2>2, BlockCells
  <2> QED
    BY <1>2, <1>6, <1>7, <1>8, <1>9, <2>1, <2>2, <2>3, HandMem
<1>14. ASSUME NEW x \in Payload(got)
       PROVE  c.mem[x] = "zero"
  <2>1. x \in Hdr .. PageUnits - 1
    BY <1>10, <1>11, PayloadIs
  <2> QED
    BY <1>2, <1>8, <1>9, <2>1, HandMem
<1>15. PageKept(p, c)
  BY <1>11, <1>13, <1>14 DEF PageKept
<1>16. \A d \in p.live : d.at # b.at
  <2>1. \A d \in p.live : d.at \in Cells(d)
    BY TiledBounds, BlockCells
  <2>2. b.at \in Cells(b) /\ p.live \cap p.free = {}
    BY <1>1, BlockCells DEF PageOK, PageTiled
  <2> QED
    BY <2>1, <2>2, SharedCell
<1> QED
  BY <1>15, <1>16 DEF c

LEMMA BumpMem ==
  ASSUME NEW p, PageOK(p), p.free_mem >= Hdr, NEW size \in Nat \ {0},
         HasRoom(p, size)
  PROVE  PageKept(p, Bump(p, size)) /\ \A d \in p.live : d.at # p.free_mem
<1> DEFINE g == [at |-> p.free_mem, size |-> size]
           c == Bump(p, size)
           q == [p EXCEPT !.free_mem = p.free_mem + size]
<1>1. p \in Page /\ p.free_mem \in 0 .. PageUnits /\ p.free_mem + size <= PageUnits
  BY DEF PageOK, Page, HasRoom
<1>2. g \in Block /\ c.live = p.live \cup {g}
  BY <1>1, BumpFacts
<1>3. PageOK(c)
  BY BumpOK
<1>4. c = Hand(q, g)
  BY DEF Bump
<1>5. q \in Page /\ q.mem = p.mem
  BY <1>1, PageAssumption DEF Page
<1>6. g.at = p.free_mem
  OBVIOUS
<1> HIDE DEF q, c, g
<1>7. \A x \in Payload(g) : x \in Hdr .. PageUnits - 1 /\ x >= p.free_mem
  <2>1. \A x \in Payload(g) : x \in Hdr .. PageUnits - 1 /\ x \in Cells(g)
    BY <1>2, <1>3, PayloadIs
  <2> QED
    BY <1>2, <1>6, <2>1, BlockCells
<1>8. \A d \in p.live : d \in Block /\ d.at < Ends(d) /\ Ends(d) <= p.free_mem
  BY TiledBounds
<1>9. ASSUME NEW d \in p.live, NEW x \in Payload(d)
      PROVE  c.mem[x] = p.mem[x]
  <2>1. x \in Hdr .. PageUnits - 1 /\ x \in Cells(d)
    BY PayloadIs
  <2>2. x < p.free_mem
    <3>1. x < Ends(d) /\ x \in Int /\ Ends(d) \in Int
      BY <1>8, <2>1, BlockCells
    <3> QED
      BY <1>1, <1>8, <3>1
  <2>3. x \notin Payload(g) /\ x # g.at
    BY <1>1, <1>6, <1>7, <2>1, <2>2 DEF Hdr
  <2> QED
    BY <1>2, <1>4, <1>5, <2>1, <2>3, HandMem
<1>10. \A x \in Payload(g) : c.mem[x] = "zero"
  BY <1>2, <1>4, <1>5, <1>7, HandMem
<1>11. PageKept(p, c)
  BY <1>2, <1>9, <1>10 DEF PageKept
<1>12. \A d \in p.live : d.at # p.free_mem
  <2>1. \A d \in p.live : d.at \in Int /\ Ends(d) \in Int
    BY <1>8, BlockCells
  <2> QED
    BY <1>1, <1>8, <2>1
<1> QED
  BY <1>11, <1>12 DEF c

LEMMA TouchedMem ==
  ASSUME NEW p, p \in Page
  PROVE  Touched(p).mem = p.mem /\ Touched(p).live = p.live
BY DEF Touched, Page

\* A page serves: the block it gives starts where none did.
LEMMA ServeMem ==
  ASSUME NEW p, PageOK(p), NEW size \in Nat \ {0}, CanServe(p, size),
         NEW s \in Serve(p, size)
  PROVE  PageKept(p, s.page) /\ \A d \in p.live : d.at # s.at
<1>1. CASE \E b \in p.free : b.size >= size
  <2>1. PICK b \in p.free : /\ b.size >= size
                            /\ s = [page |-> Carve(p, b, size), at |-> b.at]
    BY <1>1 DEF Serve, FirstFits
  <2>2. size <= b.size
    BY <2>1, PageBound, BlockCells
  <2>3. s.page = Carve(p, b, size) /\ s.at = b.at
    BY <2>1
  <2> QED
    BY <2>2, <2>3, CarveMem
<1>2. CASE ~ \E b \in p.free : b.size >= size
  <2> DEFINE t == Touched(p)
  <2>1. s = [page |-> Bump(t, size), at |-> t.free_mem] /\ HasRoom(t, size)
    BY <1>2 DEF Serve, CanServe
  <2>2. s.page = Bump(t, size) /\ s.at = t.free_mem
    BY <2>1
  <2>3. PageOK(t) /\ t.free_mem >= Hdr
    BY TouchedOK
  <2>4. t.live = p.live /\ t.mem = p.mem
    BY TouchedMem DEF PageOK
  <2> HIDE DEF t
  <2>5. PageKept(t, s.page) /\ \A d \in t.live : d.at # s.at
    BY <2>1, <2>2, <2>3, BumpMem
  <2> QED
    BY <2>4, <2>5 DEF PageKept
<1> QED
  BY <1>1, <1>2

-----------------------------------------------------------------------------
\* The heap: what an operation that serves a request keeps and gives.

LEMMA PageKeptSame ==
  ASSUME NEW p, NEW t, t.mem = p.mem, t.live \subseteq p.live
  PROVE  PageKept(p, t)
BY DEF PageKept

LEMMA KeptThen ==
  ASSUME NEW h, NEW g, NEW f, SameLive(h, g), MemKept(h, g), MemKept(g, f)
  PROVE  MemKept(h, f)
<1> SUFFICES ASSUME NEW q \in Pages, NEW b \in f.pg[q].live, NEW x \in Payload(b)
             PROVE  f.pg[q].mem[x] = IF b \in h.pg[q].live THEN h.pg[q].mem[x] ELSE "zero"
  BY DEF MemKept, PageKept
<1>1. f.pg[q].mem[x] = IF b \in g.pg[q].live THEN g.pg[q].mem[x] ELSE "zero"
  BY DEF MemKept, PageKept
<1>2. g.pg[q].live = h.pg[q].live
  BY DEF SameLive
<1>3. b \in g.pg[q].live =>
        g.pg[q].mem[x] = IF b \in h.pg[q].live THEN h.pg[q].mem[x] ELSE "zero"
  BY DEF MemKept, PageKept
<1> QED
  BY <1>1, <1>2, <1>3

LEMMA WithPageMem ==
  ASSUME NEW h, HeapOK(h), NEW q \in Pages, NEW p, PageKept(h.pg[q], p)
  PROVE  MemKept(h, WithPage(h, q, p))
<1>1. h \in Heaps
  BY DEF HeapOK
<1>2. WithPage(h, q, p).pg = [r \in Pages |-> IF r = q THEN p ELSE h.pg[r]]
  BY <1>1 DEF WithPage, Heaps
<1>3. \A r \in Pages : PageKept(h.pg[r], h.pg[r])
  BY PageKeptSame
<1> QED
  BY <1>2, <1>3 DEF MemKept

LEMMA SamePagesMem ==
  ASSUME NEW h, NEW g, g.pg = h.pg
  PROVE  MemKept(h, g)
BY PageKeptSame DEF MemKept

\* Beside what the clients hold stays, no block starts where an outcome has one.
NewAt(h, o) ==
  o.ptr.page \in Pages => \A d \in h.pg[o.ptr.page].live : d.at # o.ptr.at

LEMMA FailureGives ==
  ASSUME NEW h, NEW g, MemKept(h, g)
  PROVE  MemKept(h, Failure(g).heap) /\ NewAt(h, Failure(g))
BY OutcomeParts, PagesAssumption DEF Failure, NewAt

LEMMA RegisterPages ==
  ASSUME NEW h, HeapOK(h), NEW page, NEW units,
         NEW g \in register_page_alloc(h, page, units)
  PROVE  g.pg = h.pg
<1> DEFINE entry(q) == [page |-> page, units |-> units, ix |-> q]
           added(q) == [h EXCEPT !.big = @ \cup {entry(q)}]
<1>1. h \in Heaps
  BY DEF HeapOK
<1> DEFINE longer(q) == [added(q) EXCEPT !.ix = Append(@, q)]
<1>2. \A q : added(q).pg = h.pg /\ longer(q).pg = h.pg
  BY <1>1 DEF Heaps
<1>3. \/ g \in {added(Last(h.ix))}
      \/ g \in {IF q = Nil THEN added(Nil) ELSE longer(q) : q \in page_alloc(h) \ {page}}
  BY Zenon DEF register_page_alloc
<1> HIDE DEF added, longer
<1> QED
  BY <1>2, <1>3

LEMMA FallbackMem ==
  ASSUME NEW h, HeapOK(h), NEW size \in Nat, NEW o \in fallback_proxy(h, size)
  PROVE  MemKept(h, o.heap) /\ NewAt(h, o)
<1> DEFINE indexed == IF h.ix # <<>> THEN {h}
                      ELSE {IF q = Nil THEN h ELSE [h EXCEPT !.ix = <<q>>]
                              : q \in page_alloc(h)}
           placed(g) == UNION {{Outcome(r, p, 0)
                             : r \in register_page_alloc(g, p, WholePages(size))}
                            : p \in page_alloc(g) \ {Nil}}
           out(g) == {Failure(g)} \cup (IF g.ix = <<>> THEN {} ELSE placed(g))
<1>1. ASSUME NEW g \in indexed PROVE HeapOK(g) /\ SameUse(h, g) /\ g.pg = h.pg
  <2>1. \/ g = h
        \/ /\ h.ix = <<>>
           /\ \E q \in page_alloc(h) : q # Nil /\ g = [h EXCEPT !.ix = <<q>>]
    OBVIOUS
  <2>2. CASE g = h
    BY <2>2 DEF SameUse, SameLive
  <2>3. ASSUME h.ix = <<>>, NEW q \in page_alloc(h), q # Nil, g = [h EXCEPT !.ix = <<q>>]
        PROVE  HeapOK(g) /\ SameUse(h, g) /\ g.pg = h.pg
    <3>1. HeapOK(g) /\ SameUse(h, g)
      BY <2>3, IndexBegunOK
    <3> QED
      BY <2>3, <3>1 DEF HeapOK, Heaps
  <2> QED
    BY <2>1, <2>2, <2>3
<1>2. o \in UNION {out(g) : g \in indexed}
  BY Zenon DEF fallback_proxy
<1> HIDE DEF indexed, placed, out
<1>3. PICK g \in indexed : o \in out(g)
  BY <1>2
<1>4. o = Failure(g) \/ o \in placed(g)
  BY <1>3 DEF out
<1>5. HeapOK(g) /\ SameUse(h, g) /\ g.pg = h.pg
  BY <1>1
<1>6. CASE o = Failure(g)
  BY <1>5, <1>6, SamePagesMem, FailureGives
<1>7. CASE o \in placed(g)
  <2>1. PICK p \in page_alloc(g) \ {Nil} :
          \E r \in register_page_alloc(g, p, WholePages(size)) : o = Outcome(r, p, 0)
    BY <1>7 DEF placed
  <2>2. PICK r \in register_page_alloc(g, p, WholePages(size)) : o = Outcome(r, p, 0)
    BY <2>1
  <2>3. p \in Pages /\ Unheld(g.chain, g.big, g.ix, g.leaked, p)
    BY PageAllocUnheld
  <2>4. o.heap = r /\ o.ptr.page = p
    BY <2>2, OutcomeParts
  <2>5. r.pg = h.pg
    BY <1>5, RegisterPages
  <2>6. h.pg[p].live = {}
    <3>1. g.pg[p] = FreshPage
      BY <1>5, <2>3 DEF HeapOK, OffChainFresh, Unheld
    <3> QED
      BY <1>5, <3>1 DEF FreshPage
  <2> QED
    BY <2>4, <2>5, <2>6, SamePagesMem DEF NewAt
<1> QED
  BY <1>4, <1>6, <1>7

LEMMA FromMem ==
  ASSUME NEW h, NEW g, HeapOK(g), SameLive(h, g), MemKept(h, g), NEW q \in Pages,
         NEW size \in Nat \ {0}, CanServe(g.pg[q], size),
         NEW s \in Serve(g.pg[q], size),
         NEW o, o = Outcome(WithPage(g, q, s.page), q, s.at)
  PROVE  MemKept(h, o.heap) /\ NewAt(h, o)
<1>1. PageOK(g.pg[q])
  BY DEF HeapOK
<1>2. PageKept(g.pg[q], s.page) /\ \A d \in g.pg[q].live : d.at # s.at
  BY <1>1, ServeMem
<1> DEFINE w == WithPage(g, q, s.page)
<1>3. MemKept(g, w)
  BY <1>2, WithPageMem
<1> HIDE DEF w
<1>4. MemKept(h, w)
  BY <1>3, KeptThen
<1>5. o.heap = w /\ o.ptr.page = q /\ o.ptr.at = s.at
  BY OutcomeParts DEF w
<1> QED
  BY <1>2, <1>4, <1>5 DEF NewAt, SameLive

LEMMA TouchedUpToMem ==
  ASSUME NEW h, HeapOK(h), NEW i \in 0 .. Len(h.chain)
  PROVE  MemKept(h, TouchedUpTo(h, i))
<1> DEFINE g == TouchedUpTo(h, i)
<1>1. \A q \in Pages : g.pg[q] = h.pg[q] \/ g.pg[q] = Touched(h.pg[q])
  BY TouchedUpToOK
<1>2. \A q \in Pages : h.pg[q] \in Page
  BY DEF HeapOK, PageOK
<1> HIDE DEF g
<1>3. \A q \in Pages : g.pg[q].mem = h.pg[q].mem /\ g.pg[q].live = h.pg[q].live
  BY <1>1, <1>2, TouchedMem
<1>4. MemKept(h, g)
  BY <1>3, PageKeptSame DEF MemKept
<1> QED
  BY <1>4 DEF g

\* A page that was on no chain, and is.
LEMMA LinkedMem ==
  ASSUME NEW h, HeapOK(h), NEW q \in Pages, NEW c
  PROVE  MemKept(h, [WithPage(h, q, FreshPage) EXCEPT !.chain = c])
<1> DEFINE w == WithPage(h, q, FreshPage)
           g == [w EXCEPT !.chain = c]
<1>1. PageKept(h.pg[q], FreshPage)
  BY DEF PageKept, FreshPage
<1>2. MemKept(h, w)
  BY <1>1, WithPageMem
<1>3. g.pg = w.pg
  BY DEF WithPage, HeapOK, Heaps
<1> HIDE DEF w, g
<1>4. MemKept(h, g)
  BY <1>2, <1>3 DEF MemKept
<1> QED
  BY <1>4 DEF g, w

LEMMA AllocateMem ==
  ASSUME NEW h, HeapOK(h), NEW size \in Nat \ {0}, NEW o \in allocate(h, size)
  PROVE  MemKept(h, o.heap) /\ NewAt(h, o)
<1> DEFINE all == TouchedUpTo(h, Len(h.chain))
           from(g, q) == {Outcome(WithPage(g, q, s.page), q, s.at)
                       : s \in Serve(g.pg[q], size)}
           linked(q) == [WithPage(all, q, FreshPage) EXCEPT !.chain = Append(@, q)]
<1>1. h.chain \in Seq(Pages)
  BY HeapParts
<1>2. \/ size >= PageUnits - Hdr /\ o \in fallback_proxy(h, size)
      \/ \E i \in Servers(h, size) : o \in from(TouchedUpTo(h, i), h.chain[i])
      \/ o = Failure(all)
      \/ /\ ~(size >= PageUnits - Hdr)
         /\ \E q \in page_alloc(h) \ {Nil} : o \in from(linked(q), q)
  BY Zenon DEF allocate
<1>3. CASE o \in fallback_proxy(h, size)
  BY <1>3, FallbackMem
<1>4. ASSUME NEW i \in Servers(h, size), o \in from(TouchedUpTo(h, i), h.chain[i])
      PROVE  MemKept(h, o.heap) /\ NewAt(h, o)
  <2> DEFINE q == h.chain[i]
             g == TouchedUpTo(h, i)
  <2>1. /\ i \in 0 .. Len(h.chain) /\ q \in Pages /\ q \in Range(h.chain)
        /\ CanServe(h.pg[q], size)
    BY <1>1 DEF Servers, Range
  <2>2. /\ HeapOK(g) /\ SameLive(h, g) /\ MemKept(h, g)
        /\ g.pg[q] = h.pg[q] \/ g.pg[q] = Touched(h.pg[q])
    BY <2>1, TouchedUpToOK, TouchedUpToMem DEF SameUse
  <2>3. CanServe(g.pg[q], size)
    <3>1. PageOK(h.pg[q])
      BY <2>1 DEF HeapOK
    <3>2. CanServe(Touched(h.pg[q]), size)
      BY <2>1, <3>1, TouchedServes
    <3> QED
      BY <2>1, <2>2, <3>2
  <2>4. PICK s \in Serve(g.pg[q], size) : o = Outcome(WithPage(g, q, s.page), q, s.at)
    BY <1>4
  <2> HIDE DEF g, q
  <2> QED
    BY <2>1, <2>2, <2>3, <2>4, FromMem
<1>5. /\ HeapOK(all) /\ SameUse(h, all) /\ all.chain = h.chain
      /\ all.ix = h.ix /\ all.leaked = h.leaked /\ MemKept(h, all)
  BY <1>1, TouchedUpToOK, TouchedUpToMem
<1> HIDE DEF all
<1>6. CASE o = Failure(all)
  BY <1>5, <1>6, FailureGives
<1>7. ASSUME ~(size >= PageUnits - Hdr),
             NEW q \in page_alloc(h) \ {Nil}, o \in from(linked(q), q)
      PROVE  MemKept(h, o.heap) /\ NewAt(h, o)
  <2> DEFINE g == [WithPage(all, q, FreshPage) EXCEPT !.chain = Append(all.chain, q)]
  <2>1. q \in Pages /\ Unheld(all.chain, all.big, all.ix, all.leaked, q)
    BY <1>5, PageAllocUnheld DEF SameUse
  <2>2. linked(q) = g
    <3>1. WithPage(all, q, FreshPage).chain = all.chain
      BY <1>5 DEF WithPage, HeapOK, Heaps
    <3> QED
      BY <3>1
  <2>3. /\ HeapOK(g) /\ SameUse(all, g) /\ g.pg[q] = FreshPage /\ MemKept(all, g)
    BY <1>5, <2>1, LinkedOK, LinkedMem
  <2>4. PICK s \in Serve(g.pg[q], size) : o = Outcome(WithPage(g, q, s.page), q, s.at)
    BY <1>7, <2>2
  <2> HIDE DEF g
  <2>5. SameLive(h, g) /\ MemKept(h, g)
    BY <1>5, <2>3, KeptThen DEF SameUse, SameLive
  <2>6. CanServe(g.pg[q], size)
    BY <1>7, <2>3, FreshServes, PageAssumption DEF Hdr
  <2> QED
    BY <2>1, <2>3, <2>4, <2>5, <2>6, FromMem
<1> QED
  BY <1>2, <1>3, <1>4, <1>6, <1>7

LEMMA ZallocMem ==
  ASSUME NEW h, HeapOK(h), NEW n \in Nat, NEW o \in zalloc(h, n)
  PROVE  MemKept(h, o.heap) /\ NewAt(h, o)
<1>1. n + BlockHdr \in Nat \ {0}
  BY DEF BlockHdr
<1>2. CASE h.chain # <<>>
  BY <1>1, <1>2, AllocateMem DEF zalloc
<1>3. CASE h.chain = <<>>
  <2>1. \/ o = Failure(h)
        \/ \E q \in page_alloc(h) \ {Nil} :
             o \in allocate([WithPage(h, q, FreshPage) EXCEPT !.chain = <<q>>],
                           n + BlockHdr)
    BY <1>3, Zenon DEF zalloc
  <2>2. CASE o = Failure(h)
    BY <2>2, FailureGives, SamePagesMem
  <2>3. ASSUME NEW q \in page_alloc(h) \ {Nil},
               o \in allocate([WithPage(h, q, FreshPage) EXCEPT !.chain = <<q>>],
                             n + BlockHdr)
        PROVE  MemKept(h, o.heap) /\ NewAt(h, o)
    <3> DEFINE g == [WithPage(h, q, FreshPage) EXCEPT !.chain = Append(h.chain, q)]
    <3>1. q \in Pages /\ Unheld(h.chain, h.big, h.ix, h.leaked, q)
      BY PageAllocUnheld
    <3>2. Append(h.chain, q) = <<q>>
      BY <1>3, <3>1
    <3>3. HeapOK(g) /\ SameUse(h, g) /\ MemKept(h, g)
      BY <3>1, LinkedOK, LinkedMem
    <3>4. o \in allocate(g, n + BlockHdr)
      BY <2>3, <3>2
    <3> HIDE DEF g
    <3>5. MemKept(g, o.heap) /\ NewAt(g, o)
      BY <1>1, <3>3, <3>4, AllocateMem
    <3> QED
      BY <3>3, <3>5, KeptThen DEF SameUse, SameLive, NewAt
  <2> QED
    BY <2>1, <2>2, <2>3
<1> QED
  BY <1>2, <1>3

-----------------------------------------------------------------------------
\* Blocks that go, and blocks that grow where they are.

LEMMA InsertedMem ==
  ASSUME NEW p, PageOK(p), NEW b \in p.live
  PROVE  Inserted(Less(p, b), b).mem = Less(p, b).mem
<1> DEFINE q == Less(p, b)
           m == Coalesced(q.free, b)
           G == {f \in q.free : Cells(f) \cap Cells(m) = {}} \cup {m}
           r == [q EXCEPT !.free = G]
<1>1. q \in Page
  BY LessFacts
<1>2. Inserted(q, b) = Trimmed(r, m)
  BY DEF Inserted
<1> HIDE DEF q, m, G
<1>3. r.mem = q.mem
  BY <1>1 DEF Page
<1>4. \/ Trimmed(r, m) = r
      \/ \E F, s : Trimmed(r, m) = [r EXCEPT !.free = F, !.free_mem = s]
  BY DEF Trimmed
<1>5. \A F, s : [r EXCEPT !.free = F, !.free_mem = s].mem = r.mem
  BY <1>1 DEF Page
<1> HIDE DEF r
<1>6. Inserted(q, b).mem = q.mem
  BY <1>2, <1>3, <1>4, <1>5
<1> QED
  BY <1>6 DEF q

LEMMA LessMem ==
  ASSUME NEW p, PageOK(p), NEW b \in p.live, NEW t,
         t.mem = Less(p, b).mem, t.live = p.live \ {b}
  PROVE  PageKept(p, t)
<1>1. p \in Page /\ p.mem \in [Hdr .. PageUnits - 1 -> Content]
  BY DEF PageOK, Page
<1>2. t.mem = Fill(p.mem, Cells(b), "junk")
  BY <1>1 DEF Less, Poisoned, Page
<1>3. ASSUME NEW d \in p.live \ {b}, NEW x \in Payload(d)
      PROVE  t.mem[x] = p.mem[x]
  <2>1. x \in Hdr .. PageUnits - 1 /\ x \in Cells(d)
    BY PayloadIs
  <2>2. x \notin Cells(b)
    BY <2>1, SharedCell
  <2> QED
    BY <1>1, <1>2, <2>1, <2>2 DEF Fill
<1> QED
  BY <1>3 DEF PageKept

LEMMA ReleaseInMem ==
  ASSUME NEW h, HeapOK(h), NEW q \in Pages, NEW b \in h.pg[q].live
  PROVE  MemKept(h, ReleaseIn(h, q, b))
<1> DEFINE p == h.pg[q]
           less == [Poisoned(p, b) EXCEPT !.used = @ - b.size]
           w == WithPage(h, q, FreshPage)
           g == ReleaseIn(h, q, b)
<1>1. PageOK(p) /\ less = Less(p, b)
  BY DEF HeapOK, Less
<1>2. /\ less \in Page /\ less.live = p.live \ {b} /\ less.used \in Nat
      /\ less.used = 0 => p.live \ {b} = {}
  <2>1. Less(p, b) \in Page
    BY <1>1, LessFacts
  <2>2. Less(p, b).used \in Nat
    BY <2>1 DEF Page
  <2> HIDE DEF less
  <2> QED
    BY <1>1, <2>1, <2>2, LessFacts
<1>3. ~(p.used < b.size) /\ Poisoned(p, b).used = p.used /\ p.used # 0
  <2>1. p.used >= b.size /\ b \in Block /\ p.used \in Nat
    BY <1>1, LessFacts, TiledBounds DEF PageOK, Page
  <2>2. Poisoned(p, b).used = p.used
    BY <1>1 DEF Poisoned, PageOK, Page
  <2>3. b.size \in Int /\ b.size > 0
    BY <2>1, BlockCells
  <2> QED
    BY <2>1, <2>2, <2>3
<1>4. CASE less.used > 0
  <2> DEFINE r == Inserted(less, b)
  <2>1. g = WithPage(h, q, r)
    BY <1>3, <1>4 DEF ReleaseIn
  <2>2. r.mem = Less(p, b).mem /\ r.live = p.live \ {b}
    BY <1>1, InsertedMem, InsertedLive
  <2> HIDE DEF r, g, p
  <2>3. PageKept(p, r)
    BY <1>1, <2>2, LessMem DEF p
  <2> QED
    BY <2>1, <2>3, WithPageMem DEF g, p
<1>5. CASE less.used = 0
  <2>1. ASSUME NEW t, t.live = {} PROVE MemKept(h, WithPage(h, q, t))
    BY <2>1, WithPageMem DEF PageKept
  <2>2. FreshPage.live = {} /\ Emptied(less).live = {}
    BY <1>2, <1>5 DEF FreshPage, Emptied, Page
  <2>3. CASE q = Head(h.chain)
    <3>1. g = WithPage(h, q, Emptied(less))
      BY <1>3, <1>5, <2>3 DEF ReleaseIn
    <3> QED
      BY <2>1, <2>2, <3>1
  <2>4. CASE q # Head(h.chain)
    <3> DEFINE c == Unlink(w.chain, q)
    <3>1. g = [w EXCEPT !.chain = c]
      BY <1>3, <1>5, <2>4 DEF ReleaseIn
    <3> HIDE DEF c
    <3>2. MemKept(h, [w EXCEPT !.chain = c])
      BY LinkedMem
    <3> QED
      BY <3>1, <3>2
  <2> QED
    BY <2>3, <2>4
<1> QED
  BY <1>2, <1>4, <1>5

LEMMA GrownMem ==
  ASSUME NEW p \in Page, NEW b, NEW take
  PROVE  Grown(p, b, take).mem = Fill(p.mem, Ends(b) .. Ends(b) + take - 1, "zero")
<1> DEFINE u == p.used + take
           l == (p.live \ {b}) \cup {[at |-> b.at, size |-> b.size + take]}
           m == Fill(p.mem, Ends(b) .. Ends(b) + take - 1, "zero")
<1>1. Grown(p, b, take) = [p EXCEPT !.used = u, !.live = l, !.mem = m]
  BY DEF Grown
<1> HIDE DEF u, l, m
<1>2. Grown(p, b, take).mem = m
  BY <1>1 DEF Page
<1> QED
  BY <1>2 DEF m

\* Growing writes where no block was in use, and the starts stay the same.
LEMMA InPlaceMem ==
  ASSUME NEW p, PageOK(p), NEW b \in p.live, NEW size \in Nat, b.size < size,
         NEW t \in InPlace(p, b, size)
  PROVE  \A d \in p.live : \A x \in Payload(d) : t.mem[x] = p.mem[x]
<1>1. /\ b \in Block /\ b.size \in Int /\ p \in Page /\ Ends(b) \in Int
      /\ p.mem \in [Hdr .. PageUnits - 1 -> Content]
  BY TiledBounds, BlockCells DEF PageOK, Page
<1>2. \/ \E f \in Behind(p, b) : b.size + f.size >= size /\ t = IntoFree(p, b, f, size)
      \/ BumpReaches(p, b, size) /\ t = IntoBump(p, b, size)
  BY DEF InPlace
<1>3. ASSUME NEW f \in Behind(p, b), b.size + f.size >= size,
             t = IntoFree(p, b, f, size)
      PROVE  \A d \in p.live : \A x \in Payload(d) : t.mem[x] = p.mem[x]
  <2> DEFINE more == size - b.size
             rest == Rest(f, more)
             take == IF rest = {} THEN f.size ELSE more
             F    == (p.free \ {f}) \cup rest
             m    == Fill(p.mem, {r.at : r \in rest}, "junk")
             q    == [p EXCEPT !.free = F, !.mem = m]
  <2>1. /\ f \in Block /\ f.size \in Int /\ f \in p.free /\ f.at = Ends(b)
        /\ Ends(f) <= PageUnits /\ Ends(f) = f.at + f.size /\ Ends(f) \in Int
    BY PageBound, BlockCells DEF Behind
  <2>2. more \in Nat \ {0} /\ more <= f.size
    BY <1>1, <1>3, <2>1
  <2>3. t = Grown(q, b, take)
    BY <1>3 DEF IntoFree
  <2> DEFINE got == [at |-> f.at, size |-> take]
  <2> HIDE DEF more
  <2>4. /\ rest \in SUBSET Block
        /\ Cells(got) \cup CellsOf(rest) = Cells(f)
    BY <2>1, <2>2, RestFacts
  <2>5. m \in [Hdr .. PageUnits - 1 -> Content]
    BY <1>1, FillType DEF Content
  <2>6. F \in SUBSET Block
    BY <1>1, <2>4 DEF Page
  <2>7. take \in Int /\ take <= f.size
    BY <2>1, <2>2
  <2>8. \A x \in Hdr .. PageUnits - 1 : x \notin Cells(f) => m[x] = p.mem[x]
    <3>1. \A r \in rest : r.at \in Cells(f)
      BY <2>4, BlockCells, CellsOfIn
    <3> QED
      BY <1>1, <3>1 DEF Fill
  <2> HIDE DEF F, m, take, rest
  <2>9. q \in Page /\ q.mem = m
    BY <1>1, <2>5, <2>6 DEF Page
  <2> HIDE DEF q
  <2>10. t.mem = Fill(m, Ends(b) .. Ends(b) + take - 1, "zero")
    BY <2>3, <2>9, GrownMem
  <2>11. ASSUME NEW d \in p.live, NEW x \in Payload(d)
         PROVE  t.mem[x] = p.mem[x]
    <3>1. x \in Hdr .. PageUnits - 1 /\ x \in Cells(d)
      BY PayloadIs
    <3>2. x \notin Cells(f)
      <4>1. p.live \cap p.free = {}
        BY DEF PageOK, PageTiled
      <4> QED
        BY <2>1, <3>1, <4>1, SharedCell
    <3>3. x \notin Ends(b) .. Ends(b) + take - 1
      <4>1. x \in Int /\ ~(f.at <= x /\ x < Ends(f))
        BY <2>1, <3>1, <3>2, BlockCells
      <4> QED
        BY <1>1, <2>1, <2>7, <4>1
    <3> QED
      BY <2>5, <2>8, <2>10, <3>1, <3>2, <3>3 DEF Fill
  <2> QED
    BY <2>11
<1>4. ASSUME BumpReaches(p, b, size), t = IntoBump(p, b, size)
      PROVE  \A d \in p.live : \A x \in Payload(d) : t.mem[x] = p.mem[x]
  <2> DEFINE take == size - b.size
             n == p.free_mem + size - b.size
             q == [p EXCEPT !.free_mem = n]
  <2>1. t = Grown(q, b, take)
    BY <1>4 DEF IntoBump
  <2>2. p.free_mem \in Nat /\ Ends(b) = p.free_mem
    BY <1>1, <1>4 DEF BumpReaches, Page
  <2>3. n \in 0 .. PageUnits /\ take \in Int
    BY <1>1, <1>4, <2>2, PageAssumption DEF BumpReaches
  <2> HIDE DEF take, n
  <2>4. q \in Page /\ q.mem = p.mem
    BY <1>1, <2>3 DEF Page
  <2> HIDE DEF q
  <2>5. t.mem = Fill(p.mem, Ends(b) .. Ends(b) + take - 1, "zero")
    BY <2>1, <2>4, GrownMem
  <2>6. ASSUME NEW d \in p.live, NEW x \in Payload(d)
        PROVE  t.mem[x] = p.mem[x]
    <3>1. x \in Hdr .. PageUnits - 1 /\ x \in Cells(d)
      BY PayloadIs
    <3>2. d \in Block /\ Ends(d) <= p.free_mem
      BY TiledBounds
    <3>3. x < Ends(d) /\ Ends(d) \in Int /\ x \in Int
      BY <3>1, <3>2, BlockCells
    <3>4. x \notin Ends(b) .. Ends(b) + take - 1
      BY <2>2, <2>3, <3>2, <3>3
    <3> QED
      BY <1>1, <2>5, <3>1, <3>4 DEF Fill
  <2> QED
    BY <2>6
<1> QED
  BY <1>2, <1>3, <1>4

-----------------------------------------------------------------------------
\* A block that moves takes its contents with it.

CopiedInto(h, c, q, b, r, d) ==
  /\ \A s \in Pages : \A a \in h.pg[s].live :
       ~(s = r /\ a = d) => \A x \in Payload(a) : c.pg[s].mem[x] = h.pg[s].mem[x]
  /\ \A x \in Payload(d) :
       c.pg[r].mem[x] = IF x - d.at + b.at \in Payload(b)
                        THEN h.pg[q].mem[x - d.at + b.at] ELSE h.pg[r].mem[x]

LEMMA CopiedMem ==
  ASSUME NEW h, HeapOK(h), NEW q \in Pages, NEW b \in h.pg[q].live,
         NEW ptr, NEW r \in Pages, r = ptr.page, NEW d \in h.pg[r].live,
         d.at = ptr.at, b.size <= d.size, NEW c, c = Copied(h, q, b, ptr)
  PROVE  CopiedInto(h, c, q, b, r, d)
<1> DEFINE p == h.pg[r]
           from == h.pg[q].mem
           m == Memcpy(p.mem, ptr.at, from, b)
           t == [p EXCEPT !.mem = m]
<1>1. PageOK(p) /\ PageOK(h.pg[q]) /\ p \in Page
  BY DEF HeapOK, PageOK
<1>2. /\ b \in Block /\ d \in Block /\ b.at \in Int /\ d.at \in Int
      /\ b.size \in Int /\ d.size \in Int
  BY <1>1, TiledBounds, BlockCells
<1>3. c = WithPage(h, r, t)
  <2>1. ~ \E e \in h.big : e.page = ptr.page
    BY LiveOnChain DEF HeapOK, OnePurpose, PagesOf
  <2>2. Copied(h, q, b, ptr) = WithPage(h, ptr.page, [h.pg[ptr.page] EXCEPT !.mem = Memcpy(@, ptr.at, h.pg[q].mem, b)])
    BY <2>1 DEF Copied
  <2> QED
    BY <2>2
<1>4. DOMAIN p.mem = Hdr .. PageUnits - 1
  BY <1>1 DEF Page
<1>5. \A x \in Hdr .. PageUnits - 1 :
        m[x] = IF x - d.at + b.at \in Payload(b) THEN from[x - d.at + b.at] ELSE p.mem[x]
  <2> HIDE DEF p, from
  <2> QED
    BY <1>4 DEF Memcpy
<1> HIDE DEF m
<1>6. c.pg = [s \in Pages |-> IF s = r THEN t ELSE h.pg[s]] /\ t.mem = m
  <2>1. t.mem = m
    BY <1>1 DEF Page
  <2> HIDE DEF t
  <2> QED
    BY <1>3, <2>1 DEF WithPage, HeapOK, Heaps
<1> HIDE DEF t
<1>7. c.pg[r].mem = m /\ \A s \in Pages : s # r => c.pg[s].mem = h.pg[s].mem
  BY <1>6
<1>8. ASSUME NEW a \in p.live, a # d, NEW x \in Payload(a)
      PROVE  m[x] = p.mem[x]
  <2>1. x \in Hdr .. PageUnits - 1 /\ x \in Cells(a) /\ a \in Block
    BY <1>1, <1>8, PayloadIs, TiledBounds
  <2>2. x \notin Cells(d)
    BY <1>1, <1>8, <2>1, SharedCell
  <2>3. x \in Int
    BY <2>1, BlockCells
  <2>4. x - d.at + b.at \notin Payload(b)
    <3> DEFINE i == x - d.at
    <3>1. SUFFICES ASSUME b.at + i \in Payload(b) PROVE FALSE
      BY <1>2, <2>3
    <3>2. i \in Int
      BY <1>2, <2>3
    <3>3. 1 <= i /\ i < b.size
      <4> HIDE DEF i
      <4> QED
        BY <1>1, <3>1, <3>2, PayloadIs
    <3> QED
      BY <1>2, <2>2, <2>3, <3>3, BlockCells
  <2> QED
    BY <1>5, <2>1, <2>4
<1>9. \A x \in Payload(d) : x \in Hdr .. PageUnits - 1
  BY <1>1, PayloadIs
<1>10. \A s \in Pages : \A a \in h.pg[s].live :
         ~(s = r /\ a = d) => \A x \in Payload(a) : c.pg[s].mem[x] = h.pg[s].mem[x]
  BY <1>7, <1>8
<1>11. \A x \in Payload(d) :
         c.pg[r].mem[x] = IF x - d.at + b.at \in Payload(b)
                          THEN from[x - d.at + b.at] ELSE p.mem[x]
  BY <1>5, <1>7, <1>9
<1> QED
  BY <1>10, <1>11 DEF CopiedInto

\* From h to g the block b of page q becomes the block d of page r.
MovedInto(h, g, q, b, r, d) ==
  /\ d.size >= b.size
  /\ \A a \in h.pg[r].live : a.at # d.at
  /\ \A s \in Pages :
       g.pg[s].live = (h.pg[s].live \cup (IF s = r THEN {d} ELSE {}))
                        \ (IF s = q THEN {b} ELSE {})
  /\ \A s \in Pages : \A a \in g.pg[s].live :
       ~(s = r /\ a = d) => \A x \in Payload(a) : g.pg[s].mem[x] = h.pg[s].mem[x]
  /\ \A x \in Payload(d) :
       g.pg[r].mem[x] = IF x - d.at + b.at \in Payload(b)
                        THEN h.pg[q].mem[x - d.at + b.at] ELSE "zero"

LEMMA MovedMem ==
  ASSUME NEW h, HeapOK(h), NEW q \in Pages, NEW b \in h.pg[q].live, NEW n \in Nat,
         b.size < n + BlockHdr, NEW z \in zalloc(h, n), GotBlock(h, z, n + BlockHdr),
         NEW g, g = ReleaseIn(Copied(z.heap, q, b, z.ptr), q, b)
  PROVE  \E d \in Block : MovedInto(h, g, q, b, z.ptr.page, d)
<1> DEFINE r == z.ptr.page
           f == z.heap
           c == Copied(f, q, b, z.ptr)
<1>1. HeapOK(f) /\ z.ptr.at \in Int /\ r \in Pages
  BY ZallocOK DEF Good, GotBlock
<1>2. MemKept(h, f) /\ NewAt(h, z)
  BY ZallocMem
<1>3. PICK d \in Block : /\ d.at = z.ptr.at /\ d.size >= n + BlockHdr
                         /\ LiveAt(h, f, r, h.pg[r].live \cup {d})
  BY DEF GotBlock
<1>4. b \in Block /\ b.size \in Int /\ d.size \in Int /\ b.at \in Int /\ d.at \in Int
  <2>1. PageOK(h.pg[q])
    BY DEF HeapOK
  <2> QED
    BY <2>1, TiledBounds, BlockCells
<1>5. b.size <= d.size
  BY <1>3, <1>4 DEF BlockHdr
<1>6. \A a \in h.pg[r].live : a.at # d.at
  BY <1>1, <1>2, <1>3 DEF NewAt
<1>7. \A s \in Pages : f.pg[s].live = h.pg[s].live \cup (IF s = r THEN {d} ELSE {})
  BY <1>3 DEF LiveAt
<1>8. d \in f.pg[r].live /\ b \in f.pg[q].live
  BY <1>1, <1>7
<1>9. r \in Range(f.chain)
  BY <1>1, <1>8, LiveOnChain
<1>10. HeapOK(c) /\ SameLive(f, c)
  BY <1>1, <1>8, <1>9, CopiedOK DEF SameUse
<1>a. c = Copied(f, q, b, z.ptr) /\ r = z.ptr.page /\ g = ReleaseIn(c, q, b)
  OBVIOUS
<1> HIDE DEF r, f, c
<1>11. CopiedInto(f, c, q, b, r, d)
  BY <1>1, <1>3, <1>5, <1>8, <1>a, CopiedMem
<1>12. b \in c.pg[q].live /\ \A s \in Pages : c.pg[s].live = f.pg[s].live
  BY <1>8, <1>10 DEF SameLive
<1>13. MemKept(c, g) /\ LiveAt(c, g, q, c.pg[q].live \ {b})
  BY <1>10, <1>12, <1>a, ReleaseInOK, ReleaseInMem
<1>14. \A s \in Pages : g.pg[s].live = f.pg[s].live \ (IF s = q THEN {b} ELSE {})
  BY <1>12, <1>13 DEF LiveAt
<1>15. \A s \in Pages : \A a \in g.pg[s].live : \A x \in Payload(a) :
         g.pg[s].mem[x] = c.pg[s].mem[x]
  BY <1>12, <1>13, <1>14 DEF MemKept, PageKept
<1>16. \A s \in Pages : \A a \in h.pg[s].live : \A x \in Payload(a) :
         f.pg[s].mem[x] = h.pg[s].mem[x]
  BY <1>2, <1>7 DEF MemKept, PageKept
<1>17. \A x \in Payload(d) : f.pg[r].mem[x] = "zero"
  <2>1. d \notin h.pg[r].live
    BY <1>6
  <2> QED
    BY <1>1, <1>2, <1>8, <2>1 DEF MemKept, PageKept
<1>18. \A s \in Pages : \A a \in g.pg[s].live :
         ~(s = r /\ a = d) => \A x \in Payload(a) : g.pg[s].mem[x] = h.pg[s].mem[x]
  BY <1>7, <1>11, <1>14, <1>15, <1>16 DEF CopiedInto
<1>19. d \in g.pg[r].live
  <2>1. ~(r = q /\ d = b)
    BY <1>6
  <2> QED
    BY <1>1, <1>8, <1>14, <2>1
<1>20. \A x \in Payload(d) :
         g.pg[r].mem[x] = IF x - d.at + b.at \in Payload(b)
                          THEN h.pg[q].mem[x - d.at + b.at] ELSE "zero"
  <2> SUFFICES ASSUME NEW x \in Payload(d)
               PROVE  g.pg[r].mem[x] = IF x - d.at + b.at \in Payload(b)
                          THEN h.pg[q].mem[x - d.at + b.at] ELSE "zero"
    OBVIOUS
  <2>1. g.pg[r].mem[x] = c.pg[r].mem[x]
    BY <1>1, <1>15, <1>19
  <2> DEFINE y == x - d.at + b.at
  <2>2. y \in Payload(b) => f.pg[q].mem[y] = h.pg[q].mem[y]
    BY <1>16
  <2>3. c.pg[r].mem[x] = IF y \in Payload(b) THEN f.pg[q].mem[y] ELSE f.pg[r].mem[x]
    BY <1>11 DEF CopiedInto
  <2> HIDE DEF y
  <2>4. g.pg[r].mem[x] = IF y \in Payload(b) THEN h.pg[q].mem[y] ELSE "zero"
    BY <1>17, <2>1, <2>2, <2>3
  <2> QED
    BY <2>4 DEF y
<1>21. \A s \in Pages :
         g.pg[s].live = (h.pg[s].live \cup (IF s = r THEN {d} ELSE {}))
                          \ (IF s = q THEN {b} ELSE {})
  BY <1>7, <1>14
<1>22. MovedInto(h, g, q, b, r, d)
  BY <1>4, <1>5, <1>6, <1>18, <1>20, <1>21 DEF MovedInto
<1> QED
  BY <1>22 DEF r

-----------------------------------------------------------------------------
\* What ContentsKept says of a step.

LEMMA StartIs ==
  ASSUME NEW h, HeapOK(h), NEW q \in Pages, NEW b \in h.pg[q].live
  PROVE  /\ <<q, b.at>> \in Starts(h) /\ BlockAt(h, <<q, b.at>>) = b
         /\ \A i : Holds(h, <<q, b.at>>, i) = IF b.at + i \in Payload(b)
                                              THEN h.pg[q].mem[b.at + i] ELSE "zero"
<1> DEFINE s == <<q, b.at>>
<1>1. PageOK(h.pg[q])
  BY DEF HeapOK
<1>2. b.at \in Hdr .. PageUnits - 1
  BY <1>1, TiledBounds DEF Block
<1>3. s \in Starts(h)
  BY <1>2 DEF Starts
<1>4. \A c \in h.pg[q].live : c.at = b.at => c = b
  BY <1>1, SameStart
<1>5. BlockAt(h, s) = b
  <2>1. BlockAt(h, s) = CHOOSE c \in h.pg[q].live : c.at = b.at
    BY DEF BlockAt
  <2> QED
    BY <1>4, <2>1
<1>6. s[1] = q /\ s[2] = b.at
  OBVIOUS
<1> HIDE DEF s
<1>7. \A i : Holds(h, s, i) = IF b.at + i \in Payload(b)
                              THEN h.pg[q].mem[b.at + i] ELSE "zero"
  BY <1>5, <1>6 DEF Holds
<1> QED
  BY <1>3, <1>5, <1>7 DEF s

LEMMA StartHas ==
  ASSUME NEW h, NEW s \in Starts(h)
  PROVE  \E q \in Pages : \E b \in h.pg[q].live : s = <<q, b.at>>
BY DEF Starts

\* Where nothing starts that did not, nothing has to be clear.
LEMMA NoNewStarts ==
  ASSUME Starts(heap') \subseteq Starts(heap)
  PROVE  Cleared
BY DEF Cleared

LEMMA GrewKeeps ==
  ASSUME HeapOK(heap), HeapOK(heap'), MemKept(heap, heap'),
         \A q \in Pages : heap.pg[q].live \subseteq heap'.pg[q].live
  PROVE  Kept /\ Cleared
<1>1. ASSUME NEW q \in Pages, NEW b \in heap.pg[q].live, NEW c \in heap'.pg[q].live,
             Same(b, c), NEW x \in Payload(b)
      PROVE  heap'.pg[q].mem[x] = heap.pg[q].mem[x]
  <2>1. PageOK(heap'.pg[q])
    BY DEF HeapOK
  <2>2. b = c
    BY <1>1, <2>1, SameStart DEF Same
  <2> QED
    BY <1>1, <2>2 DEF MemKept, PageKept
<1>2. Starts(heap) \subseteq Starts(heap')
  <2>1. ASSUME NEW s \in Starts(heap) PROVE s \in Starts(heap')
    <3>1. PICK q \in Pages : \E b \in heap.pg[q].live : s = <<q, b.at>>
      BY StartHas
    <3>2. PICK b \in heap.pg[q].live : s = <<q, b.at>>
      BY <3>1
    <3> QED
      BY <3>2, StartIs
  <2> QED
    BY <2>1
<1>3. ASSUME NEW s \in Starts(heap') \ Starts(heap), NEW i \in 1 .. PageUnits
      PROVE  Holds(heap', s, i) = "zero"
  <2>1. PICK q \in Pages : \E b \in heap'.pg[q].live : s = <<q, b.at>>
    BY StartHas
  <2>2. PICK b \in heap'.pg[q].live : s = <<q, b.at>>
    BY <2>1
  <2>3. b \notin heap.pg[q].live
    BY <1>3, <2>2, StartIs
  <2>4. \A x \in Payload(b) : heap'.pg[q].mem[x] = "zero"
    BY <2>3 DEF MemKept, PageKept
  <2> QED
    BY <2>2, <2>4, StartIs
<1>4. Cleared
  BY <1>2, <1>3 DEF Cleared
<1>5. Kept
  BY <1>1 DEF Kept
<1> QED
  BY <1>4, <1>5

LEMMA ShrankKeeps ==
  ASSUME HeapOK(heap), HeapOK(heap'), MemKept(heap, heap'),
         \A q \in Pages : heap'.pg[q].live \subseteq heap.pg[q].live
  PROVE  Kept /\ Cleared
<1>1. ASSUME NEW q \in Pages, NEW b \in heap.pg[q].live, NEW c \in heap'.pg[q].live,
             Same(b, c), NEW x \in Payload(b)
      PROVE  heap'.pg[q].mem[x] = heap.pg[q].mem[x]
  <2>1. PageOK(heap.pg[q])
    BY DEF HeapOK
  <2>2. b = c
    BY <1>1, <2>1, SameStart DEF Same
  <2> QED
    BY <1>1, <2>2 DEF MemKept, PageKept
<1>2. ASSUME NEW s \in Starts(heap') PROVE s \in Starts(heap)
  <2>1. PICK q \in Pages : \E b \in heap'.pg[q].live : s = <<q, b.at>>
    BY StartHas
  <2>2. PICK b \in heap'.pg[q].live : s = <<q, b.at>>
    BY <2>1
  <2> QED
    BY <2>2, StartIs
<1>3. Cleared
  BY <1>2, NoNewStarts
<1>4. Kept
  BY <1>1 DEF Kept
<1> QED
  BY <1>3, <1>4

-----------------------------------------------------------------------------
\* Every step keeps the contents.

LEMMA GoodGrows ==
  ASSUME NEW h, NEW o, NEW size, Good(h, o, size)
  PROVE  \A q \in Pages : h.pg[q].live \subseteq o.heap.pg[q].live
<1>1. CASE o.ptr.page = Nil /\ SameUse(h, o.heap)
  BY <1>1 DEF SameUse, SameLive
<1>2. CASE GotBlock(h, o, size)
  BY <1>2 DEF GotBlock, LiveAt
<1>3. CASE GotPages(h, o, size)
  BY <1>3 DEF GotPages, SameLive
<1> QED
  BY <1>1, <1>2, <1>3 DEF Good

LEMMA ZallocKeeps ==
  ASSUME HeapOK(heap), Zalloc
  PROVE  Kept /\ Cleared
<1>1. PICK n \in Requests : \E o \in zalloc(heap, n) : heap' = o.heap
  BY DEF Zalloc
<1>2. PICK o \in zalloc(heap, n) : heap' = o.heap
  BY <1>1
<1>3. Good(heap, o, n + BlockHdr) /\ MemKept(heap, o.heap)
  BY RequestAssumption, ZallocOK, ZallocMem
<1>4. HeapOK(heap') /\ MemKept(heap, heap')
  BY <1>2, <1>3 DEF Good
<1>5. \A q \in Pages : heap.pg[q].live \subseteq heap'.pg[q].live
  BY <1>2, <1>3, GoodGrows
<1> QED
  BY <1>4, <1>5, GrewKeeps

LEMMA PagesReleased ==
  ASSUME NEW h, HeapOK(h), NEW e
  PROVE  ReleasePages(h, e).pg = h.pg
BY DEF ReleasePages, unregister_page_alloc, HeapOK, Heaps

LEMMA ReleaseKeeps ==
  ASSUME HeapOK(heap), Release \/ ReleaseWhole
  PROVE  Kept /\ Cleared
<1>1. CASE Release
  <2>1. PICK q \in Pages : \E b \in heap.pg[q].live : heap' = ReleaseIn(heap, q, b)
    BY <1>1 DEF Release, InUse
  <2>2. PICK b \in heap.pg[q].live : heap' = ReleaseIn(heap, q, b)
    BY <2>1
  <2>3. HeapOK(heap') /\ LiveAt(heap, heap', q, heap.pg[q].live \ {b})
    BY <2>2, ReleaseInOK
  <2>4. MemKept(heap, heap')
    BY <2>2, ReleaseInMem
  <2>5. \A s \in Pages : heap'.pg[s].live \subseteq heap.pg[s].live
    BY <2>3 DEF LiveAt
  <2> QED
    BY <2>3, <2>4, <2>5, ShrankKeeps
<1>2. CASE ReleaseWhole
  <2>1. PICK e \in heap.big : heap' = ReleasePages(heap, e)
    BY <1>2 DEF ReleaseWhole
  <2>2. HeapOK(heap') /\ heap'.pg = heap.pg
    BY <2>1, ReleasePagesOK, PagesReleased
  <2> QED
    BY <2>2, SamePagesMem, ShrankKeeps
<1> QED
  BY <1>1, <1>2

LEMMA GrownKeeps ==
  ASSUME HeapOK(heap), NEW q \in Pages, NEW b \in heap.pg[q].live,
         NEW size \in Nat, b.size < size,
         NEW t \in InPlace(heap.pg[q], b, size), heap' = WithPage(heap, q, t)
  PROVE  Kept /\ Cleared
<1> DEFINE p == heap.pg[q]
<1>1. PageOK(p)
  BY DEF HeapOK
<1>2. PICK d \in Block : t.live = (p.live \ {b}) \cup {d} /\ d.at = b.at
  BY <1>1, InPlaceOK
<1>3. \A s \in Pages : heap'.pg[s] = IF s = q THEN t ELSE heap.pg[s]
  BY DEF WithPage, HeapOK, Heaps
<1>4. \A a \in p.live : \A x \in Payload(a) : t.mem[x] = p.mem[x]
  BY <1>1, InPlaceMem
<1>5. Kept
  BY <1>3, <1>4 DEF Kept
<1>6. ASSUME NEW s \in Starts(heap') PROVE s \in Starts(heap)
  <2>1. PICK r \in Pages : \E c \in heap'.pg[r].live : s = <<r, c.at>>
    BY StartHas
  <2>2. PICK c \in heap'.pg[r].live : s = <<r, c.at>>
    BY <2>1
  <2>3. CASE c \in heap.pg[r].live
    BY <2>2, <2>3, StartIs
  <2>4. CASE c \notin heap.pg[r].live
    <3>1. r = q /\ c = d
      BY <1>2, <1>3, <2>4
    <3>2. s = <<q, b.at>>
      BY <1>2, <2>2, <3>1
    <3> QED
      BY <3>2, StartIs
  <2> QED
    BY <2>3, <2>4
<1> QED
  BY <1>5, <1>6, NoNewStarts

LEMMA MovedKeeps ==
  ASSUME HeapOK(heap), HeapOK(heap'), NEW q \in Pages, NEW b \in heap.pg[q].live,
         NEW r \in Pages, NEW d \in Block, MovedInto(heap, heap', q, b, r, d)
  PROVE  Kept /\ Cleared
<1> DEFINE L(s) == (heap.pg[s].live \cup (IF s = r THEN {d} ELSE {}))
                     \ (IF s = q THEN {b} ELSE {})
<1>1. /\ \A a \in heap.pg[r].live : a.at # d.at
      /\ \A s \in Pages : heap'.pg[s].live = L(s)
  BY DEF MovedInto
<1>2. \A s \in Pages : PageOK(heap.pg[s]) /\ PageOK(heap'.pg[s])
  BY DEF HeapOK
<1>3. ASSUME NEW s \in Pages, NEW a \in heap.pg[s].live, NEW c \in heap'.pg[s].live,
             Same(a, c), NEW x \in Payload(a)
      PROVE  heap'.pg[s].mem[x] = heap.pg[s].mem[x]
  <2>1. ~(s = r /\ c = d)
    BY <1>1, <1>3 DEF Same
  <2>2. c \in heap.pg[s].live
    BY <1>1, <2>1
  <2>3. a = c
    BY <1>2, <1>3, <2>2, SameStart DEF Same
  <2> QED
    BY <1>3, <2>1, <2>3 DEF MovedInto
<1>4. d \in heap'.pg[r].live
  BY <1>1
<1> DEFINE old == <<q, b.at>>
           new == <<r, d.at>>
<1>5. /\ old \in Starts(heap)
      /\ \A i : Holds(heap, old, i) = IF b.at + i \in Payload(b)
                                      THEN heap.pg[q].mem[b.at + i] ELSE "zero"
      /\ \A i : Holds(heap', new, i) = IF d.at + i \in Payload(d)
                                       THEN heap'.pg[r].mem[d.at + i] ELSE "zero"
  BY <1>4, StartIs
<1>6. old \notin Starts(heap')
  <2>1. SUFFICES ASSUME old \in Starts(heap') PROVE FALSE
    OBVIOUS
  <2>2. PICK u \in Pages : \E c \in heap'.pg[u].live : old = <<u, c.at>>
    BY <2>1, StartHas
  <2>3. PICK c \in heap'.pg[q].live : c.at = b.at
    BY <2>2
  <2>4. c \in heap.pg[q].live /\ c # b
    BY <1>1, <2>3
  <2> QED
    BY <1>2, <2>3, <2>4, SameStart
<1>7. ASSUME NEW t \in Starts(heap) \ Starts(heap') PROVE t = old
  <2>1. PICK u \in Pages : \E a \in heap.pg[u].live : t = <<u, a.at>>
    BY StartHas
  <2>2. PICK a \in heap.pg[u].live : t = <<u, a.at>>
    BY <2>1
  <2>3. a \notin heap'.pg[u].live
    BY <1>7, <2>2, StartIs
  <2>4. u = q /\ a = b
    BY <1>1, <2>3
  <2> QED
    BY <2>2, <2>4
<1>8. ASSUME NEW t \in Starts(heap') \ Starts(heap) PROVE t = new
  <2>1. PICK u \in Pages : \E c \in heap'.pg[u].live : t = <<u, c.at>>
    BY StartHas
  <2>2. PICK c \in heap'.pg[u].live : t = <<u, c.at>>
    BY <2>1
  <2>3. c \notin heap.pg[u].live
    BY <1>8, <2>2, StartIs
  <2>4. u = r /\ c = d
    BY <1>1, <2>3
  <2> QED
    BY <2>2, <2>4
<1>9. ASSUME NEW i \in 1 .. PageUnits
      PROVE  Holds(heap', new, i) = Holds(heap, old, i)
  <2> DEFINE x == d.at + i
             y == b.at + i
  <2>1. /\ x \in Payload(d) <=> 1 <= i /\ i < d.size
        /\ y \in Payload(b) <=> 1 <= i /\ i < b.size
    BY <1>2, <1>4, PayloadIs
  <2>2. b.at \in Int /\ d.at \in Int /\ b.size \in Int /\ d.size \in Int /\ i \in Int
    <3>1. b \in Block
      BY <1>2, TiledBounds
    <3> QED
      BY <3>1, BlockCells, PageAssumption
  <2>3. y \in Payload(b) => x \in Payload(d)
    <3>1. d.size >= b.size
      BY DEF MovedInto
    <3>2. 1 <= i /\ i < b.size => i < d.size
      BY <2>2, <3>1
    <3> QED
      BY <2>1, <3>2
  <2>4. x - d.at + b.at = y
    BY <2>2
  <2>5. x \in Payload(d) =>
          heap'.pg[r].mem[x] = IF y \in Payload(b) THEN heap.pg[q].mem[y] ELSE "zero"
    BY <2>4 DEF MovedInto
  <2>6. /\ Holds(heap, old, i) = IF y \in Payload(b) THEN heap.pg[q].mem[y] ELSE "zero"
        /\ Holds(heap', new, i) = IF x \in Payload(d) THEN heap'.pg[r].mem[x] ELSE "zero"
    BY <1>5
  <2> HIDE DEF x, y, old, new
  <2> QED
    BY <2>3, <2>5, <2>6
<1> HIDE DEF old, new
<1>10. Cleared
  <2> DEFINE moved == Starts(heap) \ Starts(heap')
  <2>1. moved # {} /\ (CHOOSE t \in moved : TRUE) = old
    BY <1>5, <1>6, <1>7
  <2> HIDE DEF moved
  <2>2. \A s \in Starts(heap') \ Starts(heap), i \in 1 .. PageUnits :
          Holds(heap', s, i) =
            IF moved = {} THEN "zero" ELSE Holds(heap, CHOOSE t \in moved : TRUE, i)
    BY <1>8, <1>9, <2>1
  <2> QED
    BY <2>2 DEF Cleared, moved
<1> QED
  BY <1>3, <1>10 DEF Kept

\* The contents of whole pages are not tracked: what moves there is only gone.
LEMMA MovedAwayKeeps ==
  ASSUME HeapOK(heap), NEW q \in Pages, NEW b \in heap.pg[q].live, NEW n \in Nat,
         NEW z \in zalloc(heap, n), GotPages(heap, z, n + BlockHdr),
         heap' = ReleaseIn(Copied(z.heap, q, b, z.ptr), q, b)
  PROVE  Kept /\ Cleared
<1> DEFINE f == z.heap
<1>1. HeapOK(f) /\ MemKept(heap, f) /\ SameLive(heap, f)
  BY ZallocOK, ZallocMem DEF Good, GotPages
<1>2. Copied(f, q, b, z.ptr) = f
  BY DEF GotPages, Copied
<1>3. heap' = ReleaseIn(f, q, b) /\ b \in f.pg[q].live
  BY <1>1, <1>2 DEF SameLive
<1> HIDE DEF f
<1>4. HeapOK(heap') /\ MemKept(f, heap') /\ LiveAt(f, heap', q, f.pg[q].live \ {b})
  BY <1>1, <1>3, ReleaseInOK, ReleaseInMem
<1>5. MemKept(heap, heap')
  BY <1>1, <1>4, KeptThen
<1>6. \A s \in Pages : heap'.pg[s].live \subseteq heap.pg[s].live
  BY <1>1, <1>4 DEF LiveAt, SameLive
<1> QED
  BY <1>4, <1>5, <1>6, ShrankKeeps

LEMMA ReallocateKeeps ==
  ASSUME HeapOK(heap), HeapOK(heap'), Reallocate
  PROVE  Kept /\ Cleared
<1>1. PICK q \in Pages, n \in Requests : \E b \in heap.pg[q].live :
        \E o \in ReallocIn(heap, q, b, n) : heap' = o.heap
  BY DEF Reallocate, InUse
<1>2. PICK b \in heap.pg[q].live : \E o \in ReallocIn(heap, q, b, n) : heap' = o.heap
  BY <1>1
<1>3. PICK o \in ReallocIn(heap, q, b, n) : heap' = o.heap
  BY <1>2
<1> DEFINE size == n + BlockHdr
           p    == heap.pg[q]
<1>4. n \in Nat /\ size \in Nat /\ b.size \in Int
  <2>1. PageOK(p) /\ n \in Nat
    BY RequestAssumption DEF HeapOK
  <2> QED
    BY <2>1, TiledBounds, BlockCells DEF BlockHdr
<1>5. \/ o = Outcome(heap, q, b.at)
      \/ /\ ~(size <= b.size)
         /\ \E g \in InPlace(p, b, size) : o = Outcome(WithPage(heap, q, g), q, b.at)
      \/ ~(size <= b.size) /\ o \in Moved(heap, q, b, n)
  BY DEF ReallocIn
<1>6. CASE o = Outcome(heap, q, b.at)
  <2>1. heap' = heap
    BY <1>3, <1>6, OutcomeParts
  <2> QED
    BY <2>1, SamePagesMem, GrewKeeps
<1>7. ASSUME ~(size <= b.size), NEW g \in InPlace(p, b, size),
             o = Outcome(WithPage(heap, q, g), q, b.at)
      PROVE  Kept /\ Cleared
  <2>1. b.size < size
    BY <1>4, <1>7
  <2>2. heap' = WithPage(heap, q, g)
    BY <1>3, <1>7, OutcomeParts
  <2> HIDE DEF size
  <2> QED
    BY <1>4, <1>7, <2>1, <2>2, GrownKeeps
<1>8. CASE ~(size <= b.size) /\ o \in Moved(heap, q, b, n)
  <2>1. PICK z \in zalloc(heap, n) :
          o = IF z.ptr.page = Nil THEN z
              ELSE [z EXCEPT !.heap = ReleaseIn(Copied(z.heap, q, b, z.ptr), q, b)]
    BY <1>8 DEF Moved
  <2>2. Good(heap, z, size) /\ MemKept(heap, z.heap)
    BY <1>4, ZallocOK, ZallocMem
  <2>3. CASE z.ptr.page = Nil
    <3>1. heap' = z.heap
      BY <1>3, <2>1, <2>3
    <3>2. \A s \in Pages : heap.pg[s].live \subseteq heap'.pg[s].live
      BY <2>2, <3>1, GoodGrows
    <3> QED
      BY <2>2, <3>1, <3>2, GrewKeeps
  <2>4. CASE z.ptr.page # Nil
    <3> DEFINE w == ReleaseIn(Copied(z.heap, q, b, z.ptr), q, b)
    <3>1. o = [z EXCEPT !.heap = w]
      BY <2>1, <2>4
    <3> HIDE DEF w
    <3>2. o.heap = w
      BY <3>1
    <3>3. heap' = ReleaseIn(Copied(z.heap, q, b, z.ptr), q, b)
      BY <1>3, <3>2 DEF w
    <3>4. CASE GotBlock(heap, z, size)
      <4>1. b.size < n + BlockHdr
        BY <1>4, <1>8
      <4>2. GotBlock(heap, z, n + BlockHdr)
        BY <3>4
      <4>3. \E d \in Block : MovedInto(heap, heap', q, b, z.ptr.page, d)
        BY <1>4, <3>3, <4>1, <4>2, MovedMem
      <4>4. PICK d \in Block : MovedInto(heap, heap', q, b, z.ptr.page, d)
        BY <4>3
      <4> QED
        BY <3>4, <4>4, MovedKeeps DEF GotBlock
    <3>5. CASE GotPages(heap, z, size)
      BY <1>4, <3>3, <3>5, MovedAwayKeeps
    <3> QED
      BY <2>2, <2>4, <3>4, <3>5 DEF Good
  <2> QED
    BY <2>3, <2>4
<1> QED
  BY <1>5, <1>6, <1>7, <1>8

LEMMA ReallocateWholeKeeps ==
  ASSUME HeapOK(heap), HeapOK(heap'), ReallocateWhole
  PROVE  Kept /\ Cleared
<1>1. PICK e \in heap.big, n \in Requests :
        \E o \in ReallocPages(heap, e, n) : heap' = o.heap
  BY DEF ReallocateWhole
<1>2. PICK o \in ReallocPages(heap, e, n) : heap' = o.heap
  BY <1>1
<1>3. n \in Nat
  BY RequestAssumption
<1>4. \/ heap' = heap
      \/ \E z \in zalloc(heap, n) : heap'.pg = z.heap.pg
  <2>1. \/ o = Failure(heap) \/ o = Outcome(heap, e.page, 0)
        \/ \E z \in zalloc(heap, n) :
             o = IF z.ptr.page = Nil THEN z
                 ELSE [z EXCEPT !.heap = ReleasePages(z.heap, e)]
    BY DEF ReallocPages
  <2>2. CASE o = Failure(heap) \/ o = Outcome(heap, e.page, 0)
    BY <1>2, <2>2, OutcomeParts DEF Failure
  <2>3. ASSUME NEW z \in zalloc(heap, n),
               o = IF z.ptr.page = Nil THEN z
                   ELSE [z EXCEPT !.heap = ReleasePages(z.heap, e)]
        PROVE  heap'.pg = z.heap.pg
    <3> DEFINE r == ReleasePages(z.heap, e)
    <3>1. r.pg = z.heap.pg
      BY <1>3, ZallocOK, PagesReleased DEF Good
    <3>2. o = z \/ o = [z EXCEPT !.heap = r]
      BY <2>3
    <3> HIDE DEF r
    <3>3. CASE o = z
      BY <1>2, <3>3
    <3>4. CASE o = [z EXCEPT !.heap = r]
      <4>1. o.heap = r
        BY <3>4
      <4> QED
        BY <1>2, <3>1, <4>1
    <3> QED
      BY <3>2, <3>3, <3>4
  <2> QED
    BY <2>1, <2>2, <2>3
<1>5. CASE heap' = heap
  BY <1>5, SamePagesMem, GrewKeeps
<1>6. ASSUME NEW z \in zalloc(heap, n), heap'.pg = z.heap.pg
      PROVE  Kept /\ Cleared
  <2>1. Good(heap, z, n + BlockHdr) /\ MemKept(heap, z.heap)
    BY <1>3, ZallocOK, ZallocMem
  <2>2. MemKept(heap, heap')
    BY <1>6, <2>1 DEF MemKept
  <2>3. \A q \in Pages : heap.pg[q].live \subseteq heap'.pg[q].live
    BY <1>6, <2>1, GoodGrows
  <2> QED
    BY <2>2, <2>3, GrewKeeps
<1> QED
  BY <1>4, <1>5, <1>6

LEMMA WriteClears ==
  ASSUME HeapOK(heap), Write
  PROVE  Cleared
<1>1. PICK q \in Pages : \E b \in heap.pg[q].live :
        heap' = WithPage(heap, q,
                  [heap.pg[q] EXCEPT !.mem = Fill(@, Payload(b), "data")])
  BY DEF Write, InUse
<1>2. PICK b \in heap.pg[q].live :
        heap' = WithPage(heap, q,
                  [heap.pg[q] EXCEPT !.mem = Fill(@, Payload(b), "data")])
  BY <1>1
<1> DEFINE m == Fill(heap.pg[q].mem, Payload(b), "data")
           t == [heap.pg[q] EXCEPT !.mem = m]
<1>3. heap' = WithPage(heap, q, t)
  BY <1>2
<1> HIDE DEF m
<1>4. t.live = heap.pg[q].live
  BY DEF HeapOK, PageOK, Page
<1> HIDE DEF t
<1>5. \A s \in Pages : heap'.pg[s].live = heap.pg[s].live
  BY <1>3, <1>4 DEF WithPage, HeapOK, Heaps
<1>6. Starts(heap') = Starts(heap)
  BY <1>5 DEF Starts
<1> QED
  BY <1>6, NoNewStarts
-----------------------------------------------------------------------------
\* Steps of what clients see.  That nothing overlaps afterwards says that what
\* was handed out fitted.

LEMMA StepAdds ==
  ASSUME HeapOK(heap'), NEW f \in Extents, extents' = extents \cup {f}
  PROVE  [HeapSpec!Next]_extents
<1>1. CASE f \in extents
  BY <1>1
<1>2. CASE f \notin extents
  <2>1. \A y \in extents : HeapSpec!Apart(f, y)
    <3>1. extents' = ExtentsIn(heap')
      BY ExtentsAre DEF extents, ExtentsIn, PageExtents, BlockExt, PagesExt
    <3>2. \A y \in extents : y \in ExtentsIn(heap') /\ f \in ExtentsIn(heap') /\ f # y
      BY <1>2, <3>1
    <3> QED
      BY <3>2, ExtentsApart
  <2>2. HeapSpec!Alloc(f)
    BY <2>1 DEF HeapSpec!Alloc, HeapSpec!Fits
  <2> QED
    BY <2>2 DEF HeapSpec!Next
<1> QED
  BY <1>1, <1>2

LEMMA StepDrops ==
  ASSUME NEW e \in extents, extents' = extents \ {e}
  PROVE  [HeapSpec!Next]_extents
BY DEF HeapSpec!Next, HeapSpec!Free

LEMMA StepSwaps ==
  ASSUME HeapOK(heap'), NEW e \in extents, NEW f \in Extents, e.size <= f.size,
         extents' = (extents \ {e}) \cup {f}
  PROVE  [HeapSpec!Next]_extents
<1>1. CASE f \in extents \ {e}
  <2>1. extents' = extents \ {e}
    BY <1>1
  <2> QED
    BY <2>1, StepDrops
<1>2. CASE f \notin extents \ {e}
  <2>1. \A y \in extents \ {e} : HeapSpec!Apart(f, y)
    <3>1. extents' = ExtentsIn(heap')
      BY DEF extents, ExtentsIn, PageExtents, BlockExt, PagesExt
    <3>2. \A y \in extents \ {e} :
            y \in ExtentsIn(heap') /\ f \in ExtentsIn(heap') /\ f # y
      BY <1>2, <3>1
    <3> QED
      BY <3>2, ExtentsApart
  <2>2. HeapSpec!Resize(e, f)
    BY <2>1 DEF HeapSpec!Resize, HeapSpec!Fits
  <2> QED
    BY <2>2 DEF HeapSpec!Next
<1> QED
  BY <1>1, <1>2

-----------------------------------------------------------------------------
\* The specification.

LEMMA InitOK == Init => HeapOK(heap) /\ HeapSpec!Init
<1> SUFFICES ASSUME Init PROVE HeapOK(heap) /\ HeapSpec!Init
  OBVIOUS
<1> DEFINE pg == [q \in Pages |-> FreshPage]
<1>1. FreshPage \in Page /\ FreshPage.live = {}
  BY FreshOK DEF PageOK, FreshPage
<1>2. pg \in [Pages -> Page] /\ \A q \in Pages : pg[q] = FreshPage
  BY <1>1
<1> HIDE DEF pg
<1>3. heap = [chain |-> <<>>, pg |-> pg, big |-> {}, ix |-> <<>>, leaked |-> {}]
  BY DEF Init, pg
<1>4. <<>> \in Seq(Pages) /\ Range(<<>>) = {}
  BY DEF Range
<1>5. heap \in Heaps /\ heap.pg = pg
  BY <1>2, <1>3, <1>4 DEF Heaps
<1>6. OnePurpose(heap.chain, heap.big, heap.ix, heap.leaked)
      /\ Indexed(heap.big, heap.ix)
  BY <1>3, <1>4 DEF OnePurpose, Indexed, IsInjective, PagesOf
<1>7. HeapOK(heap)
  BY <1>2, <1>5, <1>6, FreshOK DEF HeapOK, OffChainFresh
<1>8. ExtentsIn(heap) = {}
  <2>1. \A x : x \notin ExtentsIn(heap)
    BY <1>1, <1>2, <1>3, ExtentIs
  <2> QED
    BY <2>1
<1> QED
  BY <1>7, <1>8, ExtentsAre DEF HeapSpec!Init

\* A client of zalloc gets an extent more, or nothing.
LEMMA ZallocStep ==
  ASSUME HeapOK(heap), Zalloc
  PROVE  HeapOK(heap') /\ [HeapSpec!Next]_extents
<1>1. PICK n \in Requests : \E o \in zalloc(heap, n) : heap' = o.heap
  BY DEF Zalloc
<1>2. PICK o \in zalloc(heap, n) : heap' = o.heap
  BY <1>1
<1>3. Good(heap, o, n + BlockHdr)
  BY RequestAssumption, ZallocOK
<1>4. HeapOK(heap') /\ extents = ExtentsIn(heap) /\ extents' = ExtentsIn(heap')
  BY <1>2, <1>3, ExtentsAre
     DEF Good, extents, ExtentsIn, PageExtents, BlockExt, PagesExt
<1>5. CASE o.ptr.page = Nil
  <2>1. SameUse(heap, heap')
    BY <1>2, <1>3, <1>5, PagesAssumption DEF Good, GotBlock, GotPages
  <2> QED
    BY <1>4, <2>1, SameExtents
<1>6. CASE o.ptr.page # Nil
  <2>1. PICK f \in Extents : ExtentsIn(o.heap) = ExtentsIn(heap) \cup {f}
    BY <1>3, <1>6, AddedExtent
  <2> QED
    BY <1>2, <1>4, <2>1, StepAdds
<1> QED
  BY <1>5, <1>6

LEMMA ReleaseStep ==
  ASSUME HeapOK(heap), Release \/ ReleaseWhole
  PROVE  HeapOK(heap') /\ [HeapSpec!Next]_extents
<1>0. extents = ExtentsIn(heap) /\ extents' = ExtentsIn(heap')
  BY DEF extents, ExtentsIn, PageExtents, BlockExt, PagesExt
<1>1. CASE Release
  <2>1. PICK q \in Pages : \E b \in heap.pg[q].live : heap' = ReleaseIn(heap, q, b)
    BY <1>1 DEF Release, InUse
  <2>2. PICK b \in heap.pg[q].live : heap' = ReleaseIn(heap, q, b)
    BY <2>1
  <2>3. HeapOK(heap') /\ LiveAt(heap, heap', q, heap.pg[q].live \ {b})
    BY <2>2, ReleaseInOK
  <2>4. ExtentsIn(heap') = ExtentsIn(heap) \ {BlockExt(q, b)}
        /\ BlockExt(q, b) \in ExtentsIn(heap)
    BY <2>3, DroppedExtent, ExtentIs
  <2> QED
    BY <1>0, <2>3, <2>4, StepDrops
<1>2. CASE ReleaseWhole
  <2>1. PICK e \in heap.big : heap' = ReleasePages(heap, e)
    BY <1>2 DEF ReleaseWhole
  <2>2. HeapOK(heap') /\ SameLive(heap, heap') /\ heap'.big = heap.big \ {e}
    BY <2>1, ReleasePagesOK
  <2>3. ExtentsIn(heap') = ExtentsIn(heap) \ {PagesExt(e)}
        /\ PagesExt(e) \in ExtentsIn(heap)
    BY <2>2, DroppedPages, ExtentIs
  <2> QED
    BY <1>0, <2>2, <2>3, StepDrops
<1> QED
  BY <1>1, <1>2

LEMMA ReallocateStep ==
  ASSUME HeapOK(heap), Reallocate
  PROVE  HeapOK(heap') /\ [HeapSpec!Next]_extents
<1>0. extents = ExtentsIn(heap) /\ extents' = ExtentsIn(heap')
  BY DEF extents, ExtentsIn, PageExtents, BlockExt, PagesExt
<1>1. PICK q \in Pages, n \in Requests : \E b \in heap.pg[q].live :
        \E o \in ReallocIn(heap, q, b, n) : heap' = o.heap
  BY DEF Reallocate, InUse
<1>2. PICK b \in heap.pg[q].live : \E o \in ReallocIn(heap, q, b, n) : heap' = o.heap
  BY <1>1
<1>3. PICK o \in ReallocIn(heap, q, b, n) : heap' = o.heap
  BY <1>2
<1>4. n \in Nat
  BY RequestAssumption
<1> DEFINE e == BlockExt(q, b)
<1>5. e \in extents /\ e.size = b.size
  <2>1. e \in ExtentsIn(heap)
    BY ExtentIs
  <2> QED
    BY <1>0, <2>1 DEF BlockExt
<1>6. HeapOK(heap')
  BY <1>3, <1>4, ReallocInOK
<1>7. CASE SameUse(heap, heap')
  BY <1>0, <1>6, <1>7, SameExtents
<1>8. ASSUME NEW d \in Block, b.size <= d.size,
             LiveAt(heap, heap', q, (heap.pg[q].live \ {b}) \cup {d})
      PROVE  [HeapSpec!Next]_extents
  <2> DEFINE f == BlockExt(q, d)
  <2>1. f \in Extents /\ f.size = d.size
    BY DEF Extents, BlockExt, Block
  <2>2. ExtentsIn(heap') = (ExtentsIn(heap) \ {e}) \cup {f}
    BY <1>8, GrownExtent
  <2> HIDE DEF e, f
  <2> QED
    BY <1>0, <1>5, <1>6, <1>8, <2>1, <2>2, StepSwaps
<1>9. ASSUME b.size < n + BlockHdr, NEW z,
             MovedVia(heap, o, z, q, b, n + BlockHdr)
      PROVE  [HeapSpec!Next]_extents
  <2>1. PICK f \in Extents :
          /\ f.size >= n + BlockHdr
          /\ ExtentsIn(o.heap) = (ExtentsIn(heap) \cup {f}) \ {e}
    BY <1>9, MovedExtents
  <2>2. b.size \in Int /\ f.size \in Int /\ n + BlockHdr \in Int
    <3>1. b.size \in Int
      BY LiveBlocks
    <3>2. \A k \in Requests : WholePages(k + BlockHdr) \in Int
      BY RequestAssumption, WholePagesType DEF BlockHdr
    <3>3. f.size \in Int
      BY <3>2, PageAssumption DEF Extents
    <3> QED
      BY <1>4, <3>1, <3>3 DEF BlockHdr
  <2>3. e.size <= f.size /\ e # f
    BY <1>5, <1>9, <2>1, <2>2
  <2> HIDE DEF e
  <2>4. extents' = (extents \ {e}) \cup {f}
    BY <1>0, <1>3, <2>1, <2>3
  <2> QED
    BY <1>5, <1>6, <2>3, <2>4, StepSwaps
<1>10. \/ SameUse(heap, heap')
       \/ \E d \in Block : /\ b.size <= d.size
                           /\ LiveAt(heap, heap', q, (heap.pg[q].live \ {b}) \cup {d})
       \/ /\ b.size < n + BlockHdr
          /\ \E z : MovedVia(heap, o, z, q, b, n + BlockHdr)
  BY <1>3, <1>4, ReallocInOK
<1> QED
  BY <1>6, <1>7, <1>8, <1>9, <1>10

LEMMA ReallocateWholeStep ==
  ASSUME HeapOK(heap), ReallocateWhole
  PROVE  HeapOK(heap') /\ [HeapSpec!Next]_extents
<1>0. extents = ExtentsIn(heap) /\ extents' = ExtentsIn(heap')
  BY DEF extents, ExtentsIn, PageExtents, BlockExt, PagesExt
<1>1. PICK x \in heap.big, n \in Requests :
        \E o \in ReallocPages(heap, x, n) : heap' = o.heap
  BY DEF ReallocateWhole
<1>2. PICK o \in ReallocPages(heap, x, n) : heap' = o.heap
  BY <1>1
<1>3. n \in Nat /\ x \in Entries
  BY RequestAssumption, HeapParts
<1> DEFINE e == PagesExt(x)
<1>4. e \in extents /\ e.size = x.units /\ x.units \in Int
  <2>1. e \in ExtentsIn(heap)
    BY ExtentIs
  <2> QED
    BY <1>0, <1>3, <2>1 DEF PagesExt, Entries
<1>5. /\ HeapOK(heap')
      /\ \/ SameUse(heap, heap')
         \/ /\ x.units < n + BlockHdr
            /\ \E z : /\ Good(heap, z, n + BlockHdr) /\ z.ptr.page # Nil
                      /\ SameLive(z.heap, heap')
                      /\ heap'.big = z.heap.big \ {x}
  BY <1>2, <1>3, ReallocPagesOK
<1>6. CASE SameUse(heap, heap')
  BY <1>0, <1>5, <1>6, SameExtents
<1>7. ASSUME x.units < n + BlockHdr,
             NEW z, Good(heap, z, n + BlockHdr), z.ptr.page # Nil,
             SameLive(z.heap, heap'), heap'.big = z.heap.big \ {x}
      PROVE  [HeapSpec!Next]_extents
  <2>1. PICK f \in Extents : /\ f.size >= n + BlockHdr
                             /\ ExtentsIn(z.heap) = ExtentsIn(heap) \cup {f}
    BY <1>7, AddedExtent
  <2>2. f.size \in Int /\ n + BlockHdr \in Int
    <3>1. \A k \in Requests : WholePages(k + BlockHdr) \in Int
      BY RequestAssumption, WholePagesType DEF BlockHdr
    <3>2. f.size \in Int
      BY <3>1, PageAssumption DEF Extents
    <3> QED
      BY <1>3, <3>2 DEF BlockHdr
  <2>3. e.size <= f.size /\ e # f
    BY <1>4, <1>7, <2>1, <2>2
  <2>4. HeapOK(z.heap) /\ x \in z.heap.big
    BY <1>7 DEF Good, GotBlock, GotPages, LiveAt
  <2>5. ExtentsIn(heap') = ExtentsIn(z.heap) \ {e}
    BY <1>7, <2>4, DroppedPages
  <2> HIDE DEF e
  <2>6. extents' = (extents \ {e}) \cup {f}
    BY <1>0, <2>1, <2>3, <2>5
  <2> QED
    BY <1>4, <1>5, <2>3, <2>6, StepSwaps
<1> QED
  BY <1>5, <1>6, <1>7

LEMMA WriteStep ==
  ASSUME HeapOK(heap), Write
  PROVE  HeapOK(heap') /\ [HeapSpec!Next]_extents
<1>0. extents = ExtentsIn(heap) /\ extents' = ExtentsIn(heap')
  BY DEF extents, ExtentsIn, PageExtents, BlockExt, PagesExt
<1>1. PICK q \in Pages : \E b \in heap.pg[q].live :
        heap' = WithPage(heap, q,
                  [heap.pg[q] EXCEPT !.mem = Fill(@, Payload(b), "data")])
  BY DEF Write, InUse
<1>2. PICK b \in heap.pg[q].live :
        heap' = WithPage(heap, q,
                  [heap.pg[q] EXCEPT !.mem = Fill(@, Payload(b), "data")])
  BY <1>1
<1> DEFINE p == heap.pg[q]
           m == Fill(p.mem, Payload(b), "data")
           t == [p EXCEPT !.mem = m]
<1>3. PageOK(p) /\ q \in Range(heap.chain)
  BY <1>2, LiveOnChain DEF HeapOK
<1>4. m \in [Hdr .. PageUnits - 1 -> Content]
  BY <1>3, FillType DEF PageOK, Page, Content
<1> HIDE DEF m
<1>5. PageOK(t) /\ t.live = p.live
  BY <1>3, <1>4, MemOK DEF PageOK, Page
<1>6. heap' = WithPage(heap, q, t)
  BY <1>2 DEF m
<1> HIDE DEF t
<1>7. HeapOK(heap') /\ LiveAt(heap, heap', q, p.live)
  BY <1>3, <1>5, <1>6, WithPageOK
<1>8. SameUse(heap, heap')
  BY <1>7 DEF LiveAt, SameUse, SameLive
<1> QED
  BY <1>0, <1>7, <1>8, SameExtents

LEMMA NextOK ==
  HeapOK(heap) /\ [Next]_heap => HeapOK(heap)' /\ [HeapSpec!Next]_extents
<1> SUFFICES ASSUME HeapOK(heap), [Next]_heap
             PROVE  HeapOK(heap') /\ [HeapSpec!Next]_extents
  OBVIOUS
<1>1. CASE UNCHANGED heap
  BY <1>1 DEF extents, PageExtents
<1> QED
  BY <1>1, ZallocStep, ReleaseStep, ReallocateStep, ReallocateWholeStep, WriteStep
     DEF Next

\* The inductive invariant.
THEOREM HeapIsOK == Spec => []HeapOK(heap)
<1>1. Init => HeapOK(heap)
  BY InitOK
<1>2. HeapOK(heap) /\ [Next]_heap => HeapOK(heap)'
  BY NextOK
<1> QED
  BY <1>1, <1>2, PTL DEF Spec

LEMMA HeapOKImplies ==
  HeapOK(heap) => TypeOK /\ Tiled /\ UsedIsExact /\ Merged /\ PagesAccounted
<1> SUFFICES ASSUME HeapOK(heap)
             PROVE  TypeOK /\ Tiled /\ UsedIsExact /\ Merged /\ PagesAccounted
  OBVIOUS
<1>1. TypeOK /\ heap.chain \in Seq(Pages)
  BY DEF HeapOK, TypeOK, Heaps
<1>2. \A q \in chained : q \in Pages
  BY <1>1 DEF chained, Range
<1>3. Tiled /\ UsedIsExact /\ Merged
  BY <1>2 DEF HeapOK, PageOK, Tiled, UsedIsExact, Merged
<1>4. PagesAccounted
  <2> DEFINE uses == <<chained, {e.page : e \in heap.big}, Range(heap.ix), heap.leaked>>
  <2>1. OnePurpose(heap.chain, heap.big, heap.ix, heap.leaked)
        /\ Indexed(heap.big, heap.ix) /\ OffChainFresh(heap)
    BY DEF HeapOK
  <2>2. \A i, j \in DOMAIN uses : i # j => uses[i] \cap uses[j] = {}
    <3>1. DOMAIN uses = {1, 2, 3, 4}
      OBVIOUS
    <3>2. /\ uses[1] = chained /\ uses[2] = PagesOf(heap.big)
          /\ uses[3] = Range(heap.ix) /\ uses[4] = heap.leaked
      BY DEF PagesOf
    <3> HIDE DEF uses
    <3> QED
      BY <2>1, <3>1, <3>2 DEF OnePurpose, chained
  <2>3. \A q \in Pages \ chained : heap.pg[q] = FreshPage
    BY <2>1 DEF OffChainFresh, chained
  <2>4. \A q \in Range(heap.ix) :
          Cardinality({e \in heap.big : e.ix = q}) <= IndexLimit
    BY <2>1 DEF Indexed, EntriesAt
  <2> QED
    BY <2>1, <2>2, <2>3, <2>4 DEF PagesAccounted, OnePurpose, Indexed
<1> QED
  BY <1>1, <1>3, <1>4

\* The type invariant: no offset ever leaves its page, for every page size.
THEOREM TypeCorrect == Spec => []TypeOK
<1>1. HeapOK(heap) => TypeOK
  BY HeapOKImplies
<1> QED
  BY <1>1, HeapIsOK, PTL

\* Blocks never overlap and none is lost between them: splitting, joining,
\* trimming and growing in place keep the page tiled.
THEOREM BlocksTile == Spec => []Tiled
<1>1. HeapOK(heap) => Tiled
  BY HeapOKImplies
<1> QED
  BY <1>1, HeapIsOK, PTL

\* release may trust the header's counter: it is the number of units in use.
THEOREM CounterIsExact == Spec => []UsedIsExact
<1>1. HeapOK(heap) => UsedIsExact
  BY HeapOKImplies
<1> QED
  BY <1>1, HeapIsOK, PTL

\* Coalescing is complete: no two free blocks touch, none touches the bump
\* area.
THEOREM FreeSpaceIsMerged == Spec => []Merged
<1>1. HeapOK(heap) => Merged
  BY HeapOKImplies
<1> QED
  BY <1>1, HeapIsOK, PTL

\* A page is put to one use at a time, and only pages of large blocks that the
\* index had no room for are ever lost, for every number of pages and every
\* size of an index page.
THEOREM PagesHaveOneUse == Spec => []PagesAccounted
<1>1. HeapOK(heap) => PagesAccounted
  BY HeapOKImplies
<1> QED
  BY <1>1, HeapIsOK, PTL

\* zalloc, release and reallocate implement the heap clients are promised:
\* what they hold never overlaps, on one page or on several.
THEOREM RefinesHeap == Spec => ImplementsHeap
<1>1. Init => HeapSpec!Init
  BY InitOK
<1>2. HeapOK(heap) /\ [Next]_heap => [HeapSpec!Next]_extents
  BY NextOK
<1> QED
  BY <1>1, <1>2, HeapIsOK, PTL DEF Spec, ImplementsHeap, HeapSpec!Spec

\* A block's contents are its client's: no request of another client changes
\* them, a block that grows or moves keeps them, and a new one is clear.
THEOREM ContentsStay == Spec => ContentsKept
<1>1. HeapOK(heap) /\ [Next]_heap => [(Write \/ Kept) /\ Cleared]_heap
  <2> SUFFICES ASSUME HeapOK(heap), Next PROVE (Write \/ Kept) /\ Cleared
    OBVIOUS
  <2>1. HeapOK(heap')
    BY NextOK
  <2> QED
    BY <2>1, ZallocKeeps, ReleaseKeeps, ReallocateKeeps, ReallocateWholeKeeps,
       WriteClears DEF Next
<1> QED
  BY <1>1, HeapIsOK, PTL DEF Spec, ContentsKept
=============================================================================

------------------------------ MODULE Allocator ------------------------------
(***************************************************************************)
(* The heap of alloc/allocate.c and alloc/page_index.c: a chain of pages,  *)
(* each with a bump pointer and an address-ordered free list, and beside   *)
(* it an index of the blocks that got whole pages of their own.            *)
(*                                                                         *)
(* Sizes and offsets are in units of ALIGNMENT = 16 bytes, to which every  *)
(* size is rounded before it is used.  A page is the whole result of one   *)
(* call of page_alloc, however many hardware pages that is: page_alloc is  *)
(* code of the kernel, it returns memory nobody else holds, zeroed, or 0.  *)
(***************************************************************************)
EXTENDS Integers, Sequences, FiniteSets, SequencesExt

CONSTANTS Pages,       \* what page_alloc can hand out
          Nil,         \* the null pointer
          PageUnits,   \* PAGE_SIZE in units
          IndexLimit,  \* PAGE_INDEX_LIMIT, entries of one index page
          Requests     \* the sizes clients ask for, in units

Hdr      == 2          \* sizeof(allocator_header)
BlockHdr == 1          \* INDIVIDUAL_HDR
MinFree  == 1          \* sizeof(free_block)

ASSUME PagesAssumption   == Nil \notin Pages
ASSUME PageAssumption    == PageUnits \in Nat /\ PageUnits > Hdr + BlockHdr
ASSUME IndexAssumption   == IndexLimit \in Nat \ {0}
ASSUME RequestAssumption == Requests \subseteq Nat

VARIABLE heap
(***************************************************************************)
(* heap.chain   the pages linked from zalloc_page, <<>> before the first   *)
(* heap.pg      the contents of each page of the chain                     *)
(* heap.big     the blocks of whole pages; ix is the index page that holds *)
(*              the block's entry, Nil if it could not be registered       *)
(* heap.ix      the pages of the index linked from p_index                 *)
(* heap.leaked  pages that no pointer of the program reaches any more      *)
(***************************************************************************)

Ends(b)    == b.at + b.size
Cells(b)   == b.at .. Ends(b) - 1
Payload(b) == b.at + BlockHdr .. Ends(b) - 1
CellsOf(S) == UNION {Cells(b) : b \in S}
Block      == [at : Hdr .. PageUnits - 1, size : 1 .. PageUnits]
Content    == {"zero", "data", "junk"}

(***************************************************************************)
(* One page: allocator_header with its free list, which the insertion of   *)
(* release keeps sorted by address, so that the set of its blocks says it  *)
(* all.  live holds the header words of the blocks that belong to clients, *)
(* mem what the last writer of each unit left there.                       *)
(***************************************************************************)
Page == [used : Nat, free : SUBSET Block, free_mem : 0 .. PageUnits,
         live : SUBSET Block, mem : [Hdr .. PageUnits - 1 -> Content]]

FreshPage == [used |-> 0, free |-> {}, free_mem |-> 0, live |-> {},
              mem |-> [c \in Hdr .. PageUnits - 1 |-> "zero"]]

Fill(mem, cs, x) == [c \in DOMAIN mem |-> IF c \in cs THEN x ELSE mem[c]]

\* free_mem is set when allocate first looks at the page.
Touched(p) == [p EXCEPT !.free_mem = IF @ = 0 THEN Hdr ELSE @]

\* A block handed out: header word written, payload cleared.
Hand(p, b) ==
  [p EXCEPT !.used = @ + b.size,
            !.live = @ \cup {b},
            !.mem  = Fill(Fill(@, {b.at}, "junk"), Payload(b), "zero")]

(***************************************************************************)
(* allocate, one page: the first free block that is large enough, split if *)
(* a free_block fits in the rest, else the bump area.                      *)
(***************************************************************************)
FirstFits(p, size) ==
  {b \in p.free : /\ b.size >= size
                  /\ \A c \in p.free : c.size >= size => b.at <= c.at}

RestKeepingSize(b, size) ==
  IF b.size >= size + MinFree
  THEN {[at |-> b.at + size, size |-> b.size]} ELSE {}

Rest(b, size) ==
  IF b.size >= size + MinFree
  THEN {[at |-> b.at + size, size |-> b.size - size]} ELSE {}

Carve(p, b, size) ==
  LET rest == Rest(b, size)
      got  == [at |-> b.at, size |-> IF rest = {} THEN b.size ELSE size]
  IN  Hand([p EXCEPT !.free = (@ \ {b}) \cup rest,
                     !.mem  = Fill(@, {r.at : r \in rest}, "junk")], got)

HasRoomByCount(p, size) == p.used + size <= PageUnits - Hdr

HasRoom(p, size) ==
  p.used + size <= PageUnits - Hdr /\ p.free_mem + size <= PageUnits

Bump(p, size) ==
  Hand([p EXCEPT !.free_mem = @ + size], [at |-> p.free_mem, size |-> size])

CanServe(p, size) ==
  (\E b \in p.free : b.size >= size) \/ HasRoom(Touched(p), size)

\* The pages that can result, each with the offset of the block handed out.
Serve(p, size) ==
  IF \E b \in p.free : b.size >= size
  THEN {[page |-> Carve(p, b, size), at |-> b.at] : b \in FirstFits(p, size)}
  ELSE {[page |-> Bump(Touched(p), size), at |-> Touched(p).free_mem]}

-----------------------------------------------------------------------------
WithPage(h, q, p) ==
  [h EXCEPT !.pg = [r \in Pages |-> IF r = q THEN p ELSE h.pg[r]]]

Held(h) == Range(h.chain) \cup {e.page : e \in h.big} \cup Range(h.ix)
             \cup h.leaked

\* page_alloc: any page that is free, or none.
page_alloc(h) == (Pages \ Held(h)) \cup {Nil}

Outcome(h, page, at) == [heap |-> h, ptr |-> [page |-> page, at |-> at]]
Failure(h)           == Outcome(h, Nil, 0)

IndexFullOffByOne(h, q) == Cardinality({e \in h.big : e.ix = q}) > IndexLimit

\* The index page that takes the next entry: the last one, whatever holes the
\* earlier ones have.
IndexFull(h, q) == Cardinality({e \in h.big : e.ix = q}) >= IndexLimit

register_page_alloc(h, page, units) ==
  LET entry(q) == [page |-> page, units |-> units, ix |-> q]
      added(q) == [h EXCEPT !.big = @ \cup {entry(q)}]
  IN  IF ~IndexFull(h, Last(h.ix)) THEN {added(Last(h.ix))}
      ELSE {IF q = Nil THEN added(Nil)
            ELSE [added(q) EXCEPT !.ix = Append(@, q)]
              : q \in page_alloc(h) \ {page}}

unregister_page_alloc(h, e) == [h EXCEPT !.big = @ \ {e}]

get_alloc_size(e) == IF e.ix = Nil THEN 0 ELSE e.units

WholePages(size) == PageUnits * ((size + PageUnits - 1) \div PageUnits)

\* The index is created with the first request, before the pages themselves.
fallback_proxy(h, size) ==
  LET indexed == IF h.ix # <<>> THEN {h}
                 ELSE {IF q = Nil THEN h ELSE [h EXCEPT !.ix = <<q>>]
                         : q \in page_alloc(h)}
      placed(g) == UNION {{Outcome(r, p, 0)
                             : r \in register_page_alloc(g, p, WholePages(size))}
                            : p \in page_alloc(g) \ {Nil}}
  IN  UNION {{Failure(g)} \cup (IF g.ix = <<>> THEN {} ELSE placed(g))
               : g \in indexed}

\* allocate: the first page of the chain that can serve, or a new one.
TouchedUpTo(h, i) ==
  LET seen == {h.chain[j] : j \in 1 .. i}
  IN  [h EXCEPT !.pg = [q \in Pages |-> IF q \in seen THEN Touched(h.pg[q])
                                        ELSE h.pg[q]]]

Servers(h, size) ==
  {i \in DOMAIN h.chain :
     /\ CanServe(h.pg[h.chain[i]], size)
     /\ \A j \in 1 .. i - 1 : ~CanServe(h.pg[h.chain[j]], size)}

allocate(h, size) ==
  LET all    == TouchedUpTo(h, Len(h.chain))
      from(g, q) == {Outcome(WithPage(g, q, s.page), q, s.at)
                       : s \in Serve(g.pg[q], size)}
      linked(q) == [WithPage(all, q, FreshPage) EXCEPT !.chain = Append(@, q)]
  IN  IF size >= PageUnits - Hdr THEN fallback_proxy(h, size)
      ELSE IF \E i \in DOMAIN h.chain : CanServe(h.pg[h.chain[i]], size)
      THEN UNION {from(TouchedUpTo(h, i), h.chain[i]) : i \in Servers(h, size)}
      ELSE {Failure(all)}
             \cup UNION {from(linked(q), q) : q \in page_alloc(h) \ {Nil}}

\* zalloc creates the first page of the chain, for a large block too.
zalloc(h, n) ==
  IF h.chain # <<>> THEN allocate(h, n + BlockHdr)
  ELSE {Failure(h)}
         \cup UNION {allocate([WithPage(h, q, FreshPage) EXCEPT !.chain = <<q>>],
                              n + BlockHdr) : q \in page_alloc(h) \ {Nil}}

-----------------------------------------------------------------------------
(***************************************************************************)
(* release, one page.  The freed block joins the free blocks that follow   *)
(* it without a gap, then the one that ends where it starts.  If the       *)
(* result ends at the bump pointer, that recedes over every free block it  *)
(* meets.  RunEnd and RunStart are where the loops stop.                   *)
(***************************************************************************)
RunEnd(F, x) ==
  CHOOSE e \in x .. PageUnits :
    /\ e \notin CellsOf(F)
    /\ \A c \in x .. e - 1 : c \in CellsOf(F)

RunStart(F, x) ==
  CHOOSE s \in Hdr .. x :
    /\ s - 1 \notin CellsOf(F)
    /\ \A c \in s .. x - 1 : c \in CellsOf(F)

CoalescedForwardOnly(F, b) == [at |-> b.at, size |-> RunEnd(F, Ends(b)) - b.at]

Coalesced(F, b) ==
  LET prev == {f \in F : Ends(f) = b.at}
      e    == RunEnd(F, Ends(b))
      s    == IF prev = {} THEN b.at ELSE (CHOOSE f \in prev : TRUE).at
  IN  [at |-> s, size |-> e - s]

Trimmed(p, b) ==
  IF Ends(b) # p.free_mem THEN p
  ELSE LET s == RunStart(p.free, p.free_mem)
       IN  [p EXCEPT !.free = {f \in @ : f.at < s}, !.free_mem = s]

Inserted(p, b) ==
  LET m == Coalesced(p.free, b)
  IN  Trimmed([p EXCEPT !.free = {f \in @ : Cells(f) \cap Cells(m) = {}}
                                   \cup {m}], m)

Emptied(p) == [p EXCEPT !.used = 0, !.free = {}, !.free_mem = 0]

\* The block leaves its client: its units are poisoned before anything else.
Poisoned(p, b) ==
  [p EXCEPT !.live = @ \ {b}, !.mem = Fill(@, Cells(b), "junk")]

UnlinkTail(chain, q) ==
  SubSeq(chain, 1, (CHOOSE j \in DOMAIN chain : chain[j] = q) - 1)

\* prev->next = hdr->next.
Unlink(chain, q) == RemoveAt(chain, CHOOSE j \in DOMAIN chain : chain[j] = q)

\* An empty page goes back to the kernel unless it is the first of the chain.
\* The guard on used is the one path that drops a page with blocks in use.
ReleaseIn(h, q, b) ==
  LET p    == Poisoned(h.pg[q], b)
      less == [p EXCEPT !.used = @ - b.size]
  IN  IF h.pg[q].used = 0 THEN h
      ELSE IF p.used < b.size THEN WithPage(h, q, Emptied(p))
      ELSE IF less.used > 0 THEN WithPage(h, q, Inserted(less, b))
      ELSE IF q = Head(h.chain) THEN WithPage(h, q, Emptied(less))
      ELSE [WithPage(h, q, FreshPage) EXCEPT !.chain = Unlink(@, q)]

\* A block of whole pages: its entry is taken out of the index.  If it was
\* never registered nothing happens to it: the client has lost the pages.
ReleasePages(h, e) ==
  LET g == unregister_page_alloc(h, e)
  IN  IF get_alloc_size(e) = 0 /\ h.ix # <<>>
      THEN [g EXCEPT !.leaked = @ \cup {e.page}]
      ELSE g

-----------------------------------------------------------------------------
(***************************************************************************)
(* reallocate on a block of a chained page: the block stays if it is long  *)
(* enough, else it grows into the free block behind it, else into the bump *)
(* area, else it moves.                                                    *)
(***************************************************************************)
Behind(p, b) == {f \in p.free : f.at = Ends(b)}

GrownUncounted(p, b, take) ==
  [p EXCEPT !.live = (@ \ {b}) \cup {[at |-> b.at, size |-> b.size + take]},
            !.mem  = Fill(@, Ends(b) .. Ends(b) + take - 1, "zero")]

\* The block grown in place by `take` units, which are cleared.
Grown(p, b, take) ==
  [p EXCEPT !.used = @ + take,
            !.live = (@ \ {b}) \cup {[at |-> b.at, size |-> b.size + take]},
            !.mem  = Fill(@, Ends(b) .. Ends(b) + take - 1, "zero")]

IntoFree(p, b, f, size) ==
  LET rest == Rest(f, size - b.size)
      take == IF rest = {} THEN f.size ELSE size - b.size
  IN  Grown([p EXCEPT !.free = (@ \ {f}) \cup rest,
                      !.mem  = Fill(@, {r.at : r \in rest}, "junk")], b, take)

IntoBump(p, b, size) ==
  Grown([p EXCEPT !.free_mem = @ + size - b.size], b, size - b.size)

BumpReachesAnywhere(p, b, size) == p.free_mem + size - b.size <= PageUnits

BumpReaches(p, b, size) ==
  Ends(b) = p.free_mem /\ p.free_mem + size - b.size <= PageUnits

\* The blocks longer than b in place that reallocate can make of it.
InPlace(p, b, size) ==
  LET behind == {f \in Behind(p, b) : b.size + f.size >= size}
  IN  IF behind # {} THEN {IntoFree(p, b, f, size) : f \in behind}
      ELSE IF BumpReaches(p, b, size) THEN {IntoBump(p, b, size)}
      ELSE {}

\* memcpy of the payload of b, at the start of the block at offset `at`.
Memcpy(to, at, from, b) ==
  [c \in DOMAIN to |-> IF c - at + b.at \in Payload(b)
                       THEN from[c - at + b.at] ELSE to[c]]

\* Whole pages are not tracked unit by unit.
Copied(h, q, b, ptr) ==
  IF \E e \in h.big : e.page = ptr.page THEN h
  ELSE WithPage(h, ptr.page,
                [h.pg[ptr.page] EXCEPT !.mem = Memcpy(@, ptr.at, h.pg[q].mem, b)])

\* reallocate's zalloc, memcpy and release, after all else failed.
Moved(h, q, b, n) ==
  {IF o.ptr.page = Nil THEN o
   ELSE [o EXCEPT !.heap = ReleaseIn(Copied(o.heap, q, b, o.ptr), q, b)]
     : o \in zalloc(h, n)}

ReallocIn(h, q, b, n) ==
  LET size == n + BlockHdr
      p    == h.pg[q]
  IN  IF size <= b.size THEN {Outcome(h, q, b.at)}
      ELSE IF InPlace(p, b, size) # {}
      THEN {Outcome(WithPage(h, q, g), q, b.at) : g \in InPlace(p, b, size)}
      ELSE Moved(h, q, b, n)

\* The index knows the rounded size, of which the block header's share is
\* taken off although such a block has none.  Unregistered: refused.
ReallocPages(h, e, n) ==
  IF get_alloc_size(e) = 0 THEN {Failure(h)}
  ELSE IF n <= get_alloc_size(e) - BlockHdr THEN {Outcome(h, e.page, 0)}
  ELSE {IF o.ptr.page = Nil THEN o
        ELSE [o EXCEPT !.heap = ReleasePages(o.heap, e)] : o \in zalloc(h, n)}

-----------------------------------------------------------------------------
Init == heap = [chain |-> <<>>, pg |-> [q \in Pages |-> FreshPage],
                big |-> {}, ix |-> <<>>, leaked |-> {}]

\* What clients hold: blocks of chained pages, and whole pages.
InUse == {q \in Pages : heap.pg[q].live # {}}

Zalloc == \E n \in Requests : \E o \in zalloc(heap, n) : heap' = o.heap

Release ==
  \E q \in InUse : \E b \in heap.pg[q].live : heap' = ReleaseIn(heap, q, b)

ReleaseWhole == \E e \in heap.big : heap' = ReleasePages(heap, e)

\* reallocate(ptr, 0) is release(ptr), reallocate(0, n) is zalloc(n).
Reallocate ==
  \E q \in InUse : \E b \in heap.pg[q].live, n \in Requests \ {0} :
    \E o \in ReallocIn(heap, q, b, n) : heap' = o.heap

ReallocateWhole ==
  \E e \in heap.big, n \in Requests \ {0} :
    \E o \in ReallocPages(heap, e, n) : heap' = o.heap

\* A client fills its block.
Write ==
  \E q \in InUse : \E b \in heap.pg[q].live :
    heap' = WithPage(heap, q,
              [heap.pg[q] EXCEPT !.mem = Fill(@, Payload(b), "data")])

Next == \/ Zalloc \/ Release \/ ReleaseWhole
        \/ Reallocate \/ ReallocateWhole \/ Write

Spec == Init /\ [][Next]_heap

-----------------------------------------------------------------------------
(***************************************************************************)
(* Properties.                                                             *)
(***************************************************************************)
chained == Range(heap.chain)

Disjoint(S) == \A b, c \in S : b # c => Cells(b) \cap Cells(c) = {}

Heaps == [chain : Seq(Pages), pg : [Pages -> Page],
          big : SUBSET [page : Pages, units : Nat, ix : Pages \cup {Nil}],
          ix : Seq(Pages), leaked : SUBSET Pages]

\* Every field has its type: in particular no block and no bump pointer ever
\* runs past the end of its page (allocate.c:95, 299).
TypeOK == heap \in Heaps

\* The blocks of a page, free or in use, tile the part of it below free_mem:
\* no two overlap and no unit is lost, however blocks were split, joined,
\* grown and trimmed (allocate.c:76-102, 178-244, 276-306).
PageTiled(p) ==
  /\ p.live \cap p.free = {}
  /\ Disjoint(p.live \cup p.free)
  /\ CellsOf(p.live \cup p.free) = Hdr .. p.free_mem - 1
Tiled == \A q \in chained : PageTiled(heap.pg[q])

\* The header's counter is the sum of the blocks in use.  release trusts it
\* for when a page may be dropped (allocate.c:143-175).
UsedIsExact ==
  \A q \in chained : heap.pg[q].used = Cardinality(CellsOf(heap.pg[q].live))

\* Free space does not fragment more than the live blocks force it to: two
\* free blocks are never neighbours and none borders the bump area.
PageMerged(p) ==
  \A f \in p.free : /\ Ends(f) # p.free_mem
                    /\ \A g \in p.free : Ends(f) # g.at
Merged == \A q \in chained : PageMerged(heap.pg[q])

\* No page serves two purposes, no block lies in a page that is not of the
\* chain any more, and only pages that missed their entry in the index
\* because memory ran out are ever lost.  An index page takes no more entries
\* than fit in it (page_index.c:18).
PagesAccounted ==
  /\ IsInjective(heap.chain) /\ IsInjective(heap.ix)
  /\ \A e, f \in heap.big : e.page = f.page => e = f
  /\ LET uses == <<chained, {e.page : e \in heap.big}, Range(heap.ix), heap.leaked>>
     IN  \A i, j \in DOMAIN uses : i # j => uses[i] \cap uses[j] = {}
  /\ \A q \in Pages \ chained : heap.pg[q] = FreshPage
  /\ \A e \in heap.big : e.ix = Nil \/ e.ix \in Range(heap.ix)
  /\ \A q \in Range(heap.ix) :
       Cardinality({e \in heap.big : e.ix = q}) <= IndexLimit

\* A block's contents are its client's.  No request for another block changes
\* them, and growing a block where it is keeps them; a block that starts where
\* none started before is full of zeros, except that one reallocate moved starts
\* with the contents it had (allocate.c:89, 100, 156, 304, 315).
Same(b, c) == b.at = c.at
Kept ==
  \A q \in Pages : \A b \in heap.pg[q].live, c \in heap'.pg[q].live :
    Same(b, c) => \A x \in Payload(b) : heap'.pg[q].mem[x] = heap.pg[q].mem[x]
Starts(h) == {s \in Pages \X (Hdr .. PageUnits - 1) :
                \E b \in h.pg[s[1]].live : b.at = s[2]}
BlockAt(h, s) == CHOOSE b \in h.pg[s[1]].live : b.at = s[2]
Holds(h, s, i) == IF s[2] + i \in Payload(BlockAt(h, s))
                  THEN h.pg[s[1]].mem[s[2] + i] ELSE "zero"
Cleared ==
  \A s \in Starts(heap') \ Starts(heap), i \in 1 .. PageUnits :
    LET moved == Starts(heap) \ Starts(heap')
    IN  Holds(heap', s, i) =
          IF moved = {} THEN "zero" ELSE Holds(heap, CHOOSE t \in moved : TRUE, i)
ContentsKept == [][(Write \/ Kept) /\ Cleared]_heap

\* What a client sees: its extents never overlap, whether zalloc hands one
\* out or reallocate grows or moves one.
Extents == [page : Pages, at : Hdr .. PageUnits - 1, size : 1 .. PageUnits]
  \cup {[page |-> q, at |-> 0, size |-> WholePages(n + BlockHdr)]
          : q \in Pages, n \in Requests}
PageExtents(q) ==
  {[page |-> q, at |-> b.at, size |-> b.size] : b \in heap.pg[q].live}
extents ==
  (UNION {PageExtents(q) : q \in Pages})
  \cup {[page |-> e.page, at |-> 0, size |-> e.units] : e \in heap.big}
HeapSpec == INSTANCE Heap WITH Extent <- Extents, blocks <- extents
ImplementsHeap == HeapSpec!Spec

\* For TLC: no page is different from another.
Interchangeable == Permutations(Pages)
=============================================================================

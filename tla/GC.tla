---------------------------------- MODULE GC ----------------------------------
(***************************************************************************)
(* The collector of alloc/gc.c.  Objects sit in three lists: black ones    *)
(* are scanned or new, gray ones wait to be scanned, white ones are not    *)
(* reached yet.  gc_run starts a cycle, each gc_run_next scans one gray    *)
(* object, and the one that finds no gray object left releases the white   *)
(* ones.  Between two calls the client does as it likes with its objects.  *)
(*                                                                         *)
(* The lists are sets: the order in which they are popped is left open.    *)
(***************************************************************************)
EXTENDS FiniteSets

CONSTANTS Objects,   \* the blocks clients allocate
          Root,      \* the one they pass to gc_run
          Nil,       \* what allocate gives when memory is out
          Adjacent,  \* <<o, p>>: block p lies right behind block o
          Stale      \* <<o, p>>: the header behind block o may hold what was an
                     \* address of the heap once and is that of block p now

ASSUME RootAssumption     == Root \in Objects /\ Nil \notin Objects
ASSUME AdjacentAssumption == Adjacent \subseteq Objects \X Objects
ASSUME StaleAssumption    == Stale \subseteq Objects \X Objects

VARIABLES white, gray, black,  \* gc_white, gc_gray, gc_black
          live,                \* the blocks allocate gave and has not got back
          fields,              \* the blocks each block holds pointers to
          garbage,             \* history: nothing led there when gc_run was called
          moved                \* history: "no", "stored" or "moved", see below

lists == <<white, gray, black>>
vars  == <<white, gray, black, live, fields, garbage, moved>>

\* What the client can get at from its root: a pointer to a block that is gone
\* leads nowhere until the block is allocated again.
Closed(S)  == Root \in S /\ \A o \in S : fields[o] \cap live \subseteq S
Reachable  == {o \in live : \A S \in SUBSET live : Closed(S) => o \in S}

\* What a block leads the collector to, in use or not.
Behind(o) == {p \in Objects : <<o, p>> \in Stale}
Suspect   ==
  {o \in live : \A S \in SUBSET live :
     (Closed(S) /\ \A p \in S : Behind(p) \cap live \subseteq S) => o \in S}

\* The words of a block that count as pointers, and the unused word of the header
\* behind it, which is scanned too: one into the block itself does not count, and
\* the test takes the end of the block for a part of it.
Pointers(o, word) == {p \in (fields[o] \cup {word}) \ {o} : <<o, p>> \notin Adjacent}

\* gc_run_next_node: the white blocks o points to turn gray, o turns black.
Scan(o, g, w, b) ==
  \E word \in Behind(o) \cup {Nil} :
    LET found == Pointers(o, word) \cap w
    IN  white' = w \ found /\ gray' = g \cup found /\ black' = b \cup {o}

Init ==
  /\ live = {Root} /\ fields = [o \in Objects |-> {}]
  /\ white = {} /\ gray = {} /\ black \in {{}, {Root}}
  /\ garbage = {} /\ moved = "no"

-----------------------------------------------------------------------------
\* gc_run: everything but the root is white again, then the root is scanned.
StartForgettingGray(w, g, b) == w \cup (b \ {Root})

Start(w, g, b) == w \cup g \cup (b \ {Root})

Run ==
  /\ Scan(Root, {}, Start(white, gray, black), {})
  /\ garbage' = live \ Suspect /\ moved' = "no"
  /\ UNCHANGED <<live, fields>>

\* gc_run_next, with a gray object.
RunNext ==
  /\ \E o \in gray : Scan(o, gray \ {o}, white, black)
  /\ UNCHANGED <<live, fields, garbage, moved>>

\* gc_run_next, with none: gc_collect_condemned.
Collect ==
  /\ gray = {} /\ white # {}
  /\ white' = {} /\ live' = live \ white
  /\ fields' = [o \in Objects |-> IF o \in white THEN {} ELSE fields[o]]
  /\ garbage' = {}
  /\ UNCHANGED <<gray, black, moved>>

\* The client allocates a block, registers what it got and stores it in another.
RegisterAny(o) == black' = black \cup {o} /\ UNCHANGED <<white, gray>>

RegisterWhite(o) ==
  IF o = Nil THEN UNCHANGED lists
  ELSE white' = white \cup {o} /\ UNCHANGED <<gray, black>>

gc_register_alloc(o) ==
  IF o = Nil THEN UNCHANGED lists
  ELSE black' = black \cup {o} /\ UNCHANGED <<white, gray>>

New ==
  \E o \in (Objects \ live) \cup {Nil}, p \in Reachable :
    /\ gc_register_alloc(o)
    /\ live' = live \cup ({o} \ {Nil})
    /\ fields' = [fields EXCEPT ![p] = @ \cup ({o} \ {Nil})]
    /\ UNCHANGED <<garbage, moved>>

\* The client copies a pointer it can get at, or overwrites one.  moved keeps
\* whether that happened in this order since gc_run.
Store ==
  \E p, o \in Reachable :
    /\ o \notin fields[p]
    /\ fields' = [fields EXCEPT ![p] = @ \cup {o}]
    /\ moved' = IF moved = "no" THEN "stored" ELSE moved
    /\ UNCHANGED <<white, gray, black, live, garbage>>

Clear ==
  \E p \in Reachable : \E o \in fields[p] :
    /\ fields' = [fields EXCEPT ![p] = @ \ {o}]
    /\ moved' = IF moved = "stored" THEN "moved" ELSE moved
    /\ UNCHANGED <<white, gray, black, live, garbage>>

Next == Run \/ RunNext \/ Collect \/ New \/ Store \/ Clear

Spec == Init /\ [][Next]_vars

-----------------------------------------------------------------------------
\* The type invariant: whatever gc_run, gc_run_next and gc_register_alloc do,
\* the lists and the pointers range over the blocks clients allocate.
TypeOK ==
  /\ white \subseteq Objects /\ gray \subseteq Objects /\ black \subseteq Objects
  /\ live \subseteq Objects /\ fields \in [Objects -> SUBSET Objects]
  /\ garbage \subseteq Objects /\ moved \in {"no", "stored", "moved"}

\* No block is in two lists and none that was released is in any, so that none
\* is released twice however cycles are cut short by a new gc_run (gc.c:50-51).
OneColour ==
  /\ white \cap gray = {} /\ gray \cap black = {} /\ white \cap black = {}
  /\ live \ {Root} \subseteq white \cup gray \cup black
  /\ white \cup gray \cup black \subseteq live

\* A cycle releases no block the client can still get at (gc.c:55-61), as long
\* as no pointer is stored and another one overwritten after that while the
\* cycle runs: a block that moves behind the collector's back is lost, since
\* nothing tells the collector about the store.  Storing alone and allocating
\* are safe, and so is overwriting before storing.  A pointer to the block right
\* behind the one that holds it must not count either: it is never followed.
Released   == live \ live'
UnusedOnly == moved # "moved" => \A o \in Released : o \notin Reachable
ReleasedUnused == [][UnusedOnly]_vars

\* Every block that nothing led to when the cycle began is gone when it ends,
\* whatever the client did in between (gc.c:22-79).
GarbageGoes == [][Collect => garbage \subseteq Released]_vars
=============================================================================

------------------------------- MODULE GCProofs -------------------------------
(***************************************************************************)
(* Proofs about GC, for any number of blocks.  What the client can get at  *)
(* is the least closed set, so an argument about it is an argument about   *)
(* one closed set: no induction on the length of paths is needed.          *)
(***************************************************************************)
EXTENDS GC, TLAPS

Inv == /\ TypeOK /\ OneColour
       /\ Root \in live /\ Root \notin white \cup gray
       /\ \A o \in Objects \ live : fields[o] = {}

\* What a client can get at is the least set of blocks that is closed.
LEMMA ReachableClosed ==
  ASSUME Root \in live
  PROVE  Reachable \subseteq live /\ Closed(Reachable)
<1>1. Root \in Reachable
  BY DEF Reachable, Closed
<1>2. ASSUME NEW o \in Reachable, NEW p \in fields[o] \cap live
      PROVE  p \in Reachable
  BY <1>2 DEF Reachable, Closed
<1> QED
  BY <1>1, <1>2 DEF Reachable, Closed

LEMMA ReachableLeast ==
  ASSUME NEW S \in SUBSET live, Closed(S)
  PROVE  Reachable \subseteq S
BY DEF Reachable

-----------------------------------------------------------------------------
\* Each block is in one list.

\* What the scan of a block finds: what the block points to, and perhaps what the
\* word behind it does.
LEMMA ScanFacts ==
  ASSUME NEW o, NEW g, NEW w, NEW b, w \subseteq Objects, Scan(o, g, w, b)
  PROVE  \E found \in SUBSET w :
           /\ white' = w \ found /\ gray' = g \cup found /\ black' = b \cup {o}
           /\ found \subseteq fields[o] \cup Behind(o)
           /\ Adjacent = {} => (fields[o] \ {o}) \cap w \subseteq found
<1>1. PICK word \in Behind(o) \cup {Nil} :
        LET found == Pointers(o, word) \cap w
        IN  white' = w \ found /\ gray' = g \cup found /\ black' = b \cup {o}
  BY DEF Scan
<1> DEFINE found == Pointers(o, word) \cap w
<1>2. found \in SUBSET w
  OBVIOUS
<1>3. found \subseteq fields[o] \cup Behind(o)
  BY RootAssumption DEF Pointers
<1>4. Adjacent = {} => (fields[o] \ {o}) \cap w \subseteq found
  BY DEF Pointers
<1> QED
  BY <1>1, <1>2, <1>3, <1>4

LEMMA RunFacts ==
  ASSUME Inv, Run
  PROVE  /\ gray' \subseteq (live \ {Root}) \cap (fields[Root] \cup Behind(Root))
         /\ Adjacent = {} => fields[Root] \cap (live \ {Root}) \subseteq gray'
         /\ white' = (live \ {Root}) \ gray' /\ black' = {Root}
         /\ live' = live /\ fields' = fields
         /\ garbage' = live \ Suspect /\ moved' = "no"
<1>1. Start(white, gray, black) = live \ {Root}
  BY DEF Start, Inv, OneColour
<1>2. Scan(Root, {}, live \ {Root}, {}) /\ live \ {Root} \subseteq Objects
  BY <1>1 DEF Run, Inv, TypeOK
<1>3. PICK found \in SUBSET (live \ {Root}) :
        /\ white' = (live \ {Root}) \ found /\ gray' = {} \cup found /\ black' = {} \cup {Root}
        /\ found \subseteq fields[Root] \cup Behind(Root)
        /\ Adjacent = {} => (fields[Root] \ {Root}) \cap (live \ {Root}) \subseteq found
  BY <1>2, ScanFacts
<1> QED
  BY <1>3 DEF Run

\* The step of gc_run_next.
LEMMA RunNextFacts ==
  ASSUME Inv, RunNext
  PROVE  \E o \in gray, found \in SUBSET white :
           /\ white' = white \ found /\ gray' = (gray \ {o}) \cup found
           /\ black' = black \cup {o}
           /\ found \subseteq fields[o] \cup Behind(o)
           /\ Adjacent = {} => (fields[o] \ {o}) \cap white \subseteq found
           /\ UNCHANGED <<live, fields, garbage, moved>>
<1>1. PICK o \in gray : Scan(o, gray \ {o}, white, black)
  BY DEF RunNext
<1>2. white \subseteq Objects
  BY DEF Inv, TypeOK
<1> QED
  BY <1>1, <1>2, ScanFacts DEF RunNext

LEMMA InvInit == Init => Inv
BY RootAssumption DEF Init, Inv, TypeOK, OneColour

LEMMA InvNext == Inv /\ [Next]_vars => Inv'
<1> SUFFICES ASSUME Inv, [Next]_vars PROVE Inv'
  OBVIOUS
<1> USE RootAssumption
<1>1. CASE Run
  BY <1>1, RunFacts DEF Inv, TypeOK, OneColour
<1>2. CASE RunNext
  BY <1>2, RunNextFacts DEF Inv, TypeOK, OneColour
<1>3. CASE Collect
  BY <1>3 DEF Collect, Inv, TypeOK, OneColour
<1>4. CASE New
  <2>1. PICK o \in (Objects \ live) \cup {Nil}, p \in Reachable :
          /\ gc_register_alloc(o)
          /\ live' = live \cup ({o} \ {Nil})
          /\ fields' = [fields EXCEPT ![p] = @ \cup ({o} \ {Nil})]
          /\ UNCHANGED <<garbage, moved>>
    BY <1>4 DEF New
  <2>2. fields' \in [Objects -> SUBSET Objects]
    BY <2>1 DEF Inv, TypeOK
  <2>3. CASE o = Nil
    BY <2>1, <2>2, <2>3 DEF gc_register_alloc, lists, Inv, TypeOK, OneColour
  <2>4. CASE o # Nil
    <3>1. /\ white' = white /\ gray' = gray /\ black' = black \cup {o}
          /\ live' = live \cup {o} /\ garbage' = garbage /\ moved' = moved
          /\ o \in Objects \ live /\ p \in live
      BY <2>1, <2>4 DEF gc_register_alloc, Reachable
    <3>2. \A x \in Objects \ live' : fields'[x] = {}
      BY <2>1, <3>1 DEF Inv, TypeOK
    <3> QED
      BY <2>2, <3>1, <3>2 DEF Inv, TypeOK, OneColour
  <2> QED
    BY <2>3, <2>4
<1>5. CASE Store
  BY <1>5 DEF Store, Reachable, Inv, TypeOK, OneColour
<1>6. CASE Clear
  BY <1>6 DEF Clear, Reachable, Inv, TypeOK, OneColour
<1>7. CASE UNCHANGED vars
  BY <1>7 DEF vars, Inv, TypeOK, OneColour
<1> QED
  BY <1>1, <1>2, <1>3, <1>4, <1>5, <1>6, <1>7 DEF Next

\* The lists hold live blocks, and what clients stored is where they could store it.
THEOREM TypeCorrect == Spec => []TypeOK
<1>1. Inv => TypeOK
  BY DEF Inv
<1> QED
  BY <1>1, InvInit, InvNext, PTL DEF Spec

\* Whatever cycle is cut short by a new gc_run and whatever the client does in
\* between, each block is in one list and no list holds a released one.
THEOREM ListsPartition == Spec => []OneColour
<1>1. Inv => OneColour
  BY DEF Inv
<1> QED
  BY <1>1, InvInit, InvNext, PTL DEF Spec

-----------------------------------------------------------------------------
\* Garbage stays white and out of reach until the cycle ends.

GInv == /\ garbage \subseteq white
        /\ \A o \in live \ garbage : fields[o] \cap garbage = {}
        /\ \A o \in (white \cup gray) \ garbage : Behind(o) \cap garbage = {}

\* What may be led to is closed.
LEMMA SuspectClosed ==
  ASSUME Root \in live
  PROVE  /\ Suspect \subseteq live /\ Closed(Suspect)
         /\ \A o \in Suspect : Behind(o) \cap live \subseteq Suspect
<1>1. Root \in Suspect
  BY DEF Suspect, Closed
<1>2. ASSUME NEW o \in Suspect, NEW p \in (fields[o] \cup Behind(o)) \cap live
      PROVE  p \in Suspect
  <2>1. SUFFICES ASSUME NEW S \in SUBSET live, Closed(S),
                        \A x \in S : Behind(x) \cap live \subseteq S
                 PROVE  p \in S
    BY DEF Suspect
  <2>2. o \in S
    BY <2>1 DEF Suspect
  <2> QED
    BY <2>1, <2>2 DEF Closed
<1> QED
  BY <1>1, <1>2 DEF Suspect, Closed

LEMMA GarbageUnreachable ==
  ASSUME Inv, GInv
  PROVE  Reachable \cap garbage = {}
<1>1. live \ garbage \in SUBSET live /\ Closed(live \ garbage)
  BY DEF Inv, GInv, Closed
<1> QED
  BY <1>1, ReachableLeast

LEMMA GInvNext == Inv /\ GInv /\ [Next]_vars => GInv'
<1> SUFFICES ASSUME Inv, GInv, [Next]_vars PROVE GInv'
  OBVIOUS
<1>1. CASE Run
  <2>1. /\ Suspect \subseteq live /\ Closed(Suspect)
        /\ \A o \in Suspect : Behind(o) \cap live \subseteq Suspect
    BY SuspectClosed DEF Inv
  <2>2. garbage' \subseteq white'
    BY <1>1, <2>1, RunFacts DEF Closed
  <2>3. \A o \in live \ garbage' : (fields[o] \cup Behind(o)) \cap garbage' = {}
    BY <1>1, <2>1, RunFacts DEF Closed
  <2>4. white' \cup gray' \subseteq live
    BY <1>1, RunFacts
  <2> QED
    BY <1>1, <2>2, <2>3, <2>4, RunFacts DEF GInv, Behind
<1>2. CASE RunNext
  <2>1. PICK o \in gray, found \in SUBSET white :
          /\ white' = white \ found /\ gray' = (gray \ {o}) \cup found
          /\ found \subseteq fields[o] \cup Behind(o)
          /\ UNCHANGED <<live, fields, garbage>>
    BY <1>2, RunNextFacts
  <2>2. o \in live \ garbage /\ o \in (white \cup gray) \ garbage
    BY DEF Inv, GInv, OneColour
  <2>3. found \cap garbage = {}
    BY <2>1, <2>2 DEF GInv
  <2> QED
    BY <2>1, <2>2, <2>3 DEF GInv, Behind
<1>3. CASE Collect
  BY <1>3 DEF Collect, GInv, Behind
<1>4. CASE New
  <2>1. PICK o \in (Objects \ live) \cup {Nil}, p \in Reachable :
          /\ gc_register_alloc(o)
          /\ live' = live \cup ({o} \ {Nil})
          /\ fields' = [fields EXCEPT ![p] = @ \cup ({o} \ {Nil})]
          /\ UNCHANGED <<garbage, moved>>
    BY <1>4 DEF New
  <2>2. /\ garbage \subseteq live /\ garbage' = garbage /\ p \in live
        /\ garbage \subseteq white' /\ Nil \notin live
    BY <2>1, RootAssumption
    DEF gc_register_alloc, lists, Inv, GInv, TypeOK, OneColour, Reachable
  <2>3. ASSUME NEW x \in live' \ garbage' PROVE fields'[x] \cap garbage' = {}
    <3>1. x \in Objects /\ fields[x] \cap garbage = {}
      BY <2>1, <2>2, <2>3 DEF GInv, Inv, TypeOK
    <3>2. fields'[x] \subseteq fields[x] \cup ({o} \ {Nil})
      BY <2>1, <3>1 DEF Inv, TypeOK
    <3> QED
      BY <2>1, <2>2, <3>1, <3>2
  <2>4. \A x \in (white' \cup gray') \ garbage' : Behind(x) \cap garbage' = {}
    BY <2>1, <2>2 DEF gc_register_alloc, lists, GInv
  <2> QED
    BY <2>2, <2>3, <2>4 DEF GInv, Behind
<1>5. CASE Store
  <2>1. PICK p \in Reachable, o \in Reachable :
          fields' = [fields EXCEPT ![p] = @ \cup {o}]
    BY <1>5 DEF Store
  <2>2. o \notin garbage /\ UNCHANGED <<white, gray, garbage, live>>
    BY <1>5, GarbageUnreachable DEF Store
  <2> QED
    BY <2>1, <2>2 DEF GInv, Inv, TypeOK, Behind
<1>6. CASE Clear
  BY <1>6 DEF Clear, GInv, Inv, TypeOK, OneColour, Behind
<1>7. CASE UNCHANGED vars
  BY <1>7 DEF vars, GInv, Behind
<1> QED
  BY <1>1, <1>2, <1>3, <1>4, <1>5, <1>6, <1>7 DEF Next

\* A cycle releases everything that nothing led to when it began, an old address
\* in the header behind a block included (gc.c:22-79).
THEOREM GarbageIsReleased == Spec => GarbageGoes
<1>1. Init => GInv
  BY DEF Init, GInv
<1>2. Inv /\ GInv /\ [Next]_vars => [Collect => garbage \subseteq Released]_vars
  BY DEF Inv, GInv, OneColour, Collect, Released
<1> QED
  BY <1>1, <1>2, InvInit, InvNext, GInvNext, PTL DEF Spec, GarbageGoes

-----------------------------------------------------------------------------
\* Blocks that lie apart: what can be got at is not released.

\* No scanned block points to a white one.
Strong == \A o \in black \cup {Root} : fields[o] \cap white = {}

\* What can be got at, can be got at by way of gray and white blocks only.
Weak == \A S \in SUBSET live :
          /\ gray \cup black \cup {Root} \subseteq S
          /\ \A o \in S \ (black \cup {Root}) : fields[o] \cap live \subseteq S
          => Reachable \subseteq S

RInv == /\ moved = "no" => Strong
        /\ moved = "stored" => Weak

LEMMA StrongImpliesWeak ==
  ASSUME Inv, Strong PROVE Weak
<1> SUFFICES ASSUME NEW S \in SUBSET live,
                    gray \cup black \cup {Root} \subseteq S,
                    \A o \in S \ (black \cup {Root}) : fields[o] \cap live \subseteq S
             PROVE  Reachable \subseteq S
  BY DEF Weak
<1>1. \A o \in black \cup {Root} : fields[o] \cap live \subseteq S
  BY DEF Strong, Inv, OneColour
<1> QED
  BY <1>1, ReachableLeast DEF Closed

LEMMA RInvNext ==
  ASSUME Adjacent = {}
  PROVE  Inv /\ RInv /\ [Next]_vars => RInv'
<1> SUFFICES ASSUME Inv, RInv, [Next]_vars PROVE RInv'
  OBVIOUS
<1>1. CASE Run
  <2>1. Strong'
    BY <1>1, RunFacts, RootAssumption DEF Strong, Inv
  <2> QED
    BY <1>1, <2>1, RunFacts DEF RInv
<1>2. CASE RunNext
  <2>1. PICK o \in gray, found \in SUBSET white :
          /\ white' = white \ found /\ gray' = (gray \ {o}) \cup found
          /\ black' = black \cup {o}
          /\ (fields[o] \ {o}) \cap white \subseteq found
          /\ UNCHANGED <<live, fields, garbage, moved>>
    BY <1>2, RunNextFacts
  <2>2. /\ white' = white \ found /\ gray' = (gray \ {o}) \cup found
        /\ black' = black \cup {o} /\ live' = live /\ fields' = fields
        /\ moved' = moved /\ o \in live /\ o \notin white
        /\ fields[o] \cap white \subseteq found /\ found \subseteq white
    BY <2>1 DEF Inv, OneColour
  <2>3. ASSUME Strong PROVE Strong'
    BY <2>2, <2>3 DEF Strong
  <2>4. Reachable' = Reachable
    BY <2>2 DEF Reachable, Closed
  <2>5. ASSUME Weak PROVE Weak'
    <3>1. SUFFICES ASSUME NEW S \in SUBSET live,
                     gray' \cup black' \cup {Root} \subseteq S,
                     \A x \in S \ (black' \cup {Root}) : fields[x] \cap live \subseteq S
                   PROVE  Reachable \subseteq S
      BY <2>2, <2>4 DEF Weak
    <3>2. gray \cup black \cup {Root} \subseteq S
      BY <2>2, <3>1
    <3>3. fields[o] \cap live \subseteq S
      BY <2>2, <3>1, <3>2 DEF Inv, OneColour
    <3>4. \A x \in S \ (black \cup {Root}) : fields[x] \cap live \subseteq S
      BY <2>2, <3>1, <3>3
    <3> QED
      BY <2>5, <3>2, <3>4 DEF Weak
  <2> QED
    BY <2>2, <2>3, <2>5 DEF RInv
<1>3. CASE Collect
  <2>1. /\ white' = {} /\ live' = live \ white /\ gray' = {} /\ gray = {}
        /\ black' = black /\ moved' = moved
    BY <1>3 DEF Collect
  <2>2. Strong'
    BY <2>1 DEF Strong
  <2>3. Weak'
    <3>1. SUFFICES ASSUME NEW S \in SUBSET live',
                          gray' \cup black' \cup {Root} \subseteq S
                   PROVE  Reachable' \subseteq S
      BY DEF Weak
    <3>2. live' \subseteq S
      BY <2>1, <3>1 DEF Inv, OneColour
    <3>3. Reachable' \subseteq live'
      BY DEF Reachable
    <3> QED
      BY <3>2, <3>3
  <2> QED
    BY <2>2, <2>3 DEF RInv
<1>4. CASE New
  <2>1. PICK o \in (Objects \ live) \cup {Nil}, p \in Reachable :
          /\ gc_register_alloc(o)
          /\ live' = live \cup ({o} \ {Nil})
          /\ fields' = [fields EXCEPT ![p] = @ \cup ({o} \ {Nil})]
          /\ UNCHANGED <<garbage, moved>>
    BY <1>4 DEF New
  <2> DEFINE N == {o} \ {Nil}
  <2>2. /\ white' = white /\ gray' = gray /\ black' = black \cup N
        /\ N \cap live = {} /\ N \subseteq Objects /\ p \in live /\ moved' = moved
    BY <2>1 DEF gc_register_alloc, lists, Reachable
  <2>3. \A x \in Objects : fields'[x] = IF x = p THEN fields[x] \cup N ELSE fields[x]
    BY <2>1 DEF Inv, TypeOK
  <2>4. live' = live \cup N /\ \A x \in N : fields[x] = {}
    BY <2>1, <2>2 DEF Inv
  <2> HIDE DEF N
  <2>5. live \subseteq Objects /\ white \subseteq live /\ Root \in live
        /\ black \subseteq live
    BY DEF Inv, TypeOK, OneColour
  <2>6. ASSUME Strong PROVE Strong'
    BY <2>2, <2>3, <2>4, <2>5, <2>6 DEF Strong
  <2>7. ASSUME Weak PROVE Weak'
    <3>1. SUFFICES ASSUME NEW S \in SUBSET live',
                     gray' \cup black' \cup {Root} \subseteq S,
                     \A x \in S \ (black' \cup {Root}) : fields'[x] \cap live' \subseteq S
                   PROVE  Reachable' \subseteq S
      BY DEF Weak
    <3> DEFINE T == S \ N
    <3>2. T \subseteq live /\ gray \cup black \cup {Root} \subseteq T /\ N \subseteq S
      BY <2>2, <2>4, <2>5, <3>1 DEF Inv, OneColour
    <3>3. \A x \in T \ (black \cup {Root}) : fields[x] \cap live \subseteq T
      BY <2>2, <2>3, <2>4, <2>5, <3>1
    <3>4. Reachable \subseteq T
      BY <2>7, <3>2, <3>3 DEF Weak
    <3>5. Closed(Reachable) /\ Reachable \subseteq live
      BY ReachableClosed DEF Inv
    <3> DEFINE R == Reachable \cup N
    <3>6. R \in SUBSET live' /\ Root \in R
          /\ \A x \in R : fields'[x] \cap live' \subseteq R
      <4>1. R \in SUBSET live' /\ Root \in R
        BY <2>4, <3>5 DEF Closed
      <4>2. ASSUME NEW x \in R
            PROVE  fields'[x] \cap live' \subseteq R
        <5>1. x \in Objects /\ fields'[x] \subseteq fields[x] \cup N
          BY <2>2, <2>3, <2>5, <3>5
        <5>2. x \notin N => fields[x] \cap live \subseteq Reachable
          BY <3>5 DEF Closed
        <5>3. x \in N => fields[x] = {}
          BY <2>4
        <5> QED
          BY <2>4, <5>1, <5>2, <5>3
      <4> QED
        BY <4>1, <4>2
    <3>7. Reachable' \subseteq R
      BY <3>6 DEF Reachable, Closed
    <3> QED
      BY <3>2, <3>4, <3>7
  <2> QED
    BY <2>2, <2>6, <2>7 DEF RInv
<1>5. CASE Store
  <2>1. PICK p \in Reachable, o \in Reachable :
          fields' = [fields EXCEPT ![p] = @ \cup {o}]
    BY <1>5 DEF Store
  <2>2. /\ UNCHANGED <<white, gray, black, live, garbage>>
        /\ moved' # "no" /\ (moved' = "stored" => moved \in {"no", "stored"})
    BY <1>5 DEF Store
  <2>3. moved' = "stored" => Weak
    BY <2>2, StrongImpliesWeak DEF RInv
  <2>4. /\ live \subseteq Objects /\ p \in Objects /\ Root \in Reachable
        /\ \A x \in Objects : fields'[x] = IF x = p THEN fields[x] \cup {o} ELSE fields[x]
    BY <2>1, ReachableClosed DEF Inv, TypeOK, Reachable, Closed
  <2>5. Reachable' \subseteq Reachable
    <3>1. Reachable \subseteq live /\ Closed(Reachable)
      BY ReachableClosed DEF Inv
    <3>2. Reachable \in SUBSET live' /\ \A x \in Reachable : fields'[x] \cap live' \subseteq Reachable
      BY <2>2, <2>4, <3>1 DEF Closed
    <3> QED
      BY <2>4, <3>2 DEF Reachable, Closed
  <2>6. ASSUME Weak PROVE Weak'
    <3>1. SUFFICES ASSUME NEW S \in SUBSET live,
                     gray \cup black \cup {Root} \subseteq S,
                     \A x \in S \ (black \cup {Root}) : fields'[x] \cap live \subseteq S
                   PROVE  Reachable' \subseteq S
      BY <2>2 DEF Weak
    <3>2. \A x \in S \ (black \cup {Root}) : fields[x] \cap live \subseteq S
      BY <2>4, <3>1
    <3> QED
      BY <2>5, <2>6, <3>1, <3>2 DEF Weak
  <2> QED
    BY <2>2, <2>3, <2>6 DEF RInv
<1>6. CASE Clear
  <2>1. PICK p \in Reachable : \E o \in fields[p] :
          fields' = [fields EXCEPT ![p] = @ \ {o}]
    BY <1>6 DEF Clear
  <2>2. /\ UNCHANGED <<white, gray, black, live, garbage>>
        /\ moved' # "stored" /\ (moved' = "no" => moved = "no")
    BY <1>6 DEF Clear
  <2>3. \A x \in Objects : fields'[x] \subseteq fields[x]
    BY <2>1 DEF Inv, TypeOK
  <2>4. black \cup {Root} \subseteq Objects
    BY DEF Inv, TypeOK
  <2>5. ASSUME Strong PROVE Strong'
    BY <2>2, <2>3, <2>4, <2>5 DEF Strong
  <2> QED
    BY <2>2, <2>5 DEF RInv
<1>7. CASE UNCHANGED vars
  BY <1>7 DEF vars, RInv, Strong, Weak, Reachable, Closed
<1> QED
  BY <1>1, <1>2, <1>3, <1>4, <1>5, <1>6, <1>7 DEF Next

\* If no block lies right behind one that points to it, a cycle releases
\* nothing that is in use, unless a pointer was stored and a pointer cleared
\* after that while it ran.
THEOREM InUseIsKept ==
  ASSUME Adjacent = {}
  PROVE  Spec => ReleasedUnused
<1>1. Init => RInv
  BY DEF Init, RInv, Strong
<1>2. Inv /\ RInv /\ [Next]_vars => [UnusedOnly]_vars
  <2> SUFFICES ASSUME Inv, RInv, [Next]_vars, moved # "moved"
               PROVE  (\A o \in Released : o \notin Reachable) \/ UNCHANGED vars
    BY DEF UnusedOnly
  <2>1. CASE Collect
    <3>1. gray = {} /\ Released \subseteq white
      BY <2>1 DEF Collect, Released
    <3>2. Weak
      BY StrongImpliesWeak DEF RInv, Inv, TypeOK
    <3>3. Reachable \subseteq black \cup {Root}
      <4>1. black \cup {Root} \in SUBSET live
        BY DEF Inv, OneColour
      <4> QED
        BY <3>1, <3>2, <4>1 DEF Weak
    <3> QED
      BY <3>1, <3>3 DEF Inv, OneColour
  <2>2. CASE ~Collect
    <3>1. live \subseteq live' \/ UNCHANGED vars
      BY <2>2 DEF Next, Run, RunNext, New, Store, Clear
    <3> QED
      BY <3>1 DEF Released
  <2> QED
    BY <2>1, <2>2
<1> QED
  BY <1>1, <1>2, InvInit, InvNext, RInvNext, PTL DEF Spec, ReleasedUnused
=============================================================================

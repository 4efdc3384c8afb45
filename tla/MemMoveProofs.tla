----------------------------- MODULE MemMoveProofs -----------------------------
(***************************************************************************)
(* Proofs about MemMove, for memory of any size, words of any width and    *)
(* any batches: what has been moved is what the source held when the call  *)
(* was made, and what is still to be moved has not been overwritten.  And  *)
(* about MemWords: what memset, memset32 and memreverse have written, and  *)
(* what memcmp and memmem have passed.                                     *)
(***************************************************************************)
EXTENDS MemMove, SequenceTheorems, NaturalsInduction, WellFoundedInduction, TLAPS

USE SizeAssumption, WordAssumption

\* What the call has written so far, and what it has still to read.
Written ==
  IF Backwards THEN call.dest + count .. call.dest + call.count - 1
  ELSE call.dest .. call.dest + (call.count - count) - 1
Progress ==
  \A a \in Addresses :
    mem[a] = IF a \in Written THEN was[call.src + (a - call.dest)] ELSE was[a]

\* Up is for a destination below the source or apart from it, down for one above.
Directed ==
  /\ ~Backwards /\ at \notin {"start", "done"} => Apart(call) \/ call.dest < call.src
  /\ Backwards => call.src < call.dest
  /\ Permitted(call)

\* Of the word that is kept, what is still to be moved is as it was.
KeptOK ==
  at = "shifted" =>
    /\ shift \in 1 .. Word - 1
    /\ \A j \in 0 .. Word - shift - 1 : j < count => lo[shift + j] = was[s8 + j]

IInv == TypeOK /\ Directed /\ KeptOK /\ (at # "done" => Progress) /\ Moved

-----------------------------------------------------------------------------
LEMMA Bounds ==
  ASSUME TypeOK
  PROVE  /\ call.dest \in Nat /\ call.src \in Nat /\ call.count \in Nat
         /\ call.dest + call.count <= Size /\ call.src + call.count <= Size
         /\ count \in Nat /\ count <= call.count
BY DEF TypeOK, Calls, Addresses

\* What the next step up reads has not been written.
LEMMA Ahead ==
  ASSUME IInv, ~Backwards, at \notin {"start", "done"},
         NEW j \in Nat, j < count
  PROVE  s8 + j \in Addresses /\ mem[s8 + j] = was[s8 + j]
<1>1. s8 = call.src + (call.count - count) /\ d8 = call.dest + (call.count - count)
  BY DEF IInv, TypeOK
<1>2. s8 + j \in Addresses /\ s8 + j \notin Written
  BY <1>1, Bounds DEF IInv, Directed, Apart, Written, Addresses
<1> QED
  BY <1>2 DEF IInv, Progress

LEMMA Behind ==
  ASSUME IInv, Backwards, NEW j \in Nat, j < count
  PROVE  s8 - (j + 1) \in Addresses /\ mem[s8 - (j + 1)] = was[s8 - (j + 1)]
<1>1. s8 = call.src + count /\ d8 = call.dest + count /\ at # "done"
  BY DEF IInv, TypeOK, Backwards
<1>2. s8 - (j + 1) \in Addresses /\ s8 - (j + 1) \notin Written
  BY <1>1, Bounds DEF IInv, Directed, Written, Addresses
<1> QED
  BY <1>1, <1>2 DEF IInv, Progress

\* A step up of z bytes that writes what the source held.
LEMMA UpStep ==
  ASSUME IInv, ~Backwards, at \notin {"start", "done", "shifted"} \/ KeptOK',
         at \notin {"start", "done"},
         NEW z \in Nat, z <= count,
         DOMAIN mem' = Addresses,
         \A a \in Addresses :
           mem'[a] = IF a \in d8 .. d8 + z - 1 THEN was[s8 + (a - d8)] ELSE mem[a],
         d8' = d8 + z, s8' = s8 + z, count' = count - z,
         was' = was, call' = call, at' = at
  PROVE  IInv'
<1>1. s8 = call.src + (call.count - count) /\ d8 = call.dest + (call.count - count)
  BY DEF IInv, TypeOK
<1>2. ~Backwards' /\ at' \notin {"start", "done"}
  BY DEF Backwards
<1>3. TypeOK'
  BY <1>1, <1>2, Bounds DEF IInv, TypeOK, Backwards
<1>4. Directed'
  BY <1>2 DEF IInv, Directed
<1>5. KeptOK'
  BY DEF KeptOK
<1>6. Progress'
  <2>1. SUFFICES ASSUME NEW a \in Addresses
                 PROVE  mem'[a] = IF a \in Written' THEN was[call.src + (a - call.dest)] ELSE was[a]
    BY DEF Progress
  <2>2. a \in Int
    BY DEF Addresses
  <2>3. a \in Written' <=> a \in Written \/ a \in d8 .. d8 + z - 1
    BY <1>1, <1>2, <2>2, Bounds DEF IInv, Written
  <2>4. CASE a \in d8 .. d8 + z - 1
    <3>1. s8 + (a - d8) = call.src + (a - call.dest)
      BY <1>1, <2>2, <2>4, Bounds DEF IInv
    <3> QED
      BY <2>3, <2>4, <3>1
  <2>5. CASE a \notin d8 .. d8 + z - 1
    BY <2>3, <2>5 DEF IInv, Progress
  <2> QED
    BY <2>4, <2>5
<1>7. Moved'
  BY <1>2 DEF Moved
<1> QED
  BY <1>3, <1>4, <1>5, <1>6, <1>7 DEF IInv

LEMMA UpKeeps ==
  ASSUME IInv, at \in {"wide", "lead", "words", "bytes"},
         NEW z \in Nat, z <= count, Up(z)
  PROVE  IInv'
<1>1. ~Backwards /\ at \notin {"start", "done", "shifted"}
  BY DEF Backwards
<1>2. ASSUME NEW a \in Addresses
      PROVE  mem'[a] = IF a \in d8 .. d8 + z - 1 THEN was[s8 + (a - d8)] ELSE mem[a]
  <2>1. CASE a \in d8 .. d8 + z - 1
    <3>1. a - d8 \in Nat /\ a - d8 < count
      <4>1. d8 \in Int /\ count \in Nat /\ a \in Int
        BY <1>1, Bounds DEF IInv, TypeOK, Addresses
      <4> QED
        BY <2>1, <4>1
    <3>2. mem[s8 + (a - d8)] = was[s8 + (a - d8)]
      BY <1>1, <3>1, Ahead
    <3> QED
      BY <2>1, <3>2 DEF Up
  <2>2. CASE a \notin d8 .. d8 + z - 1
    BY <2>2 DEF Up
  <2> QED
    BY <2>1, <2>2
<1>3. DOMAIN mem' = Addresses /\ d8' = d8 + z /\ s8' = s8 + z /\ count' = count - z
      /\ was' = was /\ call' = call /\ at' = at
  BY DEF Up
<1> QED
  BY <1>1, <1>2, <1>3, UpStep

LEMMA DownKeeps ==
  ASSUME IInv, Backwards, NEW z \in Nat, z <= count, Down(z)
  PROVE  IInv'
<1>1. s8 = call.src + count /\ d8 = call.dest + count /\ at # "done" /\ at # "shifted"
  BY DEF IInv, TypeOK, Backwards
<1>2. /\ Backwards' /\ at' # "done" /\ at' # "shifted" /\ at' = at /\ was' = was /\ call' = call
      /\ d8' = d8 - z /\ s8' = s8 - z /\ count' = count - z /\ DOMAIN mem' = Addresses
  BY <1>1 DEF Down, Backwards
<1>3. TypeOK'
  BY <1>1, <1>2, Bounds DEF IInv, TypeOK
<1>4. Progress'
  <2>1. SUFFICES ASSUME NEW a \in Addresses
                 PROVE  mem'[a] = IF a \in Written' THEN was[call.src + (a - call.dest)] ELSE was[a]
    BY <1>2 DEF Progress
  <2>2. a \in Int
    BY DEF Addresses
  <2>3. a \in Written' <=> a \in Written \/ a \in d8 - z .. d8 - 1
    BY <1>1, <1>2, <2>2, Bounds DEF IInv, Written
  <2>4. CASE a \in d8 - z .. d8 - 1
    <3> DEFINE j == (d8 - a) - 1
    <3>1. j \in Nat /\ j < count /\ s8 - (d8 - a) = s8 - (j + 1)
          /\ s8 - (d8 - a) = call.src + (a - call.dest)
      BY <1>1, <2>2, <2>4, Bounds DEF IInv
    <3> HIDE DEF j
    <3>2. mem[s8 - (d8 - a)] = was[s8 - (d8 - a)]
      BY <3>1, Behind
    <3> QED
      BY <2>3, <2>4, <3>1, <3>2 DEF Down
  <2>5. CASE a \notin d8 - z .. d8 - 1
    BY <1>1, <2>3, <2>5 DEF IInv, Progress, Down
  <2> QED
    BY <2>4, <2>5
<1> QED
  BY <1>2, <1>3, <1>4 DEF IInv, Directed, KeptOK, Moved

\* A step from one loop to the next of the same direction.
LEMMA GotoKeeps ==
  ASSUME IInv, NEW l, Goto(l),
         \/ /\ at \in {"wide", "lead", "words", "shifted"}
            /\ l \in {"lead", "words", "bytes"}
         \/ /\ at \in {"back", "backwords", "backshifted"}
            /\ l \in {"backwords", "backshifted", "backbytes"}
  PROVE  IInv'
<1>1. /\ at' = l /\ mem' = mem /\ was' = was /\ call' = call /\ d8' = d8 /\ s8' = s8
      /\ count' = count
  BY DEF Goto
<1>2. Backwards' = Backwards /\ at # "done" /\ at' # "done" /\ at # "start" /\ at' # "start"
      /\ at' # "shifted"
  BY <1>1 DEF Backwards
<1>3. TypeOK'
  BY <1>1, <1>2 DEF IInv, TypeOK, Loops
<1>4. Directed' /\ Progress'
  BY <1>1, <1>2 DEF IInv, Directed, Progress, Written
<1> QED
  BY <1>2, <1>3, <1>4 DEF IInv, KeptOK, Moved

\* Nothing is left: what was written is what was to be.
LEMMA LastGoto ==
  ASSUME IInv, at \in {"bytes", "backbytes"}, count = 0, Goto("done")
  PROVE  IInv'
<1>1. /\ at' = "done" /\ mem' = mem /\ was' = was /\ call' = call /\ count' = count
  BY DEF Goto
<1>2. Written = call.dest .. call.dest + call.count - 1
  BY Bounds DEF IInv, Written
<1> QED
  BY <1>1, <1>2 DEF IInv, TypeOK, Loops, Directed, KeptOK, Moved, Expected, Progress, Backwards

-----------------------------------------------------------------------------
\* The steps.

\* When a call starts nothing is written, and the count is that of the call.
StartOK == at = "start" => count = call.count

LEMMA StartKeeps == ASSUME IInv, StartOK, Start PROVE IInv'
<1>1. /\ at = "start" /\ ~Backwards /\ count = call.count /\ mem' = mem /\ was' = was
      /\ call' = call /\ count' = count
  BY DEF Start, Backwards, StartOK
<1>2. d8 = call.dest /\ s8 = call.src /\ call.dest \in Nat /\ call.src \in Nat
  BY <1>1, Bounds DEF IInv, TypeOK
<1>3. \A a \in Addresses : mem[a] = was[a]
  BY <1>1, <1>2, Bounds DEF IInv, Progress, Written
<1>4. CASE at' = "done"
  <2>1. call.dest = call.src \/ count = 0
    BY <1>4 DEF Start
  <2>2. ASSUME NEW a \in Addresses PROVE Expected(a) = was[a]
    <3>1. a \in Int
      BY DEF Addresses
    <3> QED
      BY <1>1, <1>2, <2>1, <3>1, Bounds DEF Expected, IInv
  <2>3. Moved'
    BY <1>1, <1>3, <2>2 DEF Moved, Expected
  <2>4. TypeOK'
    BY <1>1, <1>4 DEF IInv, TypeOK, Backwards, Loops
  <2> QED
    BY <1>1, <1>4, <2>3, <2>4 DEF IInv, Directed, KeptOK, Backwards
<1>5. CASE at' \in {"wide", "lead"}
  <2>1. d8' = d8 /\ s8' = s8 /\ (Apart(call) \/ call.dest < call.src)
    BY <1>1, <1>5 DEF Start, Copies, MovesUp, IInv, Directed, Permitted
  <2>2. TypeOK'
    BY <1>1, <1>5, <2>1 DEF IInv, TypeOK, Backwards, Loops
  <2>3. Progress'
    BY <1>1, <1>5 DEF IInv, Progress, Written, Backwards
  <2> QED
    BY <1>1, <1>5, <2>1, <2>2, <2>3 DEF IInv, Directed, KeptOK, Moved, Backwards
<1>6. CASE at' = "back"
  <2>1. d8' = d8 + count /\ s8' = s8 + count /\ call.src < call.dest
    BY <1>1, <1>2, <1>6 DEF Start, MovesUp
  <2>2. TypeOK'
    BY <1>1, <1>2, <1>6, <2>1 DEF IInv, TypeOK, Backwards, Loops
  <2>3. Backwards' /\ Written' = {}
    BY <1>1, <1>2, <1>6, Bounds DEF IInv, Written, Backwards
  <2>4. Progress'
    BY <1>1, <1>3, <2>3 DEF Progress
  <2> QED
    BY <1>1, <1>6, <2>1, <2>2, <2>3, <2>4 DEF IInv, Directed, KeptOK, Moved
<1> QED
  BY <1>4, <1>5, <1>6 DEF Start

LEMMA LeadKeeps == ASSUME IInv, Lead PROVE IInv'
<1>1. at = "lead" /\ ~Backwards
  BY DEF Lead, Backwards
<1>2. CASE Unaligned(Word) /\ Up(1)
  BY <1>1, <1>2, UpKeeps, Bounds DEF Unaligned, IInv
<1>3. CASE \/ ~Unaligned(Word) /\ s8 % Word = 0 /\ Goto("words")
           \/ ~Unaligned(Word) /\ s8 % Word # 0 /\ count < 2 * Word /\ Goto("bytes")
  BY <1>1, <1>3, GotoKeeps
<1>4. CASE /\ ~Unaligned(Word) /\ s8 % Word # 0 /\ count >= 2 * Word
           /\ shift' = s8 % Word
           /\ lo' = [i \in 0 .. Word - 1 |-> mem[s8 - shift' + i]]
           /\ at' = "shifted" /\ UNCHANGED <<mem, was, call, d8, s8, count>>
  <2>1. s8 \in Nat
    BY <1>1, Bounds DEF IInv, TypeOK
  <2>2. shift' \in 1 .. Word - 1
    BY <1>4, <2>1
  <2>3. ASSUME NEW k \in 1 .. Word - 1, k = shift', NEW j \in 0 .. Word - k - 1, j < count
        PROVE  lo'[k + j] = was[s8 + j]
    <3>1. k + j \in 0 .. Word - 1 /\ s8 - k + (k + j) = s8 + j
      BY <2>1
    <3>2. mem[s8 + j] = was[s8 + j]
      <4>1. j \in Nat /\ j < count
        BY <2>3
      <4> QED
        BY <1>1, <4>1, Ahead
    <3>3. lo'[k + j] = mem[s8 - k + (k + j)]
      BY <1>4, <2>3, <3>1
    <3> QED
      BY <3>1, <3>2, <3>3
  <2>4. KeptOK'
    BY <1>4, <2>2, <2>3 DEF KeptOK
  <2>5. TypeOK' /\ Directed' /\ Progress' /\ Moved'
    BY <1>1, <1>4 DEF IInv, TypeOK, Directed, Progress, Written, Moved, Backwards, Loops
  <2> QED
    BY <2>4, <2>5 DEF IInv
<1> QED
  BY <1>2, <1>3, <1>4 DEF Lead

LEMMA TogetherKeeps ==
  ASSUME IInv, at = "shifted", NEW n \in Nat \ {0}, Enough(n), Together(n)
  PROVE  IInv'
<1> DEFINE z == n * Word
<1>1. z \in Nat /\ z >= Word /\ (n - 1) * Word = z - Word
  OBVIOUS
<1> HIDE DEF z
<1>2. shift \in 1 .. Word - 1 /\ ~Backwards
  BY DEF IInv, KeptOK, Backwards
<1>3. count >= z + Word - shift /\ z <= count
  BY <1>1, <1>2, Bounds DEF Enough, IInv
<1>4. s8 \in Nat /\ d8 \in Nat
  BY <1>2, Bounds DEF IInv, TypeOK
<1>5. /\ d8' = d8 + z /\ s8' = s8 + z /\ count' = count - z
      /\ was' = was /\ call' = call /\ shift' = shift /\ at' = at /\ lo' = Kept(n)
      /\ DOMAIN mem' = Addresses
  BY DEF Together, z
<1>6. ASSUME NEW a \in Addresses
      PROVE  mem'[a] = IF a \in d8 .. d8 + z - 1 THEN was[s8 + (a - d8)] ELSE mem[a]
  <2>1. CASE a \in d8 .. d8 + z - 1
    <3> DEFINE j == a - d8
    <3>1. j \in Nat /\ j < count
      BY <1>1, <1>3, <1>4, <2>1, Bounds DEF IInv, Addresses
    <3> HIDE DEF j
    <3>2. mem'[a] = IF j < Word - shift THEN lo[shift + j] ELSE mem[s8 + j]
      BY <2>1 DEF Together, z, j
    <3>3. mem[s8 + j] = was[s8 + j]
      BY <1>2, <3>1, Ahead
    <3>4. j < Word - shift => lo[shift + j] = was[s8 + j]
      BY <1>2, <3>1 DEF IInv, KeptOK
    <3>5. mem'[a] = was[s8 + j]
      BY <3>2, <3>3, <3>4
    <3> QED
      BY <2>1, <3>5 DEF j
  <2>2. CASE a \notin d8 .. d8 + z - 1
    BY <2>2 DEF Together, z
  <2> QED
    BY <2>1, <2>2
<1>7. KeptOK'
  <2>1. SUFFICES ASSUME NEW j \in 0 .. Word - shift - 1, j < count - z
                 PROVE  lo'[shift + j] = was[s8 + z + j]
    BY <1>2, <1>5 DEF KeptOK
  <2>2. shift + j \in 0 .. Word - 1 /\ s8 - shift + z + (shift + j) = s8 + (z + j)
    BY <1>1, <1>2, <1>4
  <2>3. z + j \in Nat /\ z + j < count /\ s8 + z + j = s8 + (z + j)
    BY <1>1, <1>4, <2>1, Bounds DEF IInv
  <2>4. mem[s8 + (z + j)] = was[s8 + (z + j)]
    BY <1>2, <2>3, Ahead
  <2>5. lo'[shift + j] = mem[s8 - shift + z + (shift + j)]
    BY <1>5, <2>2 DEF Kept, z
  <2> QED
    BY <2>2, <2>3, <2>4, <2>5
<1> QED
  BY <1>1, <1>2, <1>3, <1>5, <1>6, <1>7, UpStep

LEMMA WideKeeps == ASSUME IInv, WideLoop PROVE IInv'
<1>1. at = "wide"
  BY DEF WideLoop
<1> QED
  BY <1>1, UpKeeps, GotoKeeps, Bounds DEF WideLoop, Unaligned, IInv

LEMMA WordKeeps == ASSUME IInv, WordLoop PROVE IInv'
<1>1. at = "words"
  BY DEF WordLoop
<1> QED
  BY <1>1, UpKeeps, GotoKeeps, Bounds DEF WordLoop, IInv

LEMMA ShiftedKeeps == ASSUME IInv, ShiftedLoop PROVE IInv'
<1>1. at = "shifted" /\ Batches \subseteq Nat \ {0}
  BY BatchesAssumption DEF ShiftedLoop, Batches
<1> QED
  BY <1>1, TogetherKeeps, GotoKeeps DEF ShiftedLoop

LEMMA ByteKeeps == ASSUME IInv, ByteLoop PROVE IInv'
<1>1. at = "bytes"
  BY DEF ByteLoop
<1> QED
  BY <1>1, UpKeeps, LastGoto, Bounds DEF ByteLoop, IInv

LEMMA BackKeeps == ASSUME IInv, BackLead \/ BackLoop PROVE IInv'
<1>1. Backwards
  BY DEF BackLead, BackLoop, Backwards
<1>2. CASE BackLead
  BY <1>1, <1>2, DownKeeps, GotoKeeps, Bounds DEF BackLead, Unaligned, IInv
<1>3. CASE at = "backwords" /\ BackLoop
  BY <1>1, <1>3, DownKeeps, GotoKeeps, Bounds DEF BackLoop, IInv
<1>4. CASE at = "backshifted" /\ BackLoop
  <2>1. ASSUME NEW n \in MoveBatches, count >= n * Word, Down(n * Word) PROVE IInv'
    <3>1. n \in Nat /\ n * Word \in Nat
      BY BatchesAssumption
    <3> QED
      BY <1>1, <2>1, <3>1, DownKeeps, Bounds DEF IInv
  <2> QED
    BY <1>4, <2>1, GotoKeeps DEF BackLoop
<1>5. CASE at = "backbytes" /\ BackLoop
  BY <1>1, <1>5, DownKeeps, LastGoto, Bounds DEF BackLoop, IInv
<1> QED
  BY <1>2, <1>3, <1>4, <1>5 DEF BackLoop

-----------------------------------------------------------------------------
Inv == IInv /\ StartOK

LEMMA InvInit == Init => Inv
<1> SUFFICES ASSUME Init PROVE Inv
  OBVIOUS
<1>1. at = "start" /\ count = call.count /\ call \in Calls /\ Permitted(call) /\ mem = was
  BY DEF Init
<1>2. DOMAIN mem = Addresses
  BY ContentsAssumption DEF Init
<1>3. call.count \in Nat /\ call.dest \in Nat /\ call.src \in Nat
  BY <1>1 DEF Calls, Addresses
<1>4. TypeOK
  BY <1>1, <1>2, <1>3 DEF Init, TypeOK, Loops, Backwards
<1>5. Written = {}
  BY <1>1, <1>3, Bounds, <1>4 DEF Written, Backwards
<1> QED
  BY <1>1, <1>4, <1>5 DEF Inv, IInv, StartOK, Directed, KeptOK, Progress, Moved, Backwards

LEMMA InvNext == Inv /\ [Next]_vars => Inv'
<1> SUFFICES ASSUME Inv, [Next]_vars PROVE Inv'
  OBVIOUS
<1>1. CASE Next
  <2>1. IInv'
    BY <1>1, StartKeeps, WideKeeps, LeadKeeps, WordKeeps, ShiftedKeeps, ByteKeeps, BackKeeps
       DEF Next, Inv
  <2>2. StartOK'
    BY <1>1 DEF Next, StartOK, Start, WideLoop, Lead, WordLoop, ShiftedLoop, ByteLoop,
                BackLead, BackLoop, Up, Down, Together, Goto
  <2> QED
    BY <2>1, <2>2 DEF Inv
<1>2. CASE UNCHANGED vars
  BY <1>2 DEF vars, Inv, IInv, TypeOK, Directed, KeptOK, Progress, Written, Moved, Expected,
              Backwards, StartOK
<1> QED
  BY <1>1, <1>2

\* Pointers and count of memcpy and memmove agree in every loop, for words and
\* batches of any size.
THEOREM LoopsAgree == Spec => []TypeOK
<1>1. Inv => TypeOK
  BY DEF Inv, IInv
<1> QED
  BY <1>1, InvInit, InvNext, PTL DEF Spec

\* memcpy and memmove move what the source held when they were called, for any
\* overlap memmove is given, any alignment and any length.
THEOREM MovesSource == Spec => []Moved
<1>1. Inv => Moved
  BY DEF Inv, IInv
<1> QED
  BY <1>1, InvInit, InvNext, PTL DEF Spec
-----------------------------------------------------------------------------
\* The other functions of memory.c, for any words, any thresholds of the search
\* and any questions (MemWords!IsQuestion).

CONSTANTS Quad, Far, Least, Questions
VARIABLES l, r, val, out

W == INSTANCE MemWords

Fills == call.op \in {"memset", "memset32"}

\* Byte j of a value that is written over and over.
Over(v, j) == v[(j % Len(v)) + 1]

\* What lies before the pointer is written, and the value has turned as far.
FillOK ==
  /\ DOMAIN mem = DOMAIN was /\ val \in Seq(Int) /\ Len(val) = Len(call.val)
  /\ count \in 0 .. call.count /\ l = call.dest + (call.count - count)
  /\ \A a \in DOMAIN mem :
       mem[a] = IF a \in call.dest .. l - 1 THEN Over(call.val, a - call.dest) ELSE was[a]
  /\ \A i \in 1 .. Len(val) : val[i] = Over(call.val, i - 1 + (l - call.dest))
  /\ at \in {"memset", "memset32", "wides", "rest", "done"}
  /\ at = "done" => count = 0

\* The byte that one changes places with.
Mirrored(a) == 2 * call.dest + call.count - 1 - a

\* What lies outside the two pointers is turned around.
ReverseOK ==
  /\ DOMAIN mem = DOMAIN was
  /\ l \in Int /\ r \in Int /\ l + r = 2 * call.dest + call.count - 1
  /\ call.dest <= l /\ l <= r + 1
  /\ \A a \in DOMAIN mem :
       mem[a] = IF W!Inside(a) /\ a \notin l .. r
                THEN was[Mirrored(a)] ELSE was[a]
  /\ at \in {"memreverse", "leadwide", "lead", "bywide", "words", "byword", "done"}
  /\ at = "done" => r <= l

\* What has been passed is the same on both sides.
CompareOK ==
  /\ mem = was /\ at \in {"memcmp", "done"}
  /\ at = "memcmp" =>
       /\ count \in 0 .. call.count
       /\ l = call.dest + (call.count - count) /\ r = call.src + (call.count - count)
       /\ \A i \in 0 .. call.count - count - 1 : was[call.dest + i] = was[call.src + i]

\* The needle lies at no place that has been passed, skipped ones included.
SearchOK ==
  /\ mem = was /\ at \in {"memmem", "done"}
  /\ at = "memmem" =>
       l \in Int /\ call.dest <= l /\ \A p \in W!Places : p >= l - call.dest

WordsOK ==
  /\ W!IsQuestion([mem |-> was, call |-> call])
  /\ Fills => FillOK
  /\ call.op = "memreverse" => ReverseOK
  /\ call.op = "memcmp" => CompareOK
  /\ call.op = "memmem" => SearchOK
  /\ at = "done" => out = W!Answer

LEMMA CallIs ==
  ASSUME WordsOK
  PROVE  /\ call.op \in {"memset", "memset32", "memreverse", "memcmp", "memmem"}
         /\ call.dest \in Nat /\ call.src \in Nat /\ call.count \in Nat
         /\ call.length \in Nat
         /\ Fills => call.val \in Seq(Int) /\ Len(call.val) \in Nat \ {0}
         /\ call.op = "memreverse" =>
              call.dest .. call.dest + call.count - 1 \subseteq DOMAIN was
<1>1. /\ call.op \in {"memset", "memset32", "memreverse", "memcmp", "memmem"}
      /\ call.dest \in Nat /\ call.src \in Nat /\ call.count \in Nat
      /\ call.length \in Nat
      /\ Fills => call.val \in Seq(Int) /\ call.val # <<>>
      /\ call.op = "memreverse" =>
           call.dest .. call.dest + call.count - 1 \subseteq DOMAIN was
  BY DEF WordsOK, W!IsQuestion, Fills
<1>2. Fills => Len(call.val) \in Nat \ {0}
  BY <1>1, EmptySeq, LenProperties
<1> QED
  BY <1>1, <1>2

LEMMA MirrorStays ==
  ASSUME call' = call
  PROVE  \A a : Mirrored(a)' = Mirrored(a)
BY DEF Mirrored

\* Only memcmp and memmem answer.
LEMMA NoAnswer ==
  ASSUME Fills \/ call.op = "memreverse"
  PROVE  W!Answer = <<>>
BY DEF W!Answer, Fills

-----------------------------------------------------------------------------
\* The least and the greatest of a set of numbers.

LEMMA FirstOfIs ==
  ASSUME NEW S \in SUBSET Nat, S # {}
  PROVE  W!FirstOf(S) \in S /\ \A y \in S : W!FirstOf(S) <= y
<1> DEFINE R == OpToRel(<, Nat)
<1>1. IsWellFoundedOn(R, Nat)
  BY NatLessThanWellFounded
<1>2. \A x, y \in Nat : <<y, x>> \in R <=> y < x
  BY DEF OpToRel
<1> HIDE DEF R
<1>3. PICK x \in S : \A y \in S : ~(<<y, x>> \in R)
  BY <1>1, WFMin
<1>4. ASSUME NEW y \in S PROVE x <= y
  <2>1. x \in Nat /\ y \in Nat /\ ~(<<y, x>> \in R)
    BY <1>3
  <2>2. ~(y < x)
    BY <1>2, <2>1
  <2> QED
    BY <2>1, <2>2
<1> QED
  BY <1>4 DEF W!FirstOf

LEMMA FirstOfIsThe ==
  ASSUME NEW S \in SUBSET Nat, NEW x \in S, \A y \in S : x <= y
  PROVE  W!FirstOf(S) = x
<1> DEFINE t == W!FirstOf(S)
<1>1. t \in S /\ \A y \in S : t <= y
  BY FirstOfIs
<1> HIDE DEF t
<1>2. t \in Nat /\ x \in Nat /\ t <= x /\ x <= t
  BY <1>1
<1>3. t = x
  BY <1>2
<1> QED
  BY <1>3 DEF t

LEMMA LastOfIs ==
  ASSUME NEW n \in Nat, NEW S \in SUBSET (0 .. n), S # {}
  PROVE  W!LastOf(S) \in S /\ \A y \in S : W!LastOf(S) >= y
<1> DEFINE T == {n - x : x \in S}
           t == W!FirstOf(T)
<1>1. T \in SUBSET Nat /\ T # {}
  <2>1. \A x \in S : n - x \in Nat
    OBVIOUS
  <2> QED
    BY <2>1
<1>2. \A y \in S : n - y \in T
  OBVIOUS
<1>3. \A z \in T : \E x \in S : z = n - x
  OBVIOUS
<1> HIDE DEF T
<1>4. t \in T /\ \A z \in T : t <= z
  BY <1>1, FirstOfIs
<1> HIDE DEF t
<1>5. PICK x \in S : t = n - x
  BY <1>3, <1>4
<1>6. \A y \in S : x >= y
  BY <1>2, <1>4, <1>5
<1> QED
  BY <1>6 DEF W!LastOf

\* Remainders.
LEMMA Quotient ==
  ASSUME NEW a \in Nat, NEW n \in Nat \ {0}
  PROVE  \E d \in Nat, x \in 0 .. n - 1 : a = n * d + x /\ a % n = x
OBVIOUS

LEMMA Remainder ==
  ASSUME NEW n \in Nat \ {0}, NEW d \in Nat, NEW x \in 0 .. n - 1
  PROVE  (n * d + x) % n = x
OBVIOUS

LEMMA Small ==
  ASSUME NEW n \in Nat \ {0}, NEW x \in 0 .. n - 1
  PROVE  x % n = x
OBVIOUS

\* What both ends of a range agree on.
LEMMA Middle ==
  ASSUME NEW x \in Int, NEW y \in Int, y <= x, NEW i \in x .. y, NEW m \in Int,
         x + y = m
  PROVE  m - i = i
OBVIOUS

LEMMA TurnsAdd ==
  ASSUME NEW a \in Nat, NEW b \in Nat, NEW n \in Nat \ {0}
  PROVE  ((a % n) + b) % n = (a + b) % n /\ a % n \in 0 .. n - 1
<1>1. PICK d \in Nat, x \in 0 .. n - 1 : a = n * d + x /\ a % n = x
  BY Quotient
<1>2. PICK e \in Nat, y \in 0 .. n - 1 : x + b = n * e + y /\ (x + b) % n = y
  <2>1. x + b \in Nat
    OBVIOUS
  <2> QED
    BY <2>1, Quotient
<1>3. a + b = n * (d + e) + y /\ d + e \in Nat
  BY <1>1, <1>2
<1>4. (a + b) % n = y
  BY <1>3, Remainder
<1> QED
  BY <1>1, <1>2, <1>4

-----------------------------------------------------------------------------
\* The fills.

LEMMA PutKeeps ==
  ASSUME WordsOK, Fills, at # "done", NEW z \in Nat \ {0}, z <= count, W!Put(z),
         UNCHANGED <<was, call>>
  PROVE  WordsOK'
<1> DEFINE v == call.val
           n == Len(v)
           k == l - call.dest
<1>1. /\ DOMAIN mem = DOMAIN was /\ val \in Seq(Int) /\ Len(val) = n
      /\ count \in 0 .. call.count /\ l = call.dest + (call.count - count)
      /\ \A a \in DOMAIN mem :
           mem[a] = IF a \in call.dest .. l - 1 THEN Over(v, a - call.dest) ELSE was[a]
      /\ \A i \in 1 .. n : val[i] = Over(v, i - 1 + k)
      /\ at \in {"memset", "memset32", "wides", "rest", "done"}
  BY DEF WordsOK, FillOK
<1>2. /\ call.dest \in Nat /\ call.count \in Nat /\ v \in Seq(Int) /\ n \in Nat \ {0}
  BY CallIs
<1>3. k \in Nat /\ count \in Nat /\ l \in Nat /\ z \in Nat /\ l = call.dest + k
  BY <1>1, <1>2
<1>4. DOMAIN val = 1 .. n
  BY <1>1, LenProperties
<1> HIDE DEF n, v, k
<1>5. ASSUME NEW j \in Nat
      PROVE  /\ (j % n) + 1 \in 1 .. n
             /\ val[(j % n) + 1] = Over(v, j + k)
  <2>1. j % n \in 0 .. n - 1 /\ ((j % n) + k) % n = (j + k) % n
    BY <1>2, <1>3, TurnsAdd
  <2> DEFINE i == (j % n) + 1
  <2>2. i \in 1 .. n /\ i - 1 = j % n
    BY <1>2, <2>1
  <2> HIDE DEF i
  <2>3. val[i] = Over(v, i - 1 + k)
    BY <1>1, <2>2
  <2>4. Over(v, i - 1 + k) = Over(v, j + k)
    BY <2>1, <2>2 DEF Over, n
  <2> QED
    BY <2>2, <2>3, <2>4 DEF i
<1>6. /\ mem' = [a \in DOMAIN mem |-> IF a \in l .. l + z - 1
                                      THEN val[((a - l) % n) + 1] ELSE mem[a]]
      /\ l' = l + z /\ count' = count - z
      /\ val' = [i \in 1 .. n |-> val[((i - 1 + z) % n) + 1]]
      /\ at' = at /\ was' = was /\ call' = call
  BY <1>1, <1>4 DEF W!Put, W!Turned
<1>7. l' = l + z /\ l' - 1 = call.dest + k + z - 1 /\ call.dest \in Nat
  <2>1. l' = l + z
    BY <1>6
  <2> QED
    BY <1>2, <1>3, <2>1
<1>8. ASSUME NEW a \in DOMAIN mem
      PROVE  mem'[a] = IF a \in call.dest .. l' - 1 THEN Over(v, a - call.dest) ELSE was[a]
  <2>1. CASE a \in l .. l + z - 1
    <3>1. a - l \in Nat /\ (a - l) + k = a - call.dest
          /\ a \in call.dest .. l' - 1
      BY <1>3, <1>7, <2>1
    <3>2. val[((a - l) % n) + 1] = Over(v, a - call.dest)
      BY <1>5, <3>1
    <3>3. mem'[a] = val[((a - l) % n) + 1]
      BY <1>6, <2>1
    <3> QED
      BY <3>1, <3>2, <3>3
  <2>2. CASE a \notin l .. l + z - 1
    <3>1. a \in call.dest .. l' - 1 <=> a \in call.dest .. l - 1
      BY <1>3, <1>7, <2>2
    <3>2. mem'[a] = mem[a]
      BY <1>6, <2>2
    <3> QED
      BY <1>1, <3>1, <3>2
  <2> QED
    BY <2>1, <2>2
<1>9. val' \in Seq(Int) /\ Len(val') = n
  <2>1. \A i \in 1 .. n : val[((i - 1 + z) % n) + 1] \in Int
    <3> SUFFICES ASSUME NEW i \in 1 .. n PROVE val[((i - 1 + z) % n) + 1] \in Int
      OBVIOUS
    <3>1. i - 1 + z \in Nat
      BY <1>3
    <3>2. ((i - 1 + z) % n) + 1 \in 1 .. n
      BY <1>5, <3>1
    <3> QED
      BY <1>1, <3>2, ElementOfSeq
  <2> QED
    <3>1. val' \in [1 .. n -> Int]
      BY <1>6, <2>1
    <3>2. val' \in Seq(Int)
      BY <1>2, <3>1, SeqDef
    <3>3. Len(val') \in Nat /\ 1 .. Len(val') = 1 .. n
      BY <3>1, <3>2, LenProperties
    <3>4. Len(val') = n
      BY <1>2, <3>3
    <3> QED
      BY <3>2, <3>4
<1>10. ASSUME NEW i \in 1 .. n
      PROVE  val'[i] = Over(v, i - 1 + (l' - call.dest))
  <2>1. i - 1 + z \in Nat /\ (i - 1 + z) + k = i - 1 + (l' - call.dest)
    BY <1>3, <1>7
  <2>2. val[((i - 1 + z) % n) + 1] = Over(v, i - 1 + (l' - call.dest))
    BY <1>5, <2>1
  <2>3. val'[i] = val[((i - 1 + z) % n) + 1]
    BY <1>6
  <2> QED
    BY <2>2, <2>3
<1>11. count' \in 0 .. call.count /\ l' = call.dest + (call.count - count')
  <2>1. count' = count - z /\ l' = l + z
    BY <1>6
  <2>2. count \in 0 .. call.count /\ l = call.dest + (call.count - count)
    BY <1>1
  <2> QED
    BY <1>2, <2>1, <2>2
<1>12. FillOK'
  <2>1. DOMAIN mem' = DOMAIN was'
    BY <1>1, <1>6
  <2> QED
    BY <1>1, <1>6, <1>8, <1>9, <1>10, <1>11, <2>1 DEF FillOK, v, n
<1> QED
  BY <1>6, <1>12 DEF WordsOK, Fills

LEMMA FillKeeps ==
  ASSUME Quad \in Nat \ {0}, WordsOK, W!Fill, UNCHANGED <<was, call>>
  PROVE  WordsOK'
<1>1. Fills /\ at # "done"
  <2>1. at \in {"memset", "memset32", "wides", "rest"}
    BY DEF W!Fill
  <2> QED
    BY <2>1, CallIs DEF WordsOK, Fills, ReverseOK, CompareOK, SearchOK
<1>2. count \in Nat
  BY <1>1, CallIs DEF WordsOK, FillOK
<1>3. ASSUME NEW x \in {"wides", "rest"}, W!Goto(x) PROVE WordsOK'
  <2>1. at' = x /\ mem' = mem /\ l' = l /\ count' = count /\ val' = val
        /\ was' = was /\ call' = call
    BY <1>3 DEF W!Goto
  <2>2. FillOK'
    BY <1>1, <2>1 DEF WordsOK, FillOK
  <2> QED
    BY <1>1, <2>1, <2>2 DEF WordsOK, Fills
<1>4. CASE at \in {"memset", "memset32"}
  <2>1. CASE count > 0 /\ W!Put(1)
    BY <1>1, <1>2, <2>1, PutKeeps
  <2>2. CASE W!Goto("wides")
    BY <1>3, <2>2
  <2> QED
    BY <1>4, <2>1, <2>2 DEF W!Fill
<1>5. CASE at = "wides"
  <2>1. CASE count >= Wide /\ W!Put(Wide)
    BY <1>1, <1>2, <2>1, PutKeeps
  <2>2. CASE W!Goto("rest")
    BY <1>3, <2>2
  <2> QED
    BY <1>5, <2>1, <2>2 DEF W!Fill
<1>6. CASE at = "rest"
  <2>1. ASSUME NEW z \in W!Least4, count >= z, W!Put(z)
        PROVE  WordsOK'
    <3>1. z \in Nat \ {0}
      BY <2>1 DEF W!Least4
    <3> QED
      BY <1>1, <1>2, <2>1, <3>1, PutKeeps
  <2>2. CASE count > 0 /\ W!Put(1)
    BY <1>1, <1>2, <2>2, PutKeeps
  <2>3. CASE count = 0 /\ W!Return(<<>>)
    <3>1. at' = "done" /\ out' = <<>> /\ mem' = mem /\ l' = l /\ count' = count /\ val' = val
          /\ was' = was /\ call' = call
      BY <2>3 DEF W!Return
    <3>2. FillOK'
      BY <1>1, <2>3, <3>1 DEF WordsOK, FillOK
    <3>3. W!Answer' = <<>>
      BY <1>1, <3>1 DEF W!Answer, Fills
    <3> QED
      BY <1>1, <3>1, <3>2, <3>3 DEF WordsOK, Fills
  <2> QED
    BY <1>6, <2>1, <2>2, <2>3 DEF W!Fill
<1> QED
  BY <1>4, <1>5, <1>6 DEF W!Fill

-----------------------------------------------------------------------------
\* Reversal.

LEMMA SwapKeeps ==
  ASSUME WordsOK, call.op = "memreverse", at # "done", NEW z \in Nat \ {0},
         r - l + 1 >= 2 * z, W!Swap(z), UNCHANGED <<was, call>>,
         at' \in {"memreverse", "leadwide", "lead", "bywide", "words", "byword"}
  PROVE  WordsOK'
<1> DEFINE d == call.dest
           n == call.count
<1>1. /\ DOMAIN mem = DOMAIN was
      /\ l \in Int /\ r \in Int /\ l + r = 2 * d + n - 1 /\ d <= l /\ l <= r + 1
      /\ \A a \in DOMAIN mem :
           mem[a] = IF a \in d .. d + n - 1 /\ a \notin l .. r THEN was[Mirrored(a)] ELSE was[a]
  BY DEF WordsOK, ReverseOK, W!Inside
<1>2. d \in Nat /\ n \in Nat /\ d .. d + n - 1 \subseteq DOMAIN mem
  BY <1>1, CallIs
<1>3. /\ mem' = [a \in DOMAIN mem |->
                   IF a \in (l .. l + z - 1) \cup (r - z + 1 .. r)
                   THEN mem[l + r - a] ELSE mem[a]]
      /\ l' = l + z /\ r' = r - z /\ was' = was /\ call' = call
  BY DEF W!Swap
<1> HIDE DEF d, n
<1>4. l' \in Int /\ r' \in Int /\ l' + r' = 2 * d + n - 1 /\ d <= l' /\ l' <= r' + 1
  BY <1>1, <1>2, <1>3
<1>5. ASSUME NEW a \in DOMAIN mem
      PROVE  mem'[a] = IF a \in d .. d + n - 1 /\ a \notin l' .. r'
                       THEN was[Mirrored(a)] ELSE was[a]
  <2>1. CASE a \in (l .. l + z - 1) \cup (r - z + 1 .. r)
    <3>1. Mirrored(a) = 2 * d + n - 1 - a
      BY DEF Mirrored, d, n
    <3>2. /\ Mirrored(a) \in l .. r /\ Mirrored(a) = l + r - a
          /\ a \in d .. d + n - 1 /\ a \notin l' .. r'
          /\ Mirrored(a) \in d .. d + n - 1
      BY <1>1, <1>2, <1>3, <2>1, <3>1
    <3>3. mem[Mirrored(a)] = was[Mirrored(a)]
      BY <1>1, <1>2, <3>2
    <3> QED
      BY <1>3, <2>1, <3>2, <3>3
  <2>2. CASE a \notin (l .. l + z - 1) \cup (r - z + 1 .. r)
    <3>1. a \in l' .. r' <=> a \in l .. r
      BY <1>1, <1>3, <2>2
    <3> QED
      BY <1>1, <1>3, <2>2, <3>1
  <2> QED
    BY <2>1, <2>2
<1>6. ReverseOK'
  <2>1. \A a : Mirrored(a)' = Mirrored(a)
    BY <1>3, MirrorStays
  <2> QED
    BY <1>1, <1>3, <1>4, <1>5, <2>1 DEF ReverseOK, W!Inside, d, n
<1> QED
  BY <1>3, <1>6 DEF WordsOK, Fills

LEMMA ReverseKeeps ==
  ASSUME WordsOK, W!Reverse, UNCHANGED <<was, call>>
  PROVE  WordsOK'
<1>1. call.op = "memreverse" /\ at # "done"
  <2>1. at \in {"memreverse", "leadwide", "lead", "bywide", "words", "byword"}
    BY DEF W!Reverse
  <2> QED
    BY <2>1, CallIs DEF WordsOK, Fills, FillOK, CompareOK, SearchOK
<1>2. l \in Int /\ r \in Int
  BY <1>1 DEF WordsOK, ReverseOK
<1>3. ASSUME at' \in {"memreverse", "leadwide", "lead", "bywide", "words", "byword"},
             mem' = mem, l' = l, r' = r
      PROVE  WordsOK'
  <2>1. ReverseOK'
    BY <1>1, <1>3, MirrorStays DEF WordsOK, ReverseOK, W!Inside
  <2> QED
    BY <1>1, <1>3, <2>1 DEF WordsOK, Fills
<1>4. ASSUME r <= l, W!Return(<<>>)
      PROVE  WordsOK'
  <2>1. at' = "done" /\ out' = <<>> /\ mem' = mem /\ l' = l /\ r' = r
    BY <1>4 DEF W!Return
  <2>2. ReverseOK'
    BY <1>1, <1>4, <2>1, MirrorStays DEF WordsOK, ReverseOK, W!Inside
  <2>3. W!Answer' = <<>>
    BY <1>1 DEF W!Answer
  <2> QED
    BY <1>1, <2>1, <2>2, <2>3 DEF WordsOK, Fills
<1>5. ASSUME NEW z \in Nat \ {0}, r - l + 1 >= 2 * z, W!Swap(z),
             at' \in {"memreverse", "leadwide", "lead", "bywide", "words", "byword"}
      PROVE  WordsOK'
  BY <1>1, <1>5, SwapKeeps
<1>6. CASE at = "memreverse"
  <2>1. CASE W!Left <= 1 /\ W!Return(<<>>)
    BY <1>2, <1>4, <2>1 DEF W!Left
  <2>2. CASE at' = "leadwide" /\ UNCHANGED <<mem, l, r>>
    BY <1>3, <2>2
  <2>3. CASE W!Goto("words")
    BY <1>3, <2>3 DEF W!Goto
  <2> QED
    BY <1>6, <2>1, <2>2, <2>3 DEF W!Reverse
<1>7. CASE at \in {"leadwide", "lead"}
  <2>1. CASE l < r /\ W!Swap(1) /\ at' = at
    BY <1>2, <1>5, <1>7, <2>1
  <2>2. CASE W!Goto(IF at = "lead" THEN "byword" ELSE "bywide")
    BY <1>3, <2>2 DEF W!Goto
  <2> QED
    BY <1>7, <2>1, <2>2 DEF W!Reverse
<1>8. CASE at = "bywide"
  <2>1. CASE W!Enough(Wide) /\ W!Swap(Wide) /\ at' = at
    BY <1>5, <1>8, <2>1 DEF W!Enough, W!Left
  <2>2. CASE W!Goto("words")
    BY <1>3, <2>2 DEF W!Goto
  <2> QED
    BY <1>8, <2>1, <2>2 DEF W!Reverse
<1>9. CASE at = "words"
  BY <1>3, <1>9 DEF W!Reverse
<1>10. CASE at = "byword"
  <2>1. CASE W!Enough(2 * Word) /\ W!Swap(2 * Word) /\ at' = at
    <3>1. 2 * Word \in Nat \ {0}
      OBVIOUS
    <3> QED
      BY <1>5, <1>10, <2>1, <3>1 DEF W!Enough, W!Left
  <2>2. CASE W!Enough(Word) /\ W!Swap(Word) /\ at' = at
    BY <1>5, <1>10, <2>2 DEF W!Enough, W!Left
  <2>3. CASE l < r /\ W!Swap(1) /\ at' = at
    BY <1>2, <1>5, <1>10, <2>3
  <2>4. CASE ~(l < r) /\ W!Return(<<>>)
    BY <1>2, <1>4, <2>4
  <2> QED
    BY <1>10, <2>1, <2>2, <2>3, <2>4 DEF W!Reverse
<1> QED
  BY <1>6, <1>7, <1>8, <1>9, <1>10 DEF W!Reverse

-----------------------------------------------------------------------------
\* Comparison.

LEMMA CompareStep ==
  ASSUME WordsOK, at = "memcmp", NEW z \in Nat \ {0}, z <= count, W!Compare(z),
         UNCHANGED <<was, call>>
  PROVE  WordsOK'
<1>0. call.op = "memcmp"
  BY CallIs DEF WordsOK, Fills, FillOK, ReverseOK, SearchOK
<1> DEFINE k == call.count - count
<1>1. /\ mem = was /\ count \in 0 .. call.count
      /\ l = call.dest + k /\ r = call.src + k
      /\ \A i \in 0 .. k - 1 : was[call.dest + i] = was[call.src + i]
  BY <1>0 DEF WordsOK, CompareOK
<1>2. call.dest \in Nat /\ call.src \in Nat /\ call.count \in Nat
  BY CallIs
<1>3. k \in Nat /\ count = call.count - k /\ count \in Nat
  BY <1>1, <1>2
<1> HIDE DEF k
<1>4. \A i \in Nat : l + i = call.dest + (k + i) /\ r + i = call.src + (k + i)
  BY <1>1, <1>2, <1>3
<1>5. CASE W!Differ(z) = {}
  <2>1. /\ l' = l + z /\ r' = r + z /\ count' = count - z /\ mem' = mem /\ at' = at
        /\ was' = was /\ call' = call
    BY <1>5 DEF W!Compare
  <2>2. \A i \in 0 .. z - 1 : mem[l + i] = mem[r + i]
    BY <1>5 DEF W!Differ
  <2>3. ASSUME NEW i \in 0 .. k + z - 1
        PROVE  was[call.dest + i] = was[call.src + i]
    <3>1. CASE i < k
      BY <1>1, <1>3, <3>1
    <3>2. CASE i >= k
      <4>1. i - k \in 0 .. z - 1 /\ i - k \in Nat /\ k + (i - k) = i
        BY <1>3, <3>2
      <4>2. mem[l + (i - k)] = mem[r + (i - k)]
        BY <2>2, <4>1
      <4> QED
        BY <1>1, <1>4, <4>1, <4>2
    <3> QED
      BY <1>3, <3>1, <3>2
  <2>4. CompareOK'
    <3>1. call.count - count' = k + z /\ count' \in 0 .. call.count
          /\ l' = call.dest + (call.count - count') /\ r' = call.src + (call.count - count')
      <4>1. l' = l + z /\ r' = r + z /\ count' = count - z
        BY <2>1
      <4>2. l = call.dest + k /\ r = call.src + k
        BY <1>1
      <4> QED
        BY <1>2, <1>3, <4>1, <4>2
    <3>2. \A i \in 0 .. call.count - count' - 1 : was[call.dest + i] = was[call.src + i]
      <4>1. call.count - count' - 1 = k + z - 1
        <5>1. call.count - count' = k + z
          BY <3>1
        <5> QED
          BY <1>3, <5>1
      <4> QED
        BY <2>3, <4>1
    <3> QED
      BY <1>1, <2>1, <3>1, <3>2 DEF CompareOK
  <2> QED
    BY <1>0, <2>1, <2>4 DEF WordsOK, Fills
<1>6. CASE W!Differ(z) # {}
  <2> DEFINE i == W!FirstOf(W!Differ(z))
  <2>1. /\ at' = "done" /\ out' = <<mem[l + i] - mem[r + i]>> /\ mem' = mem
        /\ was' = was /\ call' = call
    BY <1>6 DEF W!Compare, W!Return
  <2>2. W!Differ(z) \in SUBSET Nat /\ W!Differ(z) \subseteq 0 .. z - 1
    BY DEF W!Differ
  <2>3. /\ i \in 0 .. z - 1 /\ mem[l + i] # mem[r + i]
        /\ \A j \in W!Differ(z) : i <= j
    BY <1>6, <2>2, FirstOfIs DEF W!Differ
  <2> HIDE DEF i
  <2>4. k + i \in W!Unlike
    <3>1. k + i \in 0 .. call.count - 1
      BY <1>2, <1>3, <2>3
    <3>2. i \in Nat
      BY <2>3
    <3> QED
      BY <1>1, <1>4, <2>3, <3>1, <3>2 DEF W!Unlike
  <2>5. ASSUME NEW j \in W!Unlike PROVE k + i <= j
    <3>1. j \in 0 .. call.count - 1 /\ was[call.dest + j] # was[call.src + j]
      BY DEF W!Unlike
    <3>2. j >= k
      BY <1>1, <1>3, <3>1
    <3>3. CASE j >= k + z
      BY <1>3, <2>3, <3>1, <3>3
    <3>4. CASE j < k + z
      <4>1. j - k \in 0 .. z - 1 /\ j - k \in Nat /\ k + (j - k) = j
        BY <1>3, <3>1, <3>2, <3>4
      <4>2. j - k \in W!Differ(z)
        BY <1>1, <1>4, <3>1, <4>1 DEF W!Differ
      <4>3. i <= j - k
        BY <2>3, <4>2
      <4> QED
        BY <1>3, <2>3, <3>1, <4>3
    <3> QED
      BY <1>3, <3>1, <3>3, <3>4
  <2>6. W!FirstOf(W!Unlike) = k + i
    <3>1. W!Unlike \in SUBSET Nat
      BY DEF W!Unlike
    <3> QED
      BY <2>4, <2>5, <3>1, FirstOfIsThe
  <2>7. W!Answer' = <<mem[l + i] - mem[r + i]>>
    <3>1. W!Answer = <<was[call.dest + (k + i)] - was[call.src + (k + i)]>>
      BY <1>0, <2>4, <2>6 DEF W!Answer
    <3>2. W!Answer' = W!Answer
      BY <2>1 DEF W!Answer, W!Unlike, W!Places, W!Last, W!Needle
    <3>3. i \in Nat
      BY <2>3
    <3> QED
      BY <1>1, <1>4, <3>1, <3>2, <3>3
  <2>8. CompareOK'
    BY <1>1, <2>1 DEF CompareOK
  <2> QED
    BY <1>0, <2>1, <2>7, <2>8 DEF WordsOK, Fills
<1> QED
  BY <1>5, <1>6

LEMMA CompareKeeps ==
  ASSUME WordsOK, W!memcmp, UNCHANGED <<was, call>>
  PROVE  WordsOK'
<1>1. at = "memcmp" /\ call.op = "memcmp"
  BY CallIs DEF W!memcmp, WordsOK, Fills, FillOK, ReverseOK, SearchOK
<1>2. /\ mem = was /\ count \in Nat /\ call.count \in Nat
      /\ \A i \in 0 .. call.count - count - 1 : was[call.dest + i] = was[call.src + i]
  BY <1>1, CallIs DEF WordsOK, CompareOK
<1>3. CASE count = 0 /\ W!Return(<<0>>)
  <2>1. at' = "done" /\ out' = <<0>> /\ mem' = mem /\ was' = was /\ call' = call
    BY <1>3 DEF W!Return
  <2>2. W!Unlike = {}
    <3>1. call.count - count - 1 = call.count - 1
      BY <1>2, <1>3
    <3> QED
      BY <1>2, <3>1 DEF W!Unlike
  <2>3. W!Answer' = <<0>>
    BY <1>1, <2>1, <2>2 DEF W!Answer, W!Unlike
  <2>4. CompareOK'
    BY <1>2, <2>1 DEF CompareOK
  <2> QED
    BY <1>1, <2>1, <2>3, <2>4 DEF WordsOK, Fills
<1>4. CASE count > 0 /\ W!Compare(1)
  BY <1>1, <1>2, <1>4, CompareStep
<1>5. CASE count >= W!Common /\ W!Compare(W!Common)
  <2>1. W!Common \in Nat \ {0}
    <3>1. W!Common = IF l % Wide = r % Wide THEN Wide
                     ELSE IF l % Word = r % Word THEN Word ELSE 1
      BY DEF W!Common
    <3> QED
      BY <3>1
  <2> QED
    BY <1>1, <1>2, <1>5, <2>1, CompareStep
<1> QED
  BY <1>3, <1>4, <1>5 DEF W!memcmp

-----------------------------------------------------------------------------
\* Search.  A place that is skipped cannot hold the needle: its byte under the last
\* one of the window would be a copy of it nearer to the end than the last one.

LEMMA StrideIsSafe ==
  ASSUME WordsOK, call.op = "memmem", at = "memmem", call.length > 0,
         ~W!Matches
  PROVE  /\ W!Stride \in Nat \ {0}
         /\ \A p \in W!Places : p >= (l - call.dest) + W!Stride
<1> DEFINE n == call.length
           k == l - call.dest
           c == mem[l + n - 1]
<1>1. /\ mem = was /\ l \in Int /\ call.dest <= l /\ \A p \in W!Places : p >= k
  BY DEF WordsOK, SearchOK
<1>2. call.dest \in Nat /\ call.count \in Nat /\ n \in Nat \ {0} /\ k \in Nat
      /\ l = call.dest + k
  BY <1>1, CallIs
<1> HIDE DEF n, k
<1>3. ASSUME NEW p \in W!Places
      PROVE  p \in Nat /\ \A i \in 0 .. n - 1 : was[call.dest + p + i] = W!Needle(i)
  BY DEF W!Places, n
<1>4. ASSUME NEW p \in W!Places PROVE p # k
  <2>1. SUFFICES ASSUME p = k PROVE FALSE
    OBVIOUS
  <2>2. \A i \in 0 .. n - 1 : mem[l + i] = W!Needle(i)
    BY <1>1, <1>2, <1>3, <2>1
  <2> QED
    BY <2>2 DEF W!Matches, n
<1>5. \A p \in W!Places : p >= k + 1
  BY <1>1, <1>2, <1>3, <1>4
<1>6. CASE ~W!Skips
  BY <1>5, <1>6 DEF W!Stride, k
<1>7. CASE W!Skips
  <2> DEFINE C == W!Copies(c)
  <2>1. W!Stride = IF C = {} THEN n ELSE n - 1 - W!LastOf(C)
    BY <1>7 DEF W!Stride, W!Skip, n
  <2>2. C = {i \in 0 .. n - 2 : W!Needle(i) = c}
    BY DEF W!Copies, n
  <2> HIDE DEF c
  <2>3. ASSUME C # {}
        PROVE  W!LastOf(C) \in 0 .. n - 2 /\ \A j \in C : W!LastOf(C) >= j
    <3>1. n - 2 \in Nat
      BY <1>2, <2>2, <2>3
    <3>2. C \in SUBSET (0 .. n - 2)
      BY <2>2
    <3> HIDE DEF C
    <3> QED
      BY <2>3, <3>1, <3>2, LastOfIs
  <2>4. W!Stride \in Nat \ {0}
    BY <1>2, <2>1, <2>3
  <2>5. ASSUME NEW p \in W!Places PROVE p >= k + W!Stride
    <3>1. SUFFICES ASSUME p < k + W!Stride PROVE FALSE
      BY <1>2, <1>3, <2>4
    <3>2. p \in Nat /\ p >= k + 1
      BY <1>3, <1>5
    <3>3. W!Stride <= n
      BY <1>2, <2>1, <2>3
    <3> DEFINE j == n - 1 - (p - k)
    <3>4. j \in 0 .. n - 2 /\ j \in 0 .. n - 1 /\ call.dest + p + j = l + n - 1
      BY <1>2, <2>4, <3>1, <3>2, <3>3
    <3>5. W!Needle(j) = c
      BY <1>1, <1>3, <3>4 DEF c
    <3>6. j \in C
      BY <2>2, <3>4, <3>5
    <3>7. W!LastOf(C) >= j /\ W!Stride = n - 1 - W!LastOf(C) /\ W!LastOf(C) \in Int
      BY <2>1, <2>3, <3>6
    <3> HIDE DEF C
    <3> QED
      BY <1>2, <3>1, <3>2, <3>7
  <2> QED
    BY <2>4, <2>5 DEF k
<1> QED
  BY <1>6, <1>7

LEMMA SearchKeeps ==
  ASSUME WordsOK, W!memmem, UNCHANGED <<was, call>>
  PROVE  WordsOK'
<1>1. at = "memmem" /\ call.op = "memmem"
  BY CallIs DEF W!memmem, WordsOK, Fills, FillOK, ReverseOK, CompareOK
<1>2. /\ mem = was /\ l \in Int /\ call.dest <= l
      /\ \A p \in W!Places : p >= l - call.dest
  BY <1>1 DEF WordsOK, SearchOK
<1>3. /\ call.dest \in Nat /\ call.count \in Nat /\ call.length \in Nat
      /\ W!Places \in SUBSET Nat
  BY CallIs DEF W!Places
<1>4. ASSUME NEW x, W!Return(x), W!Answer = x
      PROVE  WordsOK'
  <2>1. at' = "done" /\ out' = x /\ mem' = mem /\ was' = was /\ call' = call
    BY <1>4 DEF W!Return
  <2>2. W!Answer' = W!Answer
    BY <2>1 DEF W!Answer, W!Unlike, W!Places, W!Last, W!Needle
  <2>3. SearchOK'
    BY <1>2, <2>1 DEF SearchOK
  <2> QED
    BY <1>1, <1>4, <2>1, <2>2, <2>3 DEF WordsOK, Fills
<1>5. CASE call.length = 0 /\ W!Return(<<0>>)
  <2>1. 0 \in W!Places
    BY <1>3, <1>5 DEF W!Places, W!Last
  <2>2. W!FirstOf(W!Places) = 0
    <3>1. \A y \in W!Places : 0 <= y
      BY <1>3
    <3> QED
      BY <1>3, <2>1, <3>1, FirstOfIsThe
  <2>3. W!Answer = <<0>>
    BY <1>1, <2>1, <2>2 DEF W!Answer
  <2> QED
    BY <1>4, <1>5, <2>3
<1>6. CASE l - call.dest > W!Last /\ W!Return(<<>>)
  <2>1. \A p \in W!Places : p <= W!Last /\ W!Last \in Int
    BY <1>3 DEF W!Places, W!Last
  <2>2. W!Places = {}
    BY <1>2, <1>3, <1>6, <2>1
  <2>3. W!Answer = <<>>
    BY <1>1, <2>2 DEF W!Answer
  <2> QED
    BY <1>4, <1>6, <2>3
<1>7. CASE l - call.dest <= W!Last /\ W!Matches /\ W!Return(<<l - call.dest>>)
  <2> DEFINE k == l - call.dest
  <2>1. k \in 0 .. W!Last /\ k \in Nat /\ l = call.dest + k
    BY <1>2, <1>3, <1>7 DEF W!Last
  <2> HIDE DEF k
  <2>2. k \in W!Places
    BY <1>2, <1>7, <2>1 DEF W!Places, W!Matches
  <2>3. W!FirstOf(W!Places) = k
    <3>1. \A y \in W!Places : k <= y
      BY <1>2, <1>3, <2>1 DEF k
    <3> QED
      BY <1>3, <2>2, <3>1, FirstOfIsThe
  <2>4. W!Answer = <<k>>
    BY <1>1, <2>2, <2>3 DEF W!Answer
  <2> QED
    BY <1>4, <1>7, <2>4 DEF k
<1>8. CASE /\ call.length > 0 /\ ~W!Matches /\ l' = l + W!Stride
           /\ UNCHANGED <<mem, r, count, val, at, out>>
  <2>1. /\ W!Stride \in Nat \ {0}
        /\ \A p \in W!Places : p >= (l - call.dest) + W!Stride
    BY <1>1, <1>8, StrideIsSafe
  <2> DEFINE s == W!Stride
  <2> HIDE DEF s
  <2>2. l' = l + s /\ s \in Nat \ {0} /\ \A p \in W!Places : p >= (l - call.dest) + s
    BY <1>8, <2>1 DEF s
  <2>3. l' \in Int /\ call.dest <= l' /\ l' - call.dest = (l - call.dest) + s
    BY <1>2, <1>3, <2>2
  <2>4. W!Places' = W!Places
    BY DEF W!Places, W!Last, W!Needle
  <2>5. SearchOK'
    BY <1>1, <1>2, <1>8, <2>2, <2>3, <2>4 DEF SearchOK
  <2> QED
    BY <1>1, <1>8, <2>5 DEF WordsOK, Fills
<1> QED
  BY <1>5, <1>6, <1>7, <1>8 DEF W!memmem

-----------------------------------------------------------------------------
LEMMA WordsInit ==
  ASSUME \A q \in Questions : W!IsQuestion(q), W!Init
  PROVE  WordsOK
<1>1. PICK q \in Questions :
        /\ mem = q.mem /\ was = q.mem /\ call = q.call
        /\ l = call.dest
        /\ r = IF call.op = "memreverse" THEN call.dest + call.count - 1 ELSE call.src
        /\ count = call.count /\ val = call.val /\ at = call.op /\ out = <<>>
  BY DEF W!Init
<1>2. W!IsQuestion(q) /\ W!IsQuestion([mem |-> was, call |-> call])
  BY <1>1 DEF W!IsQuestion
<1>3. /\ call.op \in {"memset", "memset32", "memreverse", "memcmp", "memmem"}
      /\ call.dest \in Nat /\ call.src \in Nat /\ call.count \in Nat
      /\ Fills => call.val \in Seq(Int) /\ Len(call.val) \in Nat \ {0}
  BY <1>1, <1>2, EmptySeq, LenProperties DEF W!IsQuestion, Fills
<1>4. Fills => FillOK
  <2> SUFFICES ASSUME Fills PROVE FillOK
    OBVIOUS
  <2>1. ASSUME NEW i \in 1 .. Len(val)
        PROVE  val[i] = Over(call.val, i - 1 + (l - call.dest))
    <3>1. i - 1 + (l - call.dest) = i - 1 /\ i - 1 \in 0 .. Len(call.val) - 1
      BY <1>1, <1>3
    <3>2. (i - 1) % Len(call.val) = i - 1
      BY <1>3, <3>1, Small
    <3>3. Over(call.val, i - 1) = val[i]
      <4>1. (i - 1) + 1 = i
        BY <3>1
      <4>2. val = call.val
        BY <1>1
      <4> QED
        BY <3>2, <4>1, <4>2 DEF Over
    <3> QED
      BY <3>1, <3>3
  <2>2. \A a \in DOMAIN mem : a \notin call.dest .. l - 1
    BY <1>1, <1>3
  <2> QED
    BY <1>1, <1>3, <2>1, <2>2 DEF FillOK, Fills
<1>5. call.op = "memreverse" => ReverseOK
  <2> SUFFICES ASSUME call.op = "memreverse" PROVE ReverseOK
    OBVIOUS
  <2>1. l = call.dest /\ r = call.dest + call.count - 1
    BY <1>1
  <2>2. \A a : ~(W!Inside(a) /\ a \notin l .. r)
    BY <2>1 DEF W!Inside
  <2>3. call.dest \in Nat /\ call.count \in Nat
    BY <1>3
  <2>4. l + r = 2 * call.dest + call.count - 1 /\ l \in Int /\ r \in Int /\ l <= r + 1
        /\ call.dest <= l
    BY <2>1, <2>3
  <2> QED
    BY <1>1, <2>2, <2>4 DEF ReverseOK
<1>6. call.op = "memcmp" => CompareOK
  BY <1>1, <1>3 DEF CompareOK
<1>7. call.op = "memmem" => SearchOK
  <2>1. \A p \in W!Places : p \in Nat
    BY DEF W!Places
  <2> QED
    BY <1>1, <1>3, <2>1 DEF SearchOK
<1>8. at # "done"
  BY <1>1, <1>3
<1> QED
  BY <1>2, <1>4, <1>5, <1>6, <1>7, <1>8 DEF WordsOK

LEMMA WordsNext ==
  ASSUME Quad \in Nat \ {0}, WordsOK, [W!Next]_W!vars
  PROVE  WordsOK'
<1>1. CASE UNCHANGED W!vars
  <2>1. mem' = mem /\ was' = was /\ call' = call /\ l' = l /\ r' = r
        /\ count' = count /\ val' = val /\ at' = at /\ out' = out
    BY <1>1 DEF W!vars
  <2>2. W!Answer' = W!Answer /\ W!Places' = W!Places
    BY <2>1 DEF W!Answer, W!Unlike, W!Places, W!Last, W!Needle
  <2> QED
    BY <2>1, <2>2, MirrorStays DEF WordsOK, Fills, FillOK, ReverseOK, W!Inside, CompareOK, SearchOK
<1>2. CASE W!Next
  BY <1>2, FillKeeps, ReverseKeeps, CompareKeeps, SearchKeeps DEF W!Next
<1> QED
  BY <1>1, <1>2

LEMMA WordsServed ==
  ASSUME WordsOK
  PROVE  W!Served
<1>1. SUFFICES ASSUME at = "done"
               PROVE  (\A a \in DOMAIN mem : mem[a] = W!Wanted(a)) /\ out = W!Answer
  BY DEF W!Served
<1>2. out = W!Answer
  BY <1>1 DEF WordsOK
<1>3. CASE Fills
  <2>1. /\ call.dest \in Nat /\ call.count \in Nat
        /\ l = call.dest + call.count
        /\ \A a \in DOMAIN mem :
             mem[a] = IF a \in call.dest .. l - 1 THEN Over(call.val, a - call.dest) ELSE was[a]
    BY <1>1, <1>3, CallIs DEF WordsOK, FillOK
  <2> QED
    BY <1>2, <1>3, <2>1 DEF W!Wanted, W!Inside, Fills, Over
<1>4. CASE call.op = "memreverse"
  <2>1. \A a \in DOMAIN mem :
          mem[a] = IF W!Inside(a) /\ a \notin l .. r THEN was[Mirrored(a)] ELSE was[a]
    BY <1>4 DEF WordsOK, ReverseOK
  <2>2. /\ call.dest \in Nat /\ call.count \in Nat /\ l \in Int /\ r \in Int
        /\ l + r = 2 * call.dest + call.count - 1 /\ r <= l
    BY <1>1, <1>4, CallIs DEF WordsOK, ReverseOK
  <2>3. ASSUME NEW a \in l .. r PROVE Mirrored(a) = a
    <3>1. 2 * call.dest + call.count - 1 \in Int
      BY <2>2
    <3> QED
      BY <2>2, <3>1, Middle DEF Mirrored
  <2>4. ASSUME NEW a \in DOMAIN mem, W!Inside(a)
        PROVE  mem[a] = was[2 * call.dest + call.count - 1 - a]
    BY <2>1, <2>3, <2>4 DEF Mirrored
  <2> QED
    BY <1>2, <1>4, <2>1, <2>4 DEF W!Wanted
<1>5. CASE call.op \in {"memcmp", "memmem"}
  <2>1. mem = was
    BY <1>5 DEF WordsOK, CompareOK, SearchOK
  <2> QED
    BY <1>2, <1>5, <2>1 DEF W!Wanted
<1> QED
  BY <1>3, <1>4, <1>5, CallIs DEF Fills

\* memset, memset32, memreverse, memcmp and memmem do to the memory and answer what
\* a byte by byte definition says, wherever words begin, however wide they are, and
\* from whichever lengths on the search skips places (memory.c:3-237, 382-584,
\* 829-895).
THEOREM WordsAreServed ==
  ASSUME Quad \in Nat \ {0}, \A q \in Questions : W!IsQuestion(q)
  PROVE  W!Spec => []W!Served
<1>1. W!Init => WordsOK
  BY WordsInit
<1>2. WordsOK /\ [W!Next]_W!vars => WordsOK'
  BY WordsNext
<1>3. WordsOK => W!Served
  BY WordsServed
<1> QED
  BY <1>1, <1>2, <1>3, PTL DEF W!Spec
===============================================================================

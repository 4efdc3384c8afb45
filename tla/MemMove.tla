-------------------------------- MODULE MemMove --------------------------------
(***************************************************************************)
(* memcpy and memmove of memory/memory.c, one step of their loops at a     *)
(* time: bytes until the destination is aligned, then words, and bytes     *)
(* again.  Where the source is not aligned with the destination a word is  *)
(* put together from two aligned ones, of which the lower is kept from the *)
(* step before, and several words are read before any is written.          *)
(* Unrolled loops that read and write one word after the other are the     *)
(* loop over one word.                                                     *)
(***************************************************************************)
EXTENDS Integers

CONSTANTS Size,         \* of the memory that is modelled
          Word, Wide,   \* bytes of a uint64_t and of a uint128_t
          CopyBatches,  \* how many words memcpy reads before it writes them
          MoveBatches,  \* and memmove
          Contents      \* what the memory may hold at first

Addresses == 0 .. Size - 1

ASSUME SizeAssumption    == Size \in Nat
ASSUME WordAssumption    == Word \in Nat \ {0} /\ Wide \in Nat \ {0}
ASSUME BatchesAssumption == CopyBatches \cup MoveBatches \subseteq Nat \ {0}
ASSUME ContentsAssumption == \A c \in Contents : DOMAIN c = Addresses

VARIABLES mem, was,   \* the memory, now and when the call was made
          call,       \* its arguments
          d8, s8,     \* the next byte, or behind it where the call moves down
          count,      \* bytes to go
          shift,      \* how far the source is from a word of its own
          lo,         \* the word of the source that is kept
          at          \* the loop
vars == <<mem, was, call, d8, s8, count, shift, lo, at>>

Calls ==
  {c \in [op : {"memcpy", "memmove"}, dest : Addresses, src : Addresses, count : 0 .. Size] :
     c.dest + c.count <= Size /\ c.src + c.count <= Size}

Apart(c) == c.dest + c.count <= c.src \/ c.src + c.count <= c.dest

\* memcpy is for memory that is apart, or the same.
Permitted(c) == c.op = "memcpy" => Apart(c) \/ c.dest = c.src

Init ==
  /\ mem \in Contents /\ was = mem
  /\ call \in {c \in Calls : Permitted(c)}
  /\ d8 = call.dest /\ s8 = call.src /\ count = call.count
  /\ shift = 0 /\ lo = <<>> /\ at = "start"

-----------------------------------------------------------------------------
\* memmove leaves memory that is apart to memcpy.
Copies == call.op = "memcpy" \/ Apart(call)

AlignedAlike(z) == d8 % z = s8 % z

MovesUpAlways == TRUE

MovesUp == call.dest < call.src

Start ==
  /\ at = "start"
  /\ \/ /\ call.dest = call.src \/ count = 0
        /\ at' = "done" /\ UNCHANGED <<d8, s8>>
     \/ /\ call.dest # call.src /\ count > 0 /\ Copies
        /\ at' = IF AlignedAlike(Wide) THEN "wide" ELSE "lead"
        /\ UNCHANGED <<d8, s8>>
     \/ /\ call.dest # call.src /\ count > 0 /\ ~Copies /\ MovesUp
        /\ at' = "lead" /\ UNCHANGED <<d8, s8>>
     \/ /\ call.dest # call.src /\ count > 0 /\ ~Copies /\ ~MovesUp
        /\ at' = "back" /\ d8' = d8 + count /\ s8' = s8 + count
  /\ UNCHANGED <<mem, was, call, count, shift, lo>>

\* The next z bytes, all read before they are written.
Up(z) ==
  /\ mem' = [a \in Addresses |-> IF a \in d8 .. d8 + z - 1 THEN mem[s8 + (a - d8)] ELSE mem[a]]
  /\ d8' = d8 + z /\ s8' = s8 + z /\ count' = count - z
  /\ UNCHANGED <<was, call, shift, lo, at>>

Down(z) ==
  /\ mem' = [a \in Addresses |-> IF a \in d8 - z .. d8 - 1 THEN mem[s8 - (d8 - a)] ELSE mem[a]]
  /\ d8' = d8 - z /\ s8' = s8 - z /\ count' = count - z
  /\ UNCHANGED <<was, call, shift, lo, at>>

Goto(l) == at' = l /\ UNCHANGED <<mem, was, call, d8, s8, count, shift, lo>>

Unaligned(z) == d8 % z # 0 /\ count > 0

WideLoop ==
  /\ at = "wide"
  /\ \/ Unaligned(Wide) /\ Up(1)
     \/ ~Unaligned(Wide) /\ count >= Wide /\ Up(Wide)
     \/ ~Unaligned(Wide) /\ count < Wide /\ Goto("lead")

\* Where the source is not aligned the word that holds its next byte is kept.
Lead ==
  /\ at = "lead"
  /\ \/ Unaligned(Word) /\ Up(1)
     \/ /\ ~Unaligned(Word) /\ s8 % Word # 0 /\ count >= 2 * Word
        /\ shift' = s8 % Word
        /\ lo' = [i \in 0 .. Word - 1 |-> mem[s8 - shift' + i]]
        /\ at' = "shifted" /\ UNCHANGED <<mem, was, call, d8, s8, count>>
     \/ ~Unaligned(Word) /\ s8 % Word = 0 /\ Goto("words")
     \/ ~Unaligned(Word) /\ s8 % Word # 0 /\ count < 2 * Word /\ Goto("bytes")

WordLoop ==
  /\ at = "words"
  /\ \/ count >= Word /\ Up(Word)
     \/ count < Word /\ Goto("bytes")

Batches == IF Copies THEN CopyBatches ELSE MoveBatches

\* The last word that is read for n words lies in the source as a whole.
Enough(n) == count >= (2 * Word - shift) + (n - 1) * Word

\* The first bytes come from the word that was kept, and the last word that was
\* read is kept next, as it was before anything was written.
Kept(n) == [i \in 0 .. Word - 1 |-> mem[s8 - shift + n * Word + i]]

Together(n) ==
  /\ mem' = [a \in Addresses |->
               IF a \in d8 .. d8 + n * Word - 1
               THEN IF a - d8 < Word - shift THEN lo[shift + (a - d8)] ELSE mem[s8 + (a - d8)]
               ELSE mem[a]]
  /\ lo' = Kept(n)
  /\ d8' = d8 + n * Word /\ s8' = s8 + n * Word /\ count' = count - n * Word
  /\ UNCHANGED <<was, call, shift, at>>

ShiftedLoop ==
  /\ at = "shifted"
  /\ \/ \E n \in Batches :
          Enough(n) /\ (\A m \in Batches : Enough(m) => m <= n) /\ Together(n)
     \/ (\A n \in Batches : ~Enough(n)) /\ Goto("bytes")

ByteLoop ==
  /\ at = "bytes"
  /\ \/ count > 0 /\ Up(1)
     \/ count = 0 /\ Goto("done")

BackLead ==
  /\ at = "back"
  /\ \/ Unaligned(Word) /\ Down(1)
     \/ ~Unaligned(Word) /\ Goto(IF s8 % Word = 0 THEN "backwords" ELSE "backshifted")

\* Downwards each word is put together from memory anew.
BackLoop ==
  \/ /\ at = "backwords"
     /\ \/ count >= Word /\ Down(Word)
        \/ count < Word /\ Goto("backbytes")
  \/ /\ at = "backshifted"
     /\ \/ \E n \in MoveBatches :
             /\ count >= n * Word /\ \A m \in MoveBatches : count >= m * Word => m <= n
             /\ Down(n * Word)
        \/ (\A n \in MoveBatches : count < n * Word) /\ Goto("backbytes")
  \/ /\ at = "backbytes"
     /\ \/ count > 0 /\ Down(1)
        \/ count = 0 /\ Goto("done")

Next ==
  \/ Start \/ WideLoop \/ Lead \/ WordLoop \/ ShiftedLoop \/ ByteLoop
  \/ BackLead \/ BackLoop

Spec == Init /\ [][Next]_vars

-----------------------------------------------------------------------------
\* Loops that go down start from the end of a call that overlaps.
Loops == {"start", "wide", "lead", "words", "shifted", "bytes",
          "back", "backwords", "backshifted", "backbytes", "done"}
Backwards == at \in {"back", "backwords", "backshifted", "backbytes"}

\* Pointers, the count and the arguments agree in every loop: no loop passes an
\* end of what it copies, in whichever direction and word by word.
TypeOK ==
  /\ DOMAIN mem = Addresses /\ DOMAIN was = Addresses /\ call \in Calls
  /\ count \in 0 .. call.count /\ at \in Loops
  /\ ~Backwards /\ at # "done" =>
       /\ d8 = call.dest + (call.count - count) /\ s8 = call.src + (call.count - count)
  /\ Backwards => d8 = call.dest + count /\ s8 = call.src + count

\* When the call is over the destination holds what the source held when it was
\* made, however the two overlap and are aligned, and nothing else has changed,
\* also where words of the source are overwritten after they were kept
\* (memory.c:239-380, 586-827).
Expected(a) ==
  IF a \in call.dest .. call.dest + call.count - 1
  THEN was[call.src + (a - call.dest)] ELSE was[a]
Moved == at = "done" => \A a \in Addresses : mem[a] = Expected(a)
=============================================================================

------------------------------- MODULE MemWords -------------------------------
(***************************************************************************)
(* memset, memset32, memreverse, memcmp and memmem of memory/memory.c, one *)
(* step of their loops at a time: the bytes up to where words are aligned, *)
(* words, and the bytes that are left.                                     *)
(***************************************************************************)
EXTENDS Integers, Sequences

CONSTANTS Word, Wide, \* bytes of a uint64_t and of a uint128_t
          Quad,       \* and of a uint32_t
          Far,        \* how much memory memmem skips through
          Least,      \* and for how long a needle
          Questions   \* what is asked: the memory and the arguments

VARIABLES mem, was,   \* the memory, now and when the call was made
          call,       \* its arguments
          l, r,       \* the pointers of both sides, or into both arguments
          count,      \* bytes to go
          val,        \* the bytes of the value that is written, lowest first
          at, out
vars == <<mem, was, call, l, r, count, val, at, out>>

\* What may be asked: the bytes of the value, and those to turn around, are there.
IsQuestion(q) ==
  /\ q.call.op \in {"memset", "memset32", "memreverse", "memcmp", "memmem"}
  /\ {q.call.dest, q.call.src, q.call.count, q.call.length} \subseteq Nat
  /\ q.call.op \in {"memset", "memset32"} => q.call.val \in Seq(Int) /\ q.call.val # <<>>
  /\ q.call.op = "memreverse" =>
       q.call.dest .. q.call.dest + q.call.count - 1 \subseteq DOMAIN q.mem

Init ==
  \E q \in Questions :
    /\ mem = q.mem /\ was = q.mem /\ call = q.call
    /\ l = call.dest
    /\ r = IF call.op = "memreverse" THEN call.dest + call.count - 1 ELSE call.src
    /\ count = call.count /\ val = call.val /\ at = call.op /\ out = <<>>

Goto(x) == at' = x /\ UNCHANGED <<mem, l, r, count, val, out>>

Return(x) == at' = "done" /\ out' = x /\ UNCHANGED <<mem, l, r, count, val>>

-----------------------------------------------------------------------------
\* z bytes of the value over and over, and where it goes on.
Turned(z) == [i \in DOMAIN val |-> val[((i - 1 + z) % Len(val)) + 1]]

Put(z) ==
  /\ mem' = [a \in DOMAIN mem |-> IF a \in l .. l + z - 1
                                  THEN val[((a - l) % Len(val)) + 1] ELSE mem[a]]
  /\ l' = l + z /\ count' = count - z /\ val' = Turned(z)
  /\ UNCHANGED <<r, at, out>>

\* A value of one byte has no use for the step by four.
Least4 == IF call.op = "memset32" THEN {Word, Quad} ELSE {Word}

Fill ==
  \/ /\ at \in {"memset", "memset32"}
     /\ \/ l % Wide # 0 /\ count > 0 /\ Put(1)
        \/ (l % Wide = 0 \/ count = 0) /\ Goto("wides")
  \/ /\ at = "wides"
     /\ \/ count >= Wide /\ Put(Wide)
        \/ count < Wide /\ Goto("rest")
  \/ /\ at = "rest"
     /\ \/ \E z \in Least4 : count >= z /\ (\A y \in Least4 : count >= y => y <= z) /\ Put(z)
        \/ (\A z \in Least4 : count < z) /\ count > 0 /\ Put(1)
        \/ count = 0 /\ Return(<<>>)

-----------------------------------------------------------------------------
Left == r - l + 1

\* z bytes of either side change places, turned around.
Swap(z) ==
  /\ mem' = [a \in DOMAIN mem |->
               IF a \in l .. l + z - 1 \cup r - z + 1 .. r THEN mem[l + r - a] ELSE mem[a]]
  /\ l' = l + z /\ r' = r - z /\ UNCHANGED <<val, out>>

\* Up to where words of the left side are aligned, and of the right.
UpTo(z)   == (z - (l % z)) % z
Beyond(z) == (r + 1) % z

\* How many bytes to change singly first.
First(z) == IF UpTo(z) <= Beyond(z) THEN UpTo(z) ELSE Beyond(z)

\* A side that ends in the middle of a word is no hindrance: one side is read
\* and written byte by byte.
Enough(z) == Left >= 2 * z

Reverse ==
  \/ /\ at = "memreverse"
     /\ \/ Left <= 1 /\ Return(<<>>)
        \/ Left > 1 /\ UpTo(Wide) = Beyond(Wide) /\ at' = "leadwide"
           /\ count' = UpTo(Wide) /\ UNCHANGED <<mem, l, r, val, out>>
        \/ Left > 1 /\ UpTo(Wide) # Beyond(Wide) /\ Goto("words")
  \/ /\ at \in {"leadwide", "lead"}
     /\ \/ count > 0 /\ l < r /\ Swap(1) /\ count' = count - 1 /\ at' = at
        \/ ~(count > 0 /\ l < r) /\ Goto(IF at = "lead" THEN "byword" ELSE "bywide")
  \/ /\ at = "bywide"
     /\ \/ Enough(Wide) /\ Swap(Wide) /\ UNCHANGED <<count, at>>
        \/ ~Enough(Wide) /\ Goto("words")
  \/ /\ at = "words" /\ at' = "lead" /\ count' = First(Word)
     /\ UNCHANGED <<mem, l, r, val, out>>
  \/ /\ at = "byword"
     /\ \/ Enough(2 * Word) /\ Swap(2 * Word) /\ UNCHANGED <<count, at>>
        \/ ~Enough(2 * Word) /\ Enough(Word) /\ Swap(Word) /\ UNCHANGED <<count, at>>
        \/ ~Enough(Word) /\ l < r /\ Swap(1) /\ UNCHANGED <<count, at>>
        \/ ~Enough(Word) /\ ~(l < r) /\ Return(<<>>)

-----------------------------------------------------------------------------
\* The next z bytes of both: over with their first difference, or equal.
Differ(z) == {i \in 0 .. z - 1 : mem[l + i] # mem[r + i]}

FirstOf(S) == CHOOSE i \in S : \A j \in S : i <= j

LastOf(S) == CHOOSE i \in S : \A j \in S : i >= j

Compare(z) ==
  IF Differ(z) = {} THEN l' = l + z /\ r' = r + z /\ count' = count - z
                         /\ UNCHANGED <<mem, val, at, out>>
  ELSE LET i == FirstOf(Differ(z)) IN Return(<<mem[l + i] - mem[r + i]>>)

\* The widest words that both are aligned alike for.
Common == CASE l % Wide = r % Wide -> Wide
            [] l % Wide # r % Wide /\ l % Word = r % Word -> Word
            [] OTHER -> 1

memcmp ==
  /\ at = "memcmp"
  /\ \/ count = 0 /\ Return(<<0>>)
     \/ count > 0 /\ l % Common # 0 /\ Compare(1)
     \/ count > 0 /\ l % Common = 0 /\ count >= Common /\ Compare(Common)
     \/ count > 0 /\ l % Common = 0 /\ count < Common /\ Compare(1)

-----------------------------------------------------------------------------
\* The needle is at call.src, call.length bytes of it.
Needle(i) == was[call.src + i]
Last      == call.count - call.length
Matches   == \A i \in 0 .. call.length - 1 : mem[l + i] = Needle(i)

\* How far the last copy of a byte in the needle, but for its end, is from it.
Copies(c) == {i \in 0 .. call.length - 2 : Needle(i) = c}

SkipToFirst(c) ==
  IF Copies(c) = {} THEN call.length ELSE call.length - 1 - FirstOf(Copies(c))

Skip(c) ==
  IF Copies(c) = {} THEN call.length ELSE call.length - 1 - LastOf(Copies(c))

Skips == call.count >= Far /\ call.length >= Least

Stride == IF Skips THEN Skip(mem[l + call.length - 1]) ELSE 1

memmem ==
  /\ at = "memmem"
  /\ \/ call.length = 0 /\ Return(<<0>>)
     \/ call.length > 0 /\ l - call.dest > Last /\ Return(<<>>)
     \/ call.length > 0 /\ l - call.dest <= Last /\ Matches /\ Return(<<l - call.dest>>)
     \/ /\ call.length > 0 /\ l - call.dest <= Last /\ ~Matches /\ l' = l + Stride
        /\ UNCHANGED <<mem, r, count, val, at, out>>

Next == (Fill \/ Reverse \/ memcmp \/ memmem) /\ UNCHANGED <<was, call>>

Spec == Init /\ [][Next]_vars

-----------------------------------------------------------------------------
\* When a call is over the memory and the answer are what the call is for, byte
\* by byte, wherever words begin and however many there are (memory.c:3-237,
\* 382-584, 829-895).
Inside(a) == a \in call.dest .. call.dest + call.count - 1
Wanted(a) ==
  CASE ~Inside(a) -> was[a]
    [] Inside(a) /\ call.op \in {"memset", "memset32"} ->
         call.val[((a - call.dest) % Len(call.val)) + 1]
    [] Inside(a) /\ call.op = "memreverse" ->
         was[2 * call.dest + call.count - 1 - a]
    [] OTHER -> was[a]
Places ==
  {p \in 0 .. Last : \A i \in 0 .. call.length - 1 : was[call.dest + p + i] = Needle(i)}
Unlike == {i \in 0 .. call.count - 1 : was[call.dest + i] # was[call.src + i]}
Answer ==
  CASE call.op = "memcmp" ->
         IF Unlike = {} THEN <<0>>
         ELSE <<was[call.dest + FirstOf(Unlike)] - was[call.src + FirstOf(Unlike)]>>
    [] call.op = "memmem" -> IF Places = {} THEN <<>> ELSE <<FirstOf(Places)>>
    [] OTHER -> <<>>
Served == at = "done" => (\A a \in DOMAIN mem : mem[a] = Wanted(a)) /\ out = Answer
=============================================================================

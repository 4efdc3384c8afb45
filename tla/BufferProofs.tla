----------------------------- MODULE BufferProofs -----------------------------
(***************************************************************************)
(* Proofs about Buffer, for all texts, formats, blocks and slacks.  The    *)
(* inductive invariant has the size and the cursor within the block while  *)
(* the text is not lost, and says that what cannot be written cannot be    *)
(* lost.  The text is a prefix of the block, so that each call is shown to *)
(* be a step of Text byte by byte: TextIs makes a text of its bytes.       *)
(***************************************************************************)
EXTENDS Buffer, SequenceTheorems, TLAPS

Strings == Seq(Byte)

-----------------------------------------------------------------------------
\* Sequences of bytes.

LEMMA StringIs ==
  ASSUME NEW d \in Strings
  PROVE  /\ Len(d) \in Nat /\ DOMAIN d = 1 .. Len(d)
         /\ \A i \in 1 .. Len(d) : d[i] \in Byte
BY DEF Strings

LEMMA MadeString ==
  ASSUME NEW n \in Nat, NEW d, d \in [1 .. n -> Byte]
  PROVE  d \in Strings /\ Len(d) = n
BY DEF Strings

LEMMA TextsAreStrings ==
  ASSUME NEW l \in Texts
  PROVE  l \in Strings
<1>1. Range(l) \subseteq Byte
  BY DEF Byte
<1>2. l \in Seq(Range(l))
  BY TextAssumption
<1> QED
  BY <1>1, <1>2, SeqMonotonic DEF Strings

LEMMA MarksAreBytes == Mark \in Byte /\ Zero \in Byte
BY DEF Byte

LEMMA ZerosIs ==
  ASSUME NEW n \in Nat
  PROVE  Zeros(n) \in Strings /\ Len(Zeros(n)) = n
<1>1. Zeros(n) \in [1 .. n -> Byte]
  BY MarksAreBytes DEF Zeros
<1> QED
  BY <1>1, MadeString

LEMMA JoinedIs ==
  ASSUME NEW s \in Strings, NEW t \in Strings
  PROVE  /\ s \o t \in Strings /\ Len(s \o t) = Len(s) + Len(t)
         /\ \A i \in 1 .. Len(s) : (s \o t)[i] = s[i]
         /\ \A i \in 1 .. Len(t) : (s \o t)[Len(s) + i] = t[i]
<1>1. Len(s) \in Nat /\ Len(t) \in Nat
  BY StringIs
<1>2. /\ s \o t \in Strings /\ Len(s \o t) = Len(s) + Len(t)
      /\ \A i \in 1 .. Len(s) + Len(t) :
           (s \o t)[i] = IF i <= Len(s) THEN s[i] ELSE t[i - Len(s)]
  BY ConcatProperties DEF Strings
<1>3. \A i \in 1 .. Len(s) : (s \o t)[i] = s[i]
  BY <1>1, <1>2
<1>4. ASSUME NEW i \in 1 .. Len(t) PROVE (s \o t)[Len(s) + i] = t[i]
  <2>1. Len(s) + i \in 1 .. Len(s) + Len(t) /\ ~(Len(s) + i <= Len(s))
        /\ Len(s) + i - Len(s) = i
    BY <1>1
  <2> QED
    BY <1>2, <2>1
<1> QED
  BY <1>2, <1>3, <1>4

LEMMA PartIs ==
  ASSUME NEW d \in Strings, NEW m \in Nat, NEW n \in Nat, n <= Len(d)
  PROVE  /\ SubSeq(d, m + 1, n) \in Strings
         /\ Len(SubSeq(d, m + 1, n)) = IF m <= n THEN n - m ELSE 0
         /\ \A i \in 1 .. n - m : SubSeq(d, m + 1, n)[i] = d[m + i]
<1>1. \A i \in m + 1 .. n : d[i] \in Byte
  BY StringIs
<1>2. m + 1 \in Int /\ n \in Int
  OBVIOUS
<1>3. /\ SubSeq(d, m + 1, n) \in Seq(Byte)
      /\ Len(SubSeq(d, m + 1, n)) = IF m + 1 <= n THEN n - (m + 1) + 1 ELSE 0
      /\ \A i \in 1 .. n - (m + 1) + 1 : SubSeq(d, m + 1, n)[i] = d[(m + 1) + i - 1]
  BY ONLY <1>1, <1>2, SubSeqProperties
<1>4. \A i \in Int : (m + 1) + i - 1 = m + i
  OBVIOUS
<1> QED
  BY <1>3, <1>4 DEF Strings

LEMMA PrefixIs ==
  ASSUME NEW d \in Strings, NEW n \in 0 .. Len(d)
  PROVE  /\ SubSeq(d, 1, n) \in Strings /\ Len(SubSeq(d, 1, n)) = n
         /\ \A i \in 1 .. n : SubSeq(d, 1, n)[i] = d[i]
<1>1. \A i \in 1 .. n : d[i] \in Byte
  BY StringIs
<1>2. n \in Int /\ 1 \in Int /\ n \in Nat
  BY StringIs
<1>3. /\ SubSeq(d, 1, n) \in Seq(Byte)
      /\ Len(SubSeq(d, 1, n)) = IF 1 <= n THEN n - 1 + 1 ELSE 0
      /\ \A i \in 1 .. n - 1 + 1 : SubSeq(d, 1, n)[i] = d[1 + i - 1]
  BY ONLY <1>1, <1>2, SubSeqProperties
<1> DEFINE t == SubSeq(d, 1, n)
<1> HIDE DEF t
<1>4. t \in Seq(Byte) /\ Len(t) = n /\ \A i \in 1 .. n : t[i] = d[i]
  <2>1. /\ t \in Seq(Byte)
        /\ Len(t) = IF 1 <= n THEN n - 1 + 1 ELSE 0
        /\ \A i \in 1 .. n - 1 + 1 : t[i] = d[1 + i - 1]
    BY <1>3 DEF t
  <2> QED
    BY <1>2, <2>1
<1> QED
  BY <1>4 DEF t, Strings

LEMMA SameString ==
  ASSUME NEW s \in Strings, NEW t \in Strings, Len(s) = Len(t),
         \A i \in 1 .. Len(s) : s[i] = t[i]
  PROVE  s = t
BY SeqEqual DEF Strings

\* A text is what the first bytes of the block say.
LEMMA TextIs ==
  ASSUME NEW d \in Strings, NEW t \in Strings, Len(t) <= Len(d),
         \A i \in 1 .. Len(t) : d[i] = t[i]
  PROVE  SubSeq(d, 1, Len(t)) = t
<1>1. Len(t) \in 0 .. Len(d)
  BY StringIs
<1> DEFINE s == SubSeq(d, 1, Len(t))
<1>2. s \in Strings /\ Len(s) = Len(t) /\ \A i \in 1 .. Len(t) : s[i] = d[i]
  BY <1>1, PrefixIs
<1> HIDE DEF s
<1>3. s = t
  BY <1>2, SameString
<1> QED
  BY <1>3 DEF s

\* What bytes put into a block make of it.
LEMMA PokeIs ==
  ASSUME NEW d \in Strings, NEW s \in Strings, NEW n \in Nat
  PROVE  /\ Poke(d, n, s) \in Strings /\ Len(Poke(d, n, s)) = Len(d)
         /\ \A i \in 1 .. Len(d) :
              Poke(d, n, s)[i] = IF i > n /\ i <= n + Len(s) THEN s[i - n] ELSE d[i]
<1>1. /\ Len(d) \in Nat /\ DOMAIN d = 1 .. Len(d)
      /\ Len(s) \in Nat /\ DOMAIN s = 1 .. Len(s)
  BY StringIs
<1>2. \A i \in 1 .. Len(d) : i - n \in DOMAIN s <=> i > n /\ i <= n + Len(s)
  BY <1>1
<1>3. \A i \in 1 .. Len(d) :
        Poke(d, n, s)[i] = IF i > n /\ i <= n + Len(s) THEN s[i - n] ELSE d[i]
  BY <1>1, <1>2 DEF Poke
<1>4. Poke(d, n, s) \in [1 .. Len(d) -> Byte]
  <2>1. \A i \in 1 .. Len(d) : (IF i - n \in DOMAIN s THEN s[i - n] ELSE d[i]) \in Byte
    BY <1>1, StringIs
  <2> QED
    BY <1>1, <2>1 DEF Poke
<1> QED
  BY <1>1, <1>3, <1>4, MadeString

LEMMA PokeParts ==
  ASSUME NEW d \in Strings, NEW s \in Strings, NEW n \in Nat
  PROVE  /\ \A i \in 1 .. n : i <= Len(d) => Poke(d, n, s)[i] = d[i]
         /\ \A i \in 1 .. Len(s) : n + i <= Len(d) => Poke(d, n, s)[n + i] = s[i]
<1> DEFINE t == Poke(d, n, s)
<1>1. /\ Len(d) \in Nat /\ Len(s) \in Nat
      /\ \A i \in 1 .. Len(d) :
           t[i] = IF i > n /\ i <= n + Len(s) THEN s[i - n] ELSE d[i]
  BY PokeIs, StringIs
<1> HIDE DEF t
<1>2. \A i \in 1 .. n : i <= Len(d) => t[i] = d[i]
  BY <1>1
<1>3. ASSUME NEW i \in 1 .. Len(s), n + i <= Len(d) PROVE t[n + i] = s[i]
  <2> DEFINE k == n + i
  <2>1. k \in 1 .. Len(d) /\ k > n /\ k <= n + Len(s) /\ k - n = i
    BY <1>1, <1>3
  <2> HIDE DEF k
  <2>2. t[k] = s[k - n]
    BY <1>1, <2>1
  <2> QED
    BY <2>1, <2>2 DEF k
<1> QED
  BY <1>2, <1>3 DEF t

LEMMA ResizedIs ==
  ASSUME NEW d \in Strings, NEW n \in Nat
  PROVE  /\ Resized(d, n) \in Strings
         /\ Len(Resized(d, n)) >= Len(d) + n
         /\ \A i \in 1 .. Len(d) : Resized(d, n)[i] = d[i]
<1> DEFINE more == IF n = 0 THEN Len(d) ELSE n
<1>1. Len(d) \in Nat /\ more \in Nat /\ more >= n
  BY StringIs
<1>2. Resized(d, n) = d \o Zeros(more)
  BY DEF Resized
<1> HIDE DEF more
<1>3. Zeros(more) \in Strings /\ Len(Zeros(more)) = more
  BY <1>1, ZerosIs
<1> QED
  BY <1>1, <1>2, <1>3, JoinedIs

-----------------------------------------------------------------------------
\* The inductive invariant.
BufferOK ==
  /\ data \in Strings /\ size \in Nat /\ cursor \in Nat
  /\ options \in Kinds /\ lost \in BOOLEAN
  /\ ~lost => size <= limit /\ cursor <= limit
  /\ "readonly" \in options => ~lost
  /\ Fixed /\ ~MovesStatic => cursor = 0

\* What every call is shown to be.
Stays == BufferOK' /\ (~MovesStatic => TextSpec!Next)

\* What is known of the block and the numbers where a client may call.
Ready ==
  /\ BufferOK /\ ~lost
  /\ limit \in Nat /\ size <= limit /\ cursor <= limit

LEMMA ReadyIs == BufferOK /\ ~lost => Ready
BY StringIs DEF BufferOK, Ready, limit

\* What clients see of it.
LEMMA TextNow ==
  ASSUME Ready
  PROVE  /\ text = SubSeq(data, 1, size) /\ text \in Strings /\ Len(text) = size
         /\ \A i \in 1 .. size : text[i] = data[i]
         /\ text # Lost /\ at = cursor
         /\ TextSpec!Static <=> Fixed
<1>1. data \in Strings /\ size \in 0 .. Len(data)
  BY DEF Ready, BufferOK, limit
<1>2. text = SubSeq(data, 1, size)
  BY DEF text, Ready
<1>3. /\ text \in Strings /\ Len(text) = size
      /\ \A i \in 1 .. size : text[i] = data[i]
  BY <1>1, <1>2, PrefixIs
<1>4. text # Lost
  BY <1>3, TextAssumption DEF Strings
<1> QED
  BY <1>2, <1>3, <1>4 DEF at, Ready, Fixed, TextSpec!Static

\* And what they see afterwards.
LEMMA TextThen ==
  ASSUME BufferOK', ~lost'
  PROVE  text' = SubSeq(data', 1, size') /\ at' = cursor'
BY DEF text, at

LEMMA TextIsLost ==
  ASSUME Ready, lost', ~Fixed, cursor # size, options' = options
  PROVE  TextSpec!Next
<1>1. text' = Lost
  BY DEF text
<1>2. TextSpec!Stray
  BY <1>1, TextNow DEF TextSpec!Stray
<1> QED
  BY <1>2, TextNow DEF TextSpec!Next

\* What a call has written, when it counted it.
LEMMA CountedIs ==
  ASSUME NEW n \in Nat, NEW h \in Nat, NEW k \in Nat, Counted(n, h, k)
  PROVE  /\ size' = (IF Fixed THEN k ELSE h + k) /\ size' \in Nat
         /\ cursor' = (IF Fixed THEN 0 ELSE n + k) /\ cursor' \in Nat
BY DEF Counted

\* A text that was put behind the cursor, or at the start of a block that
\* starts over.
PutBehind(w) ==
  /\ Counted(cursor, size, Len(w)) /\ cursor + Len(w) <= Len(data')
  /\ \A i \in 1 .. cursor : data'[i] = data[i]
  /\ \A i \in 1 .. Len(w) : data'[cursor + i] = w[i]

PutFirst(w) ==
  /\ "circular" \in options /\ Counted(0, 0, Len(w)) /\ Len(w) <= Len(data')
  /\ \A i \in 1 .. Len(w) : data'[i] = w[i]

Put(w) ==
  /\ data' \in Strings /\ (PutBehind(w) \/ PutFirst(w))
  /\ "readonly" \notin options /\ options' = options
  /\ out' = <<Len(w)>> /\ lost' = Astray

LEMMA PutStep ==
  ASSUME Ready, NEW w \in Strings, w \in Texts \cup TextSpec!Shortened, Put(w)
  PROVE  Stays
<1>1. /\ Len(w) \in Nat /\ data \in Strings /\ data' \in Strings /\ Len(data') \in Nat
      /\ limit \in Nat /\ size \in Nat /\ cursor \in Nat /\ size <= limit
  BY StringIs DEF Ready, BufferOK, Put
<1>2. /\ size' \in Nat /\ cursor' \in Nat
      /\ Fixed \/ cursor = size => size' <= Len(data') /\ cursor' <= Len(data')
      /\ Fixed => cursor' = 0
  <2>1. CASE PutBehind(w)
    BY <1>1, <2>1, CountedIs DEF PutBehind
  <2>2. CASE PutFirst(w)
    BY <1>1, <2>2, CountedIs DEF PutFirst
  <2> QED
    BY <2>1, <2>2 DEF Put
<1>3. /\ lost' \in BOOLEAN /\ (~lost' => Fixed \/ cursor = size)
      /\ (lost' => ~Fixed /\ cursor # size)
  BY Zenon DEF Put, Astray
<1>4. BufferOK'
  <2>1. options' \in Kinds /\ "readonly" \notin options' /\ (Fixed' <=> Fixed)
    BY DEF Put, Ready, BufferOK, Fixed
  <2> QED
    BY <1>1, <1>2, <1>3, <2>1 DEF BufferOK, limit
<1>5. CASE lost'
  BY <1>4, <1>5, <1>3, TextIsLost DEF Put, Stays
<1>6. CASE ~lost'
  <2> SUFFICES ASSUME ~MovesStatic PROVE TextSpec!Next
    BY <1>4 DEF Stays
  <2>1. cursor = IF Fixed THEN 0 ELSE size
    BY <1>6, <1>3 DEF Ready, BufferOK
  <2>2. text' = SubSeq(data', 1, size') /\ at' = cursor'
    BY <1>4, <1>6, TextThen
  <2>3. /\ text \in Strings /\ Len(text) = size /\ text # Lost /\ at = cursor
        /\ (TextSpec!Static <=> Fixed) /\ \A i \in 1 .. size : text[i] = data[i]
    BY TextNow
  <2>4. ASSUME Fixed \/ PutFirst(w)
        PROVE  text' = w /\ at' = (IF Fixed THEN 0 ELSE Len(w)) /\ size' = Len(w)
    <3>1. size' = Len(w) /\ cursor' = IF Fixed THEN 0 ELSE Len(w)
      BY <1>1, <2>4, CountedIs DEF Put, PutBehind, PutFirst
    <3>2. Len(w) <= Len(data')
      BY <1>1 DEF Put, PutBehind, PutFirst
    <3>3. \A i \in 1 .. Len(w) : data'[i] = w[i]
      <4>1. CASE PutFirst(w)
        BY <4>1 DEF PutFirst
      <4>2. CASE PutBehind(w) /\ Fixed
        <5>1. cursor = 0 /\ \A i \in 1 .. Len(w) : cursor + i = i
          BY <1>1, <2>1, <4>2
        <5> QED
          BY <4>2, <5>1 DEF PutBehind
      <4> QED
        BY <2>4, <4>1, <4>2 DEF Put
    <3> QED
      BY <1>1, <2>2, <3>1, <3>2, <3>3, TextIs
  <2>5. ASSUME ~Fixed, PutBehind(w)
        PROVE  text' = text \o w /\ at' = Len(text') /\ size' = Len(text')
    <3>1. cursor = size /\ size' = size + Len(w) /\ cursor' = size + Len(w)
      BY <1>1, <2>1, <2>5, CountedIs DEF PutBehind
    <3> DEFINE t == text \o w
    <3>2. /\ t \in Strings /\ Len(t) = size + Len(w)
          /\ \A i \in 1 .. size : t[i] = text[i]
          /\ \A i \in 1 .. Len(w) : t[size + i] = w[i]
      BY <2>3, JoinedIs
    <3> HIDE DEF t
    <3>3. Len(t) <= Len(data')
      BY <2>5, <3>1, <3>2 DEF PutBehind
    <3>4. ASSUME NEW i \in 1 .. Len(t) PROVE data'[i] = t[i]
      <4>1. CASE i <= size
        BY <1>1, <2>3, <2>5, <3>1, <3>2, <4>1 DEF PutBehind
      <4>2. CASE i > size
        <5>1. i - size \in 1 .. Len(w) /\ size + (i - size) = i
          BY <1>1, <3>2, <4>2
        <5> QED
          BY <2>5, <3>1, <3>2, <5>1 DEF PutBehind
      <4> QED
        BY <1>1, <4>1, <4>2
    <3>5. SubSeq(data', 1, Len(t)) = t
      BY <1>1, <3>2, <3>3, <3>4, TextIs
    <3> QED
      BY <2>2, <3>1, <3>2, <3>5 DEF t
  <2>6. Len(text') <= limit'
    BY <1>1, <1>2, <2>1, <2>4, <2>5 DEF Put, limit
  <2>7. TextSpec!Write
    <3>1. /\ TextSpec!Static \/ at = Len(text)
          /\ "readonly" \notin options /\ out' = <<Len(w)>>
      BY <2>1, <2>3 DEF Put
    <3>2. IF TextSpec!Static THEN text' = w /\ at' = 0
          ELSE /\ text' \in {text \o w} \cup (IF "circular" \in options THEN {w} ELSE {})
               /\ at' = Len(text')
      BY <2>3, <2>4, <2>5 DEF Put, PutFirst
    <3> QED
      BY <2>6, <3>1, <3>2 DEF TextSpec!Write
  <2>8. options' = options /\ text # Lost
    BY <2>3 DEF Put
  <2> QED
    BY <2>7, <2>8 DEF TextSpec!Next
<1> QED
  BY <1>5, <1>6, <1>3

\* A call that does nothing.
LEMMA NothingStep ==
  ASSUME Ready, Nothing, options' = options,
         \/ "readonly" \in options
         \/ "grow" \notin options /\ \E l \in Texts : cursor + Len(l) > limit
  PROVE  Stays
<1>1. BufferOK'
  BY DEF BufferOK, Ready, Nothing, limit, Fixed
<1> SUFFICES ASSUME ~MovesStatic PROVE TextSpec!Next
  BY <1>1 DEF Stays
<1>2. limit' = limit /\ text' = text /\ at' = at
  BY DEF limit, text, at, Nothing
<1>3. cursor = IF TextSpec!Static THEN 0 ELSE at
  BY TextNow DEF Ready, BufferOK
<1>4. TextSpec!Refuse
  BY <1>2, <1>3 DEF TextSpec!Refuse, Nothing
<1> QED
  BY <1>4, TextNow DEF TextSpec!Next

-----------------------------------------------------------------------------
\* Writing.

LEMMA WriteStep ==
  ASSUME Ready, NEW l \in Texts, buffer_write_lim(l), options' = options
  PROVE  Stays
<1>1. /\ l \in Strings /\ Len(l) \in Nat /\ data \in Strings
      /\ limit \in Nat /\ size \in Nat /\ cursor \in Nat /\ 2 * Len(l) \in Nat
      /\ cursor <= limit
  BY TextsAreStrings, StringIs DEF Ready, BufferOK
<1>2. CASE "readonly" \in options /\ Nothing
  BY <1>2, NothingStep
<1>3. CASE ~Fits(l) /\ ~Grows /\ Nothing
  <2>1. cursor + Len(l) > limit
    BY <1>1, <1>3 DEF Fits
  <2> QED
    BY <1>3, <2>1, NothingStep DEF Grows
<1>4. ASSUME Fits(l), data' = Poke(data, cursor, l), Counted(cursor, size, Len(l))
      PROVE  data' \in Strings /\ PutBehind(l)
  <2>1. data' \in Strings /\ Len(data') = limit
    BY <1>1, <1>4, PokeIs DEF limit
  <2>2. cursor + Len(l) <= limit
    BY <1>1, <1>4 DEF Fits
  <2>3. /\ \A i \in 1 .. cursor : i <= limit => data'[i] = data[i]
        /\ \A i \in 1 .. Len(l) : cursor + i <= limit => data'[cursor + i] = l[i]
    BY <1>1, <1>4, PokeParts DEF limit
  <2>4. /\ \A i \in 1 .. cursor : i <= limit
        /\ \A i \in 1 .. Len(l) : cursor + i <= limit
    BY <1>1, <2>2
  <2> QED
    BY <1>4, <2>1, <2>2, <2>3, <2>4 DEF PutBehind
<1>5. ASSUME data' = Poke(Resized(data, 2 * Len(l)), cursor, l),
             Counted(cursor, size, Len(l))
      PROVE  data' \in Strings /\ PutBehind(l)
  <2> DEFINE d == Resized(data, 2 * Len(l))
  <2>1. /\ d \in Strings /\ Len(d) >= limit + 2 * Len(l)
        /\ \A i \in 1 .. limit : d[i] = data[i]
    BY <1>1, ResizedIs DEF limit
  <2> HIDE DEF d
  <2>2. data' = Poke(d, cursor, l)
    BY <1>5 DEF d
  <2>3. data' \in Strings /\ Len(data') = Len(d)
    BY <1>1, <2>1, <2>2, PokeIs
  <2>4. Len(d) \in Nat /\ cursor + Len(l) <= Len(d) /\ cursor <= Len(d)
    BY <1>1, <2>1, StringIs
  <2>5. /\ \A i \in 1 .. cursor : i <= Len(d) => data'[i] = d[i]
        /\ \A i \in 1 .. Len(l) : cursor + i <= Len(d) => data'[cursor + i] = l[i]
    BY <1>1, <2>1, <2>2, PokeParts
  <2>6. /\ \A i \in 1 .. cursor : i <= Len(d) /\ i \in 1 .. limit
        /\ \A i \in 1 .. Len(l) : cursor + i <= Len(d)
    BY <1>1, <2>4
  <2> QED
    BY <1>5, <2>1, <2>3, <2>4, <2>5, <2>6 DEF PutBehind
<1>6. ASSUME Loops(l), data' = Poke(Zeros(limit), 0, l), Counted(0, 0, Len(l))
      PROVE  data' \in Strings /\ PutFirst(l)
  <2> DEFINE z == Zeros(limit)
  <2>1. z \in Strings /\ Len(z) = limit
    BY <1>1, ZerosIs
  <2> HIDE DEF z
  <2>2. data' = Poke(z, 0, l)
    BY <1>6 DEF z
  <2>3. data' \in Strings /\ Len(data') = limit
    BY <1>1, <2>1, <2>2, PokeIs
  <2>4. Len(l) <= limit /\ "circular" \in options
    BY <1>1, <1>6 DEF Loops
  <2>5. \A i \in 1 .. Len(l) : 0 + i <= limit => data'[0 + i] = l[i]
    BY <1>1, <2>1, <2>2, PokeParts
  <2>6. \A i \in 1 .. Len(l) : 0 + i = i /\ i <= limit
    BY <1>1, <2>4
  <2>7. \A i \in 1 .. Len(l) : data'[i] = l[i]
    BY <2>5, <2>6
  <2> QED
    BY <1>6, <2>3, <2>4, <2>7 DEF PutFirst
<1>7. CASE /\ "readonly" \notin options /\ out' = <<Len(l)>> /\ lost' = Astray
           /\ data' \in Strings /\ (PutBehind(l) \/ PutFirst(l))
  <2>1. Put(l)
    BY <1>7 DEF Put
  <2> QED
    BY <1>1, <2>1, PutStep
<1> QED
  BY <1>2, <1>3, <1>4, <1>5, <1>6, <1>7 DEF buffer_write_lim

\* What the formatter keeps of a text.
LEMMA ShortenedIs ==
  ASSUME NEW l \in Texts, NEW n \in 0 .. Len(l) - 1
  PROVE  /\ SubSeq(l, 1, n) \in TextSpec!Shortened
         /\ SubSeq(l, 1, n) \o <<Mark>> \in TextSpec!Shortened
<1> DEFINE P(k) == {SubSeq(l, 1, k), SubSeq(l, 1, k) \o <<Mark>>}
           Q    == UNION {P(k) : k \in 0 .. Len(l) - 1}
<1>1. Q \in {UNION {{SubSeq(x, 1, k), SubSeq(x, 1, k) \o <<Mark>>} :
                    k \in 0 .. Len(x) - 1} : x \in Texts}
  OBVIOUS
<1>2. SubSeq(l, 1, n) \in P(n) /\ SubSeq(l, 1, n) \o <<Mark>> \in P(n)
  OBVIOUS
<1> HIDE DEF P
<1>3. P(n) \subseteq Q
  OBVIOUS
<1> HIDE DEF Q
<1>4. Q \subseteq TextSpec!Shortened
  BY <1>1 DEF TextSpec!Shortened
<1> QED
  BY <1>2, <1>3, <1>4

LEMMA CutsIs ==
  ASSUME NEW l \in Texts, NEW cap \in Nat, NEW w \in Cuts(l, cap)
  PROVE  /\ w \in Strings /\ w \in Texts \cup TextSpec!Shortened /\ Len(w) <= cap
         /\ Len(l) < cap => w = l
<1>1. l \in Strings /\ Len(l) \in Nat
  BY TextsAreStrings, StringIs
<1>2. CASE Len(l) < cap
  BY <1>1, <1>2 DEF Cuts
<1>3. CASE ~(Len(l) < cap) /\ cap = 0
  <2>1. SubSeq(l, 1, cap - 1) = <<>>
    BY <1>3, SubSeqEmpty
  <2>2. w = <<>>
    BY <1>3, <2>1 DEF Cuts
  <2>3. w \in Strings /\ Len(w) = 0
    BY <2>2 DEF Strings
  <2>4. w \in Texts \cup TextSpec!Shortened
    <3>1. CASE Len(l) = 0
      <4>1. w = l
        BY <1>1, <2>3, <3>1, SameString
      <4> QED
        BY <4>1
    <3>2. CASE Len(l) # 0
      <4>1. 0 \in 0 .. Len(l) - 1 /\ SubSeq(l, 1, 0) = <<>>
        BY <1>1, <3>2, SubSeqEmpty
      <4> QED
        BY <2>2, <4>1 DEF TextSpec!Shortened
    <3> QED
      BY <3>1, <3>2
  <2> QED
    BY <1>1, <1>3, <2>3, <2>4
<1>4. CASE ~(Len(l) < cap) /\ cap # 0
  <2> DEFINE s == SubSeq(l, 1, cap - 1)
  <2>1. cap - 1 \in 0 .. Len(l) - 1 /\ cap - 1 \in 0 .. Len(l)
    BY <1>1, <1>4
  <2>2. s \in Strings /\ Len(s) = cap - 1 /\ \A i \in 1 .. cap - 1 : s[i] = l[i]
    BY <1>1, <2>1, PrefixIs
  <2>3. s \in TextSpec!Shortened
    BY <2>1, ShortenedIs
  <2>4. w = s \/ (s # <<>> /\ w = [s EXCEPT ![Len(s)] = Mark])
    BY <1>4 DEF Cuts
  <2> HIDE DEF s
  <2>5. ASSUME s # <<>>, w = [s EXCEPT ![Len(s)] = Mark]
        PROVE  w \in Strings /\ Len(w) = cap - 1 /\ w \in TextSpec!Shortened
    <3> DEFINE u == SubSeq(l, 1, cap - 2)
    <3>1. Len(s) \in 1 .. Len(s)
      BY <2>2, <2>5, EmptySeq DEF Strings
    <3>2. cap - 2 \in 0 .. Len(l) - 1 /\ cap - 2 \in 0 .. Len(l) /\ cap - 2 + 1 = cap - 1
      BY <1>1, <2>1, <2>2, <3>1
    <3>3. u \in Strings /\ Len(u) = cap - 2 /\ \A i \in 1 .. cap - 2 : u[i] = l[i]
      BY <1>1, <3>2, PrefixIs
    <3>4. u \o <<Mark>> \in TextSpec!Shortened
      BY <3>2, ShortenedIs
    <3> HIDE DEF u
    <3>5. /\ w \in Strings /\ Len(w) = Len(s)
          /\ \A j \in 1 .. Len(s) : w[j] = IF j = Len(s) THEN Mark ELSE s[j]
      BY <2>2, <2>5, <3>1, MarksAreBytes, ExceptSeq DEF Strings
    <3> DEFINE m == <<Mark>>
    <3>6. m \in Strings /\ Len(m) = 1 /\ m[1] = Mark
      BY MarksAreBytes DEF Strings
    <3> HIDE DEF m
    <3> DEFINE v == u \o m
    <3>7. /\ v \in Strings /\ Len(v) = Len(u) + Len(m)
          /\ \A i \in 1 .. Len(u) : v[i] = u[i]
          /\ \A i \in 1 .. Len(m) : v[Len(u) + i] = m[i]
      BY <3>3, <3>6, JoinedIs
    <3> HIDE DEF v
    <3>8. Len(v) = Len(w) /\ \A i \in 1 .. Len(w) : w[i] = v[i]
      <4>1. Len(v) = Len(s) /\ Len(w) = Len(s) /\ Len(u) + 1 = Len(s)
        BY <1>1, <2>2, <3>2, <3>3, <3>5, <3>6, <3>7
      <4>2. w[Len(s)] = Mark /\ v[Len(u) + 1] = m[1]
        BY <3>1, <3>5, <3>6, <3>7
      <4>3. ASSUME NEW i \in 1 .. Len(s), i # Len(s) PROVE w[i] = v[i]
        <5>1. i \in 1 .. cap - 1 /\ i \in 1 .. cap - 2
          BY <1>1, <2>2, <4>3
        <5>2. v[i] = l[i]
          BY <3>3, <3>7, <5>1
        <5>3. w[i] = l[i]
          BY <2>2, <3>5, <4>3, <5>1
        <5> QED
          BY <5>2, <5>3
      <4> QED
        BY <3>6, <4>1, <4>2, <4>3
    <3>9. w = v
      BY <3>5, <3>7, <3>8, SameString
    <3> QED
      BY <2>2, <3>4, <3>5, <3>9 DEF v, m
  <2> QED
    BY <1>1, <1>4, <2>2, <2>3, <2>4, <2>5
<1> QED
  BY <1>2, <1>3, <1>4

-----------------------------------------------------------------------------
\* Formatting.

\* The block that is written to, and what the call leaves of it.
LEMMA FormatRoom ==
  ASSUME BufferOK, cursor <= limit, NEW f \in Formats
  PROVE  LET d    == IF Short(f) /\ Grows THEN Resized(data, 2 * f) ELSE data
             loop == Short(f) /\ "circular" \in options
             n    == IF loop THEN 0 ELSE cursor
         IN  /\ d \in Strings /\ Len(d) \in Nat /\ Len(d) >= limit
             /\ \A i \in 1 .. limit : d[i] = data[i]
             /\ n \in Nat /\ n <= Len(d)
             /\ Grows /\ limit - cursor >= Slack => Len(d) - n >= f + Slack
<1> DEFINE d    == IF Short(f) /\ Grows THEN Resized(data, 2 * f) ELSE data
           loop == Short(f) /\ "circular" \in options
           n    == IF loop THEN 0 ELSE cursor
<1>1. /\ f \in Nat \ {0} /\ Slack \in Nat \ {0} /\ 2 * f \in Nat /\ data \in Strings
      /\ limit \in Nat /\ cursor \in Nat
  BY SizeAssumption, StringIs DEF BufferOK, limit
<1>2. /\ Resized(data, 2 * f) \in Strings /\ Len(Resized(data, 2 * f)) >= limit + 2 * f
      /\ \A i \in 1 .. limit : Resized(data, 2 * f)[i] = data[i]
      /\ Len(Resized(data, 2 * f)) \in Nat
  BY <1>1, ResizedIs, StringIs DEF limit
<1>3. d \in Strings /\ Len(d) \in Nat /\ \A i \in 1 .. limit : d[i] = data[i]
  BY <1>1, <1>2 DEF limit
<1>4. Len(d) >= limit /\ (Short(f) /\ Grows => Len(d) >= limit + 2 * f)
  BY <1>1, <1>2 DEF limit
<1>5. n \in Nat /\ n <= cursor
  BY <1>1
<1> HIDE DEF d, n
<1>6. n <= Len(d)
  BY <1>1, <1>3, <1>4, <1>5
<1>7. ASSUME Grows, limit - cursor >= Slack PROVE Len(d) - n >= f + Slack
  <2>1. CASE Short(f)
    BY <1>1, <1>3, <1>4, <1>5, <1>7, <2>1
  <2>2. CASE ~Short(f)
    <3>1. f <= limit - cursor - Slack
      BY <1>1, <1>7, <2>2 DEF Short
    <3> QED
      BY <1>1, <1>3, <1>4, <1>5, <3>1
  <2> QED
    BY <2>1, <2>2
<1> QED
  BY <1>3, <1>4, <1>5, <1>6, <1>7 DEF d, n

LEMMA FormatMade ==
  ASSUME BufferOK, cursor <= limit, NEW l \in Texts, NEW f \in Formats,
         buffer_write_va(f, l), "readonly" \notin options
  PROVE  \E w \in Strings :
           /\ w \in Texts \cup TextSpec!Shortened
           /\ data' \in Strings /\ (PutBehind(w) \/ PutFirst(w))
           /\ out' = <<Len(w)>> /\ lost' = Astray
           /\ Grows /\ limit - cursor >= Slack /\ Len(l) < f + Slack => w = l
<1> DEFINE d    == IF Short(f) /\ Grows THEN Resized(data, 2 * f) ELSE data
           loop == Short(f) /\ "circular" \in options
           n    == IF loop THEN 0 ELSE cursor
           from == IF loop THEN Zeros(Len(d)) ELSE d
<1>1. /\ l \in Strings /\ Len(l) \in Nat /\ f \in Nat \ {0} /\ Slack \in Nat \ {0}
      /\ limit \in Nat /\ cursor \in Nat /\ size \in Nat
  BY SizeAssumption, TextsAreStrings, StringIs DEF BufferOK, limit
<1>2. PICK w \in Cuts(l, Len(d) - n) :
        LET written == Poke(from, n, w \o <<Zero>>)
        IN  /\ Counted(n, IF loop THEN 0 ELSE size, Len(w))
            /\ data' = IF Grows /\ Len(d) >= Slack /\ cursor' > Len(d) - Slack
                       THEN Resized(written, 0) ELSE written
            /\ out' = <<Len(w)>> /\ lost' = Astray
  BY DEF buffer_write_va
<1>3. /\ d \in Strings /\ Len(d) \in Nat /\ Len(d) >= limit
      /\ \A i \in 1 .. limit : d[i] = data[i]
      /\ n \in Nat /\ n <= Len(d)
      /\ Grows /\ limit - cursor >= Slack => Len(d) - n >= f + Slack
  BY FormatRoom
<1>4. n = (IF loop THEN 0 ELSE cursor) /\ (loop => "circular" \in options)
  OBVIOUS
<1> HIDE DEF d, n
<1>5. from \in Strings /\ Len(from) = Len(d) /\ (~loop => from = d)
  BY <1>3, ZerosIs
<1> HIDE DEF from, loop
<1>6. Len(d) - n \in Nat
  BY <1>3
<1>7. /\ w \in Strings /\ w \in Texts \cup TextSpec!Shortened /\ Len(w) <= Len(d) - n
      /\ Len(l) < Len(d) - n => w = l
  BY <1>6, CutsIs
<1> DEFINE z == <<Zero>>
           s == w \o z
           t == Poke(from, n, s)
<1>8. z \in Strings /\ Len(z) = 1
  BY MarksAreBytes DEF Strings
<1> HIDE DEF z
<1>9. s \in Strings /\ Len(s) = Len(w) + 1 /\ \A i \in 1 .. Len(w) : s[i] = w[i]
  <2>1. s \in Strings /\ Len(s) = Len(w) + Len(z) /\ \A i \in 1 .. Len(w) : s[i] = w[i]
    BY <1>7, <1>8, JoinedIs
  <2> QED
    BY <1>8, <2>1
<1> HIDE DEF s
<1>10. /\ t \in Strings /\ Len(t) = Len(d)
       /\ \A i \in 1 .. n : i <= Len(d) => t[i] = from[i]
       /\ \A i \in 1 .. Len(s) : n + i <= Len(d) => t[n + i] = s[i]
  <2>1. t \in Strings /\ Len(t) = Len(from)
    BY <1>3, <1>5, <1>9, PokeIs
  <2>2. /\ \A i \in 1 .. n : i <= Len(from) => t[i] = from[i]
        /\ \A i \in 1 .. Len(s) : n + i <= Len(from) => t[n + i] = s[i]
    BY <1>3, <1>5, <1>9, PokeParts
  <2> QED
    BY <1>5, <2>1, <2>2
<1>11. /\ Counted(n, IF loop THEN 0 ELSE size, Len(w))
       /\ data' = t \/ data' = Resized(t, 0)
       /\ out' = <<Len(w)>> /\ lost' = Astray
  BY <1>2 DEF s, z
<1> HIDE DEF t
<1>12. Len(w) \in Nat
  BY <1>7, StringIs
<1>13. /\ data' \in Strings /\ Len(data') >= Len(d) /\ Len(data') \in Nat
       /\ \A i \in 1 .. Len(d) : data'[i] = t[i]
  BY <1>3, <1>10, <1>11, ResizedIs, StringIs
<1>14. n + Len(w) <= Len(data')
  BY <1>3, <1>7, <1>12, <1>13
<1>15. \A i \in 1 .. Len(w) : data'[n + i] = w[i]
  <2>1. ASSUME NEW i \in 1 .. Len(w) PROVE data'[n + i] = w[i]
    <3>1. n + i \in 1 .. Len(d) /\ n + i <= Len(d) /\ i \in 1 .. Len(s)
      BY <1>3, <1>7, <1>9, <1>12
    <3>2. t[n + i] = s[i] /\ s[i] = w[i]
      BY <1>9, <1>10, <3>1
    <3> QED
      BY <1>13, <3>1, <3>2
  <2> QED
    BY <2>1
<1>16. CASE loop
  <2>1. n = 0 /\ "circular" \in options
    BY <1>4, <1>16
  <2>2. \A i \in 1 .. Len(w) : n + i = i
    BY <1>12, <2>1
  <2>3. Counted(0, 0, Len(w)) /\ Len(w) <= Len(data')
    BY <1>11, <1>12, <1>13, <1>14, <1>16, <2>1
  <2>4. PutFirst(w)
    BY <1>15, <2>1, <2>2, <2>3 DEF PutFirst
  <2> QED
    BY <1>1, <1>3, <1>6, <1>7, <1>11, <1>13, <2>4
<1>17. CASE ~loop
  <2>1. n = cursor /\ from = d
    BY <1>4, <1>5, <1>17
  <2>2. Counted(cursor, size, Len(w))
    BY <1>11, <1>17, <2>1
  <2>3. ASSUME NEW i \in 1 .. cursor PROVE data'[i] = data[i]
    <3>1. i \in 1 .. n /\ i <= Len(d) /\ i \in 1 .. Len(d) /\ i \in 1 .. limit
      BY <1>1, <1>3, <2>1
    <3> QED
      BY <1>3, <1>10, <1>13, <2>1, <3>1
  <2>4. PutBehind(w)
    BY <1>14, <1>15, <2>1, <2>2, <2>3 DEF PutBehind
  <2> QED
    BY <1>1, <1>3, <1>6, <1>7, <1>11, <1>13, <2>4
<1> QED
  BY <1>16, <1>17

LEMMA FormatStep ==
  ASSUME Ready, NEW l \in Texts, NEW f \in Formats, buffer_write_va(f, l),
         options' = options
  PROVE  Stays
<1>1. CASE "readonly" \in options
  <2>1. Nothing
    BY <1>1 DEF buffer_write_va
  <2> QED
    BY <1>1, <2>1, NothingStep
<1>2. CASE "readonly" \notin options
  <2>1. BufferOK /\ cursor <= limit
    BY DEF Ready
  <2>2. PICK w \in Strings :
          /\ w \in Texts \cup TextSpec!Shortened
          /\ data' \in Strings /\ (PutBehind(w) \/ PutFirst(w))
          /\ out' = <<Len(w)>> /\ lost' = Astray
    BY <1>2, <2>1, FormatMade
  <2>3. Put(w)
    BY <1>2, <2>2 DEF Put
  <2> QED
    BY <2>2, <2>3, PutStep
<1> QED
  BY <1>1, <1>2

LEMMA FormatWhole == BufferOK => Whole
<1> SUFFICES ASSUME BufferOK, NEW f \in Formats, NEW l \in Texts,
                    buffer_write_va(f, l), Grows, ~Fixed, "readonly" \notin options,
                    limit - cursor >= Slack, Len(l) < f + Slack
             PROVE  out' = <<Len(l)>>
  BY DEF Whole
<1>1. cursor <= limit
  <2>1. limit \in Nat /\ cursor \in Nat /\ Slack \in Nat
    BY SizeAssumption, StringIs DEF BufferOK, limit
  <2> QED
    BY <2>1
<1>2. \E w \in Strings : out' = <<Len(w)>> /\ w = l
  BY <1>1, FormatMade
<1> QED
  BY <1>2

-----------------------------------------------------------------------------
\* Inserting and deleting.

LEMMA SplicedIs ==
  ASSUME NEW s \in Strings, NEW l \in Strings, NEW p \in 0 .. Len(s), NEW q \in p .. Len(s)
  PROVE  LET t == SubSeq(s, 1, p) \o l \o SubSeq(s, q + 1, Len(s))
         IN  /\ t \in Strings /\ Len(t) = p + Len(l) + (Len(s) - q)
             /\ \A i \in 1 .. p : t[i] = s[i]
             /\ \A i \in 1 .. Len(l) : t[p + i] = l[i]
             /\ \A i \in 1 .. Len(s) - q : t[p + Len(l) + i] = s[q + i]
<1> DEFINE a == SubSeq(s, 1, p)
           b == SubSeq(s, q + 1, Len(s))
<1>1. Len(s) \in Nat /\ Len(l) \in Nat /\ q \in Nat /\ p \in Nat /\ q <= Len(s)
  BY StringIs
<1>2. a \in Strings /\ Len(a) = p /\ \A i \in 1 .. p : a[i] = s[i]
  BY PrefixIs
<1>3. b \in Strings /\ Len(b) = (IF q <= Len(s) THEN Len(s) - q ELSE 0)
      /\ \A i \in 1 .. Len(s) - q : b[i] = s[q + i]
  BY <1>1, PartIs
<1> HIDE DEF a, b
<1> DEFINE c == a \o l
<1>4. /\ c \in Strings /\ Len(c) = Len(a) + Len(l)
      /\ \A i \in 1 .. Len(a) : c[i] = a[i]
      /\ \A i \in 1 .. Len(l) : c[Len(a) + i] = l[i]
  BY <1>2, JoinedIs
<1> HIDE DEF c
<1> DEFINE t == c \o b
<1>5. /\ t \in Strings /\ Len(t) = Len(c) + Len(b)
      /\ \A i \in 1 .. Len(c) : t[i] = c[i]
      /\ \A i \in 1 .. Len(b) : t[Len(c) + i] = b[i]
  BY <1>3, <1>4, JoinedIs
<1> HIDE DEF t
<1>6. Len(c) = p + Len(l) /\ Len(b) = Len(s) - q
  BY <1>1, <1>2, <1>3, <1>4
<1>7. \A i \in 1 .. p : t[i] = s[i]
  <2>1. \A i \in 1 .. p : i \in 1 .. Len(c)
    BY <1>1, <1>6
  <2> QED
    BY <1>2, <1>4, <1>5, <2>1
<1>8. \A i \in 1 .. Len(l) : t[p + i] = l[i]
  <2>1. \A i \in 1 .. Len(l) : p + i \in 1 .. Len(c)
    BY <1>1, <1>6
  <2>2. \A i \in 1 .. Len(l) : c[p + i] = l[i]
    BY <1>2, <1>4
  <2> QED
    BY <1>5, <2>1, <2>2
<1>9. \A i \in 1 .. Len(s) - q : t[p + Len(l) + i] = s[q + i]
  BY <1>3, <1>5, <1>6
<1> QED
  BY <1>5, <1>6, <1>7, <1>8, <1>9 DEF t, c, a, b

\* What moves up to make room for k bytes behind the first p.
LEMMA ShiftedIs ==
  ASSUME NEW d \in Strings, NEW p \in Nat, NEW k \in Nat, size \in Nat
  PROVE  /\ Shifted(d, p, k) \in Strings /\ Len(Shifted(d, p, k)) = Len(d)
         /\ \A i \in 1 .. p : i <= Len(d) => Shifted(d, p, k)[i] = d[i]
         /\ \A i \in 1 .. size - p :
              p + k + i <= Len(d) => Shifted(d, p, k)[p + k + i] = d[p + i]
<1> DEFINE s == Shifted(d, p, k)
<1>1. Len(d) \in Nat /\ DOMAIN d = 1 .. Len(d) /\ \A i \in 1 .. Len(d) : d[i] \in Byte
  BY StringIs
<1>2. s = [i \in 1 .. Len(d) |-> IF i > p + k /\ i <= size + k THEN d[i - k] ELSE d[i]]
  BY <1>1 DEF Shifted
<1>3. \A i \in 1 .. Len(d) :
        (IF i > p + k /\ i <= size + k THEN d[i - k] ELSE d[i]) \in Byte
  <2>1. \A i \in 1 .. Len(d) : i > p + k => i - k \in 1 .. Len(d)
    BY <1>1
  <2> QED
    BY <1>1, <2>1
<1>4. s \in Strings /\ Len(s) = Len(d)
  BY <1>1, <1>2, <1>3, MadeString
<1>5. \A i \in 1 .. p : i <= Len(d) => s[i] = d[i]
  BY <1>1, <1>2
<1>6. ASSUME NEW i \in 1 .. size - p, p + k + i <= Len(d)
      PROVE  s[p + k + i] = d[p + i]
  <2> DEFINE j == p + k + i
  <2>1. j \in 1 .. Len(d) /\ j > p + k /\ j <= size + k /\ j - k = p + i
    BY <1>1, <1>6
  <2> HIDE DEF j
  <2>2. s[j] = d[j - k]
    BY <1>2, <2>1
  <2> QED
    BY <2>1, <2>2 DEF j
<1> QED
  BY <1>4, <1>5, <1>6

LEMMA InsertStep ==
  ASSUME Ready, MayMove, NEW l \in Texts, NEW place \in 0 .. size, buffer_write_to(l, place),
         options' = options
  PROVE  Stays
<1> DEFINE p == IF place >= cursor THEN cursor ELSE place
           d == IF Fits(l) THEN data ELSE Resized(data, Len(l))
           k == Len(l)
<1>1. /\ l \in Strings /\ Len(l) \in Nat /\ data \in Strings /\ limit \in Nat
      /\ size \in Nat /\ cursor \in Nat /\ cursor <= limit /\ size <= limit
  BY TextsAreStrings, StringIs DEF Ready, BufferOK
<1>2. CASE "readonly" \in options /\ Nothing
  BY <1>2, NothingStep
<1>3. CASE ~Fits(l) /\ ~Grows /\ Nothing
  <2>1. cursor + Len(l) > limit
    BY <1>1, <1>3 DEF Fits
  <2> QED
    BY <1>3, <2>1, NothingStep DEF Grows
<1>4. CASE /\ "readonly" \notin options /\ (Fits(l) \/ Grows)
           /\ data' = Poke(Shifted(d, p, k), p, l)
           /\ lost' = (size + k > Len(d))
           /\ size' = size + k /\ cursor' = cursor + k /\ out' = <<k>>
  <2>1. p \in 0 .. size /\ p <= cursor /\ p \in Nat
    BY <1>1
  <2>2. /\ d \in Strings /\ Len(d) \in Nat /\ Len(d) >= limit
        /\ \A i \in 1 .. limit : d[i] = data[i]
        /\ ~Fits(l) => Len(d) >= limit + k
    <3>1. /\ Resized(data, k) \in Strings /\ Len(Resized(data, k)) >= limit + k
          /\ Len(Resized(data, k)) \in Nat
          /\ \A i \in 1 .. limit : Resized(data, k)[i] = data[i]
      BY <1>1, ResizedIs, StringIs DEF limit
    <3> QED
      BY <1>1, <3>1 DEF limit
  <2> HIDE DEF d, p
  <2>3. cursor + k <= Len(d) /\ (~Fits(l) => size + k <= Len(d))
    <3>1. CASE Fits(l)
      BY <1>1, <2>2, <3>1 DEF Fits
    <3>2. CASE ~Fits(l)
      BY <1>1, <2>2, <3>2
    <3> QED
      BY <3>1, <3>2
  <2> DEFINE h == Shifted(d, p, k)
  <2>4. /\ h \in Strings /\ Len(h) = Len(d)
        /\ \A i \in 1 .. p : i <= Len(d) => h[i] = d[i]
        /\ \A i \in 1 .. size - p : p + k + i <= Len(d) => h[p + k + i] = d[p + i]
    BY <1>1, <2>1, <2>2, ShiftedIs
  <2>5. data' = Poke(h, p, l)
    BY <1>4
  <2> HIDE DEF h
  <2>6. data' \in Strings /\ Len(data') = Len(d)
    BY <1>1, <2>1, <2>4, <2>5, PokeIs
  <2>0. /\ lost' \in BOOLEAN /\ (lost' => size + k > Len(d))
        /\ (~lost' => ~(size + k > Len(d)))
    <3> DEFINE over == size + k > Len(d)
    <3>1. over \in BOOLEAN
      OBVIOUS
    <3>2. lost' = over
      BY <1>4, Zenon
    <3> HIDE DEF over
    <3>3. lost' \in BOOLEAN /\ (lost' => over) /\ (~lost' => ~over)
      BY <3>1, <3>2, Zenon
    <3> QED
      BY <3>3, Zenon DEF over
  <2>7. BufferOK'
    <3>1. options' \in Kinds /\ "readonly" \notin options'
      BY <1>4 DEF Ready, BufferOK
    <3>2. size' \in Nat /\ cursor' \in Nat
      BY <1>1, <1>4
    <3>3. ~lost' => size' <= Len(data') /\ cursor' <= Len(data')
      BY <1>1, <1>4, <2>0, <2>2, <2>3, <2>6
    <3>4. ~(Fixed' /\ ~MovesStatic)
      BY DEF MayMove, Fixed
    <3> QED
      BY <2>0, <2>6, <3>1, <3>2, <3>3, <3>4 DEF BufferOK, limit
  <2> SUFFICES ASSUME ~MovesStatic PROVE TextSpec!Next
    BY <2>7 DEF Stays
  <2>8. ~Fixed /\ ~TextSpec!Static
    BY TextNow DEF MayMove
  <2>9. CASE lost'
    <3>1. cursor # size
      BY <1>1, <2>0, <2>2, <2>3, <2>9
    <3> QED
      BY <2>9, <2>8, <3>1, TextIsLost
  <2>10. CASE ~lost'
    <3>1. text' = SubSeq(data', 1, size') /\ at' = cursor'
      BY <2>7, <2>10, TextThen
    <3>2. /\ text \in Strings /\ Len(text) = size /\ text # Lost /\ at = cursor
          /\ \A i \in 1 .. size : text[i] = data[i]
      BY TextNow
    <3> DEFINE t == SubSeq(text, 1, p) \o l \o SubSeq(text, p + 1, Len(text))
    <3>3. p \in 0 .. Len(text) /\ p \in p .. Len(text)
      BY <1>1, <2>1, <3>2
    <3>4. /\ t \in Strings /\ Len(t) = p + Len(l) + (Len(text) - p)
          /\ \A i \in 1 .. p : t[i] = text[i]
          /\ \A i \in 1 .. Len(l) : t[p + i] = l[i]
          /\ \A i \in 1 .. Len(text) - p : t[p + Len(l) + i] = text[p + i]
      BY <1>1, <3>2, <3>3, SplicedIs
    <3> HIDE DEF t
    <3>5. Len(t) = size + k /\ Len(t) = size' /\ Len(t) <= Len(data')
      BY <1>1, <1>4, <2>0, <2>1, <2>2, <2>6, <2>10, <3>2, <3>4
    <3>6. \A i \in 1 .. p : data'[i] = t[i]
      <4>1. ASSUME NEW i \in 1 .. p PROVE data'[i] = t[i]
        <5>1. i <= Len(d) /\ i \in 1 .. limit /\ i \in 1 .. size
          BY <1>1, <2>1, <2>2
        <5>2. data'[i] = h[i]
          BY <1>1, <2>1, <2>4, <2>5, <5>1, PokeParts
        <5> QED
          BY <2>2, <2>4, <3>2, <3>4, <5>1, <5>2
      <4> QED
        BY <4>1
    <3>7. \A i \in 1 .. k : data'[p + i] = t[p + i]
      <4>1. \A i \in 1 .. Len(l) : p + i <= Len(h) => data'[p + i] = l[i]
        BY <1>1, <2>1, <2>4, <2>5, PokeParts
      <4>2. \A i \in 1 .. k : p + i <= Len(h)
        BY <1>1, <2>1, <2>2, <2>3, <2>4
      <4> QED
        BY <3>4, <4>1, <4>2
    <3>8. \A i \in 1 .. size - p : data'[p + k + i] = t[p + k + i]
      <4>1. ASSUME NEW i \in 1 .. size - p PROVE data'[p + k + i] = t[p + k + i]
        <5> DEFINE j == p + k + i
        <5>1. j \in 1 .. Len(h) /\ j > p + Len(l) /\ p + i \in 1 .. size /\ p + i \in 1 .. limit
              /\ j <= Len(d)
          BY <1>1, <2>0, <2>1, <2>2, <2>4, <2>10
        <5>2. h[j] = data[p + i]
          BY <2>2, <2>4, <5>1
        <5>3. t[j] = data[p + i]
          BY <3>2, <3>4, <5>1
        <5> HIDE DEF j
        <5>4. data'[j] = h[j]
          <6>1. data'[j] = IF j > p /\ j <= p + Len(l) THEN l[j - p] ELSE h[j]
            BY <1>1, <2>1, <2>4, <2>5, <5>1, PokeIs
          <6>2. ~(j <= p + Len(l))
            BY <1>1, <2>1, <2>4, <5>1, StringIs
          <6> QED
            BY <6>1, <6>2
        <5> QED
          BY <5>2, <5>3, <5>4 DEF j
      <4> QED
        BY <4>1
    <3>9. ASSUME NEW i \in 1 .. Len(t) PROVE data'[i] = t[i]
      <4>1. CASE i <= p
        BY <2>1, <3>6, <4>1
      <4>2. CASE i > p /\ i <= p + k
        <5>1. i - p \in 1 .. k /\ p + (i - p) = i
          BY <1>1, <2>1, <4>2
        <5> QED
          BY <3>7, <5>1
      <4>3. CASE i > p + k
        <5>1. i - p - k \in 1 .. size - p /\ p + k + (i - p - k) = i
          BY <1>1, <2>1, <3>5, <4>3
        <5> QED
          BY <3>8, <5>1
      <4> QED
        BY <1>1, <2>1, <4>1, <4>2, <4>3
    <3>10. text' = t
      BY <2>6, <3>1, <3>4, <3>5, <3>9, TextIs
    <3>11. /\ p \in 0 .. Len(text) /\ p <= at /\ "readonly" \notin options
           /\ at' = (IF TextSpec!Static THEN at ELSE at + Len(l))
           /\ out' = <<Len(l)>> /\ Len(text') <= limit'
      BY <1>4, <2>1, <2>6, <2>8, <3>1, <3>2, <3>3, <3>5, <3>10 DEF limit
    <3>12. TextSpec!Insert
      BY <3>10, <3>11 DEF TextSpec!Insert, t
    <3> QED
      BY <3>2, <3>12 DEF TextSpec!Next
  <2> QED
    BY <2>0, <2>9, <2>10
<1> QED
  BY <1>2, <1>3, <1>4 DEF buffer_write_to

LEMMA DeleteStep ==
  ASSUME Ready, NEW place \in 0 .. size, NEW amount \in 0 .. size,
         buffer_delete(place, amount), options' = options
  PROVE  Stays
<1> DEFINE n == IF amount < place THEN amount ELSE place
<1>1. /\ data \in Strings /\ limit \in Nat /\ limit = Len(data)
      /\ size \in Nat /\ cursor \in Nat /\ cursor <= limit /\ size <= limit
  BY DEF Ready, BufferOK, limit
<1>2. /\ text \in Strings /\ Len(text) = size /\ text # Lost /\ at = cursor
      /\ \A i \in 1 .. size : text[i] = data[i]
      /\ text = SubSeq(data, 1, size)
  BY TextNow
<1>3. CASE "readonly" \in options
  BY <1>3, NothingStep DEF buffer_delete
<1>4. CASE "readonly" \notin options /\ amount = 0
  <2>1. Nothing
    BY <1>4 DEF buffer_delete
  <2>2. BufferOK'
    BY <2>1 DEF BufferOK, Ready, Nothing, limit, Fixed
  <2>3. limit' = limit /\ text' = text /\ at' = at /\ out' = <<0>>
    BY <2>1 DEF limit, text, at, Nothing
  <2> DEFINE t == SubSeq(text, 1, 0 - 0) \o SubSeq(text, 0 + 1, Len(text))
  <2>4. t = text
    <3>1. 0 - 0 = 0 /\ 0 + 1 = 1
      OBVIOUS
    <3>2. SubSeq(text, 1, 0) = <<>>
      BY SubSeqEmpty
    <3>3. SubSeq(text, 1, Len(text)) = text
      BY <1>2, SubSeqFull DEF Strings
    <3>4. <<>> \o text = text
      BY <1>2, ConcatEmptySeq DEF Strings
    <3> QED
      BY <3>1, <3>2, <3>3, <3>4
  <2> HIDE DEF t
  <2>5. /\ 0 \in 0 .. Len(text) /\ 0 \in 0 .. 0
        /\ at' = IF at >= 0 THEN at - 0 ELSE at
    BY <1>1, <1>2, <2>3
  <2>6. TextSpec!Delete
    BY <1>4, <2>3, <2>4, <2>5 DEF TextSpec!Delete, t
  <2> QED
    BY <1>2, <2>2, <2>6 DEF TextSpec!Next, Stays
<1>5. CASE /\ "readonly" \notin options
           /\ data' = [i \in DOMAIN data |->
                         IF i > place - n /\ i <= size - n THEN data[i + n] ELSE data[i]]
           /\ size' = size - n /\ cursor' = Deleted(place, n)
           /\ out' = <<n>> /\ lost' = lost
  <2>1. n \in 0 .. place /\ place \in 0 .. size /\ n \in Nat
    BY <1>1
  <2> HIDE DEF n
  <2>2. /\ data' \in Strings /\ Len(data') = limit
        /\ \A i \in 1 .. limit :
             data'[i] = IF i > place - n /\ i <= size - n THEN data[i + n] ELSE data[i]
    <3>1. DOMAIN data = 1 .. limit /\ \A i \in 1 .. limit : data[i] \in Byte
      BY <1>1, StringIs
    <3>2. \A i \in 1 .. limit :
            (IF i > place - n /\ i <= size - n THEN data[i + n] ELSE data[i]) \in Byte
      <4>1. \A i \in 1 .. limit : i <= size - n => i + n \in 1 .. limit
        BY <1>1, <2>1
      <4> QED
        BY <3>1, <4>1
    <3>3. data' \in [1 .. limit -> Byte]
      BY <1>5, <3>1, <3>2
    <3> QED
      BY <1>1, <1>5, <3>1, <3>3, MadeString
  <2>3. cursor' \in Nat /\ cursor' <= limit /\ size' \in Nat /\ size' <= limit
    BY <1>1, <1>5, <2>1 DEF Deleted
  <2>4. BufferOK' /\ ~lost'
    <3>1. Fixed' /\ ~MovesStatic => cursor = 0
      BY DEF Ready, BufferOK, Fixed
    <3>2. cursor = 0 => cursor' = 0
      BY <1>5, <2>1 DEF Deleted
    <3> QED
      BY <1>5, <2>2, <2>3, <3>1, <3>2 DEF BufferOK, Ready, limit
  <2>5. text' = SubSeq(data', 1, size') /\ at' = cursor'
    BY <2>4, TextThen
  <2> DEFINE p == place - n
             t == SubSeq(text, 1, p) \o SubSeq(text, place + 1, Len(text))
  <2>6. p \in Nat /\ p <= size /\ p \in 0 .. Len(text) /\ place \in p .. Len(text)
        /\ place \in Nat /\ place <= size
    BY <1>1, <1>2, <2>1
  <2>7. /\ t \in Strings /\ Len(t) = p + (size - place)
        /\ \A i \in 1 .. p : t[i] = data[i]
        /\ \A i \in 1 .. size - place : t[p + i] = data[place + i]
    <3> DEFINE a == SubSeq(text, 1, p)
               b == SubSeq(text, place + 1, Len(text))
    <3>1. a \in Strings /\ Len(a) = p /\ \A i \in 1 .. p : a[i] = text[i]
      BY <1>2, <2>6, PrefixIs
    <3>2. b \in Strings /\ Len(b) = (IF place <= Len(text) THEN Len(text) - place ELSE 0)
          /\ \A i \in 1 .. Len(text) - place : b[i] = text[place + i]
      <4> HIDE DEF p
      <4>1. Len(text) \in Nat /\ place \in Nat /\ text \in Strings
        BY <1>1, <1>2, <2>6
      <4> QED
        BY <4>1, PartIs
    <3> HIDE DEF a, b, p
    <3>3. /\ a \o b \in Strings /\ Len(a \o b) = Len(a) + Len(b)
          /\ \A i \in 1 .. Len(a) : (a \o b)[i] = a[i]
          /\ \A i \in 1 .. Len(b) : (a \o b)[Len(a) + i] = b[i]
      BY <3>1, <3>2, JoinedIs
    <3> DEFINE u == a \o b
    <3>4. u = t
      BY DEF a, b
    <3> HIDE DEF t, u
    <3>5. /\ u \in Strings /\ Len(u) = p + Len(b)
          /\ \A i \in 1 .. p : u[i] = a[i]
          /\ \A i \in 1 .. Len(b) : u[p + i] = b[i]
      BY <3>1, <3>3 DEF u
    <3>6. Len(b) = size - place
      BY <1>2, <2>6, <3>2
    <3>7. \A i \in 1 .. p : i \in 1 .. size
      BY <1>1, <2>6
    <3>8. \A i \in 1 .. size - place : place + i \in 1 .. size
      BY <1>1, <2>6
    <3>9. \A i \in 1 .. p : u[i] = data[i]
      BY <1>2, <3>1, <3>5, <3>7
    <3>10. \A i \in 1 .. size - place : u[p + i] = data[place + i]
      BY <1>2, <3>2, <3>5, <3>6, <3>8
    <3> QED
      BY <3>4, <3>5, <3>6, <3>9, <3>10
  <2>8. p = place - n
    OBVIOUS
  <2> HIDE DEF t, p
  <2>9. Len(t) = size - n /\ Len(t) <= limit
    BY <1>1, <2>1, <2>6, <2>7, <2>8
  <2>10. ASSUME NEW i \in 1 .. Len(t) PROVE data'[i] = t[i]
    <3>1. i \in 1 .. limit /\ i <= size - n
      BY <1>1, <2>1, <2>9
    <3>2. CASE i <= p
      BY <2>2, <2>6, <2>7, <2>8, <3>1, <3>2
    <3>3. CASE i > p
      <4>1. i - p \in 1 .. size - place /\ p + (i - p) = i /\ place + (i - p) = i + n
        BY <1>1, <2>1, <2>6, <2>8, <2>9, <3>1, <3>3
      <4>2. t[i] = data[i + n]
        BY <2>7, <4>1
      <4> QED
        BY <2>2, <2>8, <3>1, <3>3, <4>2
    <3> QED
      BY <2>6, <3>2, <3>3
  <2>11. SubSeq(data', 1, Len(t)) = t
    BY <2>2, <2>7, <2>9, <2>10, TextIs
  <2>12. text' = t
    BY <1>5, <2>5, <2>9, <2>11
  <2>13. /\ at' = (IF at >= place THEN at - n ELSE at) /\ out' = <<n>> /\ limit' = limit
         /\ place \in 0 .. Len(text) /\ n \in 0 .. place
    BY <1>2, <1>5, <2>1, <2>2, <2>5 DEF Deleted, limit
  <2>14. TextSpec!Delete
    BY <1>5, <2>12, <2>13 DEF TextSpec!Delete, t, p
  <2> QED
    BY <1>2, <2>4, <2>14 DEF TextSpec!Next, Stays
<1> QED
  BY <1>3, <1>4, <1>5 DEF buffer_delete

-----------------------------------------------------------------------------
\* The calls that leave the text alone, and the one that clears it.

LEMMA SeekStep ==
  ASSUME Ready, MayMove, NEW n \in Int, NEW b \in BOOLEAN, buffer_seek(n, b), options' = options
  PROVE  Stays
<1>1. /\ size \in Nat /\ cursor \in Nat /\ cursor <= limit /\ size <= limit /\ limit \in Nat
  BY DEF Ready, BufferOK
<1>2. /\ cursor' \in 0 .. size \cup {cursor} /\ out' = <<cursor'>>
      /\ UNCHANGED <<data, size, lost>>
  BY DEF buffer_seek
<1>3. cursor' \in Nat /\ cursor' <= limit
  BY <1>1, <1>2
<1>4. BufferOK'
  BY <1>2, <1>3 DEF BufferOK, Ready, limit, MayMove, Fixed
<1>5. /\ text' = text /\ at' = cursor' /\ limit' = limit /\ at = cursor
      /\ Len(text) = size /\ text # Lost
  <2>1. Len(text) = size /\ text # Lost /\ at = cursor
    BY TextNow
  <2> QED
    BY <1>2, <2>1 DEF text, at, limit, Ready
<1>6. TextSpec!Seek
  BY <1>2, <1>5 DEF TextSpec!Seek
<1> QED
  BY <1>4, <1>5, <1>6 DEF TextSpec!Next, Stays

LEMMA ReadStep ==
  ASSUME Ready, NEW n \in Nat, NEW place \in 0 .. size, buffer_read(n, place),
         options' = options
  PROVE  Stays
<1> DEFINE m == IF Fixed THEN 0 ELSE place
           q == IF m + n < size THEN m + n ELSE size
<1>1. /\ data \in Strings /\ size \in Nat /\ size <= Len(data) /\ size <= limit
      /\ limit \in Nat
  BY DEF Ready, BufferOK, limit
<1>2. out' = SubSeq(data, m + 1, q) /\ UNCHANGED <<data, size, cursor, lost>>
  BY DEF buffer_read
<1>3. m \in 0 .. size /\ q \in 0 .. size /\ m \in Nat /\ q \in Nat /\ (Fixed => m = 0)
  BY <1>1
<1> HIDE DEF m, q
<1>4. BufferOK'
  BY <1>2 DEF BufferOK, Ready, limit, Fixed
<1>5. /\ text' = text /\ at' = at /\ limit' = limit
  BY <1>2 DEF text, at, limit, Ready
<1>6. /\ text \in Strings /\ Len(text) = size /\ text # Lost /\ (TextSpec!Static <=> Fixed)
      /\ \A i \in 1 .. size : text[i] = data[i]
  BY TextNow
<1> DEFINE r == SubSeq(data, m + 1, q)
           s == SubSeq(text, m + 1, q)
<1>7. /\ r \in Strings /\ Len(r) = (IF m <= q THEN q - m ELSE 0)
      /\ \A i \in 1 .. q - m : r[i] = data[m + i]
  <2>1. q <= Len(data)
    BY <1>1, <1>3
  <2> QED
    BY <1>1, <1>3, <2>1, PartIs
<1>8. /\ s \in Strings /\ Len(s) = (IF m <= q THEN q - m ELSE 0)
      /\ \A i \in 1 .. q - m : s[i] = text[m + i]
  <2>1. q <= Len(text)
    BY <1>3, <1>6
  <2> QED
    BY <1>3, <1>6, <2>1, PartIs
<1> HIDE DEF r, s
<1>9. \A i \in 1 .. Len(r) : i \in 1 .. q - m /\ m + i \in 1 .. size
  BY <1>1, <1>3, <1>7
<1>10. r = s
  <2>1. \A i \in 1 .. Len(r) : r[i] = s[i]
    BY <1>6, <1>7, <1>8, <1>9
  <2> QED
    BY <1>7, <1>8, <2>1, SameString
<1>11. out' = SubSeq(text, m + 1, q)
  BY <1>2, <1>10 DEF r, s
<1>12. TextSpec!Read
  BY <1>3, <1>5, <1>6, <1>11 DEF TextSpec!Read
<1> QED
  BY <1>4, <1>6, <1>12 DEF TextSpec!Next, Stays

LEMMA WipeStep ==
  ASSUME BufferOK, buffer_wipe, options' = options
  PROVE  Stays
<1>1. CASE "readonly" \in options
  <2>1. Ready
    BY <1>1, ReadyIs DEF BufferOK
  <2> QED
    BY <1>1, <2>1, NothingStep DEF buffer_wipe
<1>2. CASE "readonly" \notin options
  <2>1. /\ data' = Zeros(limit) /\ size' = 0 /\ cursor' = 0 /\ lost' = FALSE /\ out' = out
    BY <1>2 DEF buffer_wipe
  <2>2. limit \in Nat
    BY StringIs DEF BufferOK, limit
  <2>3. data' \in Strings /\ Len(data') = limit
    <3> DEFINE z == Zeros(limit)
    <3>1. z \in Strings /\ Len(z) = limit
      BY <2>2, ZerosIs
    <3>2. data' = z
      BY <2>1
    <3> HIDE DEF z
    <3> QED
      BY <3>1, <3>2
  <2>4. BufferOK'
    <3>1. size' = 0 /\ cursor' = 0 /\ ~lost' /\ lost' \in BOOLEAN
      BY <2>1
    <3>2. options' \in Kinds /\ "readonly" \notin options'
      BY <1>2 DEF BufferOK
    <3> QED
      BY <2>2, <2>3, <3>1, <3>2 DEF BufferOK, limit
  <2>5. text' = <<>> /\ at' = 0 /\ limit' = limit
    <3>1. SubSeq(data', 1, 0) = <<>>
      BY SubSeqEmpty
    <3> QED
      BY <2>1, <2>3, <3>1 DEF text, at, limit
  <2>6. TextSpec!Wipe
    BY <1>2, <2>1, <2>5 DEF TextSpec!Wipe
  <2> QED
    BY <2>4, <2>6 DEF TextSpec!Next, Stays
<1> QED
  BY <1>1, <1>2

-----------------------------------------------------------------------------
\* The specification.

LEMMA InitOK == Init => BufferOK /\ TextSpec!Init
<1> SUFFICES ASSUME Init PROVE BufferOK /\ TextSpec!Init
  OBVIOUS
<1>1. /\ data = Zeros(Created) /\ size = 0 /\ cursor = 0 /\ options \in Kinds
      /\ lost = FALSE
  BY DEF Init, Fresh
<1>2. Created \in Nat
  BY SizeAssumption
<1>3. data \in Strings /\ Len(data) = Created
  <2> DEFINE z == Zeros(Created)
  <2>1. z \in Strings /\ Len(z) = Created
    BY <1>2, ZerosIs
  <2>2. data = z
    BY <1>1
  <2> HIDE DEF z
  <2> QED
    BY <2>1, <2>2
<1>4. BufferOK
  <2>1. size = 0 /\ cursor = 0 /\ ~lost /\ lost \in BOOLEAN /\ options \in Kinds
    BY <1>1
  <2> QED
    BY <1>2, <1>3, <2>1 DEF BufferOK, limit
<1>5. SubSeq(data, 1, 0) = <<>>
  BY SubSeqEmpty
<1> QED
  BY <1>1, <1>2, <1>3, <1>4, <1>5 DEF TextSpec!Init, text, at, limit

LEMMA NextOK ==
  BufferOK /\ [Next]_vars =>
    BufferOK' /\ (~MovesStatic => [TextSpec!Next]_(TextSpec!vars)) /\ Whole
<1> SUFFICES ASSUME BufferOK, [Next]_vars
             PROVE  BufferOK' /\ (~MovesStatic => [TextSpec!Next]_(TextSpec!vars))
  BY FormatWhole
<1>1. CASE UNCHANGED vars
  BY <1>1 DEF vars, BufferOK, limit, Fixed, text, at, TextSpec!vars
<1>2. ASSUME Next PROVE Stays
  <2>1. options' = options
    BY <1>2 DEF Next
  <2>2. size \in Nat /\ (~lost => Ready)
    BY ReadyIs DEF BufferOK
  <2>3. CASE Write
    BY <2>1, <2>2, <2>3, WriteStep DEF Write
  <2>4. CASE Format
    BY <2>1, <2>2, <2>4, FormatStep DEF Format
  <2>5. CASE Insert
    BY <2>1, <2>2, <2>5, InsertStep DEF Insert
  <2>6. CASE Delete
    BY <2>1, <2>2, <2>6, DeleteStep DEF Delete
  <2>7. CASE Seek
    <3>1. PICK n \in -1 .. size + 1, b \in BOOLEAN : ~lost /\ MayMove /\ buffer_seek(n, b)
      BY <2>7 DEF Seek
    <3>2. n \in Int
      BY <2>2
    <3> QED
      BY <2>1, <2>2, <3>1, <3>2, SeekStep
  <2>8. CASE Read
    <3>1. PICK n \in 1 .. size + 1, p \in 0 .. size : ~lost /\ buffer_read(n, p)
      BY <2>8 DEF Read
    <3>2. n \in Nat
      BY <2>2
    <3> QED
      BY <2>1, <2>2, <3>1, <3>2, ReadStep
  <2>9. CASE buffer_wipe
    BY <2>1, <2>9, WipeStep
  <2> QED
    BY <1>2, <2>3, <2>4, <2>5, <2>6, <2>7, <2>8, <2>9 DEF Next
<1> QED
  BY <1>1, <1>2 DEF Stays

\* The inductive invariant.
THEOREM BufferIsOK == Spec => []BufferOK
<1>1. Init => BufferOK
  BY InitOK
<1>2. BufferOK /\ [Next]_vars => BufferOK'
  BY NextOK
<1> QED
  BY <1>1, <1>2, PTL DEF Spec

\* The size and the cursor stay within the block, whatever is written to a
\* buffer of whatever kind, until the text is lost.
THEOREM TypeCorrect == Spec => []TypeOK
<1>1. BufferOK => TypeOK
  BY StringIs DEF BufferOK, TypeOK, limit, Strings
<1> QED
  BY <1>1, BufferIsOK, PTL

\* A formatted text is written whole to a buffer that can grow, for every
\* slack, as long as the slack is left ahead of the cursor.
THEOREM FormatsWhole == Spec => FormattedWhole
<1>1. BufferOK /\ [Next]_vars => [Whole]_vars
  BY NextOK
<1> QED
  BY <1>1, BufferIsOK, PTL DEF Spec, FormattedWhole

\* A buffer is a text with a cursor, for clients that neither insert nor seek in
\* a static one: every call does to its bytes what the text promises, also where
\* the block grows or starts over.
THEOREM RefinesText ==
  ASSUME ~MovesStatic
  PROVE  Spec => ImplementsText
<1>1. Init => TextSpec!Init
  BY InitOK
<1>2. BufferOK /\ [Next]_vars => [TextSpec!Next]_(TextSpec!vars)
  BY NextOK
<1> QED
  BY <1>1, <1>2, BufferIsOK, PTL DEF Spec, ImplementsText, TextSpec!Spec
=============================================================================

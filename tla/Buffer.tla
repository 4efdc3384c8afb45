-------------------------------- MODULE Buffer --------------------------------
(***************************************************************************)
(* The buffers of files/buffer.c: a block, how much of it is in use and a  *)
(* cursor.  Four option bits say what becomes of a write there is no room  *)
(* for.  The block always has the memory it asks for.                      *)
(***************************************************************************)
EXTENDS Integers, Sequences, SequencesExt

CONSTANTS Texts, Mark, Lost, \* see Text
          Zero,     \* a byte that is not written
          Kinds,    \* the sets of options that clients ask for
          Created,  \* the size they ask for
          Slack,    \* the 256 bytes a formatted write wants beyond the format
          Formats,  \* lengths of format strings
          MovesStatic, \* whether clients insert or seek in static buffers too
          MaxLimit  \* bound of the model: how far a block grows

ASSUME KindsAssumption == Kinds \subseteq SUBSET {"grow", "circular", "static", "readonly"}
ASSUME MovesAssumption == MovesStatic \in BOOLEAN
ASSUME SizeAssumption  == {Created, Slack} \cup Formats \subseteq Nat \ {0}
Byte == (UNION {Range(l) : l \in Texts}) \cup {Mark, Zero}
ASSUME TextAssumption ==
  /\ \A l \in Texts : l \in Seq(Range(l)) /\ Mark \notin Range(l)
  /\ Lost \notin Seq(Byte)

VARIABLES data,     \* the block: its length is buf->limit
          size,     \* buf->buffer_size
          cursor,
          options,
          out,      \* what the last call returned: a number, or the bytes read
          lost      \* history: the client wrote where the text does not end
vars == <<data, size, cursor, options, out, lost>>

limit == Len(data)
Zeros(n) == [i \in 1 .. n |-> Zero]
Grows == "grow" \in options
Fixed == "static" \in options

\* Bytes put into a block from an offset on.
Poke(d, at, s) == [i \in DOMAIN d |-> IF i - at \in DOMAIN s THEN s[i - at] ELSE d[i]]

\* buffer_resize
Resized(d, amount) == d \o Zeros(IF amount = 0 THEN Len(d) ELSE amount)

Fresh(k) ==
  /\ data = Zeros(Created) /\ size = 0 /\ cursor = 0 /\ options = k
  /\ out = <<>> /\ lost = FALSE

Init == \E k \in Kinds : Fresh(k)

Nothing == out' = <<0>> /\ UNCHANGED <<data, size, cursor, lost>>

\* Where a write of n bytes at offset at leaves the size and the cursor.
Counted(at, had, n) ==
  IF Fixed THEN size' = n /\ cursor' = 0 ELSE size' = had + n /\ cursor' = at + n

\* Writing away from the end; a static buffer has only what it was given last.
Astray == ~Fixed /\ cursor # size

-----------------------------------------------------------------------------
Fits(l) == limit - cursor >= Len(l)

LoopsAlways(l) == "circular" \in options

Loops(l) == "circular" \in options /\ Len(l) < limit

\* buffer_write_lim, and so buffer_write_const and buffer_write_space.
buffer_write_lim(l) ==
  \/ "readonly" \in options /\ Nothing
  \/ "readonly" \notin options /\ ~Fits(l) /\ ~Grows /\ ~Loops(l) /\ Nothing
  \/ /\ "readonly" \notin options
     /\ \/ Fits(l) /\ data' = Poke(data, cursor, l) /\ Counted(cursor, size, Len(l))
        \/ /\ ~Fits(l) /\ Grows
           /\ data' = Poke(Resized(data, 2 * Len(l)), cursor, l)
           /\ Counted(cursor, size, Len(l))
        \/ /\ ~Fits(l) /\ ~Grows /\ Loops(l)
           /\ data' = Poke(Zeros(limit), 0, l) /\ Counted(0, 0, Len(l))
     /\ out' = <<Len(l)>> /\ lost' = Astray

\* string_format_va_buf: what of l goes into cap bytes that end in a zero.  The
\* mark is missing where the cut falls between two pieces of the format.
Cuts(l, cap) ==
  IF Len(l) < cap THEN {l}
  ELSE LET w == SubSeq(l, 1, cap - 1)
       IN  {w} \cup (IF w = <<>> THEN {} ELSE {[w EXCEPT ![Len(w)] = Mark]})

\* Unsigned subtraction: a buffer with less than the slack left wants no more.
ShortWithoutSlack(f) == f > limit - cursor

Short(f) == limit - cursor >= Slack /\ f > limit - cursor - Slack

\* buffer_write_va: a text that a format of length f makes.  A buffer that both
\* grows and loops does both.
buffer_write_va(f, l) ==
  \/ "readonly" \in options /\ Nothing
  \/ /\ "readonly" \notin options
     /\ LET d    == IF Short(f) /\ Grows THEN Resized(data, 2 * f) ELSE data
            loop == Short(f) /\ "circular" \in options
            at   == IF loop THEN 0 ELSE cursor
        IN  \E w \in Cuts(l, Len(d) - at) :
              LET written == Poke(IF loop THEN Zeros(Len(d)) ELSE d, at, w \o <<Zero>>)
              IN  /\ Counted(at, IF loop THEN 0 ELSE size, Len(w))
                  /\ data' = IF Grows /\ Len(d) >= Slack /\ cursor' > Len(d) - Slack
                             THEN Resized(written, 0) ELSE written
                  /\ out' = <<Len(w)>> /\ lost' = Astray

Shifted(d, at, n) == [i \in DOMAIN d |-> IF i > at + n /\ i <= size + n THEN d[i - n] ELSE d[i]]

\* buffer_write_to: what follows the place moves up.  The cursor never goes
\* beyond the text.
buffer_write_to(l, place) ==
  \/ ("readonly" \in options \/ (~Fits(l) /\ ~Grows)) /\ Nothing
  \/ /\ "readonly" \notin options /\ (Fits(l) \/ Grows)
     /\ LET at == IF place >= cursor THEN cursor ELSE place
            d  == IF Fits(l) THEN data ELSE Resized(data, Len(l))
        IN  /\ data' = Poke(Shifted(d, at, Len(l)), at, l)
            /\ lost' = (size + Len(l) > Len(d))
     /\ size' = size + Len(l) /\ cursor' = cursor + Len(l) /\ out' = <<Len(l)>>

\* buffer_delete: the bytes before a place in the text.
DeletedKeepingCursor(place, n) == cursor

Deleted(place, n) == IF cursor >= place THEN cursor - n ELSE cursor

buffer_delete(place, amount) ==
  LET n == IF amount < place THEN amount ELSE place
  IN  IF amount = 0 \/ "readonly" \in options THEN Nothing
      ELSE /\ data' = [i \in DOMAIN data |->
                         IF i > place - n /\ i <= size - n THEN data[i + n] ELSE data[i]]
           /\ size' = size - n /\ cursor' = Deleted(place, n)
           /\ out' = <<n>> /\ lost' = lost

buffer_seek(amount, absolute) ==
  LET to == IF absolute THEN (IF amount < 0 THEN 0 ELSE amount) ELSE cursor + amount
  IN  /\ cursor' = IF to \in 0 .. size THEN to ELSE cursor   \* below 0 it wraps
      /\ out' = <<cursor'>> /\ UNCHANGED <<data, size, lost>>

buffer_read(n, place) ==
  LET at == IF Fixed THEN 0 ELSE place
  IN  /\ out' = SubSeq(data, at + 1, IF at + n < size THEN at + n ELSE size)
      /\ UNCHANGED <<data, size, cursor, lost>>

buffer_wipe ==
  IF "readonly" \in options THEN Nothing
  ELSE /\ data' = Zeros(limit) /\ size' = 0 /\ cursor' = 0 /\ lost' = FALSE
       /\ UNCHANGED out

-----------------------------------------------------------------------------
\* The model follows a buffer whose text is lost no further than a wipe.
Write  == ~lost /\ \E l \in Texts : buffer_write_lim(l)
Format == ~lost /\ \E l \in Texts, f \in Formats : buffer_write_va(f, l)
MayMove == Fixed => MovesStatic
Insert == ~lost /\ MayMove /\ \E l \in Texts, p \in 0 .. size : buffer_write_to(l, p)
Delete == ~lost /\ \E p, n \in 0 .. size : buffer_delete(p, n)
Seek   == ~lost /\ MayMove /\ \E n \in -1 .. size + 1, b \in BOOLEAN : buffer_seek(n, b)
Read   == ~lost /\ \E n \in 1 .. size + 1, p \in 0 .. size : buffer_read(n, p)

Next ==
  /\ Write \/ Format \/ Insert \/ Delete \/ Seek \/ Read \/ buffer_wipe
  /\ options' = options /\ Len(data') <= MaxLimit

Spec == Init /\ [][Next]_vars

-----------------------------------------------------------------------------
\* The type invariant: buffer_size, the cursor and the limit of a buffer whose
\* client has not lost the text stay within the block (buffer.c:64-84).
TypeOK ==
  /\ data \in Seq(Byte) /\ options \in Kinds /\ lost \in BOOLEAN
  /\ ~lost => size \in 0 .. limit /\ cursor \in 0 .. limit

\* "Once full, expands" (buffer.h:13): as long as the slack is left ahead of the
\* cursor, a formatted text as long as its format and nearly the slack more is
\* written whole to a buffer that can grow (buffer.c:33-56).
Whole ==
  \A f \in Formats, l \in Texts :
    /\ buffer_write_va(f, l) /\ Grows /\ ~Fixed /\ "readonly" \notin options
    /\ limit - cursor >= Slack /\ Len(l) < f + Slack
    => out' = <<Len(l)>>
FormattedWhole == [][Whole]_vars

\* What a static buffer is given is written at its start, whatever was called
\* before (buffer.h:15).
FromStart ==
  \A l \in Texts : Fixed /\ buffer_write_lim(l) /\ out' = <<Len(l)>> => SubSeq(data', 1, size') = l
StaticFromStart == [][FromStart]_vars

\* Clients that neither insert nor seek in a static buffer see a text with a
\* cursor, whatever is written, inserted, deleted and formatted in whatever
\* order, also when a block grows or a circular buffer starts over, and a request
\* that is refused changes nothing (buffer.c:26-152).
text == IF lost THEN Lost ELSE SubSeq(data, 1, size)
at   == IF lost THEN 0 ELSE cursor
TextSpec == INSTANCE Text WITH kind <- options, room <- limit
ImplementsText == TextSpec!Spec
=============================================================================

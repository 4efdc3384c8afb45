--------------------------------- MODULE Text ---------------------------------
(***************************************************************************)
(* What a buffer of files/buffer.c promises: it is a text with a cursor.   *)
(* Writing adds to the end, a circular buffer may start over instead, and  *)
(* a static one holds what was written last, wherever its cursor is.       *)
(* Writing to another with the cursor away from the end is not defined:    *)
(* what the text is then nobody can tell.                                  *)
(***************************************************************************)
EXTENDS Integers, Sequences

CONSTANTS Texts,     \* what clients write
          Mark,      \* what the formatter puts where it cut a text short
          Lost       \* no text

VARIABLES kind,      \* the options of the buffer
          room,      \* how many bytes its block has
          text, at,  \* what it holds, where the cursor is
          out        \* what the last call returned: a number, or the bytes read

vars == <<kind, room, text, at, out>>

Shortened ==
  UNION {UNION {{SubSeq(l, 1, n), SubSeq(l, 1, n) \o <<Mark>>} :
                  n \in 0 .. Len(l) - 1} : l \in Texts}

Static == "static" \in kind

Init == text = <<>> /\ at = 0 /\ room \in Nat

Write ==
  /\ Static \/ at = Len(text)
  /\ "readonly" \notin kind
  /\ \E w \in Texts \cup Shortened :
       /\ IF Static THEN text' = w /\ at' = 0
          ELSE /\ text' \in {text \o w} \cup (IF "circular" \in kind THEN {w} ELSE {})
               /\ at' = Len(text')
       /\ out' = <<Len(w)>> /\ Len(text') <= room'

\* A buffer that grows takes everything, the others what there is room for.
Refuse ==
  /\ \/ "readonly" \in kind
     \/ "grow" \notin kind /\ \E l \in Texts : (IF Static THEN 0 ELSE at) + Len(l) > room
  /\ out' = <<0>> /\ UNCHANGED <<room, text, at>>

\* The cursor moves with the text behind it, but in a static buffer.
Insert ==
  \E l \in Texts, p \in 0 .. Len(text) :
    /\ p <= at
    /\ text' = SubSeq(text, 1, p) \o l \o SubSeq(text, p + 1, Len(text))
    /\ at' = (IF Static THEN at ELSE at + Len(l)) /\ out' = <<Len(l)>> /\ Len(text') <= room'
    /\ "readonly" \notin kind

\* The n bytes before p go.
Delete ==
  \E p \in 0 .. Len(text) : \E n \in 0 .. p :
    /\ text' = SubSeq(text, 1, p - n) \o SubSeq(text, p + 1, Len(text))
    /\ at' = IF at >= p THEN at - n ELSE at
    /\ out' = <<n>> /\ room' = room /\ "readonly" \notin kind

Seek ==
  /\ at' \in 0 .. Len(text) \cup {at} /\ out' = <<at'>>
  /\ UNCHANGED <<room, text>>

Read ==
  /\ \E p, q \in 0 .. Len(text) : out' = SubSeq(text, p + 1, q) /\ (Static => p = 0)
  /\ UNCHANGED <<room, text, at>>

Stray == text' = Lost /\ ~Static /\ at # Len(text)

Wipe ==
  /\ text' = <<>> /\ at' = 0 /\ UNCHANGED <<room, out>>
  /\ "readonly" \notin kind

Next ==
  /\ kind' = kind
  /\ \/ text # Lost /\ (Write \/ Refuse \/ Insert \/ Delete \/ Seek \/ Read \/ Stray)
     \/ Wipe

Spec == Init /\ [][Next]_vars
=============================================================================

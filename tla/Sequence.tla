------------------------------- MODULE Sequence -------------------------------
(***************************************************************************)
(* What the lists and the chunked array promise: a sequence, edited at the *)
(* places clients ask for.                                                 *)
(***************************************************************************)
EXTENDS Integers, Sequences, SequencesExt, FiniteSets

CONSTANTS Data, Nil

VARIABLES seq,
          out   \* the last call: what was asked at which place, what it returned
vars == <<seq, out>>

Init == seq = <<>> /\ out = [op |-> "none"]

Insert ==
  \E i \in 0 .. Len(seq), d \in Data :
    seq' = InsertAt(seq, i + 1, d) /\ out' = [op |-> "insert", at |-> i, data |-> d]

TakeOut ==
  \E i \in DOMAIN seq :
    seq' = RemoveAt(seq, i) /\ out' = [op |-> "remove", at |-> i, data |-> seq[i]]

\* The last elements, as many as asked for or as there are.
Drop ==
  /\ out'.op = "drop" /\ out'.at \in Nat
  /\ out'.data = IF out'.at < Len(seq) THEN out'.at ELSE Len(seq)
  /\ seq' = SubSeq(seq, 1, Len(seq) - out'.data)

Update ==
  \E i \in DOMAIN seq, d \in Data :
    seq' = [seq EXCEPT ![i] = d] /\ out' = [op |-> "update", at |-> i, data |-> d]

Get ==
  /\ out'.op = "get" /\ out'.at \in Nat
  /\ out'.data = IF out'.at \in DOMAIN seq THEN seq[out'.at] ELSE Nil
  /\ seq' = seq

\* The first place that holds d.
Find ==
  /\ seq' = seq
  /\ \E d \in Data : \E i \in 0 .. Len(seq) :
       /\ IF i = 0 THEN d \notin Range(seq)
          ELSE seq[i] = d /\ \A j \in 1 .. i - 1 : seq[j] # d
       /\ out' = [op |-> "find", at |-> i, data |-> d]

\* Nothing there to give or to take.
Miss == seq' = seq /\ out' = [op |-> "miss"]

Occurrences(s) == [d \in Data |-> Cardinality({i \in DOMAIN s : s[i] = d})]

Sort ==
  /\ Occurrences(seq') = Occurrences(seq)
  /\ \A i \in 2 .. Len(seq) : seq'[i] <= seq'[i - 1]
  /\ out' = [op |-> "sort"]

\* What is left of a sequence of which some places are kept.
Kept(s, places) ==
  LET upto[i \in 0 .. Len(s)] ==
        IF i = 0 THEN <<>>
        ELSE IF i \in places THEN Append(upto[i - 1], s[i]) ELSE upto[i - 1]
  IN  upto[Len(s)]

\* A copy takes its place: what there was memory for, in order.
Copy ==
  \E places \in SUBSET DOMAIN seq :
    seq' = Kept(seq, places) /\ out' = [op |-> "copy", data |-> Cardinality(places)]

Clear == seq' = <<>> /\ out' = [op |-> "clear"]

Next == Insert \/ TakeOut \/ Drop \/ Update \/ Get \/ Find \/ Miss \/ Sort \/ Copy \/ Clear

Spec == Init /\ [][Next]_vars
=============================================================================

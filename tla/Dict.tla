--------------------------------- MODULE Dict ---------------------------------
(***************************************************************************)
(* What a map from keys to values promises: a key has the value it was     *)
(* given last, until it is removed, and a request that fails for want of   *)
(* memory changes nothing.  HashMap implements it.                         *)
(***************************************************************************)
EXTENDS Integers, Functions

CONSTANTS Keys, Values,
          None       \* what a look-up of an absent key gives

VARIABLES contents,  \* the value of every key that has one
          out        \* what the last request returned

vars == <<contents, out>>

Given(k, v) == [c \in DOMAIN contents \cup {k} |-> IF c = k THEN v ELSE contents[c]]

Value(k) == IF k \in DOMAIN contents THEN contents[k] ELSE None

Init == contents = <<>> /\ out = None

Put(k, v) ==
  out' = (IF k \in DOMAIN contents THEN 0 ELSE 1) /\ contents' = Given(k, v)

Fail == out' = -1 /\ UNCHANGED contents

Get == (\E k \in Keys : out' = Value(k)) /\ UNCHANGED contents

Remove(k) ==
  out' = Value(k) /\ contents' = Restrict(contents, DOMAIN contents \ {k})

Reset == out' = None /\ contents' = <<>>

Next ==
  \/ \E k \in Keys : (\E v \in Values : Put(k, v)) \/ Remove(k)
  \/ Fail \/ Get \/ Reset

Spec == Init /\ [][Next]_vars
=============================================================================

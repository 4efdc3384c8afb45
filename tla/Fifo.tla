--------------------------------- MODULE Fifo ---------------------------------
(***************************************************************************)
(* What a queue promises, for data/struct/queue.c and both ring buffers:   *)
(* elements come out in the order in which they went in, none is lost or   *)
(* made up, and as many of those offered go in as there is room for.       *)
(***************************************************************************)
EXTENDS Integers, Sequences, FiniteSetsExt

VARIABLES bound,     \* how many elements fit
          scarce,    \* whether a request may be refused for want of memory
          items,     \* what is in the queue, the oldest first
          offered,   \* the argument of the last request to put elements in
          out        \* what the last request to take elements gave

vars == <<bound, scarce, items, offered, out>>

Init == bound \in Nat /\ scarce \in BOOLEAN /\ items = <<>> /\ offered = <<>> /\ out = <<>>

Put ==
  LET n == Min({Len(offered'), bound - Len(items)})
  IN  items' = items \o SubSeq(offered', 1, n) /\ out' = out

Refuse == scarce /\ items' = items /\ out' = out

Take ==
  /\ out' # <<>>
  /\ items = out' \o items'
  /\ offered' = offered

Clear == items' = <<>> /\ UNCHANGED <<offered, out>>

Next == UNCHANGED <<bound, scarce>> /\ (Put \/ Refuse \/ Take \/ Clear)

Spec == Init /\ [][Next]_vars
=============================================================================

-------------------------------- MODULE Heap --------------------------------
(***************************************************************************)
(* What a heap promises its clients: a set of extents, each the property   *)
(* of one client, that never overlap.  An extent is a run of units inside  *)
(* one region of memory.  The module knows nothing of free lists, bump     *)
(* pointers or page chains: Allocator implements it.                       *)
(***************************************************************************)
EXTENDS Integers

CONSTANT Extent    \* the extents memory has room for

VARIABLE blocks    \* those that belong to clients now

Apart(e, f) ==
  e.page = f.page => \/ e.at + e.size <= f.at
                     \/ f.at + f.size <= e.at

\* An extent may be handed out anywhere that is not in use.
Fits(e, inUse) == \A f \in inUse : Apart(e, f)

Init == blocks = {}

Alloc(e) == Fits(e, blocks) /\ blocks' = blocks \cup {e}

Free(e) == blocks' = blocks \ {e}

\* Resizing an extent grows it where it is, or moves it.
Resize(e, f) ==
  /\ Fits(f, blocks \ {e})
  /\ e.size <= f.size
  /\ blocks' = (blocks \ {e}) \cup {f}

Next ==
  \/ \E e \in Extent : Alloc(e)
  \/ \E e \in blocks : Free(e)
  \/ \E e \in blocks, f \in Extent : Resize(e, f)

Spec == Init /\ [][Next]_blocks
=============================================================================

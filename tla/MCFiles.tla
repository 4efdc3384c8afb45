------------------------------- MODULE MCFiles -------------------------------
\* The file systems and the mount points for TLC, one of them in each behaviour.
EXTENDS Integers, Sequences

CONSTANTS Clients, Nil, MaxFiles, MaxSize, MaxEntries, MaxOpen, Modules

ASSUME SizeAssumption == MaxSize \in Nat

VARIABLES which, files, entries, fds, kernel, closed, asked, out,
          map, reserved, live, barred
vars ==
  <<which, files, entries, fds, kernel, closed, asked, out, map, reserved, live, barred>>

\* A parent, its child, and another entry; paths at, below and beside them.
EntryNames == {<<"a">>, <<"a", "b">>, <<"c">>}
Queries    == EntryNames \cup {<<"a", "b", "c">>, <<"a", "c">>}

\* Two modules for one mount point, and one for another.
Mount == [m \in Modules |-> IF m = CHOOSE x \in Modules : TRUE THEN "x" ELSE "y"]

Stack  == INSTANCE StackFs
Vfs    == INSTANCE Vfs WITH Outside <- <<"o">>, OutsideSize <- MaxSize
Mounts == INSTANCE Mounts WITH Owners <- 0 .. 2

NoStack  == files = <<>>
NoVfs    == entries = <<>> /\ kernel = <<>> /\ closed = {} /\ asked = <<>>
NoMounts == map = <<>> /\ reserved = <<>> /\ live = {} /\ barred = {}

Init ==
  \/ which = "stack" /\ Stack!Init /\ NoVfs /\ NoMounts
  \/ which = "vfs" /\ Vfs!Init /\ NoStack /\ NoMounts
  \/ which = "mounts" /\ Mounts!Init /\ NoStack /\ NoVfs /\ fds = <<>> /\ out = Nil

Next ==
  /\ which' = which
  /\ \/ /\ which = "stack" /\ Stack!Next
        /\ UNCHANGED <<entries, kernel, closed, asked, map, reserved, live, barred>>
     \/ /\ which = "vfs" /\ Vfs!Next
        /\ UNCHANGED <<files, map, reserved, live, barred>>
     \/ /\ which = "mounts" /\ Mounts!Next
        /\ UNCHANGED <<files, entries, fds, kernel, closed, asked, out>>

Spec == Init /\ [][Next]_vars

\* No step depends on the answer of the last call.
MCView ==
  <<which, files, entries, fds, kernel, closed, asked, map, reserved, live, barred>>

-----------------------------------------------------------------------------
\* Descriptors lead to files that exist and remember no more than they hold
\* (stack_fs.h:38-132, vfs.h:102-227).
FilesOK ==
  /\ which = "stack" => Stack!TypeOK
  /\ which = "vfs" => Vfs!TypeOK

\* What the stack file system lists can be opened and has the size it is given
\* as, and each file one name in each order (stack_fs.h:97-132, 180-269).
ListedOpens == which = "stack" => Stack!ListedOpens

\* A descriptor on an alias goes on where it was with the file it was opened for,
\* until somebody else opens, uses or closes one (vfs.h:102-227).
DescriptorsKeep == [][which = "vfs" => Vfs!GoesOn]_vars

\* A mount point leads to a live module of its own, or to none if it was reserved
\* in time (module_loader.c:21-54).
MountsHold == which = "mounts" => Mounts!MountsHold

\* What is left of a path below the entry it matches is forwarded, as router.h:18
\* says of path_resolution_forward (router.h:64-72).
Forwarded == which = "vfs" => Vfs!Forwarded
=============================================================================

---------------------------------- MODULE Vfs ----------------------------------
(***************************************************************************)
(* The virtual file system of files/vfs.h: entries that hold a text or     *)
(* stand for another path (aliases), and the descriptors that clients open *)
(* on them.  The kernel, which aliases lead back to, is external.  Texts   *)
(* have a size only, and names no parameters: match_param refuses them.    *)
(***************************************************************************)
EXTENDS Integers, SequencesExt

CONSTANTS Clients, Nil,
          EntryNames, Queries,  \* names given to entries, paths clients ask for
          Outside, OutsideSize, \* a path of the kernel's, and the size of its files
          MaxEntries, MaxSize, MaxOpen   \* bounds of the model

VARIABLES entries, fds,
          kernel,   \* the paths of all descriptors that the kernel gave
          closed,   \* those descriptors that were closed
          asked,    \* history: what each client opened, until somebody else opens,
                    \* uses or closes a descriptor on the same alias
          out
vars == <<entries, fds, kernel, closed, asked, out>>

NoParam(c)            == FALSE
match_param(c, param) == FALSE
R == INSTANCE Router WITH IsParam <- NoParam

\* A descriptor of the kernel's, before there is one.
NoFd == [id |-> 0, cursor |-> 0]

\* Entries are told apart by the hash of their name.
find_entry(fid) == SelectInSeq(entries, LAMBDA e : e.name = fid)

Init ==
  /\ entries = <<>> /\ kernel = <<>> /\ closed = {} /\ out = Nil
  /\ fds = [c \in Clients |-> Nil] /\ asked = [c \in Clients |-> Nil]

\* make_entry, and make_complex_entry for an alias.
MakeEntry ==
  /\ Len(entries) < MaxEntries
  /\ \E name \in EntryNames, alias \in {<<>>, Outside}, dir \in BOOLEAN :
       /\ alias = <<>> => ~dir
       /\ entries' = Append(entries, [name |-> name, dir |-> dir, alias |-> alias,
                                      alias_fd |-> NoFd, size |-> 0])
  /\ out' = [op |-> "make"] /\ UNCHANGED <<fds, kernel, closed, asked>>

-----------------------------------------------------------------------------
\* What a resolved path is for: a text of this system, or a path of the kernel's.
Target(r) ==
  LET e == entries[r.file]
  IN  IF e.alias = <<>> THEN e.name
      ELSE IF e.dir THEN e.alias \o r.forwarded ELSE e.alias

\* Nobody else can tell any more what their descriptor on entry i reads.
Disturbed(i, c) ==
  [d \in Clients |-> IF d # c /\ fds[d] # Nil /\ find_entry(fds[d].id) = i
                     THEN Nil ELSE asked[d]]

\* vfs_open of an alias, which may fail in the kernel.
OpenAlias(c, r) ==
  LET n == Len(kernel) + 1
  IN  \/ /\ n <= MaxOpen
         /\ kernel' = Append(kernel, Target(r))
         /\ entries' = [entries EXCEPT ![r.file].alias_fd = [id |-> n, cursor |-> 0]]
         /\ fds' = [fds EXCEPT ![c] = [id |-> entries[r.file].name, cursor |-> 0,
                                       size |-> OutsideSize]]
         /\ asked' = [Disturbed(r.file, c) EXCEPT ![c] = Target(r)]
         /\ out' = [op |-> "open"] /\ UNCHANGED closed
      \/ out' = [op |-> "failed"] /\ UNCHANGED <<entries, fds, kernel, closed, asked>>

OpenEntry(c, r) ==
  /\ fds' = [fds EXCEPT ![c] = [id |-> entries[r.file].name, cursor |-> 0,
                                size |-> entries[r.file].size]]
  /\ asked' = [asked EXCEPT ![c] = Target(r)]
  /\ out' = [op |-> "open"] /\ UNCHANGED <<entries, kernel, closed>>

Open ==
  \E c \in Clients, path \in Queries :
    LET r == R!parse_path(entries, path, "forward")
    IN  /\ fds[c] = Nil /\ r.file # 0
        /\ IF entries[r.file].alias = <<>> THEN OpenEntry(c, r) ELSE OpenAlias(c, r)

-----------------------------------------------------------------------------
\* What readf and writef do with the descriptor of an alias: they go on from its
\* cursor, as far as there is something and while the descriptor is open.
Room(fd) == IF fd.id \in closed THEN 0 ELSE OutsideSize - fd.cursor

ForwardFromCopy(c, i, n, op) ==
  LET fd == entries[i].alias_fd
  IN  /\ n <= Room(fd)
      /\ entries' = [entries EXCEPT ![i].alias_fd.cursor = @ + n]
      /\ out' = [op |-> op, by |-> c, of |-> kernel[fd.id], at |-> fd.cursor, n |-> n]
      /\ asked' = Disturbed(i, c) /\ UNCHANGED <<fds, kernel, closed>>

Forward(c, i, n, op) ==
  LET fd    == entries[i].alias_fd
      moved == [fd EXCEPT !.cursor = @ + n]
  IN  /\ n <= Room(fd)
      /\ entries' = [entries EXCEPT ![i].alias_fd = moved]
      /\ fds' = [fds EXCEPT ![c] = [id |-> entries[i].name, cursor |-> moved.cursor,
                                    size |-> OutsideSize]]
      /\ out' = [op |-> op, by |-> c, of |-> kernel[fd.id], at |-> fd.cursor, n |-> n]
      /\ asked' = Disturbed(i, c) /\ UNCHANGED <<kernel, closed>>

Aliased(i) == entries[i].alias_fd.id # 0

\* The client, or the kernel for it, reads at the cursor and moves it on.
Read ==
  \E c \in Clients, n \in 1 .. MaxSize :
    /\ fds[c] # Nil
    /\ LET i == find_entry(fds[c].id)
           e == entries[i]
       IN  IF Aliased(i) THEN Forward(c, i, n, "read")
           ELSE /\ n + fds[c].cursor <= e.size
                /\ out' = [op |-> "read", by |-> c, of |-> e.name,
                           at |-> fds[c].cursor, n |-> n]
                /\ fds' = [fds EXCEPT ![c].cursor = @ + n]
                /\ UNCHANGED <<entries, kernel, closed, asked>>

\* buffer_write_to inserts at the cursor.
Write ==
  \E c \in Clients, n \in 1 .. MaxSize :
    /\ fds[c] # Nil
    /\ LET i == find_entry(fds[c].id)
           e == entries[i]
       IN  IF Aliased(i) THEN Forward(c, i, n, "write")
           ELSE /\ e.size + n <= MaxSize
                /\ entries' = [entries EXCEPT ![i].size = @ + n]
                /\ out' = [op |-> "write", by |-> c, of |-> e.name,
                           at |-> fds[c].cursor, n |-> n]
                /\ fds' = [fds EXCEPT ![c].cursor = @ + n, ![c].size = e.size + n]
                /\ UNCHANGED <<kernel, closed, asked>>

\* vfs_close; the client gives up its descriptor.
Close ==
  \E c \in Clients :
    /\ fds[c] # Nil
    /\ LET i == find_entry(fds[c].id)
       IN  /\ closed' = IF Aliased(i) THEN closed \cup {entries[i].alias_fd.id} ELSE closed
           /\ asked' = [IF Aliased(i) THEN Disturbed(i, c) ELSE asked EXCEPT ![c] = Nil]
    /\ fds' = [fds EXCEPT ![c] = Nil]
    /\ out' = [op |-> "close"] /\ UNCHANGED <<entries, kernel>>

Next == MakeEntry \/ Open \/ Read \/ Write \/ Close

Spec == Init /\ [][Next]_vars

-----------------------------------------------------------------------------
Distinct == \A i, j \in DOMAIN entries : entries[i].name = entries[j].name => i = j

\* The type invariant: a client's descriptor leads to an entry, an alias to a
\* descriptor of the kernel's, and no cursor is past the size that goes with it
\* (vfs.h:102-136, 188-227).
TypeOK ==
  /\ \A c \in Clients :
       fds[c] # Nil =>
         LET i == find_entry(fds[c].id)
         IN  i # 0 /\ (Distinct /\ ~Aliased(i) => fds[c].cursor <= entries[i].size)
  /\ \A i \in DOMAIN entries :
       /\ entries[i].alias_fd.id \in 0 .. Len(kernel)
       /\ entries[i].alias_fd.cursor <= OutsideSize

\* A read or a write is on the file that the client opened, at the place where
\* its descriptor left off, while nobody else opened, used or closed a descriptor
\* on the alias and no two entries share a name (vfs.h:102-136, 188-227).
GoesOn ==
  \A c \in Clients :
    out'.op \in {"read", "write"} /\ out'.by = c /\ asked[c] # Nil /\ Distinct
    => /\ out'.of = asked[c] /\ out'.at = fds[c].cursor
       /\ fds'[c].cursor = out'.at + out'.n

DescriptorsKeep == [][GoesOn]_vars

\* What is left of a path below an entry is forwarded to it, as router.h:16-18
\* has it of path_resolution_forward (router.h:64-72).
Forwarded ==
  \A path \in Queries :
    LET r == R!parse_path(entries, path, "forward")
    IN  r.file # 0 => entries[r.file].name \o r.forwarded = path
=============================================================================

------------------------------- MODULE StackFs -------------------------------
(***************************************************************************)
(* The stack file system of files/stack_fs.h: every write to # makes a new *)
(* file, which is known by its number from the first and, under latest, by *)
(* its number from the last.  What files hold is left to Buffer: here they *)
(* have a size.                                                            *)
(***************************************************************************)
EXTENDS Integers, SequencesExt, TLC

CONSTANTS Clients, Nil,
          MaxFiles, MaxSize   \* bounds of the model

VARIABLES files,  \* data: the sizes of the files, the oldest first
          fds,    \* the descriptor of each client
          out     \* what the last call gave
vars == <<files, fds, out>>

Digits      == {ToString(n) : n \in 0 .. MaxFiles}
Number(c)   == CHOOSE n \in 0 .. MaxFiles : ToString(n) = c
IsParam(c)  == c \in {":sort", ":id"}
match_param(c, p) == IF p = ":id" THEN c \in Digits ELSE c = "latest"

R == INSTANCE Router

entries ==
  [i \in 1 .. 4 |-> [name |-> <<<<"#">>, <<":sort">>, <<":sort", ":id">>, <<":id">>>>[i],
                     alias |-> <<>>]]

\* What a path stands for: the newest file, a file by its number, a directory.
Top == -1
Dir == -2

Counted(number, latest) ==
  IF number >= Len(files) THEN Nil
  ELSE IF latest THEN Len(files) - number - 1 ELSE number

resolve(path) ==
  LET i == R!parse_path(entries, path, "none").file
      p == R!params(entries[i].name, path)
  IN  IF i = 0 THEN Nil
      ELSE IF DOMAIN p = {} THEN Top
      ELSE IF ":id" \notin DOMAIN p \/ p[":id"] = R!None THEN Dir
      ELSE Counted(Number(p[":id"]), ":sort" \in DOMAIN p)

SizeOf(what) ==
  IF what = Top THEN IF files = <<>> THEN 0 ELSE files[Len(files)] ELSE files[what + 1]

-----------------------------------------------------------------------------
\* The result of opening a path and of asking for its type and size.
stackfs_open(path) ==
  LET what == resolve(IF path = <<>> THEN <<"#">> ELSE path)
  IN  IF what \in {Nil, Dir} THEN Nil
      ELSE [id |-> what, size |-> SizeOf(what), cursor |-> 0]

stackfs_stat(path) ==
  LET what == IF path = <<>> THEN Dir ELSE resolve(path)
  IN  IF what = Nil THEN Nil
      ELSE IF what = Dir THEN [dir |-> TRUE, size |-> 0]
      ELSE [dir |-> FALSE, size |-> SizeOf(what)]

\* The file behind a descriptor.
Behind(fd) ==
  IF fd.id # Top THEN fd.id + 1 ELSE IF files = <<>> THEN Nil ELSE Len(files)

Numbers(latest) ==
  [i \in 1 .. Len(files) |-> ToString(IF latest THEN Len(files) - i ELSE i - 1)]

\* The names that an entry adds to a listing of the path.
emit_route_contents(i, path) ==
  LET p      == R!params(entries[i].name, path)
      sorted == ":sort" \in DOMAIN p
  IN  IF DOMAIN p = {} THEN entries[i].name
      ELSE IF sorted /\ p[":sort"] = R!None THEN <<"latest">>
      ELSE IF ":id" \in DOMAIN p THEN Numbers(sorted) ELSE <<>>

stackfs_readdir(path) ==
  LET route == R!emitted(entries, path)
  IN  FlattenSeq([i \in DOMAIN route |-> emit_route_contents(route[i], path)])

-----------------------------------------------------------------------------
Init == files = <<>> /\ fds = [c \in Clients |-> Nil] /\ out = Nil

Paths ==
  {<<>>, <<"#">>, <<"latest">>, <<"other">>} \cup {<<d>> : d \in Digits}
    \cup {<<"latest", d>> : d \in Digits}

Open ==
  \E c \in Clients, path \in Paths :
    /\ stackfs_open(path) # Nil
    /\ fds' = [fds EXCEPT ![c] = stackfs_open(path)]
    /\ out' = [op |-> "open", path |-> path] /\ UNCHANGED files

\* stackfs_read.  The cursor stays where it is.
Read ==
  \E c \in Clients :
    /\ fds[c] # Nil
    /\ LET f == Behind(fds[c])
       IN  out' = IF f = Nil \/ files[f] <= fds[c].cursor THEN [op |-> "nothing"]
                  ELSE [op |-> "read", file |-> f, size |-> files[f] - fds[c].cursor]
    /\ UNCHANGED <<files, fds>>

\* stackfs_write
Write ==
  \E c \in Clients, n \in 1 .. MaxSize :
    /\ fds[c] # Nil /\ UNCHANGED fds
    /\ IF fds[c].id = Top
       THEN /\ Len(files) < MaxFiles
            /\ files' = Append(files, n)
            /\ out' = [op |-> "write", file |-> Len(files'), size |-> n]
       ELSE LET f == Behind(fds[c])
            IN  /\ files[f] + n <= MaxSize
                /\ files' = [files EXCEPT ![f] = @ + n]
                /\ out' = [op |-> "write", file |-> f, size |-> n]

SeekFreely ==
  \E c \in Clients, to \in 0 .. MaxSize :
    /\ fds[c] # Nil
    /\ fds' = [fds EXCEPT ![c].cursor = to]
    /\ UNCHANGED <<files, out>>

\* seek of syscalls.c: not past the size that the descriptor remembers.
Seek ==
  \E c \in Clients, to \in 0 .. MaxSize :
    /\ fds[c] # Nil
    /\ fds' = IF to > fds[c].size THEN fds ELSE [fds EXCEPT ![c].cursor = to]
    /\ UNCHANGED <<files, out>>

Next == Open \/ Read \/ Write \/ Seek

Spec == Init /\ [][Next]_vars

-----------------------------------------------------------------------------
\* The type invariant: a descriptor by number is for a file that exists, and
\* remembers no more than that holds (stack_fs.h:97-132, 38-69).
TypeOK ==
  \A c \in Clients :
    fds[c] # Nil =>
      /\ fds[c].id = Top \/ fds[c].id \in 0 .. Len(files) - 1
      /\ fds[c].cursor <= fds[c].size
      /\ fds[c].id # Top => fds[c].size <= files[fds[c].id + 1]

\* What a listing names can be opened there, what is opened is what the type and
\* size were given of, and every file has one name in each of the two orders
\* (stack_fs.h:97-132, 180-213, 235-269).
Reached(path) ==
  LET names == stackfs_readdir(path)
  IN  [i \in DOMAIN names |-> stackfs_open(Append(path, names[i]))]

ListedOpens ==
  /\ \A path \in Paths \ {<<>>} :
       stackfs_open(path) # Nil =>
         stackfs_stat(path) = [dir |-> FALSE, size |-> stackfs_open(path).size]
  /\ LET below == Reached(<<"latest">>)
     IN  /\ Len(below) = Len(files)
         /\ \A i \in DOMAIN below : below[i] # Nil /\ below[i].id = i - 1
  /\ LET names == stackfs_readdir(<<>>)
         below == Reached(<<>>)
     IN  /\ IsInjective(names)
         /\ \A i \in DOMAIN names : below[i] = Nil <=> names[i] = "latest" \* a directory
  /\ {fd.id : fd \in {f \in Range(Reached(<<>>)) : f # Nil}}
       = {Top} \cup 0 .. Len(files) - 1
=============================================================================

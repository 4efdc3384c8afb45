------------------------------ MODULE FilesProofs ------------------------------
(***************************************************************************)
(* Proofs about the file systems and the mount points, for any clients,    *)
(* modules, bounds and numbers of files.  The invariants say more than the *)
(* runs check: of the mount points, who reserved what; of the stack file   *)
(* system, the types of files and descriptors; of the virtual one, that    *)
(* the entry a descriptor leads to knows what its client asked for, and is *)
(* as far in it as the client, until somebody else comes between.          *)
(***************************************************************************)
EXTENDS MCFiles, SequenceTheorems, NaturalsInduction, WellFoundedInduction, TLAPS

-----------------------------------------------------------------------------
\* The least and the greatest of a set of numbers.

Least(S, x)    == x \in S /\ \A y \in S : x <= y
Greatest(S, x) == x \in S /\ \A y \in S : x >= y

LEMMA HasLeast ==
  ASSUME NEW S \in SUBSET Nat, S # {}
  PROVE  \E x : Least(S, x)
<1> DEFINE R == OpToRel(<, Nat)
<1>1. IsWellFoundedOn(R, Nat)
  BY NatLessThanWellFounded
<1>2. \A x, y \in Nat : <<y, x>> \in R <=> y < x
  BY DEF OpToRel
<1> HIDE DEF R
<1>3. PICK x \in S : \A y \in S : ~(<<y, x>> \in R)
  BY <1>1, WFMin
<1>4. ASSUME NEW y \in S PROVE x <= y
  <2>1. x \in Nat /\ y \in Nat /\ ~(<<y, x>> \in R)
    BY <1>3
  <2>2. ~(y < x)
    BY <1>2, <2>1
  <2> QED
    BY <2>1, <2>2
<1> QED
  BY <1>4 DEF Least

LEMMA HasGreatest ==
  ASSUME NEW n \in Nat, NEW S \in SUBSET (1 .. n), S # {}
  PROVE  \E x : Greatest(S, x)
<1> DEFINE T == {n - x : x \in S}
<1>1. T \in SUBSET Nat /\ T # {}
  <2>1. \A x \in S : n - x \in Nat
    OBVIOUS
  <2> QED
    BY <2>1
<1>2. \A y \in S : n - y \in T
  OBVIOUS
<1> HIDE DEF T
<1>3. PICK t : Least(T, t)
  BY <1>1, HasLeast
<1>4. PICK x \in S : t = n - x
  BY <1>3 DEF T, Least
<1>5. \A y \in S : x >= y
  BY <1>2, <1>3, <1>4 DEF Least
<1> QED
  BY <1>5 DEF Greatest

-----------------------------------------------------------------------------
\* The mount points.

MountsOK ==
  /\ map \in [Mounts!MountPoints -> Modules \cup {Nil}]
  /\ reserved \in [Mounts!MountPoints -> 0 .. 2]
  /\ \A p \in barred \cap Mounts!MountPoints : reserved[p] # 0
  /\ Mounts!MountsHold

LEMMA MountsInit ==
  ASSUME Mounts!Init
  PROVE  MountsOK
BY DEF Mounts!Init, MountsOK, Mounts!MountsHold

LEMMA MountsStep ==
  ASSUME MountsOK, Mounts!Next
  PROVE  MountsOK'
<1> DEFINE P == Mounts!MountPoints
           holds(p) == /\ map'[p] # Nil => Mount[map'[p]] = p /\ map'[p] \in live'
                       /\ p \in barred' => map'[p] = Nil /\ reserved'[p] # 0
<1>0. /\ map \in [P -> Modules \cup {Nil}] /\ reserved \in [P -> 0 .. 2]
      /\ \A p \in P : /\ map[p] # Nil => Mount[map[p]] = p /\ map[p] \in live
                      /\ p \in barred => map[p] = Nil /\ reserved[p] # 0
  BY DEF MountsOK, Mounts!MountsHold
<1>1. \A m \in Modules : Mount[m] \in P
  BY DEF Mounts!MountPoints
<1> HIDE DEF P
<1>2. SUFFICES /\ map' \in [P -> Modules \cup {Nil}] /\ reserved' \in [P -> 0 .. 2]
               /\ \A p \in P : holds(p)
  <2>1. P = Mounts!MountPoints /\ P' = P
    BY DEF P, Mounts!MountPoints, Mount
  <2> QED
    BY <2>1 DEF MountsOK, Mounts!MountsHold, Mounts!MountPoints, P
<1>3. CASE Mounts!reserve_mount_point
  <2>0. PICK p \in P, owner \in 0 .. 2 :
          /\ reserved' \in {reserved} \cup
               (IF reserved[p] # 0 THEN {} ELSE {[reserved EXCEPT ![p] = owner]})
          /\ barred' = IF reserved'[p] # reserved[p] /\ map[p] = Nil
                       THEN barred \cup {p} ELSE barred
          /\ UNCHANGED <<map, live>>
    BY <1>3, Zenon DEF Mounts!reserve_mount_point, P
  <2>1. \/ reserved' = reserved
        \/ reserved[p] = 0 /\ reserved' = [reserved EXCEPT ![p] = owner]
    BY <2>0
  <2>2. reserved' \in [P -> 0 .. 2]
    BY <1>0, <2>1
  <2>3. \A q \in P : reserved[q] # 0 => reserved'[q] # 0
    BY <1>0, <2>1
  <2>4. ASSUME NEW q \in P PROVE holds(q)
    <3>1. CASE q \in barred
      BY <1>0, <2>0, <2>3, <3>1
    <3>2. CASE q \notin barred
      <4>1. q \in barred' => q = p /\ map[q] = Nil /\ reserved'[q] # 0
        BY <1>0, <2>0, <2>1, <3>2
      <4> QED
        BY <1>0, <2>0, <4>1
    <3> QED
      BY <3>1, <3>2
  <2> QED
    BY <1>0, <2>0, <2>2, <2>4
<1>4. CASE Mounts!load_module_to
  <2>1. PICK m \in Modules :
          /\ live \subseteq live'
          /\ \/ map' = map
             \/ reserved[Mount[m]] = 0 /\ m \in live' /\ map' = [map EXCEPT ![Mount[m]] = m]
          /\ reserved' = reserved /\ barred' = barred
    BY <1>4 DEF Mounts!load_module_to, Mounts!Mounted, Mounts!Admitted
  <2> QED
    BY <1>0, <1>1, <2>1
<1>5. CASE Mounts!unload_module_from
  <2>1. PICK m \in Modules : /\ live' = live \ {m}
                             /\ map' = [map EXCEPT ![Mount[m]] = Nil]
                             /\ reserved' = reserved /\ barred' = barred
    BY <1>5 DEF Mounts!unload_module_from
  <2> QED
    BY <1>0, <1>1, <2>1
<1> QED
  BY <1>3, <1>4, <1>5 DEF Mounts!Next

-----------------------------------------------------------------------------
\* The stack file system.

StackFd == [id : Int, size : Nat, cursor : Nat]

StackOK ==
  /\ files \in Seq(Nat)
  /\ fds \in [Clients -> StackFd \cup {Nil}]
  /\ Stack!TypeOK

Names == {"#", "latest", "other"} \cup Stack!Digits

\* What a path is resolved to matches it.
LEMMA StackParsed ==
  ASSUME NEW path
  PROVE  LET i == Stack!R!parse_path(Stack!entries, path, "none").file
         IN  /\ i \in 0 .. 4
             /\ i # 0 => Stack!R!Found(Stack!entries[i].name, path, "none")
<1> DEFINE found == {i \in DOMAIN Stack!entries : Stack!R!Found(Stack!entries[i].name, path, "none")}
           i == Stack!R!parse_path(Stack!entries, path, "none").file
<1>1. i = IF found # {} THEN Stack!R!Min(found) ELSE 0
  BY DEF Stack!R!parse_path
<1>2. found \in SUBSET (1 .. 4)
  BY DEF Stack!entries
<1>3. found # {} => Stack!R!Min(found) \in found
  <2> HIDE DEF found
  <2>1. SUFFICES ASSUME found # {} PROVE Stack!R!Min(found) \in found
    OBVIOUS
  <2>2. PICK x : Least(found, x)
    BY <1>2, <2>1, HasLeast
  <2> QED
    BY <2>2 DEF Stack!R!Min, Least
<1> HIDE DEF i
<1>4. i \in 0 .. 4 /\ (i # 0 => i \in found)
  BY <1>1, <1>2, <1>3
<1> QED
  BY <1>4 DEF found, i

\* The value of a number in a path is a number.
LEMMA ParamIsNumber ==
  ASSUME NEW S, NEW name \in Seq(S), NEW T, NEW path \in Seq(T),
         Stack!R!Found(name, path, "none"),
         ":id" \in DOMAIN Stack!R!params(name, path)
  PROVE  Stack!R!params(name, path)[":id"] \in Stack!Digits \cup {Stack!R!None}
<1> DEFINE taken == {i \in DOMAIN name :
                       Stack!IsParam(name[i]) /\ (i > Len(path) \/ name[i] # path[i])}
           at == {j \in taken : name[j] = ":id"}
           j == Stack!R!Max(at)
<1>1. /\ ":id" \in {name[i] : i \in taken}
      /\ Stack!R!params(name, path)[":id"] =
           IF j > Len(path) THEN Stack!R!None ELSE path[j]
  <2>1. Stack!R!params(name, path) =
          [p \in {name[i] : i \in taken} |->
             LET i == Stack!R!Max({k \in taken : name[k] = p})
             IN  IF i > Len(path) THEN Stack!R!None ELSE path[i]]
    BY DEF Stack!R!params
  <2> HIDE DEF taken
  <2> QED
    BY <2>1
<1>2. at \in SUBSET (1 .. Len(name)) /\ Len(name) \in Nat /\ at # {}
  BY <1>1, LenProperties
<1>3. j \in at
  <2> HIDE DEF at
  <2>1. PICK x : Greatest(at, x)
    BY <1>2, HasGreatest
  <2> QED
    BY <2>1 DEF Stack!R!Max, Greatest
<1> HIDE DEF j
<1>4. /\ j \in DOMAIN name /\ name[j] = ":id" /\ j \in Nat /\ j > 0
      /\ j > Len(path) \/ name[j] # path[j]
  BY <1>2, <1>3
<1>5. CASE j > Len(path)
  BY <1>1, <1>5
<1>6. CASE ~(j > Len(path))
  <2>1. j \in DOMAIN path
    BY <1>4, <1>6, LenProperties
  <2>2. Stack!match_param(path[j], name[j])
    BY <1>4, <1>6, <2>1 DEF Stack!R!Found, Stack!R!Fits
  <2>3. path[j] \in Stack!Digits
    BY <1>4, <2>2 DEF Stack!match_param
  <2> QED
    BY <1>1, <1>6, <2>3
<1> QED
  BY <1>5, <1>6

\* What opens is the top, or a file there is.
LEMMA StackOpens ==
  ASSUME files \in Seq(Nat), NEW path \in Stack!Paths, Stack!stackfs_open(path) # Nil
  PROVE  LET fd == Stack!stackfs_open(path)
         IN  /\ fd \in StackFd /\ fd.cursor = 0
             /\ \/ fd.id = Stack!Top
                \/ fd.id \in 0 .. Len(files) - 1 /\ fd.size = files[fd.id + 1]
<1> DEFINE whole == IF path = <<>> THEN <<"#">> ELSE path
           what == Stack!resolve(whole)
           i == Stack!R!parse_path(Stack!entries, whole, "none").file
           p == Stack!R!params(Stack!entries[i].name, whole)
           n == Stack!Number(p[":id"])
           fd == [id |-> what, size |-> Stack!SizeOf(what), cursor |-> 0]
<1>1. whole \in Seq(Names)
  <2>1. \A x, y \in Names : <<x>> \in Seq(Names) /\ <<x, y>> \in Seq(Names)
    OBVIOUS
  <2>2. \/ \E x \in Names : whole = <<x>>
        \/ \E x, y \in Names : whole = <<x, y>>
    BY DEF Stack!Paths, Names
  <2> HIDE DEF whole
  <2> QED
    BY <2>1, <2>2
<1>2. Stack!stackfs_open(path) = fd /\ what # Nil /\ what # Stack!Dir
  BY DEF Stack!stackfs_open
<1>3. what = Stack!Top \/ what \in 0 .. Len(files) - 1
  <2>1. \/ what = Nil \/ what = Stack!Top \/ what = Stack!Dir
        \/ /\ i # 0 /\ ":id" \in DOMAIN p /\ p[":id"] # Stack!R!None
           /\ what = Stack!Counted(n, ":sort" \in DOMAIN p)
    BY DEF Stack!resolve
  <2>2. CASE /\ i # 0 /\ ":id" \in DOMAIN p /\ p[":id"] # Stack!R!None
             /\ what = Stack!Counted(n, ":sort" \in DOMAIN p)
    <3>1. i \in 1 .. 4 /\ Stack!R!Found(Stack!entries[i].name, whole, "none")
      <4> HIDE DEF whole
      <4> QED
        BY <2>2, StackParsed
    <3>2. Stack!entries[i].name \in Seq({"#", ":sort", ":id"})
      <4> DEFINE names == <<<<"#">>, <<":sort">>, <<":sort", ":id">>, <<":id">>>>
      <4>1. \A k \in 1 .. 4 : Stack!entries[k].name = names[k]
        BY DEF Stack!entries
      <4>2. \A k \in 1 .. 4 : names[k] \in Seq({"#", ":sort", ":id"})
        <5>1. \A x, y \in {"#", ":sort", ":id"} :
                <<x>> \in Seq({"#", ":sort", ":id"}) /\ <<x, y>> \in Seq({"#", ":sort", ":id"})
          OBVIOUS
        <5>2. /\ names[1] = <<"#">> /\ names[2] = <<":sort">>
              /\ names[3] = <<":sort", ":id">> /\ names[4] = <<":id">>
          OBVIOUS
        <5> HIDE DEF names
        <5>3. \A k \in 1 .. 4 : k = 1 \/ k = 2 \/ k = 3 \/ k = 4
          OBVIOUS
        <5> QED
          BY <5>1, <5>2, <5>3
      <4> HIDE DEF i, names
      <4> QED
        BY <3>1, <4>1, <4>2
    <3>3. p[":id"] \in Stack!Digits
      <4> HIDE DEF i, whole
      <4> QED
        BY <1>1, <2>2, <3>1, <3>2, ParamIsNumber
    <3> HIDE DEF p
    <3>4. n \in 0 .. MaxFiles
      BY <3>3 DEF Stack!Number, Stack!Digits
    <3> HIDE DEF n, what
    <3>5. Len(files) \in Nat
      BY LenProperties
    <3> QED
      BY <1>2, <2>2, <3>4, <3>5 DEF Stack!Counted
  <2> QED
    BY <1>2, <2>1, <2>2
<1> HIDE DEF what
<1>4. Stack!SizeOf(what) \in Nat /\ (what # Stack!Top => Stack!SizeOf(what) = files[what + 1])
  <2>1. Len(files) \in Nat /\ \A k \in 1 .. Len(files) : files[k] \in Nat
    BY ElementOfSeq, LenProperties
  <2>2. files # <<>> => Len(files) \in 1 .. Len(files)
    BY <2>1, EmptySeq
  <2> QED
    BY <1>3, <2>1, <2>2 DEF Stack!SizeOf, Stack!Top
<1>5. /\ fd \in StackFd /\ fd.cursor = 0 /\ fd.id = what /\ fd.size = Stack!SizeOf(what)
  BY <1>3, <1>4 DEF StackFd, Stack!Top
<1> HIDE DEF fd
<1> QED
  BY <1>2, <1>3, <1>4, <1>5

LEMMA StackInit ==
  ASSUME Stack!Init
  PROVE  StackOK
BY DEF Stack!Init, StackOK, Stack!TypeOK

LEMMA StackStep ==
  ASSUME StackOK, Stack!Next
  PROVE  StackOK'
<1> DEFINE ok(fd, f) == /\ fd.id = Stack!Top \/ fd.id \in 0 .. Len(f) - 1
                        /\ fd.cursor <= fd.size
                        /\ fd.id # Stack!Top => fd.size <= f[fd.id + 1]
<1>1. /\ files \in Seq(Nat) /\ fds \in [Clients -> StackFd \cup {Nil}]
      /\ \A c \in Clients : fds[c] # Nil => fds[c] \in StackFd /\ ok(fds[c], files)
  BY DEF StackOK, Stack!TypeOK
<1>2. Len(files) \in Nat /\ \A k \in 1 .. Len(files) : files[k] \in Nat
  BY <1>1, ElementOfSeq, LenProperties
<1>3. SUFFICES /\ files' \in Seq(Nat) /\ fds' \in [Clients -> StackFd \cup {Nil}]
               /\ \A c \in Clients : fds'[c] # Nil => ok(fds'[c], files')
  BY DEF StackOK, Stack!TypeOK, Stack!Top
<1>4. CASE Stack!Open
  <2>1. PICK c \in Clients, path \in Stack!Paths :
          /\ Stack!stackfs_open(path) # Nil
          /\ fds' = [fds EXCEPT ![c] = Stack!stackfs_open(path)]
          /\ files' = files
    BY <1>4 DEF Stack!Open
  <2> DEFINE fd == Stack!stackfs_open(path)
  <2>2. /\ fd \in StackFd /\ fd.cursor = 0
        /\ \/ fd.id = Stack!Top
           \/ fd.id \in 0 .. Len(files) - 1 /\ fd.size = files[fd.id + 1]
    BY <1>1, <2>1, StackOpens
  <2>3. fds' = [fds EXCEPT ![c] = fd]
    BY <2>1
  <2> HIDE DEF fd
  <2>4. ok(fd, files)
    BY <1>2, <2>2 DEF StackFd
  <2> HIDE DEF ok
  <2> QED
    BY <1>1, <2>1, <2>2, <2>3, <2>4
<1>5. CASE Stack!Read
  BY <1>1, <1>5 DEF Stack!Read
<1>6. CASE Stack!Write
  <2>1. PICK c \in Clients, n \in 1 .. MaxSize :
          /\ fds[c] # Nil /\ fds' = fds
          /\ \/ files' = Append(files, n)
             \/ /\ fds[c].id # Stack!Top
                /\ files' = [files EXCEPT ![fds[c].id + 1] = @ + n]
    BY <1>6 DEF Stack!Write, Stack!Behind
  <2>2. n \in Nat
    BY SizeAssumption
  <2>3. /\ files' \in Seq(Nat) /\ Len(files') \in Nat /\ Len(files') >= Len(files)
        /\ \A k \in 1 .. Len(files) : files'[k] \in Nat /\ files'[k] >= files[k]
    <3>1. CASE files' = Append(files, n)
      BY <1>1, <1>2, <2>2, <3>1, AppendProperties
    <3>2. CASE /\ fds[c].id # Stack!Top
               /\ files' = [files EXCEPT ![fds[c].id + 1] = @ + n]
      <4> DEFINE k == fds[c].id + 1
      <4>1. k \in 1 .. Len(files)
        BY <1>1, <1>2, <2>1, <3>2
      <4>2. files' = [files EXCEPT ![k] = files[k] + n] /\ files[k] + n \in Nat
        BY <1>2, <2>2, <3>2, <4>1
      <4> HIDE DEF k
      <4>3. files' \in Seq(Nat) /\ Len(files') = Len(files)
        BY <1>1, <4>1, <4>2, ExceptSeq
      <4> QED
        BY <1>1, <1>2, <2>2, <4>1, <4>2, <4>3
    <3> QED
      BY <2>1, <3>1, <3>2
  <2>4. ASSUME NEW d \in Clients, fds[d] # Nil PROVE ok(fds[d], files')
    <3>1. fds[d] \in StackFd /\ ok(fds[d], files)
      BY <1>1, <2>4
    <3>2. CASE fds[d].id = Stack!Top
      BY <3>1, <3>2
    <3>3. CASE fds[d].id # Stack!Top
      <4>1. fds[d].id + 1 \in 1 .. Len(files) /\ fds[d].id \in 0 .. Len(files') - 1
        BY <1>2, <2>3, <3>1, <3>3
      <4> QED
        BY <1>2, <2>3, <3>1, <3>3, <4>1 DEF StackFd
    <3> QED
      BY <3>2, <3>3
  <2> QED
    BY <1>1, <2>1, <2>3, <2>4
<1>7. CASE Stack!Seek
  <2>1. PICK c \in Clients, to \in 0 .. MaxSize :
          /\ fds[c] # Nil /\ files' = files
          /\ fds' = IF to > fds[c].size THEN fds ELSE [fds EXCEPT ![c].cursor = to]
    BY <1>7 DEF Stack!Seek
  <2>2. CASE to > fds[c].size
    BY <1>1, <2>1, <2>2
  <2>3. CASE ~(to > fds[c].size)
    <3> DEFINE fd == [fds[c] EXCEPT !.cursor = to]
    <3>1. fds[c] \in StackFd /\ ok(fds[c], files) /\ to \in Nat
      BY <1>1, <2>1, SizeAssumption
    <3>2. fd \in StackFd /\ fd.id = fds[c].id /\ fd.size = fds[c].size /\ fd.cursor = to
      BY <3>1 DEF StackFd
    <3>3. fds' = [fds EXCEPT ![c] = fd]
      BY <2>1, <2>3
    <3> HIDE DEF fd
    <3>4. ok(fd, files)
      BY <2>3, <3>1, <3>2 DEF StackFd
    <3> HIDE DEF ok
    <3> QED
      BY <1>1, <2>1, <3>2, <3>3, <3>4
  <2> QED
    BY <2>2, <2>3
<1> QED
  BY <1>4, <1>5, <1>6, <1>7 DEF Stack!Next

-----------------------------------------------------------------------------
\* The virtual file system: entries e, descriptors f, what the kernel gave k, and
\* what clients asked for a.

Path  == Seq({"a", "b", "c", "o"})
Entry == [name : EntryNames, dir : BOOLEAN, alias : {<<>>, <<"o">>},
          alias_fd : [id : Nat, cursor : Nat], size : Nat]
Fd    == [id : EntryNames, cursor : Nat, size : Nat]

\* The first entry of a name.
Called(e, name) == {i \in 1 .. Len(e) : e[i].name = name}
Earliest(S)     == CHOOSE i \in S : \A j \in S : i <= j
First(e, name)  == IF Called(e, name) = {} THEN 0 ELSE Earliest(Called(e, name))

\* An entry that is no alias never has a descriptor of the kernel's.
EntriesOK(e, k) ==
  /\ e \in Seq(Entry) /\ k \in Seq(Path)
  /\ \A i \in 1 .. Len(e) :
       /\ e[i].alias_fd.id \in 0 .. Len(k)
       /\ e[i].alias_fd.cursor <= MaxSize
       /\ e[i].alias = <<>> => e[i].alias_fd.id = 0

\* A descriptor leads to an entry, and is no further than its text goes.
Leads(e, fd) ==
  LET i == First(e, fd.id)
  IN  i # 0 /\ (e[i].alias_fd.id = 0 => fd.cursor <= e[i].size)

FdsOK(e, f) ==
  /\ f \in [Clients -> Fd \cup {Nil}]
  /\ \A c \in Clients : f[c] # Nil => Leads(e, f[c])

\* The entry holds the text of the path, or is in it where the descriptor is.
GoesOnIn(e, k, fd, path) ==
  LET i == First(e, fd.id)
      x == e[i].alias_fd
  IN  IF x.id = 0 THEN path = e[i].name ELSE path = k[x.id] /\ fd.cursor = x.cursor

Unique(e) == \A i, j \in 1 .. Len(e) : e[i].name = e[j].name => i = j

AskedOK(e, f, k, a) ==
  /\ a \in [Clients -> Path \cup {Nil}]
  /\ Unique(e) => \A c \in Clients :
                    a[c] # Nil /\ f[c] # Nil => GoesOnIn(e, k, f[c], a[c])

VfsOK(e, f, k, a) == EntriesOK(e, k) /\ FdsOK(e, f) /\ AskedOK(e, f, k, a)

LEMMA Paths ==
  /\ <<>> \in Path /\ <<"o">> \in Path
  /\ EntryNames \subseteq Path /\ Queries \subseteq Path
<1> DEFINE S == {"a", "b", "c", "o"}
<1>1. ASSUME NEW x \in S, NEW y \in S, NEW z \in S
      PROVE  /\ <<x>> \in Path /\ <<x, y>> \in Path /\ <<x, y, z>> \in Path
  <2>1. <<x>> \in Path
    BY DEF Path
  <2>2. <<x, y>> \in Path
    BY DEF Path
  <2>3. <<x, y, z>> \in Path
    BY DEF Path
  <2> QED
    BY <2>1, <2>2, <2>3
<1>2. <<>> \in Path /\ <<"o">> \in Path
  <2>1. <<>> \in Path
    BY DEF Path
  <2> QED
    BY <1>1, <2>1
<1>3. EntryNames \subseteq Path
  BY <1>1 DEF EntryNames
<1>4. Queries \subseteq Path
  BY <1>1, <1>3 DEF Queries
<1> QED
  BY <1>2, <1>3, <1>4

LEMMA FirstIs ==
  ASSUME NEW e \in Seq(Entry), NEW x
  PROVE  /\ First(e, x) \in 0 .. Len(e)
         /\ First(e, x) # 0 => e[First(e, x)].name = x
         /\ \A i \in 1 .. Len(e) : e[i].name = x => First(e, x) # 0 /\ First(e, x) <= i
<1>1. Len(e) \in Nat /\ Called(e, x) \in SUBSET (1 .. Len(e))
  BY LenProperties DEF Called
<1>2. CASE Called(e, x) = {}
  BY <1>1, <1>2 DEF First, Called
<1>3. CASE Called(e, x) # {}
  <2>1. PICK i : Least(Called(e, x), i)
    BY <1>1, <1>3, HasLeast
  <2>2. /\ First(e, x) \in Called(e, x)
        /\ \A j \in Called(e, x) : First(e, x) <= j
    BY <1>3, <2>1 DEF First, Earliest, Least
  <2> QED
    BY <1>1, <2>2 DEF Called
<1> QED
  BY <1>2, <1>3

LEMMA EntryFound ==
  ASSUME NEW x
  PROVE  Vfs!find_entry(x) = First(entries, x)
BY DEF Vfs!find_entry, Vfs!SelectInSeq, Vfs!Min, First, Earliest, Called

LEMMA FirstSame ==
  ASSUME NEW e, NEW g, Len(g) = Len(e), \A i \in 1 .. Len(e) : g[i].name = e[i].name
  PROVE  (\A x : First(g, x) = First(e, x)) /\ (Unique(g) <=> Unique(e))
<1>1. \A x : Called(g, x) = Called(e, x)
  BY DEF Called
<1>2. ASSUME NEW x PROVE First(g, x) = First(e, x)
  <2>1. Called(g, x) = Called(e, x)
    BY <1>1
  <2> QED
    BY <2>1 DEF First
<1>3. Unique(g) <=> Unique(e)
  BY DEF Unique
<1> QED
  BY <1>2, <1>3

LEMMA FirstLonger ==
  ASSUME NEW e \in Seq(Entry), NEW n \in Entry, NEW x, First(e, x) # 0
  PROVE  First(Append(e, n), x) = First(e, x)
<1> DEFINE g == Append(e, n)
           i == First(e, x)
           j == First(g, x)
<1>1. /\ g \in Seq(Entry) /\ Len(g) = Len(e) + 1 /\ Len(e) \in Nat
      /\ \A m \in 1 .. Len(e) : g[m] = e[m]
  BY AppendProperties, LenProperties
<1> HIDE DEF g
<1>2. /\ i \in 1 .. Len(e) /\ e[i].name = x
      /\ \A m \in 1 .. Len(e) : e[m].name = x => i <= m
  BY <1>1, FirstIs
<1>3. /\ j \in 0 .. Len(g) /\ (j # 0 => g[j].name = x)
      /\ \A m \in 1 .. Len(g) : g[m].name = x => j # 0 /\ j <= m
  BY <1>1, FirstIs
<1> HIDE DEF i, j
<1>4. j # 0 /\ j <= i
  BY <1>1, <1>2, <1>3
<1>5. j \in 1 .. Len(e) /\ e[j].name = x
  BY <1>1, <1>2, <1>3, <1>4
<1>6. i <= j
  BY <1>2, <1>5
<1>7. i = j
  BY <1>2, <1>4, <1>5, <1>6
<1> QED
  BY <1>7 DEF i, j, g

\* A path of a client's is resolved to an entry and what is left of the path.
LEMMA Resolved ==
  ASSUME NEW e \in Seq(Entry), NEW path \in Path
  PROVE  LET r == Vfs!R!parse_path(e, path, "forward")
         IN  r.file \in 0 .. Len(e) /\ r.forwarded \in Path
<1> DEFINE found == {i \in DOMAIN e : Vfs!R!Found(e[i].name, path, "forward")}
           final == {i \in found : e[i].alias # <<>>}
           m == Vfs!R!Min(final)
           r == Vfs!R!parse_path(e, path, "forward")
<1>1. r = IF final # {}
          THEN [file |-> m, forwarded |-> Vfs!R!Rest(e[m].name, path)]
          ELSE [file |-> IF found = {} THEN 0 ELSE Vfs!R!Max(found), forwarded |-> <<>>]
  BY DEF Vfs!R!parse_path
<1>2. Len(e) \in Nat /\ DOMAIN e = 1 .. Len(e) /\ Len(path) \in Nat
  BY LenProperties DEF Path
<1>3. found \in SUBSET (1 .. Len(e)) /\ final \in SUBSET found
  BY <1>2
<1> HIDE DEF found, final, r
<1>4. final # {} => m \in 1 .. Len(e)
  <2>1. SUFFICES ASSUME final # {} PROVE m \in final
    BY <1>3
  <2>2. PICK x : Least(final, x)
    BY <1>3, <2>1, HasLeast
  <2> QED
    BY <2>2 DEF Vfs!R!Min, Least
<1>5. found # {} => Vfs!R!Max(found) \in 1 .. Len(e)
  <2>1. SUFFICES ASSUME found # {} PROVE Vfs!R!Max(found) \in found
    BY <1>3
  <2>2. PICK x : Greatest(found, x)
    BY <1>2, <1>3, <2>1, HasGreatest
  <2> QED
    BY <2>2 DEF Vfs!R!Max, Greatest
<1>6. CASE final # {}
  <2> DEFINE name == e[m].name
  <2> HIDE DEF m
  <2>1. e[m] \in Entry
    BY <1>4, <1>6, ElementOfSeq
  <2>2. Len(name) \in Nat
    <3>1. name \in Seq({"a", "b", "c", "o"})
      BY <2>1, Paths DEF Entry, Path
    <3> HIDE DEF name
    <3> QED
      BY <3>1, LenProperties
  <2> HIDE DEF name
  <2>3. Vfs!R!Rest(name, path) \in Path
    <3>1. \A i \in Len(name) + 1 .. Len(path) : i \in 1 .. Len(path)
      BY <1>2, <2>2
    <3> QED
      BY <1>2, <2>2, <3>1, SubSeqProperties DEF Vfs!R!Rest, Path
  <2> QED
    BY <1>1, <1>4, <1>6, <2>3 DEF name, r
<1>7. CASE final = {}
  BY <1>1, <1>2, <1>5, <1>7, Paths DEF r
<1> QED
  BY <1>6, <1>7

LEMMA TargetIs ==
  ASSUME entries \in Seq(Entry), NEW r, r.file \in 1 .. Len(entries), r.forwarded \in Path
  PROVE  /\ Vfs!Target(r) \in Path
         /\ entries[r.file].alias = <<>> => Vfs!Target(r) = entries[r.file].name
<1> DEFINE e == entries[r.file]
<1>1. e \in Entry
  BY ElementOfSeq
<1>2. e.name \in Path /\ e.alias \in {<<>>, <<"o">>} /\ e.dir \in BOOLEAN
  BY <1>1, Paths DEF Entry
<1>3. Vfs!Target(r) = IF e.alias = <<>> THEN e.name
                      ELSE IF e.dir THEN e.alias \o r.forwarded ELSE e.alias
  BY DEF Vfs!Target
<1>4. <<"o">> \in Path /\ <<"o">> \o r.forwarded \in Path
  BY Paths, ConcatProperties DEF Path
<1> HIDE DEF e
<1>5. Vfs!Target(r) \in Path /\ (e.alias = <<>> => Vfs!Target(r) = e.name)
  BY <1>2, <1>3, <1>4
<1> QED
  BY <1>5 DEF e

\* One client's descriptor and the entry it leads to move; what the others asked
\* for they still get, or nobody can tell.
Moves(e, f, k, a, g, h, l, b, i, c, fd) ==
  /\ i \in 1 .. Len(e) /\ Len(g) = Len(e)
  /\ \A j \in 1 .. Len(e) : g[j].name = e[j].name /\ (j # i => g[j] = e[j])
  /\ g[i].alias_fd.id = 0 => e[i].alias_fd.id = 0 /\ e[i].size <= g[i].size
  /\ Len(l) >= Len(k) /\ \A x \in 1 .. Len(k) : l[x] = k[x]
  /\ c \in Clients /\ fd \in Fd \cup {Nil} /\ h = [f EXCEPT ![c] = fd]
  /\ fd # Nil => Leads(g, fd)
  /\ b \in [Clients -> Path \cup {Nil}]
  /\ Unique(e) /\ b[c] # Nil /\ fd # Nil => GoesOnIn(g, l, fd, b[c])
  /\ \A d \in Clients \ {c} :
       b[d] # Nil /\ f[d] # Nil =>
         b[d] = a[d] /\ (First(e, f[d].id) = i => g[i].alias_fd = e[i].alias_fd)

LEMMA MovesKeep ==
  ASSUME NEW e, NEW f, NEW k, NEW a, VfsOK(e, f, k, a),
         NEW g, NEW h, NEW l, NEW b, EntriesOK(g, l),
         NEW i, NEW c, NEW fd, Moves(e, f, k, a, g, h, l, b, i, c, fd)
  PROVE  VfsOK(g, h, l, b)
<1>1. /\ e \in Seq(Entry) /\ k \in Seq(Path) /\ f \in [Clients -> Fd \cup {Nil}]
      /\ a \in [Clients -> Path \cup {Nil}] /\ g \in Seq(Entry)
      /\ \A d \in Clients : f[d] # Nil => Leads(e, f[d])
      /\ Unique(e) => \A d \in Clients :
                        a[d] # Nil /\ f[d] # Nil => GoesOnIn(e, k, f[d], a[d])
      /\ \A j \in 1 .. Len(e) : e[j].alias_fd.id \in 0 .. Len(k)
  BY DEF VfsOK, EntriesOK, FdsOK, AskedOK
<1>m. /\ i \in 1 .. Len(e) /\ Len(g) = Len(e)
      /\ \A j \in 1 .. Len(e) : g[j].name = e[j].name /\ (j # i => g[j] = e[j])
      /\ g[i].alias_fd.id = 0 => e[i].alias_fd.id = 0 /\ e[i].size <= g[i].size
      /\ Len(l) >= Len(k) /\ \A x \in 1 .. Len(k) : l[x] = k[x]
      /\ c \in Clients /\ fd \in Fd \cup {Nil} /\ h = [f EXCEPT ![c] = fd]
      /\ fd # Nil => Leads(g, fd)
      /\ b \in [Clients -> Path \cup {Nil}]
      /\ Unique(e) /\ b[c] # Nil /\ fd # Nil => GoesOnIn(g, l, fd, b[c])
      /\ \A d \in Clients \ {c} :
           b[d] # Nil /\ f[d] # Nil =>
             b[d] = a[d] /\ (First(e, f[d].id) = i => g[i].alias_fd = e[i].alias_fd)
  BY DEF Moves
<1>2. (\A x : First(g, x) = First(e, x)) /\ (Unique(g) <=> Unique(e))
  BY <1>m, FirstSame
<1>3. Len(e) \in Nat /\ Len(k) \in Nat /\ Len(l) \in Nat
      /\ \A j \in 1 .. Len(e) : e[j] \in Entry /\ g[j] \in Entry
  BY <1>1, <1>m, ElementOfSeq, LenProperties DEF EntriesOK
<1>4. h \in [Clients -> Fd \cup {Nil}] /\ h[c] = fd /\ \A d \in Clients \ {c} : h[d] = f[d]
  BY <1>1, <1>m
<1>5. ASSUME NEW d \in Clients, h[d] # Nil PROVE Leads(g, h[d])
  <2>1. CASE d = c
    BY <1>m, <1>4, <1>5, <2>1
  <2>2. CASE d # c
    <3> DEFINE j == First(e, f[d].id)
    <3>1. h[d] = f[d] /\ f[d] \in Fd /\ First(g, h[d].id) = j
      BY <1>1, <1>m, <1>2, <1>4, <1>5, <2>2
    <3>2. /\ j \in 1 .. Len(e)
          /\ e[j].alias_fd.id = 0 => f[d].cursor <= e[j].size
      <4>1. j \in 0 .. Len(e) /\ Leads(e, f[d])
        BY <1>1, <1>m, <1>4, <1>5, <2>2, FirstIs
      <4> QED
        BY <1>3, <4>1 DEF Leads
    <3> HIDE DEF j
    <3>4. e[j].size \in Nat /\ g[j].size \in Nat /\ f[d].cursor \in Nat
      BY <1>3, <3>1, <3>2 DEF Entry, Fd
    <3>3. g[j].alias_fd.id = 0 => e[j].alias_fd.id = 0 /\ e[j].size <= g[j].size
      <4>1. CASE j = i
        BY <1>m, <4>1
      <4>2. CASE j # i
        <5>1. g[j] = e[j]
          BY <1>m, <3>2, <4>2
        <5> QED
          BY <3>4, <5>1
      <4> QED
        BY <4>1, <4>2
    <3> QED
      BY <3>1, <3>2, <3>3, <3>4 DEF Leads
  <2> QED
    BY <2>1, <2>2
<1>6. ASSUME Unique(g), NEW d \in Clients, b[d] # Nil, h[d] # Nil
      PROVE  GoesOnIn(g, l, h[d], b[d])
  <2>1. CASE d = c
    BY <1>m, <1>2, <1>4, <1>6, <2>1
  <2>2. CASE d # c
    <3> DEFINE j == First(e, f[d].id)
    <3>1. /\ h[d] = f[d] /\ b[d] = a[d] /\ f[d] # Nil /\ f[d] \in Fd
          /\ GoesOnIn(e, k, f[d], a[d]) /\ Leads(e, f[d])
      BY <1>1, <1>m, <1>2, <1>4, <1>6, <2>2
    <3>2. j \in 1 .. Len(e) /\ First(g, f[d].id) = j
      BY <1>1, <1>m, <1>2, <1>3, <3>1, FirstIs DEF Leads
    <3> HIDE DEF j
    <3>3. g[j].alias_fd = e[j].alias_fd /\ g[j].name = e[j].name
      BY <1>m, <1>4, <1>6, <2>2, <3>1, <3>2 DEF j
    <3>4. e[j].alias_fd.id # 0 => l[e[j].alias_fd.id] = k[e[j].alias_fd.id]
      BY <1>1, <1>m, <1>3, <3>2
    <3> QED
      BY <3>1, <3>2, <3>3, <3>4 DEF GoesOnIn, j
  <2> QED
    BY <2>1, <2>2
<1> QED
  BY <1>m, <1>4, <1>5, <1>6 DEF VfsOK, FdsOK, AskedOK

\* An entry changes: the descriptor it has of the kernel's, or its size.
LEMMA EntryChanged ==
  ASSUME NEW e \in Seq(Entry), NEW i \in 1 .. Len(e), NEW x \in Entry, x.name = e[i].name,
         NEW g, g = [e EXCEPT ![i] = x]
  PROVE  /\ g \in Seq(Entry) /\ Len(g) = Len(e) /\ g[i] = x
         /\ \A j \in 1 .. Len(e) : g[j].name = e[j].name /\ (j # i => g[j] = e[j])
<1>1. Len(e) \in Nat /\ DOMAIN e = 1 .. Len(e)
  BY LenProperties
<1>2. g \in Seq(Entry) /\ Len(g) = Len(e)
  BY ExceptSeq
<1> QED
  BY <1>1, <1>2

VfsNow  == VfsOK(entries, fds, kernel, asked)
VfsThen == VfsOK(entries', fds', kernel', asked')

LEMMA NowFacts ==
  ASSUME VfsNow
  PROVE  /\ entries \in Seq(Entry) /\ kernel \in Seq(Path)
         /\ fds \in [Clients -> Fd \cup {Nil}] /\ asked \in [Clients -> Path \cup {Nil}]
         /\ Len(entries) \in Nat /\ Len(kernel) \in Nat
         /\ \A i \in 1 .. Len(entries) :
              /\ entries[i] \in Entry /\ entries[i].alias_fd.id \in 0 .. Len(kernel)
              /\ entries[i].alias_fd.cursor <= MaxSize
              /\ entries[i].alias = <<>> => entries[i].alias_fd.id = 0
         /\ \A c \in Clients :
              fds[c] # Nil =>
                /\ fds[c] \in Fd
                /\ Vfs!find_entry(fds[c].id) = First(entries, fds[c].id)
                /\ First(entries, fds[c].id) \in 1 .. Len(entries)
                /\ entries[First(entries, fds[c].id)].name = fds[c].id
<1>1. /\ entries \in Seq(Entry) /\ kernel \in Seq(Path)
      /\ fds \in [Clients -> Fd \cup {Nil}] /\ asked \in [Clients -> Path \cup {Nil}]
      /\ \A c \in Clients : fds[c] # Nil => Leads(entries, fds[c])
      /\ \A i \in 1 .. Len(entries) :
              /\ entries[i].alias_fd.id \in 0 .. Len(kernel)
              /\ entries[i].alias_fd.cursor <= MaxSize
              /\ entries[i].alias = <<>> => entries[i].alias_fd.id = 0
  BY DEF VfsNow, VfsOK, EntriesOK, FdsOK, AskedOK
<1>2. Len(entries) \in Nat /\ Len(kernel) \in Nat
      /\ \A i \in 1 .. Len(entries) : entries[i] \in Entry
  BY <1>1, ElementOfSeq, LenProperties
<1>3. ASSUME NEW c \in Clients, fds[c] # Nil
      PROVE  /\ fds[c] \in Fd
             /\ Vfs!find_entry(fds[c].id) = First(entries, fds[c].id)
             /\ First(entries, fds[c].id) \in 1 .. Len(entries)
             /\ entries[First(entries, fds[c].id)].name = fds[c].id
  <2>1. First(entries, fds[c].id) # 0
    BY <1>1, <1>3 DEF Leads
  <2> QED
    BY <1>1, <1>2, <1>3, <2>1, FirstIs, EntryFound
<1> QED
  BY <1>1, <1>2, <1>3

\* What Disturbed leaves.
LEMMA DisturbedIs ==
  ASSUME VfsNow, NEW i, NEW c
  PROVE  /\ Vfs!Disturbed(i, c) \in [Clients -> Path \cup {Nil}]
         /\ \A d \in Clients :
              /\ Vfs!Disturbed(i, c)[d] \in {asked[d], Nil}
              /\ d = c => Vfs!Disturbed(i, c)[d] = asked[d]
              /\ d # c /\ fds[d] # Nil /\ First(entries, fds[d].id) = i
                   => Vfs!Disturbed(i, c)[d] = Nil
<1>1. \A d \in Clients : fds[d] # Nil => Vfs!find_entry(fds[d].id) = First(entries, fds[d].id)
  BY NowFacts
<1>2. asked \in [Clients -> Path \cup {Nil}]
  BY NowFacts
<1> QED
  BY <1>1, <1>2 DEF Vfs!Disturbed

LEMMA ForwardStep ==
  ASSUME VfsNow, NEW c \in Clients, fds[c] # Nil, NEW i, i = First(entries, fds[c].id),
         NEW n \in 1 .. MaxSize, NEW op, Vfs!Aliased(i), Vfs!Forward(c, i, n, op)
  PROVE  VfsThen /\ Vfs!GoesOn
<1> DEFINE x     == entries[i].alias_fd
           moved == [x EXCEPT !.cursor = x.cursor + n]
           new   == [entries[i] EXCEPT !.alias_fd = moved]
           fd    == [id |-> entries[i].name, cursor |-> moved.cursor, size |-> MaxSize]
<1>1. /\ i \in 1 .. Len(entries) /\ entries[i] \in Entry /\ entries[i].name = fds[c].id
      /\ x \in [id : Nat, cursor : Nat] /\ x.id \in 1 .. Len(kernel) /\ n \in Nat
      /\ entries[i].alias # <<>> /\ fds[c] \in Fd
  BY NowFacts, SizeAssumption DEF Entry, Vfs!Aliased
<1>2. /\ x.cursor + n <= MaxSize
      /\ entries' = [entries EXCEPT ![i] = new]
      /\ fds' = [fds EXCEPT ![c] = fd]
      /\ out' = [op |-> op, by |-> c, of |-> kernel[x.id], at |-> x.cursor, n |-> n]
      /\ asked' = Vfs!Disturbed(i, c) /\ kernel' = kernel
  <2>1. n <= IF x.id \in closed THEN 0 ELSE MaxSize - x.cursor
    BY DEF Vfs!Forward, Vfs!Room
  <2>2. x.cursor + n <= MaxSize
    BY <1>1, <2>1, SizeAssumption
  <2> QED
    BY <2>2 DEF Vfs!Forward
<1>3. /\ moved.id = x.id /\ moved.cursor = x.cursor + n /\ moved \in [id : Nat, cursor : Nat]
  BY <1>1
<1> HIDE DEF moved
<1>4. /\ new \in Entry /\ new.name = entries[i].name /\ new.alias_fd = moved
      /\ new.alias = entries[i].alias
  BY <1>1, <1>3 DEF Entry
<1> HIDE DEF new
<1>5. /\ entries' \in Seq(Entry) /\ Len(entries') = Len(entries) /\ entries'[i] = new
      /\ \A j \in 1 .. Len(entries) :
           entries'[j].name = entries[j].name /\ (j # i => entries'[j] = entries[j])
  <2>1. entries \in Seq(Entry)
    BY NowFacts
  <2> QED
    BY <1>1, <1>2, <1>4, <2>1, EntryChanged
<1>6. EntriesOK(entries', kernel')
  BY <1>1, <1>2, <1>3, <1>4, <1>5, NowFacts DEF EntriesOK
<1>7. fd \in Fd /\ fd.id = fds[c].id /\ fd.cursor = x.cursor + n
  BY <1>1, <1>3, SizeAssumption DEF Fd, Entry
<1> HIDE DEF fd
<1>8. /\ First(entries, fd.id) = i /\ First(entries', fd.id) = i
      /\ Unique(entries') <=> Unique(entries)
  <2>1. (\A y : First(entries', y) = First(entries, y)) /\ (Unique(entries') <=> Unique(entries))
    BY <1>5, FirstSame
  <2> QED
    BY <1>7, <2>1
<1>9. Leads(entries', fd)
  BY <1>1, <1>3, <1>4, <1>5, <1>8 DEF Leads
<1>10. Unique(entries) /\ asked[c] # Nil => asked[c] = kernel[x.id] /\ fds[c].cursor = x.cursor
  BY <1>1 DEF VfsNow, VfsOK, AskedOK, GoesOnIn
<1>11. Unique(entries) /\ asked'[c] # Nil => GoesOnIn(entries', kernel', fd, asked'[c])
  <2>1. asked'[c] = asked[c]
    BY <1>2, DisturbedIs
  <2> QED
    BY <1>1, <1>2, <1>3, <1>4, <1>5, <1>7, <1>8, <1>10, <2>1 DEF GoesOnIn
<1>12. VfsThen
  <2>1. asked' \in [Clients -> Path \cup {Nil}]
        /\ \A d \in Clients \ {c} :
             asked'[d] # Nil /\ fds[d] # Nil =>
               asked'[d] = asked[d] /\ First(entries, fds[d].id) # i
    BY <1>2, DisturbedIs
  <2>2. entries'[i].alias_fd.id # 0
    BY <1>1, <1>3, <1>4, <1>5
  <2>3. Len(kernel') >= Len(kernel) /\ \A y \in 1 .. Len(kernel) : kernel'[y] = kernel[y]
    BY <1>2, NowFacts
  <2>4. Moves(entries, fds, kernel, asked, entries', fds', kernel', asked', i, c, fd)
    BY <1>1, <1>2, <1>5, <1>7, <1>9, <1>11, <2>1, <2>2, <2>3 DEF Moves
  <2> QED
    BY <1>6, <2>4, MovesKeep DEF VfsNow, VfsThen
<1>13. Vfs!GoesOn
  <2>1. Vfs!Distinct => Unique(entries)
    BY NowFacts DEF Vfs!Distinct, Unique
  <2>2. /\ out'.by = c /\ out'.of = kernel[x.id] /\ out'.at = x.cursor /\ out'.n = n
        /\ fds'[c].cursor = x.cursor + n
    BY <1>2, <1>7, NowFacts
  <2> HIDE DEF x
  <2> QED
    BY <1>10, <2>1, <2>2 DEF Vfs!GoesOn
<1> QED
  BY <1>12, <1>13


\* A step that neither reads nor writes.
LEMMA Silent ==
  ASSUME out'.op \notin {"read", "write"}
  PROVE  Vfs!GoesOn
BY DEF Vfs!GoesOn

LEMMA VfsSame ==
  ASSUME VfsNow, entries' = entries, fds' = fds, kernel' = kernel, asked' = asked
  PROVE  VfsThen
BY DEF VfsNow, VfsThen

LEMMA DistinctIs ==
  ASSUME VfsNow
  PROVE  Vfs!Distinct <=> Unique(entries)
<1>1. DOMAIN entries = 1 .. Len(entries)
  BY NowFacts
<1> QED
  BY <1>1 DEF Vfs!Distinct, Unique

LEMMA MakeEntryStep ==
  ASSUME VfsNow, Vfs!MakeEntry
  PROVE  VfsThen /\ Vfs!GoesOn
<1>1. PICK name \in EntryNames, alias \in {<<>>, <<"o">>}, dir \in BOOLEAN :
        entries' = Append(entries, [name |-> name, dir |-> dir, alias |-> alias,
                                    alias_fd |-> Vfs!NoFd, size |-> 0])
  BY DEF Vfs!MakeEntry
<1>2. fds' = fds /\ kernel' = kernel /\ asked' = asked /\ out' = [op |-> "make"]
  BY DEF Vfs!MakeEntry
<1> DEFINE new == [name |-> name, dir |-> dir, alias |-> alias, alias_fd |-> Vfs!NoFd,
                   size |-> 0]
<1>3. new \in Entry /\ new.alias_fd.id = 0 /\ new.alias_fd.cursor = 0
  BY DEF Entry, Vfs!NoFd
<1>4. entries' = Append(entries, new)
  BY <1>1
<1> HIDE DEF new
<1>5. entries \in Seq(Entry) /\ Len(entries) \in Nat /\ Len(kernel) \in Nat
      /\ kernel \in Seq(Path)
  BY NowFacts
<1>6. /\ entries' \in Seq(Entry) /\ Len(entries') = Len(entries) + 1
      /\ entries'[Len(entries) + 1] = new
      /\ \A j \in 1 .. Len(entries) : entries'[j] = entries[j]
  BY <1>3, <1>4, <1>5, AppendProperties
<1>7. EntriesOK(entries', kernel')
  <2>1. SUFFICES ASSUME NEW j \in 1 .. Len(entries')
                 PROVE  /\ entries'[j].alias_fd.id \in 0 .. Len(kernel')
                        /\ entries'[j].alias_fd.cursor <= MaxSize
                        /\ entries'[j].alias = <<>> => entries'[j].alias_fd.id = 0
    BY <1>2, <1>5, <1>6 DEF EntriesOK
  <2>2. CASE j \in 1 .. Len(entries)
    <3>1. entries'[j] = entries[j]
      BY <1>6, <2>2
    <3> QED
      BY <1>2, <2>2, <3>1, NowFacts
  <2>3. CASE j = Len(entries) + 1
    <3>1. entries'[j] = new
      BY <1>6, <2>3
    <3> QED
      BY <1>2, <1>3, <1>5, <3>1, SizeAssumption
  <2> QED
    BY <1>5, <1>6, <2>2, <2>3
<1>8. ASSUME NEW c \in Clients, fds[c] # Nil
      PROVE  /\ First(entries', fds[c].id) = First(entries, fds[c].id)
             /\ entries'[First(entries, fds[c].id)] = entries[First(entries, fds[c].id)]
  <2>1. First(entries, fds[c].id) \in 1 .. Len(entries)
    BY <1>8, NowFacts
  <2>2. First(Append(entries, new), fds[c].id) = First(entries, fds[c].id)
    BY <1>3, <1>5, <2>1, FirstLonger
  <2> QED
    BY <1>4, <1>6, <2>1, <2>2
<1>9. FdsOK(entries', fds')
  <2>1. \A c \in Clients : fds[c] # Nil => Leads(entries, fds[c])
    BY DEF VfsNow, VfsOK, FdsOK
  <2>2. ASSUME NEW c \in Clients, fds[c] # Nil PROVE Leads(entries', fds[c])
    BY <1>8, <2>1, <2>2 DEF Leads
  <2>3. fds \in [Clients -> Fd \cup {Nil}]
    BY NowFacts
  <2> QED
    BY <1>2, <2>2, <2>3 DEF FdsOK
<1>10. AskedOK(entries', fds', kernel', asked')
  <2>1. asked \in [Clients -> Path \cup {Nil}]
    BY NowFacts
  <2>2. Unique(entries') => Unique(entries)
    <3>1. \A j \in 1 .. Len(entries) :
            j \in 1 .. Len(entries') /\ entries'[j].name = entries[j].name
      BY <1>5, <1>6
    <3> QED
      BY <3>1 DEF Unique
  <2>3. ASSUME Unique(entries'), NEW c \in Clients, asked[c] # Nil, fds[c] # Nil
        PROVE  GoesOnIn(entries', kernel, fds[c], asked[c])
    <3>1. GoesOnIn(entries, kernel, fds[c], asked[c])
      BY <2>2, <2>3 DEF VfsNow, VfsOK, AskedOK
    <3> QED
      BY <1>8, <2>3, <3>1 DEF GoesOnIn
  <2> QED
    BY <1>2, <2>1, <2>3 DEF AskedOK
<1>11. Vfs!GoesOn
  BY <1>2, Silent
<1> QED
  BY <1>7, <1>9, <1>10, <1>11 DEF VfsThen, VfsOK

\* A path that leads to an entry: what is opened is found by the entry's name.
LEMMA OpenFacts ==
  ASSUME VfsNow, NEW path \in Queries, NEW r,
         r = Vfs!R!parse_path(entries, path, "forward"), r.file # 0
  PROVE  /\ r.file \in 1 .. Len(entries) /\ Vfs!Target(r) \in Path
         /\ entries[r.file].alias = <<>> => Vfs!Target(r) = entries[r.file].name
         /\ First(entries, entries[r.file].name) # 0
         /\ Unique(entries) => First(entries, entries[r.file].name) = r.file
<1>1. entries \in Seq(Entry) /\ Len(entries) \in Nat
  BY NowFacts
<1>2. path \in Path
  BY Paths
<1>3. r.file \in 1 .. Len(entries) /\ r.forwarded \in Path
  BY <1>1, <1>2, Resolved
<1>4. /\ Vfs!Target(r) \in Path
      /\ entries[r.file].alias = <<>> => Vfs!Target(r) = entries[r.file].name
  BY <1>1, <1>3, TargetIs
<1> DEFINE name == entries[r.file].name
           i == First(entries, name)
<1>5. i \in 0 .. Len(entries) /\ i # 0 /\ entries[i].name = name
  BY <1>1, <1>3, FirstIs
<1> HIDE DEF i
<1>6. Unique(entries) => i = r.file
  BY <1>1, <1>3, <1>5 DEF Unique
<1> QED
  BY <1>3, <1>4, <1>5, <1>6 DEF i

LEMMA SameMoves ==
  ASSUME VfsNow
  PROVE  /\ \A j \in 1 .. Len(entries) : entries[j].name = entries[j].name
         /\ \A y \in 1 .. Len(kernel) : kernel[y] = kernel[y]
         /\ Len(kernel) >= Len(kernel)
         /\ \A i \in 1 .. Len(entries) : entries[i].size <= entries[i].size
BY NowFacts DEF Entry

LEMMA OpenEntryStep ==
  ASSUME VfsNow, NEW c \in Clients, fds[c] = Nil, NEW path \in Queries, NEW r,
         r = Vfs!R!parse_path(entries, path, "forward"), r.file # 0,
         entries[r.file].alias = <<>>, Vfs!OpenEntry(c, r)
  PROVE  VfsThen /\ Vfs!GoesOn
<1> DEFINE i  == r.file
           fd == [id |-> entries[i].name, cursor |-> 0, size |-> entries[i].size]
           t  == Vfs!Target(r)
<1>1. /\ fds' = [fds EXCEPT ![c] = fd] /\ asked' = [asked EXCEPT ![c] = t]
      /\ out' = [op |-> "open"] /\ entries' = entries /\ kernel' = kernel
  BY DEF Vfs!OpenEntry
<1>2. /\ i \in 1 .. Len(entries) /\ t \in Path /\ t = entries[i].name
      /\ First(entries, entries[i].name) # 0
      /\ Unique(entries) => First(entries, entries[i].name) = i
  BY OpenFacts
<1> HIDE DEF t
<1>3. entries[i] \in Entry /\ entries[i].alias_fd.id = 0
  BY <1>2, NowFacts
<1>4. fd \in Fd /\ fd.id = entries[i].name /\ fd.cursor = 0
  BY <1>3 DEF Fd, Entry
<1> HIDE DEF fd
<1>5. Leads(entries, fd)
  <2> DEFINE j == First(entries, entries[i].name)
  <2>1. j \in 1 .. Len(entries)
    BY <1>2, NowFacts, FirstIs
  <2>2. entries[j].size \in Nat
    BY <2>1, NowFacts DEF Entry
  <2> HIDE DEF j
  <2> QED
    BY <1>2, <1>4, <2>1, <2>2 DEF Leads, j
<1>6. Unique(entries) => GoesOnIn(entries, kernel, fd, t)
  BY <1>2, <1>3, <1>4 DEF GoesOnIn
<1>7. /\ asked' \in [Clients -> Path \cup {Nil}] /\ asked'[c] = t
      /\ \A d \in Clients \ {c} : asked'[d] = asked[d]
  <2>1. asked \in [Clients -> Path \cup {Nil}]
    BY NowFacts
  <2> QED
    BY <1>1, <1>2, <2>1
<1>8. Moves(entries, fds, kernel, asked, entries', fds', kernel', asked', i, c, fd)
  BY <1>1, <1>2, <1>4, <1>5, <1>6, <1>7, SameMoves DEF Moves
<1>9. EntriesOK(entries', kernel')
  BY <1>1 DEF VfsNow, VfsOK
<1>10. VfsThen
  BY <1>8, <1>9, MovesKeep DEF VfsNow, VfsThen
<1>11. Vfs!GoesOn
  BY <1>1, Silent
<1> QED
  BY <1>10, <1>11

LEMMA OpenAliasStep ==
  ASSUME VfsNow, NEW c \in Clients, fds[c] = Nil, NEW path \in Queries, NEW r,
         r = Vfs!R!parse_path(entries, path, "forward"), r.file # 0,
         entries[r.file].alias # <<>>, Vfs!OpenAlias(c, r)
  PROVE  VfsThen /\ Vfs!GoesOn
<1> DEFINE i  == r.file
           t  == Vfs!Target(r)
           n  == Len(kernel) + 1
           x  == [id |-> n, cursor |-> 0]
           new == [entries[i] EXCEPT !.alias_fd = x]
           fd == [id |-> entries[i].name, cursor |-> 0, size |-> MaxSize]
<1>1. /\ i \in 1 .. Len(entries) /\ t \in Path
      /\ First(entries, entries[i].name) # 0
      /\ Unique(entries) => First(entries, entries[i].name) = i
  BY OpenFacts
<1>2. CASE /\ kernel' = Append(kernel, t) /\ entries' = [entries EXCEPT ![i] = new]
           /\ fds' = [fds EXCEPT ![c] = fd]
           /\ asked' = [Vfs!Disturbed(i, c) EXCEPT ![c] = t]
           /\ out' = [op |-> "open"]
  <2> HIDE DEF t
  <2>1. /\ entries \in Seq(Entry) /\ kernel \in Seq(Path) /\ Len(kernel) \in Nat
        /\ entries[i] \in Entry /\ entries[i].alias # <<>>
    BY <1>1, NowFacts
  <2>2. x \in [id : Nat, cursor : Nat] /\ x.id = n /\ x.cursor = 0 /\ n \in Nat
    BY <2>1
  <2>3. /\ kernel' \in Seq(Path) /\ Len(kernel') = n /\ kernel'[n] = t
        /\ \A y \in 1 .. Len(kernel) : kernel'[y] = kernel[y]
    BY <1>1, <1>2, <2>1, AppendProperties
  <2> HIDE DEF x
  <2>4. /\ new \in Entry /\ new.name = entries[i].name /\ new.alias_fd = x
        /\ new.alias = entries[i].alias
    BY <2>1, <2>2 DEF Entry
  <2> HIDE DEF new
  <2>5. /\ entries' \in Seq(Entry) /\ Len(entries') = Len(entries) /\ entries'[i] = new
        /\ \A j \in 1 .. Len(entries) :
             entries'[j].name = entries[j].name /\ (j # i => entries'[j] = entries[j])
    BY <1>1, <1>2, <2>1, <2>4, EntryChanged
  <2>6. EntriesOK(entries', kernel')
    <3>1. SUFFICES ASSUME NEW j \in 1 .. Len(entries)
                   PROVE  /\ entries'[j].alias_fd.id \in 0 .. n
                          /\ entries'[j].alias_fd.cursor <= MaxSize
                          /\ entries'[j].alias = <<>> => entries'[j].alias_fd.id = 0
      BY <2>3, <2>5 DEF EntriesOK
    <3>2. CASE j = i
      BY <2>1, <2>2, <2>4, <2>5, <3>2, SizeAssumption
    <3>3. CASE j # i
      <4>1. entries'[j] = entries[j]
        BY <2>5, <3>3
      <4> QED
        BY <2>1, <4>1, NowFacts
    <3> QED
      BY <3>2, <3>3
  <2>7. fd \in Fd /\ fd.id = entries[i].name /\ fd.cursor = 0
    BY <2>1, SizeAssumption DEF Fd, Entry
  <2> HIDE DEF fd
  <2>8. \A y : First(entries', y) = First(entries, y)
    BY <2>5, FirstSame
  <2>9. Leads(entries', fd)
    <3> DEFINE j == First(entries', fd.id)
    <3>1. j # 0 /\ j \in 0 .. Len(entries')
      BY <1>1, <2>5, <2>7, <2>8, FirstIs
    <3>2. entries'[j] \in Entry
      BY <2>5, <3>1, ElementOfSeq
    <3> HIDE DEF j
    <3>3. entries'[j].size \in Nat
      BY <3>2 DEF Entry
    <3> QED
      BY <2>7, <3>1, <3>3 DEF Leads, j
  <2>10. Unique(entries) => GoesOnIn(entries', kernel', fd, t)
    <3>1. ASSUME Unique(entries) PROVE First(entries', fd.id) = i
      BY <1>1, <2>7, <2>8, <3>1
    <3>2. x.id # 0
      BY <2>1, <2>2
    <3> HIDE DEF n
    <3> QED
      BY <2>2, <2>3, <2>4, <2>5, <2>7, <3>1, <3>2 DEF GoesOnIn
  <2>11. /\ asked' \in [Clients -> Path \cup {Nil}] /\ asked'[c] = t
         /\ \A d \in Clients \ {c} :
              asked'[d] # Nil /\ fds[d] # Nil =>
                asked'[d] = asked[d] /\ First(entries, fds[d].id) # i
    <3> DEFINE left == Vfs!Disturbed(i, c)
    <3>1. /\ left \in [Clients -> Path \cup {Nil}]
          /\ \A d \in Clients :
               /\ left[d] \in {asked[d], Nil}
               /\ d # c /\ fds[d] # Nil /\ First(entries, fds[d].id) = i => left[d] = Nil
      BY DisturbedIs
    <3>2. asked' = [left EXCEPT ![c] = t]
      BY <1>2
    <3> HIDE DEF left
    <3> QED
      BY <1>1, <3>1, <3>2
  <2>12. entries'[i].alias_fd.id # 0 /\ Len(kernel') >= Len(kernel)
    BY <2>1, <2>2, <2>3, <2>4, <2>5
  <2>13. Moves(entries, fds, kernel, asked, entries', fds', kernel', asked', i, c, fd)
    BY <1>1, <1>2, <2>3, <2>5, <2>7, <2>9, <2>10, <2>11, <2>12 DEF Moves
  <2>14. VfsThen
    BY <2>6, <2>13, MovesKeep DEF VfsNow, VfsThen
  <2>15. Vfs!GoesOn
    BY <1>2, Silent
  <2> QED
    BY <2>14, <2>15
<1>3. CASE out' = [op |-> "failed"] /\ UNCHANGED <<entries, fds, kernel, asked>>
  <2>1. VfsThen
    BY <1>3, VfsSame
  <2> QED
    BY <1>3, <2>1, Silent
<1> QED
  BY <1>2, <1>3 DEF Vfs!OpenAlias

\* A descriptor on an entry with a text of its own.
LEMMA PlainFacts ==
  ASSUME VfsNow, NEW c \in Clients, fds[c] # Nil, NEW i, i = First(entries, fds[c].id),
         ~Vfs!Aliased(i)
  PROVE  /\ i \in 1 .. Len(entries) /\ entries[i] \in Entry /\ fds[c] \in Fd
         /\ entries[i].name = fds[c].id /\ entries[i].alias_fd.id = 0
         /\ fds[c].cursor <= entries[i].size
         /\ Unique(entries) /\ asked[c] # Nil => asked[c] = entries[i].name
<1>1. /\ i \in 1 .. Len(entries) /\ entries[i] \in Entry /\ fds[c] \in Fd
      /\ entries[i].name = fds[c].id /\ entries[i].alias_fd.id = 0
  BY NowFacts DEF Vfs!Aliased
<1>2. Leads(entries, fds[c])
      /\ (Unique(entries) /\ asked[c] # Nil => GoesOnIn(entries, kernel, fds[c], asked[c]))
  BY DEF VfsNow, VfsOK, FdsOK, AskedOK
<1> QED
  BY <1>1, <1>2 DEF Leads, GoesOnIn

\* A read or a write at the cursor of such a descriptor.
LEMMA PlainGoesOn ==
  ASSUME VfsNow, NEW c \in Clients, fds[c] # Nil, NEW i, i = First(entries, fds[c].id),
         ~Vfs!Aliased(i), NEW n,
         out'.by = c, out'.of = entries[i].name, out'.at = fds[c].cursor, out'.n = n,
         fds'[c].cursor = fds[c].cursor + n
  PROVE  Vfs!GoesOn
BY PlainFacts, DistinctIs DEF Vfs!GoesOn

LEMMA ReadStep ==
  ASSUME VfsNow, Vfs!Read
  PROVE  VfsThen /\ Vfs!GoesOn
<1>1. PICK c \in Clients, n \in 1 .. MaxSize :
        /\ fds[c] # Nil
        /\ LET i == Vfs!find_entry(fds[c].id)
               e == entries[i]
           IN  IF Vfs!Aliased(i) THEN Vfs!Forward(c, i, n, "read")
               ELSE /\ n + fds[c].cursor <= e.size
                    /\ out' = [op |-> "read", by |-> c, of |-> e.name,
                               at |-> fds[c].cursor, n |-> n]
                    /\ fds' = [fds EXCEPT ![c].cursor = @ + n]
                    /\ UNCHANGED <<entries, kernel, closed, asked>>
  BY DEF Vfs!Read
<1> DEFINE i == First(entries, fds[c].id)
<1>2. Vfs!find_entry(fds[c].id) = i
  BY EntryFound
<1>3. CASE Vfs!Aliased(i)
  <2>1. Vfs!Forward(c, i, n, "read")
    BY <1>1, <1>2, <1>3
  <2> HIDE DEF i
  <2> QED
    BY <1>1, <1>3, <2>1, ForwardStep DEF i
<1>4. CASE ~Vfs!Aliased(i)
  <2> DEFINE fd == [fds[c] EXCEPT !.cursor = fds[c].cursor + n]
  <2>1. /\ n + fds[c].cursor <= entries[i].size
        /\ out' = [op |-> "read", by |-> c, of |-> entries[i].name,
                   at |-> fds[c].cursor, n |-> n]
        /\ fds' = [fds EXCEPT ![c] = fd]
        /\ entries' = entries /\ kernel' = kernel /\ asked' = asked
    BY <1>1, <1>2, <1>4
  <2>2. /\ i \in 1 .. Len(entries) /\ entries[i] \in Entry /\ fds[c] \in Fd
        /\ entries[i].name = fds[c].id /\ entries[i].alias_fd.id = 0
        /\ (Unique(entries) /\ asked[c] # Nil => asked[c] = entries[i].name)
    BY <1>1, <1>4, PlainFacts
  <2>3. /\ fd \in Fd /\ fd.id = fds[c].id /\ fd.cursor = fds[c].cursor + n
    BY <2>2, SizeAssumption DEF Fd
  <2> HIDE DEF fd
  <2>4. First(entries, fd.id) = i
    BY <2>3
  <2>7. n + fds[c].cursor = fd.cursor /\ fds[c] # Nil
    BY <1>1, <2>2, <2>3, SizeAssumption DEF Fd
  <2>8. fds'[c].cursor = fds[c].cursor + n
    BY <2>1, <2>3, NowFacts
  <2> HIDE DEF i
  <2>5. Leads(entries, fd)
    BY <2>1, <2>2, <2>4, <2>7 DEF Leads
  <2>6. Unique(entries) /\ asked[c] # Nil => GoesOnIn(entries, kernel, fd, asked[c])
    BY <2>2, <2>4 DEF GoesOnIn
  <2>9. asked \in [Clients -> Path \cup {Nil}]
    BY NowFacts
  <2>10. Moves(entries, fds, kernel, asked, entries', fds', kernel', asked', i, c, fd)
    BY <2>1, <2>2, <2>3, <2>5, <2>6, <2>9, SameMoves DEF Moves
  <2>11. EntriesOK(entries', kernel')
    BY <2>1 DEF VfsNow, VfsOK
  <2>12. VfsThen
    BY <2>10, <2>11, MovesKeep DEF VfsNow, VfsThen
  <2>13. out'.by = c /\ out'.of = entries[i].name /\ out'.at = fds[c].cursor /\ out'.n = n
    BY <2>1
  <2>14. Vfs!GoesOn
    BY <1>4, <2>7, <2>8, <2>13, PlainGoesOn DEF i
  <2> QED
    BY <2>12, <2>14
<1> QED
  BY <1>3, <1>4

LEMMA WriteStep ==
  ASSUME VfsNow, Vfs!Write
  PROVE  VfsThen /\ Vfs!GoesOn
<1>1. PICK c \in Clients, n \in 1 .. MaxSize :
        /\ fds[c] # Nil
        /\ LET i == Vfs!find_entry(fds[c].id)
               e == entries[i]
           IN  IF Vfs!Aliased(i) THEN Vfs!Forward(c, i, n, "write")
               ELSE /\ e.size + n <= MaxSize
                    /\ entries' = [entries EXCEPT ![i].size = @ + n]
                    /\ out' = [op |-> "write", by |-> c, of |-> e.name,
                               at |-> fds[c].cursor, n |-> n]
                    /\ fds' = [fds EXCEPT ![c].cursor = @ + n, ![c].size = e.size + n]
                    /\ UNCHANGED <<kernel, closed, asked>>
  BY DEF Vfs!Write
<1> DEFINE i == First(entries, fds[c].id)
<1>2. Vfs!find_entry(fds[c].id) = i
  BY EntryFound
<1>3. CASE Vfs!Aliased(i)
  <2>1. Vfs!Forward(c, i, n, "write")
    BY <1>1, <1>2, <1>3
  <2> HIDE DEF i
  <2> QED
    BY <1>1, <1>3, <2>1, ForwardStep DEF i
<1>4. CASE ~Vfs!Aliased(i)
  <2> DEFINE m   == entries[i].size + n
             new == [entries[i] EXCEPT !.size = m]
             at  == [fds[c] EXCEPT !.cursor = fds[c].cursor + n]
             fd  == [at EXCEPT !.size = m]
  <2>1. /\ i \in 1 .. Len(entries) /\ entries[i] \in Entry /\ fds[c] \in Fd
        /\ entries[i].name = fds[c].id /\ entries[i].alias_fd.id = 0
        /\ fds[c].cursor <= entries[i].size
        /\ (Unique(entries) /\ asked[c] # Nil => asked[c] = entries[i].name)
    BY <1>1, <1>4, PlainFacts
  <2>2. fds \in [Clients -> Fd \cup {Nil}] /\ asked \in [Clients -> Path \cup {Nil}]
        /\ entries \in Seq(Entry)
    BY NowFacts
  <2>3. /\ entries' = [entries EXCEPT ![i] = new]
        /\ out' = [op |-> "write", by |-> c, of |-> entries[i].name,
                   at |-> fds[c].cursor, n |-> n]
        /\ kernel' = kernel /\ asked' = asked
    BY <1>1, <1>2, <1>4
  <2>4. fds' = [fds EXCEPT ![c] = fd]
    <3>1. fds' = [fds EXCEPT ![c].cursor = @ + n, ![c].size = entries[i].size + n]
      BY <1>1, <1>2, <1>4
    <3> HIDE DEF i
    <3> QED
      BY <2>2, <3>1
  <2>5. m \in Nat /\ entries[i].size <= m /\ n \in Nat
        /\ fds[c].cursor + n \in Nat /\ fds[c].cursor + n <= m
    BY <2>1, SizeAssumption DEF Entry, Fd
  <2> HIDE DEF m
  <2>6. /\ new \in Entry /\ new.name = entries[i].name /\ new.size = m
        /\ new.alias_fd = entries[i].alias_fd /\ new.alias = entries[i].alias
    BY <2>1, <2>5 DEF Entry
  <2>7. /\ fd \in Fd /\ fd.id = fds[c].id /\ fd.cursor = fds[c].cursor + n
    <3>1. at \in Fd /\ at.id = fds[c].id /\ at.cursor = fds[c].cursor + n
      BY <2>1, <2>5 DEF Fd
    <3> HIDE DEF at
    <3> QED
      BY <2>5, <3>1 DEF Fd
  <2> HIDE DEF new, fd
  <2>8. First(entries, fd.id) = i
    BY <2>7
  <2>9. fds'[c].cursor = fds[c].cursor + n
    BY <2>2, <2>4, <2>7
  <2> HIDE DEF i
  <2>10. /\ entries' \in Seq(Entry) /\ Len(entries') = Len(entries) /\ entries'[i] = new
         /\ \A j \in 1 .. Len(entries) :
              entries'[j].name = entries[j].name /\ (j # i => entries'[j] = entries[j])
    BY <2>1, <2>2, <2>3, <2>6, EntryChanged
  <2>11. EntriesOK(entries', kernel')
    <3>1. SUFFICES ASSUME NEW j \in 1 .. Len(entries)
                   PROVE  /\ entries'[j].alias_fd.id \in 0 .. Len(kernel)
                          /\ entries'[j].alias_fd.cursor <= MaxSize
                          /\ entries'[j].alias = <<>> => entries'[j].alias_fd.id = 0
      BY <2>3, <2>10, NowFacts DEF EntriesOK
    <3>2. entries'[j].alias_fd = entries[j].alias_fd /\ entries'[j].alias = entries[j].alias
      BY <2>6, <2>10
    <3> QED
      BY <3>2, NowFacts
  <2>12. First(entries', fd.id) = i
    <3>1. \A y : First(entries', y) = First(entries, y)
      BY <2>10, FirstSame
    <3> QED
      BY <2>8, <3>1
  <2>13. Leads(entries', fd)
    BY <2>1, <2>5, <2>6, <2>7, <2>10, <2>12 DEF Leads
  <2>14. Unique(entries) /\ asked[c] # Nil => GoesOnIn(entries', kernel, fd, asked[c])
    BY <2>1, <2>6, <2>10, <2>12 DEF GoesOnIn
  <2>15. Moves(entries, fds, kernel, asked, entries', fds', kernel', asked', i, c, fd)
    <3>1. entries[i].alias_fd.id = 0 /\ entries[i].size <= entries'[i].size
          /\ entries'[i].alias_fd = entries[i].alias_fd
      BY <2>1, <2>5, <2>6, <2>10
    <3> QED
      BY <2>1, <2>2, <2>3, <2>4, <2>7, <2>10, <2>13, <2>14, <3>1, SameMoves DEF Moves
  <2>16. VfsThen
    BY <2>11, <2>15, MovesKeep DEF VfsNow, VfsThen
  <2>17. out'.by = c /\ out'.of = entries[i].name /\ out'.at = fds[c].cursor /\ out'.n = n
    BY <2>3
  <2>18. Vfs!GoesOn
    BY <1>1, <1>4, <2>9, <2>17, PlainGoesOn DEF i
  <2> QED
    BY <2>16, <2>18
<1> QED
  BY <1>3, <1>4

LEMMA CloseStep ==
  ASSUME VfsNow, Vfs!Close
  PROVE  VfsThen /\ Vfs!GoesOn
<1>1. PICK c \in Clients :
        /\ fds[c] # Nil
        /\ LET i == Vfs!find_entry(fds[c].id)
           IN  asked' = [IF Vfs!Aliased(i) THEN Vfs!Disturbed(i, c) ELSE asked
                           EXCEPT ![c] = Nil]
        /\ fds' = [fds EXCEPT ![c] = Nil]
        /\ out' = [op |-> "close"] /\ entries' = entries /\ kernel' = kernel
  BY DEF Vfs!Close
<1> DEFINE i    == First(entries, fds[c].id)
           left == IF Vfs!Aliased(i) THEN Vfs!Disturbed(i, c) ELSE asked
<1>2. Vfs!find_entry(fds[c].id) = i
  BY EntryFound
<1>3. asked' = [left EXCEPT ![c] = Nil]
  BY <1>1, <1>2
<1>4. i \in 1 .. Len(entries)
  BY <1>1, NowFacts
<1> HIDE DEF i
<1>5. left \in [Clients -> Path \cup {Nil}] /\ \A d \in Clients : left[d] \in {asked[d], Nil}
  BY DisturbedIs, NowFacts
<1> HIDE DEF left
<1>6. /\ asked' \in [Clients -> Path \cup {Nil}] /\ asked'[c] = Nil
      /\ \A d \in Clients \ {c} : asked'[d] # Nil => asked'[d] = asked[d]
  BY <1>3, <1>5
<1>7. Moves(entries, fds, kernel, asked, entries', fds', kernel', asked', i, c, Nil)
  BY <1>1, <1>4, <1>6, SameMoves DEF Moves
<1>8. EntriesOK(entries', kernel')
  BY <1>1 DEF VfsNow, VfsOK
<1>9. VfsThen
  BY <1>7, <1>8, MovesKeep DEF VfsNow, VfsThen
<1> QED
  BY <1>1, <1>9, Silent

LEMMA VfsStep ==
  ASSUME VfsNow, Vfs!Next
  PROVE  VfsThen /\ Vfs!GoesOn
<1>1. CASE Vfs!MakeEntry
  BY <1>1, MakeEntryStep
<1>2. CASE Vfs!Open
  <2>1. PICK c \in Clients, path \in Queries :
          LET r == Vfs!R!parse_path(entries, path, "forward")
          IN  /\ fds[c] = Nil /\ r.file # 0
              /\ IF entries[r.file].alias = <<>> THEN Vfs!OpenEntry(c, r)
                                                 ELSE Vfs!OpenAlias(c, r)
    BY <1>2 DEF Vfs!Open
  <2> DEFINE r == Vfs!R!parse_path(entries, path, "forward")
  <2>2. fds[c] = Nil /\ r.file # 0
    BY <2>1
  <2>3. CASE entries[r.file].alias = <<>>
    <3>1. Vfs!OpenEntry(c, r)
      BY <2>1, <2>3
    <3> QED
      BY <2>2, <2>3, <3>1, OpenEntryStep
  <2>4. CASE entries[r.file].alias # <<>>
    <3>1. Vfs!OpenAlias(c, r)
      BY <2>1, <2>4
    <3> QED
      BY <2>2, <2>4, <3>1, OpenAliasStep
  <2> QED
    BY <2>3, <2>4
<1>3. CASE Vfs!Read
  BY <1>3, ReadStep
<1>4. CASE Vfs!Write
  BY <1>4, WriteStep
<1>5. CASE Vfs!Close
  BY <1>5, CloseStep
<1> QED
  BY <1>1, <1>2, <1>3, <1>4, <1>5 DEF Vfs!Next

LEMMA VfsInit ==
  ASSUME Vfs!Init
  PROVE  VfsNow
<1>1. entries = <<>> /\ kernel = <<>>
      /\ fds = [c \in Clients |-> Nil] /\ asked = [c \in Clients |-> Nil]
  BY DEF Vfs!Init
<1>2. entries \in Seq(Entry) /\ kernel \in Seq(Path) /\ Len(entries) = 0
  BY <1>1, EmptySeq
<1>3. EntriesOK(entries, kernel)
  BY <1>2 DEF EntriesOK
<1>4. FdsOK(entries, fds)
  BY <1>1 DEF FdsOK
<1>5. AskedOK(entries, fds, kernel, asked)
  BY <1>1 DEF AskedOK
<1> QED
  BY <1>3, <1>4, <1>5 DEF VfsNow, VfsOK

LEMMA VfsTyped ==
  ASSUME VfsNow
  PROVE  Vfs!TypeOK
<1>1. ASSUME NEW c \in Clients, fds[c] # Nil
      PROVE  LET i == Vfs!find_entry(fds[c].id)
             IN  i # 0 /\ (Vfs!Distinct /\ ~Vfs!Aliased(i) =>
                             fds[c].cursor <= entries[i].size)
  <2> DEFINE i == First(entries, fds[c].id)
  <2>1. Vfs!find_entry(fds[c].id) = i
    BY EntryFound
  <2>2. i \in 1 .. Len(entries)
    BY <1>1, NowFacts
  <2>3. ~Vfs!Aliased(i) => fds[c].cursor <= entries[i].size
    BY <1>1, PlainFacts
  <2> HIDE DEF i
  <2> QED
    BY <2>1, <2>2, <2>3
<1>2. DOMAIN entries = 1 .. Len(entries)
  BY NowFacts
<1>3. \A i \in 1 .. Len(entries) :
        entries[i].alias_fd.id \in 0 .. Len(kernel) /\ entries[i].alias_fd.cursor <= MaxSize
  BY NowFacts
<1> QED
  BY <1>1, <1>2, <1>3 DEF Vfs!TypeOK

-----------------------------------------------------------------------------
\* The specification.

FilesInv ==
  /\ which = "stack" => StackOK
  /\ which = "vfs" => VfsNow
  /\ which = "mounts" => MountsOK

LEMMA FilesSame ==
  ASSUME FilesInv, vars' = vars
  PROVE  FilesInv'
<1>1. /\ which' = which /\ files' = files /\ entries' = entries /\ fds' = fds
      /\ kernel' = kernel /\ asked' = asked
      /\ map' = map /\ reserved' = reserved /\ live' = live /\ barred' = barred
  BY DEF vars
<1>2. StackOK => StackOK'
  BY <1>1 DEF StackOK, Stack!TypeOK, Stack!Top
<1>3. VfsNow => VfsNow'
  BY <1>1 DEF VfsNow
<1>4. MountsOK => MountsOK'
  BY <1>1 DEF MountsOK, Mounts!MountsHold, Mounts!MountPoints
<1> QED
  BY <1>1, <1>2, <1>3, <1>4 DEF FilesInv

LEMMA FilesStep ==
  ASSUME FilesInv, [Next]_vars
  PROVE  FilesInv' /\ (which = "vfs" /\ ~UNCHANGED vars => Vfs!GoesOn)
<1>1. CASE vars' = vars
  BY <1>1, FilesSame
<1>2. CASE which' = which /\ which = "stack" /\ Stack!Next
  BY <1>2, StackStep DEF FilesInv
<1>3. CASE which' = which /\ which = "vfs" /\ Vfs!Next
  <2>1. VfsThen /\ Vfs!GoesOn
    BY <1>3, VfsStep DEF FilesInv
  <2> QED
    BY <1>3, <2>1 DEF FilesInv, VfsThen, VfsNow
<1>4. CASE which' = which /\ which = "mounts" /\ Mounts!Next
  BY <1>4, MountsStep DEF FilesInv
<1> QED
  BY <1>1, <1>2, <1>3, <1>4 DEF Next

LEMMA FilesStart ==
  ASSUME Init
  PROVE  FilesInv
BY StackInit, VfsInit, MountsInit DEF Init, FilesInv

LEMMA FilesAlways == Spec => []FilesInv
<1>1. Init => FilesInv
  BY FilesStart
<1>2. FilesInv /\ [Next]_vars => FilesInv'
  BY FilesStep
<1> QED
  BY <1>1, <1>2, PTL DEF Spec

\* Whatever clients open, write, truncate and close, in whichever order, each of
\* their descriptors leads to a file or an entry there is, and neither it nor what
\* an alias has of the kernel's is further than its text goes (stack_fs.h:38-132,
\* vfs.h:102-227).
THEOREM FilesStayOK == Spec => []FilesOK
<1>1. FilesInv => FilesOK
  BY VfsTyped DEF FilesInv, FilesOK, StackOK
<1> QED
  BY <1>1, FilesAlways, PTL

\* A mount point leads to a live module of its own, and to none once it was
\* reserved before a module was there (module_loader.c:21-54).
THEOREM MountsStayHeld == Spec => []MountsHold
<1>1. FilesInv => MountsHold
  BY DEF FilesInv, MountsHold, MountsOK
<1> QED
  BY <1>1, FilesAlways, PTL

\* A client reads and writes what it opened, at the place it left off, however many
\* others do the same, until one of them comes to the same alias (vfs.h:102-227).
THEOREM DescriptorsGoOn == Spec => DescriptorsKeep
<1>1. FilesInv /\ [Next]_vars => [which = "vfs" => Vfs!GoesOn]_vars
  BY FilesStep
<1> QED
  BY <1>1, FilesAlways, PTL DEF Spec, DescriptorsKeep
=============================================================================

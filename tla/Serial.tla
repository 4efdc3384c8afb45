-------------------------------- MODULE Serial --------------------------------
(***************************************************************************)
(* Records as bytes (data/serialize/binary_serial.c, binary_scanner.c): a  *)
(* structure is written as bytes and defined from them again, records are  *)
(* written with it and read field by field.  A number is as many bytes as  *)
(* its type has, each of which says which part of what it is; a character  *)
(* is one.  The bytes that are read may end early.                         *)
(***************************************************************************)
EXTENDS Integers, Sequences, SequencesExt

CONSTANTS Records,  \* structures with the records that clients write with them
          SizeOf,   \* the bytes of each type of number
          Long,      \* the bytes of the numbers ahead of a text
          Chunk     \* the fields that one chunk of the stack has room for

VARIABLES job,      \* [fields |-> .., items |-> ..]: what is to be written
          structure, bytes, cursor, stage, given, answer
vars == <<job, structure, bytes, cursor, stage, given, answer>>

Number(v, n) == [k \in 1 .. n |-> [of |-> v, part |-> k]]
Characters(s) == [k \in DOMAIN s |-> [of |-> s[k], part |-> 1]]
Concat(ss) == FlattenSeq(ss)

\* A text has a number that is not used yet ahead of its length.
TextBytes(s) == Number(0, Long) \o Number(Len(s), Long) \o Characters(s)

bin_ser_emit_structure(fields) ==
  Concat([i \in DOMAIN fields |-> Number(fields[i].type, Long) \o TextBytes(fields[i].name)])

FieldBytes(field, v) == IF field.type = "string" THEN TextBytes(v) ELSE Number(v, SizeOf[field.type])
bin_ser_serialize(fields, items) ==
  Concat([k \in DOMAIN items |-> Concat([i \in DOMAIN fields |-> FieldBytes(fields[i], items[k][i])])])

-----------------------------------------------------------------------------
\* Reading: whether there are so many bytes, and what they say.
bin_scan_ok(at, n) == at + n <= Len(bytes)

bin_scan_size(at, n) == bytes[at + 1].of

\* The bytes of the text that follows, or how far the scanner got to see that it
\* is not all there.
TextLength(at) == bin_scan_size(at + Long, Long)
TextEnd(at)    == at + 2 * Long + TextLength(at)
HasText(at) ==
  /\ bin_scan_ok(at, Long) /\ bin_scan_ok(at + Long, Long)
  /\ TextLength(at) = 0 \/ bin_scan_ok(at + 2 * Long, TextLength(at))
StuckAt(at) == CHOOSE to \in {at, at + Long, at + 2 * Long} :
  ~ bin_scan_ok(to, IF to = at + 2 * Long THEN TextLength(at) ELSE Long)
  /\ \A before \in {at, at + Long} : before < to => bin_scan_ok(before, Long)
bin_scan_string(at) ==
  [k \in 1 .. TextLength(at) |-> bytes[at + 2 * Long + k].of]

-----------------------------------------------------------------------------
Init ==
  /\ job \in Records /\ structure = <<>> /\ bytes = <<>> /\ cursor = 0
  /\ stage = "new" /\ given = <<>> /\ answer = "none"

EmitStructure ==
  /\ stage = "new" /\ stage' = "define"
  /\ bytes' = bin_ser_emit_structure(job.fields) /\ cursor' = 0
  /\ UNCHANGED <<job, structure, given, answer>>

\* bin_ser_define_structure: a field has a type and a name.
IsField(from) ==
  bin_scan_size(from, Long) # "none" /\ HasText(from + Long) /\ TextLength(from + Long) > 0

\* A field, if there is all of it.
DefineField ==
  /\ stage = "define" /\ bin_scan_ok(cursor, Long) /\ IsField(cursor)
  /\ structure' = Append(structure, [type |-> bin_scan_size(cursor, Long), name |-> bin_scan_string(cursor + Long)])
  /\ cursor' = TextEnd(cursor + Long)
  /\ UNCHANGED <<job, bytes, stage, given, answer>>

\* A type of zero, and a name that is missing or empty, fails and leaves no structure.
DefineNone ==
  /\ stage = "define" /\ bin_scan_ok(cursor, Long) /\ ~IsField(cursor)
  /\ structure' = <<>> /\ stage' = "undefined"
  /\ UNCHANGED <<job, bytes, cursor, given, answer>>

\* The fields are copied from the chunks of the stack: after the first always the
\* second.
Copied(s) ==
  [i \in DOMAIN s |-> IF i <= Chunk THEN s[i] ELSE s[Chunk + ((i - 1) % Chunk) + 1]]
Define ==
  /\ stage = "define" /\ ~ bin_scan_ok(cursor, Long)
  /\ structure' = Copied(structure) /\ stage' = "defined"
  /\ UNCHANGED <<job, bytes, cursor, given, answer>>

\* What is read may be the beginning of what was written.
Serialize ==
  /\ stage = "defined" /\ stage' = "read" /\ cursor' = 0
  /\ \E whole \in {bin_ser_serialize(structure, job.items)} :
       \E n \in {Len(whole)} \cup (IF job.lossy THEN 0 .. Len(whole) ELSE {}) : bytes' = SubSeq(whole, 1, n)
  /\ UNCHANGED <<job, structure, given, answer>>

-----------------------------------------------------------------------------
\* bin_ser_deserialize: the fields in turn, again and again, until the bytes end.
\* An end after which nothing is left is a success wherever it is.
Field == structure[(Len(given) % Len(structure)) + 1]
Reads == stage = "read" /\ structure # <<>> /\ answer = "none"

ReadNumber ==
  /\ Reads /\ Field.type # "string" /\ bin_scan_ok(cursor, SizeOf[Field.type])
  /\ given' = Append(given, [name |-> Field.name, v |-> bin_scan_size(cursor, SizeOf[Field.type])])
  /\ cursor' = cursor + SizeOf[Field.type]
  /\ UNCHANGED <<job, structure, bytes, stage, answer>>

ReadText ==
  /\ Reads /\ Field.type = "string" /\ HasText(cursor)
  /\ given' = Append(given, [name |-> Field.name, v |-> bin_scan_string(cursor)])
  /\ cursor' = TextEnd(cursor)
  /\ UNCHANGED <<job, structure, bytes, stage, answer>>

ReadEnd ==
  /\ Reads
  /\ IF Field.type = "string" THEN ~HasText(cursor) ELSE ~ bin_scan_ok(cursor, SizeOf[Field.type])
  /\ cursor' = IF Field.type = "string" THEN StuckAt(cursor) ELSE cursor
  /\ answer' = IF cursor' >= Len(bytes) THEN "yes" ELSE "no"
  /\ UNCHANGED <<job, structure, bytes, stage, given>>

Nothing ==
  /\ stage \in {"read", "undefined"} /\ structure = <<>> /\ answer = "none" /\ answer' = "no"
  /\ UNCHANGED <<job, structure, bytes, cursor, stage, given>>

Next == EmitStructure \/ DefineField \/ DefineNone \/ Define \/ Serialize
        \/ ReadNumber \/ ReadText \/ ReadEnd \/ Nothing
Spec == Init /\ [][Next]_vars

-----------------------------------------------------------------------------
Written == Concat([k \in DOMAIN job.items |->
             [i \in DOMAIN job.fields |-> [name |-> job.fields[i].name, v |-> job.items[k][i]]]])

\* What is read is what was written, in its order and under its names, as far as
\* the bytes go, and all of it when they are all there; bytes that are all there
\* are never refused.
RecordsReadBack ==
  /\ IsPrefix(given, Written)
  /\ (answer # "none" /\ ~job.lossy /\ stage # "undefined" /\ structure # <<>>) =>
       (given = Written /\ answer = "yes")
=============================================================================

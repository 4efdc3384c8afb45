-------------------------------- MODULE Router --------------------------------
(***************************************************************************)
(* parse_path of files/router.h: which entry of a file system a path is    *)
(* for.  A path, and the name of an entry, which may hold parameters, is   *)
(* the sequence of its components.                                         *)
(***************************************************************************)
EXTENDS Integers, SequencesExt, FiniteSetsExt

CONSTANTS IsParam(_),        \* a component that begins with a colon
          match_param(_, _)  \* whether a component is a value of a parameter

\* Component by component, as far as both go.
Fits(name, path) ==
  \A i \in DOMAIN name \cap DOMAIN path :
    name[i] = path[i] \/ (IsParam(name[i]) /\ match_param(path[i], name[i]))

FoundToAnyDepth(name, path, policy) ==
  /\ Fits(name, path)
  /\ Len(name) > Len(path) => path = <<>> \/ policy = "partial"
  /\ Len(name) < Len(path) => policy = "forward"

\* A name goes on for one component at most, and the path only if forwarded.
Found(name, path, policy) ==
  /\ Fits(name, path)
  /\ Len(name) > Len(path) => /\ path = <<>> \/ policy = "partial"
                              /\ Len(name) = Len(path) + 1
  /\ Len(name) < Len(path) => policy = "forward"

\* The parameters and their values, none for one the path ends before.
None == ""
params(name, path) ==
  LET taken == {i \in DOMAIN name :
                  IsParam(name[i]) /\ (i > Len(path) \/ name[i] # path[i])}
  IN  [p \in {name[i] : i \in taken} |->
         LET i == Max({j \in taken : name[j] = p})
         IN  IF i > Len(path) THEN None ELSE path[i]]

Rest(name, path) == SubSeq(path, Len(name) + 1, Len(path))

\* The first entry that is found, with nothing forwarded unless asked to: then
\* the first alias, or else the last entry of any kind.
parse_path(entries, path, policy) ==
  LET found   == {i \in DOMAIN entries : Found(entries[i].name, path, policy)}
      final   == IF policy # "forward" THEN found
                 ELSE {i \in found : entries[i].alias # <<>>}
  IN  IF final # {}
      THEN LET i == Min(final)
           IN  [file |-> i, forwarded |-> IF policy = "forward"
                                          THEN Rest(entries[i].name, path) ELSE <<>>]
      ELSE [file |-> IF found = {} THEN 0 ELSE Max(found), forwarded |-> <<>>]

\* The entries a listing of the path is made of, in their order.
emitted(entries, path) ==
  SelectSeq([i \in DOMAIN entries |-> i], LAMBDA i : Found(entries[i].name, path, "partial"))
=============================================================================

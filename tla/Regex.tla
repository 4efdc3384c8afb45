-------------------------------- MODULE Regex --------------------------------
(***************************************************************************)
(* regex/regex.c: a pattern is read into nodes that name the next node for *)
(* a character that matches and for one that does not, and texts are       *)
(* searched by following them.                                             *)
(***************************************************************************)
EXTENDS Integers, Sequences, SequencesExt

CONSTANTS Patterns,    \* what clients look for: as they write it and as they mean it
          Texts,       \* and where
          Code,        \* of each character
          MAX_CAPTURE

VARIABLES search,      \* the pattern and the text
          nodes,       \* regex_stack
          c,           \* what init_regex_slice keeps from character to character
          scan,        \* what regex_find_many keeps from node to node
          results,     \* what on_find was given
          at
vars == <<search, nodes, c, scan, results, at>>

Blank == [literal |-> "", end |-> "", invert |-> FALSE, any |-> FALSE, type |-> "match",
          success |-> 0, fail |-> 0]

Init ==
  /\ \E p \in Patterns : search = [pattern |-> p, text |-> <<>>]
  /\ nodes = <<>> /\ scan = <<>> /\ results = <<>> /\ at = "compile"
  /\ c = [i |-> 1, ignore |-> FALSE, previous |-> 0, rule |-> {"success"},
          invert |-> FALSE, in_class |-> FALSE, reuse |-> FALSE, back |-> 0]

-----------------------------------------------------------------------------
pattern == search.pattern.text
Char    == pattern[c.i]

Reading      == at = "compile" /\ c.i <= Len(pattern)
Special(S)   == Reading /\ ~c.ignore /\ Char \in S
Reads(after) == /\ c' = [after EXCEPT !.i = @ + 1]
                /\ UNCHANGED <<search, scan, results, at>>

\* link_node(1)
Linked(list, rule) ==
  IF c.previous = 0 THEN list
  ELSE [list EXCEPT ![c.previous].success = IF "success" \in rule THEN 1 ELSE @,
                    ![c.previous].fail    = IF "failure" \in rule THEN 1 ELSE @]

Escape == Special({"\\"}) /\ Reads([c EXCEPT !.ignore = TRUE]) /\ UNCHANGED nodes

Star ==
  /\ Special({"*"}) /\ Reads([c EXCEPT !.rule = {"failure"}])
  /\ nodes' = [nodes EXCEPT ![c.previous].success = 0]

Plus ==
  /\ Special({"+"}) /\ Reads([c EXCEPT !.rule = {"failure"}, !.previous = Len(nodes) + 1])
  /\ nodes' = Append([nodes EXCEPT ![c.previous].success = 1],
                     [nodes[c.previous] EXCEPT !.success = 0])

Caret == Special({"^"}) /\ Reads([c EXCEPT !.invert = TRUE]) /\ UNCHANGED nodes

Option ==
  Special({"?"}) /\ Reads([c EXCEPT !.rule = {"success", "failure"}]) /\ UNCHANGED nodes

\* Clients begin no pattern with a group: the node before it is none.
Group ==
  /\ Special({"(", ")"})
  /\ nodes' = Append(Linked(nodes, c.rule),
                     [Blank EXCEPT !.type = IF Char = "(" THEN "start" ELSE "end"])
  /\ Reads([c EXCEPT !.rule = {"success", "failure"}, !.previous = Len(nodes) + 1])

Dash ==
  Special({"-"}) /\ c.in_class /\ Reads([c EXCEPT !.reuse = TRUE]) /\ UNCHANGED nodes

\* The ^ that may follow is read for itself.
Open ==
  /\ Special({"["}) /\ UNCHANGED nodes
  /\ Reads(IF c.in_class THEN c ELSE [c EXCEPT !.in_class = TRUE, !.back = Len(nodes)])

\* The nodes that are given their next ones are the first of the pattern.
Closed ==
  LET count == Len(nodes) - c.back
  IN  [n \in DOMAIN nodes |->
         IF n > count THEN nodes[n]
         ELSE [nodes[n] EXCEPT !.success = count - n + 1,
                               !.fail    = IF n = count THEN 0 ELSE @]]
Close ==
  /\ Special({"]"})
  /\ nodes' = IF c.in_class THEN Closed ELSE nodes
  /\ Reads(IF c.in_class THEN [c EXCEPT !.in_class = FALSE, !.invert = FALSE] ELSE c)

\* Any other character: the end of a range, or a node of its own.
Marks == {"\\", "*", "+", "^", "?", "(", ")", "[", "]"}
Node  ==
  LET node == CASE c.reuse -> [nodes[c.previous] EXCEPT !.end = Char]
                [] ~c.reuse /\ Char = "." /\ ~c.ignore -> [Blank EXCEPT !.any = TRUE]
                [] OTHER -> [Blank EXCEPT !.literal = Char]
  IN  [node EXCEPT !.invert = IF node.any THEN @ ELSE c.invert]
Place == IF c.reuse THEN c.previous ELSE Len(nodes) + 1
Literal ==
  /\ Reading /\ (c.ignore \/ Char \notin Marks \cup (IF c.in_class THEN {"-"} ELSE {}))
  /\ nodes' = Linked(IF c.reuse THEN [nodes EXCEPT ![c.previous] = Node] ELSE Append(nodes, Node),
                     c.rule)
  /\ Reads([c EXCEPT !.ignore = FALSE, !.reuse = FALSE, !.previous = Place,
                     !.invert = @ /\ c.in_class,
                     !.rule = IF c.in_class THEN {"failure"} ELSE {"success"}])

-----------------------------------------------------------------------------
Afresh(pos) ==
  [pos |-> pos, node |-> 0, start |-> 0, started |-> FALSE, opened |-> <<>>, captures |-> <<>>]

Begin ==
  /\ at = "compile" /\ c.i > Len(pattern)
  /\ \E t \in Texts : search' = [search EXCEPT !.text = t]
  /\ scan' = Afresh(0) /\ at' = "find" /\ UNCHANGED <<nodes, c, results>>

text     == search.text
On(type) == at = "find" /\ scan.node < Len(nodes) /\ nodes[scan.node + 1].type = type
Follows(after, next) ==
  /\ scan' = [after EXCEPT !.node = @ + next]
  /\ UNCHANGED <<search, nodes, c, results, at>>
Here     == nodes[scan.node + 1]
Past     == IF Here.success = 0 THEN 1 ELSE Here.success

\* The end of the pattern: what was found, and whether the client wants more.
Find ==
  /\ at = "find" /\ scan.node >= Len(nodes)
  /\ results' = Append(results, [start |-> scan.start, size |-> scan.pos - scan.start,
                                 captures |-> scan.captures])
  /\ \/ at' = "stopped" /\ scan' = scan
     \/ at' = "over" /\ scan.pos = Len(text) /\ scan' = scan
     \/ at' = at /\ scan.pos < Len(text) /\ scan' = Afresh(scan.pos)
  /\ UNCHANGED <<search, nodes, c>>

OpenGroup ==
  /\ On("start") /\ Len(scan.opened) + 1 < MAX_CAPTURE
  /\ Follows([scan EXCEPT !.opened = Append(@, scan.pos)], Past)

TooDeep ==
  /\ On("start") /\ Len(scan.opened) + 1 >= MAX_CAPTURE /\ at' = "stopped"
  /\ UNCHANGED <<search, nodes, c, scan, results>>

CloseGroup ==
  /\ On("end")
  /\ LET from == Last(scan.opened)
     IN  Follows([scan EXCEPT !.opened = Front(@),
                              !.captures = Append(@, [start |-> from, size |-> scan.pos - from])],
                 Past)

\* any is not looked at.
regex_does_match(char, node) ==
  node.invert # (IF node.end = "" THEN node.literal = char
                 ELSE Code[node.literal] <= Code[char] /\ Code[char] <= Code[node.end])

More    == scan.pos < Len(text)
Matches == More /\ regex_does_match(text[scan.pos + 1], Here)

Match ==
  /\ On("match") /\ Matches
  /\ Follows([scan EXCEPT !.pos = @ + 1, !.started = TRUE,
                          !.start = IF scan.started THEN @ ELSE scan.pos],
             Here.success)

\* The character is looked at again by the next node.
Instead ==
  On("match") /\ ~Matches /\ Here.fail # 0 /\ Follows(scan, Here.fail)

\* It is looked at again from the start if it did not begin what failed.
BehindNever  == scan.pos
Behind       == IF scan.started THEN scan.pos ELSE scan.pos + 1
RestartKeepingGroups ==
  /\ On("match") /\ More /\ ~Matches /\ Here.fail = 0
  /\ scan' = [scan EXCEPT !.pos = Behind, !.node = 0, !.started = FALSE]
  /\ UNCHANGED <<search, nodes, c, results, at>>
Restart ==
  /\ On("match") /\ More /\ ~Matches /\ Here.fail = 0
  /\ scan' = Afresh(Behind) /\ UNCHANGED <<search, nodes, c, results, at>>

GiveUp ==
  /\ On("match") /\ ~More /\ Here.fail = 0 /\ at' = "over"
  /\ UNCHANGED <<search, nodes, c, scan, results>>

Compile == Escape \/ Star \/ Plus \/ Caret \/ Option \/ Group \/ Dash \/ Open \/ Close \/ Literal
Search  == Begin \/ Find \/ OpenGroup \/ TooDeep \/ CloseGroup \/ Match \/ Instead \/ Restart
             \/ GiveUp
Next    == Compile \/ Search

\* The search is one call that runs until it returns.
Spec == Init /\ [][Next]_vars /\ WF_vars(Next)

-----------------------------------------------------------------------------
\* The ways to read the text from a place by what a pattern means: where each
\* ends, and the groups it closes on its way.
RECURSIVE Ways(_, _, _, _)
Ways(items, p, open, got) ==
  IF items = <<>> THEN {[end |-> p, captures |-> got]}
  ELSE LET item == Head(items)
           rest == Tail(items)
       IN  CASE item.kind = "(" -> Ways(rest, p, Append(open, p), got)
             [] item.kind = ")" ->
                  Ways(rest, p, Front(open),
                       Append(got, [start |-> Last(open), size |-> p - Last(open)]))
             [] item.kind = "char" ->
                  UNION {Ways(rest, p + n, open, got) :
                           n \in {n \in item.times :
                                    /\ p + n <= Len(text)
                                    /\ \A i \in 1 .. n : text[p + i] \in item.among}}

Meant   == search.pattern.items
From(p) == Ways(Meant, p, <<>>, <<>>)

\* What is reported is in the text as the pattern means it, groups included,
\* through every failure on the way to it (regex.c:244-299).
Sound ==
  \A i \in DOMAIN results :
    LET r == results[i]
    IN  [end |-> r.start + r.size, captures |-> r.captures] \in From(r.start)

\* If it is not the client that ends the search, a pattern is missed nowhere whose
\* parts have no character in common and that ends with a group or a class: the
\* last node of one that does not has no node to go on to (regex.c:127-145, 284).
Complete ==
  at = "over" /\ search.pattern.distinct =>
    \A p \in 0 .. Len(text) - 1 :
      \/ From(p) = {}
      \/ \E i \in DOMAIN results : /\ results[i].start <= p
                                   /\ p < results[i].start + results[i].size

\* The documented syntax (regex.h:7-18): a dot stands for any character.
AnyMatches ==
  at = "over" /\ (\E i \in DOMAIN pattern : pattern[i] = ".") /\ From(0) # {} => results # <<>>

\* No text and no pattern that matches at least one character keeps the search
\* from ending (regex.c:228-303).
Halts == <>(at \in {"over", "stopped"})
=============================================================================

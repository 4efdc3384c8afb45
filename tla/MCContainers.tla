----------------------------- MODULE MCContainers -----------------------------
\* The queues, the hash map, the cache and the lists for TLC, one of them in each
\* behaviour: a queue that grows, one of a fixed capacity, and a ring whose copies
\* can wrap with elements on either side of the end of the array.  A seventh key
\* makes a table of eight buckets grow, with three keys that share a bucket before
\* it does, and two that do after it; the cache has two keys in one bucket and one
\* more block than both need.  Lists have up to five nodes, an array three chunks.
EXTENDS HashTable, TLC

CONSTANTS Items, Unset, Limits, LengthBound, Capacity, MaxBatch,
          CacheKeys, CacheHash, Blocks, TimeoutLen, MaxTime,
          Nodes, Data, ChunkSize, MaxChunks

ASSUME ItemsAssumption == Unset \notin Items
ASSUME SizesAssumption ==
  /\ LengthBound \in Nat /\ Limits \subseteq 0 .. LengthBound
  /\ Capacity \in Nat \ {0} /\ MaxBatch \in Nat
ASSUME CacheAssumption ==
  /\ CacheHash \in [CacheKeys -> Nat] /\ None \notin Blocks
  /\ TimeoutLen \in Nat \ {0} /\ MaxTime \in Nat
ASSUME ListsAssumption ==
  /\ IsFiniteSet(Nodes) /\ None \notin Nodes \cup Data
  /\ Data \subseteq Int /\ ChunkSize \in Nat \ {0} /\ MaxChunks \in Nat

VARIABLES which, out,
          q, data, head, tail, full, offered,
          map, policy, overwrite, live, entry, now, since, orphaned, list
slots  == <<data, head, tail, full>>
cached == <<policy, overwrite, live, entry, now, since, orphaned>>
vars   == <<which, out, q, slots, offered, map, cached, list>>

Queue == INSTANCE CQueue
Ring  == INSTANCE Ring
Map   == INSTANCE HashMap
Timed == INSTANCE Cache WITH Keys <- CacheKeys, Hash <- CacheHash, Nil <- None
Single == INSTANCE LinkedList WITH Nil <- None
Double == INSTANCE DoubleList WITH Nil <- None
Chunks == INSTANCE ChunkArray WITH Nil <- None, Capacity <- ChunkSize

NoQueue == q = <<>>
NoRing  == data = <<>> /\ head = 0 /\ tail = 0 /\ full = FALSE
NoMap   == map = <<>>
NoCache == /\ policy = {} /\ overwrite = FALSE /\ live = {} /\ entry = <<>>
           /\ now = 0 /\ since = <<>> /\ orphaned = FALSE
NoList  == list = <<>>
NoCall  == offered = <<>>

Init ==
  \/ which = "queue" /\ Queue!Init /\ NoRing /\ NoMap /\ NoCache /\ NoList
  \/ which = "ring" /\ Ring!Init /\ NoQueue /\ NoMap /\ NoCache /\ NoList
  \/ which = "map" /\ Map!Init /\ NoQueue /\ NoRing /\ NoCall /\ NoCache /\ NoList
  \/ which = "cache" /\ Timed!Init /\ NoQueue /\ NoRing /\ NoCall /\ NoList /\ out = None
  \/ which = "single" /\ Single!Init /\ NoQueue /\ NoRing /\ NoCall /\ NoMap /\ NoCache
  \/ which = "double" /\ Double!Init /\ NoQueue /\ NoRing /\ NoCall /\ NoMap /\ NoCache
  \/ which = "chunks" /\ Chunks!Init /\ NoQueue /\ NoRing /\ NoCall /\ NoMap /\ NoCache

Lists == \/ which = "single" /\ Single!Next
         \/ which = "double" /\ Double!Next
         \/ which = "chunks" /\ Chunks!Next

Next ==
  /\ which' = which
  /\ \/ which = "queue" /\ Queue!Next /\ UNCHANGED slots /\ UNCHANGED <<map, list>> /\ UNCHANGED cached
     \/ which = "ring" /\ Ring!Next /\ UNCHANGED <<q, map, list>> /\ UNCHANGED cached
     \/ which = "map" /\ Map!Next /\ UNCHANGED <<q, offered, list>> /\ UNCHANGED slots
          /\ UNCHANGED cached
     \/ which = "cache" /\ Timed!Next /\ UNCHANGED <<q, offered, out, list>> /\ UNCHANGED slots
     \/ Lists /\ UNCHANGED <<q, offered, map>> /\ UNCHANGED slots /\ UNCHANGED cached

Spec == Init /\ [][Next]_vars

-----------------------------------------------------------------------------
\* The slots and the two ends of a queue fit together, through growth, refused
\* memory and copies that wrap; buckets hold entries under their hash, no key
\* twice, and so few of them that chains stay short; no block is handed out,
\* linked or timed that zalloc did not give; links, ends, lengths and chunks of the
\* lists are as their operations need them (queue.c:34-92, ring_buffer.c:16-55,
\* ring_buffer.hpp:17-64, hashmap.c:120-235, cache.h:55-87,
\* linked_list.c:63-188, double_linked_list.c:51-159, chunk_array.c:21-84).
TypeOK ==
  /\ which = "queue" => Queue!TypeOK
  /\ which = "ring" => Ring!TypeOK
  /\ which = "map" => Map!TypeOK
  /\ which = "cache" => Timed!TypeOK
  /\ which = "single" => Single!TypeOK
  /\ which = "double" => Double!TypeOK
  /\ which = "chunks" => Chunks!TypeOK

\* Clients see a queue: growth while the elements are wrapped (queue.c:39-56)
\* and copies around the end of the array (ring_buffer.hpp:17-64) lose, repeat
\* and reorder none, and no slot that was never written is read.
IsQueue == which \in {"queue", "ring"}
bound ==
  CASE which = "ring" -> Capacity
    [] which = "queue" -> IF q.max_capacity = 0 THEN LengthBound ELSE q.max_capacity
    [] OTHER -> 0
items ==
  CASE which = "ring" -> Ring!items [] which = "queue" -> Queue!items [] OTHER -> <<>>
FifoSpec == INSTANCE Fifo WITH scarce <- which = "queue",
                               out <- IF IsQueue THEN out ELSE <<>>
ImplementsFifo == FifoSpec!Spec

\* Clients of the map see a dictionary, before and after the table grows, and when
\* memory runs out half-way (hashmap.c:144-182).
contents == IF which = "map" THEN Map!contents ELSE <<>>
DictSpec == INSTANCE Dict WITH out <- IF which = "map" THEN out ELSE None
ImplementsDict == DictSpec!Spec

\* Clients see a sequence: each call works at the place it names, gives back what
\* is there, and disturbs nothing else (linked_list.c:42-188,
\* double_linked_list.c:24-182, chunk_array.c:21-84).
IsList == which \in {"single", "double", "chunks"}
sequence ==
  CASE which = "single" -> Single!contents
    [] which = "double" -> Double!contents
    [] which = "chunks" -> Chunks!contents
    [] OTHER -> <<>>
SequenceSpec == INSTANCE Sequence WITH seq <- sequence, Nil <- None,
                                       out <- IF IsList THEN out ELSE [op |-> "none"]
ImplementsSequence == SequenceSpec!Spec

\* What cache_get gives is the caller's to use (cache.h:56-63).
Linked == which = "cache" => Timed!Linked

\* Cleanup drops an entry exactly when its time is up (cache.h:46-48, 64).
OnTime == which = "cache" => Timed!OnTime

-----------------------------------------------------------------------------
MCHash      == [k \in Keys |-> k]
MCCacheHash == [k \in CacheKeys |-> 0]
MCSymmetry  == Permutations(CacheKeys) \cup Permutations(Blocks) \cup Permutations(Values)

\* Of a list, which node is where, what a node that was freed or a place behind
\* the count holds, and the answer of the last call make no difference to the
\* next one.
MCView ==
  CASE which = "single" ->
         <<"single", sequence, list.length, Single!Place(Single!InOrder(list), list.tail)>>
    [] which = "double" ->
         LET Nth(n) == Double!Place(Double!InOrder(list), n)
         IN  <<"double", sequence, list.length, Nth(list.tail),
               [i \in DOMAIN sequence |->
                  LET n == Double!InOrder(list)[i] IN <<Nth(list.prev[n]), Nth(list.next[n])>>]>>
    [] which = "chunks" -> <<"chunks", sequence, [i \in DOMAIN list |-> list[i].count]>>
    [] OTHER -> vars
=============================================================================

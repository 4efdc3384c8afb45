--------------------------------- MODULE Cache ---------------------------------
(***************************************************************************)
(* The cache of cache/cache.h: a hash map from keys to blocks that drops   *)
(* its entries on demand, after some time, or some time after the demand.  *)
(* Time is what get_time says.  Memory may run out at any request for it,  *)
(* except for that of the map, without which there is no cache.            *)
(***************************************************************************)
EXTENDS Integers, FiniteSets

CONSTANTS Keys, Hash, Capacities,
          Blocks,       \* what zalloc can hand out
          Nil,          \* the null pointer
          TimeoutLen,   \* timeout_len
          MaxTime       \* bound of the model: when it stops

VARIABLES map,       \* the hash map
          policy,    \* the policies of cache_config
          overwrite, \* allow_overwrite
          live,      \* the blocks allocated and not released
          entry,     \* what the cache_entry of each block says
          now,
          since,     \* history: when the time of each key began to run
          orphaned   \* history: a block was released and its entry kept
vars == <<map, policy, overwrite, live, entry, now, since, orphaned>>

H == INSTANCE HashTable WITH Values <- Blocks, None <- Nil, Requested <- {0}

Get(k) == H!hash_map_get(map, k)

Never   == MaxTime + 1
NoEntry == [manual_invalidate |-> FALSE, current_timeout |-> 0]

\* cache_configure.
Init ==
  /\ map = H!Created(0)
  /\ policy \in SUBSET {"manual", "timeout"} /\ overwrite \in BOOLEAN
  /\ live = {} /\ entry = [b \in Blocks |-> NoEntry]
  /\ now = 0 /\ since = [k \in Keys |-> Never] /\ orphaned = FALSE

-----------------------------------------------------------------------------
\* When a new entry is to go: its time runs from now unless only a demand
\* starts it.
FirstTimeout == IF policy = {"timeout"} THEN now + TimeoutLen ELSE 0

\* The block that has key k gives way before there is another one.
Evicted(k) == live \ {Get(k)}

\* What zalloc can give then.
zalloc(k) == Blocks \ Evicted(k)

\* The results of the attempt to put block b in.
PlacedIfAbsent(k, b) ==
  IF Get(k) # Nil THEN {[map |-> map, ret |-> 0]} ELSE H!hash_map_put(map, k, b)

Placed(k, b) == H!hash_map_put(map, k, b)

\* The caller gets the new block whether or not the map took it.
cache_prealloc(k) ==
  /\ Get(k) = Nil \/ overwrite
  /\ \/ \E b \in zalloc(k) : \E o \in Placed(k, b) :
          /\ map' = o.map
          /\ live' = Evicted(k) \cup {b}
          /\ entry' = [entry EXCEPT ![b] =
                        [NoEntry EXCEPT !.current_timeout = FirstTimeout]]
          /\ orphaned' = (orphaned \/ (Get(k) # Nil /\ o.ret = -1))
          /\ since' = [since EXCEPT ![k] =
                        IF policy = {"timeout"} THEN now ELSE Never]
     \/ /\ live' = Evicted(k)
        /\ orphaned' = (orphaned \/ Get(k) # Nil)
        /\ UNCHANGED <<map, entry, since>>
  /\ UNCHANGED <<policy, overwrite, now>>

\* The map forgets the block, and nobody releases it: what its entry says is
\* never read again.
cache_remove(k) ==
  /\ map' = H!hash_map_remove(map, k)
  /\ UNCHANGED <<policy, overwrite, live, entry, now, since, orphaned>>

\* With both policies the demand starts the clock, and a second one starts it
\* again.
Postponed(k) ==
  /\ entry' = [entry EXCEPT ![Get(k)] = [manual_invalidate |-> TRUE,
                                         current_timeout |-> now + TimeoutLen]]
  /\ since' = [since EXCEPT ![k] = now]
  /\ UNCHANGED <<map, policy, overwrite, live, now, orphaned>>

cache_manual_invalidate(k) ==
  /\ "manual" \in policy /\ Get(k) # Nil
  /\ IF "timeout" \in policy THEN Postponed(k) ELSE cache_remove(k)

DueUntimed(e) ==
  e.current_timeout # 0 /\ ("manual" \notin policy \/ e.manual_invalidate)

Due(e) ==
  /\ e.current_timeout # 0
  /\ "manual" \notin policy \/ e.manual_invalidate
  /\ e.current_timeout <= now

DueKeys == {k \in Keys : Get(k) # Nil /\ Due(entry[Get(k)])}

\* Every bucket is walked, and what is due removed on the way.
Without(K) ==
  [map EXCEPT !.buckets = [i \in DOMAIN @ |-> {e \in @[i] : e.key \notin K}],
              !.size = @ - Cardinality(K)]

cache_cleanup ==
  /\ map' = Without(DueKeys)
  /\ UNCHANGED <<policy, overwrite, live, entry, now, since, orphaned>>

Tick ==
  /\ now < MaxTime /\ now' = now + 1
  /\ UNCHANGED <<map, policy, overwrite, live, entry, since, orphaned>>

Next ==
  \/ \E k \in Keys :
       cache_prealloc(k) \/ cache_manual_invalidate(k) \/ cache_remove(k)
  \/ cache_cleanup \/ Tick

Spec == Init /\ [][Next]_vars

-----------------------------------------------------------------------------
\* No block is handed out, linked or timed that zalloc did not give, and the map
\* stays a table as its operations need it.
TypeOK ==
  /\ H!IsTable(map) /\ H!Consistent(map) /\ H!Loaded(map)
  /\ policy \subseteq {"manual", "timeout"} /\ overwrite \in BOOLEAN
  /\ live \subseteq Blocks /\ now \in 0 .. MaxTime
  /\ entry \in [Blocks -> [manual_invalidate : BOOLEAN,
                           current_timeout : 0 .. MaxTime + TimeoutLen]]
  /\ since \in [Keys -> 0 .. Never] /\ orphaned \in BOOLEAN

Cached == {k \in Keys : Get(k) # Nil}

\* What cache_get gives is the caller's to use: a block that was not released,
\* and no other key's, although overwriting releases the old block before it
\* has the new one (cache.h:56-63).  Only when memory runs out in between
\* does the map keep a released block, and from then on nothing is promised.
Linked ==
  ~orphaned => \A k \in Cached : /\ Get(k) \in live
                                 /\ \A l \in Cached \ {k} : Get(l) # Get(k)

\* Cleanup drops an entry exactly when its time is up, counted from when it
\* was put in, or with both policies from the last demand: never because of
\* what an earlier entry of that key or of that block said (cache.h:46-48, 64).
Overdue(k) == since[k] # Never /\ since[k] + TimeoutLen <= now
OnTime ==
  ~orphaned => \A k \in Cached : Due(entry[Get(k)]) <=> Overdue(k)
=============================================================================

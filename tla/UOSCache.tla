------------------------------ MODULE UOSCache ------------------------------
(***************************************************************************)
(* The in-memory cache of device state: a map from keys to the nodes of a  *)
(* doubly linked list kept in order of use, a counter of its entries, and  *)
(* an age per entry.                                                       *)
(*                                                                         *)
(* The cache is one record.  The operators on it follow the methods, in    *)
(* the order of their assignments.  A loop over many entries is taken one  *)
(* iteration at a time; until it ends only the clock may move, since the   *)
(* methods do not yield.                                                   *)
(***************************************************************************)
EXTENDS Naturals, FiniteSets

CONSTANTS
    Keys,          \* device:<id>:info and device:<id>:module:<index>
    Null,          \* no node
    Devices,
    ModuleKeys,    \* the module keys of each device
    MaxSize,       \* config.maxSize
    TTL            \* config.defaultTTL, in ticks

ASSUME CacheAssumption ==
    /\ Null \notin Keys
    /\ ModuleKeys \in [Devices -> SUBSET Keys]
    /\ MaxSize \in Nat \ {0}
    /\ TTL \in Nat

VARIABLES
    cache,         \* the map's keys, the list, stats.size, the entries' ages
    work,          \* the loop in progress: "none", "touch" or "delete"
    todo           \* keys it has still to visit; the map's order is left open

vars == <<cache, work, todo>>

\* newer is a history of use, kept apart from the list: newer[k] holds the
\* entries used since k was.
Empty ==
    [keys  |-> {},
     head  |-> Null,
     tail  |-> Null,
     prev  |-> [k \in Keys |-> Null],
     next  |-> [k \in Keys |-> Null],
     size  |-> 0,
     age   |-> [k \in Keys |-> 0],
     newer |-> [k \in Keys |-> {}]]

Init ==
    /\ cache = Empty
    /\ work = "none"
    /\ todo = {}

Expired(c, k) == c.age[k] > TTL

-----------------------------------------------------------------------------
(* The list.                                                               *)

\* Mutation: a removed tail leaves the tail pointer where it is.
RemoveNodeKeepingTail(c, k) ==
    [c EXCEPT
       !.head = IF c.prev[k] = Null THEN c.next[k] ELSE @,
       !.next = IF c.prev[k] = Null THEN @ ELSE [@ EXCEPT ![c.prev[k]] = c.next[k]],
       !.prev = IF c.next[k] = Null THEN @ ELSE [@ EXCEPT ![c.next[k]] = c.prev[k]]]

\* The removed node keeps its own pointers.
RemoveNode(c, k) ==
    [c EXCEPT
       !.head = IF c.prev[k] = Null THEN c.next[k] ELSE @,
       !.tail = IF c.next[k] = Null THEN c.prev[k] ELSE @,
       !.next = IF c.prev[k] = Null THEN @ ELSE [@ EXCEPT ![c.prev[k]] = c.next[k]],
       !.prev = IF c.next[k] = Null THEN @ ELSE [@ EXCEPT ![c.next[k]] = c.prev[k]]]

AddToHead(c, k) ==
    [c EXCEPT
       !.head = k,
       !.tail = IF @ = Null THEN k ELSE @,
       !.next = [@ EXCEPT ![k] = c.head],
       !.prev = [a \in Keys |-> IF a = c.head THEN k ELSE IF a = k THEN Null ELSE @[a]],
       !.newer = [a \in Keys |->
                    IF a \in c.keys \ {k} THEN @[a] \cup {k} ELSE {}]]

\* Mutation: the node is not moved, so the list keeps the order of insertion.
MoveToHeadNot(c, k) ==
    [c EXCEPT !.newer = AddToHead(RemoveNode(c, k), k).newer]

MoveToHead(c, k) == AddToHead(RemoveNode(c, k), k)

-----------------------------------------------------------------------------
(* The methods.                                                            *)

\* Nothing refers to a node that has left the map and the list.
Unmap(c, k) ==
    [c EXCEPT
       !.keys = @ \ {k},
       !.size = @ - 1,
       !.prev = [@ EXCEPT ![k] = Null],
       !.next = [@ EXCEPT ![k] = Null],
       !.age = [@ EXCEPT ![k] = 0],
       !.newer = [a \in Keys |->
                    IF a \in c.keys \ {k} THEN @[a] \ {k} ELSE {}]]

Delete(c, k) == IF k \in c.keys THEN Unmap(RemoveNode(c, k), k) ELSE c

\* Mutation: the wrong end of the list.
EvictHead(c) == IF c.head = Null THEN c ELSE Unmap(RemoveNode(c, c.head), c.head)

EvictLRU(c) == IF c.tail = Null THEN c ELSE Unmap(RemoveNode(c, c.tail), c.tail)

\* Mutation: one entry too many before the first eviction.
FullLate(c) == c.size > MaxSize

Full(c) == c.size >= MaxSize

Refresh(c, k) == [c EXCEPT !.age = [@ EXCEPT ![k] = 0]]

Add(c, k) ==
    AddToHead([c EXCEPT !.keys = @ \cup {k}, !.size = @ + 1], k)

\* Mutation: room is made even when an entry is only updated.
SetAlwaysEvicting(c, k) ==
    LET room == IF Full(c) THEN EvictLRU(c) ELSE c
    IN  IF k \in room.keys
          THEN MoveToHead(Refresh(room, k), k)
          ELSE Add(Refresh(room, k), k)

Set(c, k) ==
    IF k \in c.keys
      THEN MoveToHead(Refresh(c, k), k)
      ELSE Add(Refresh(IF Full(c) THEN EvictLRU(c) ELSE c, k), k)

Get(c, k) ==
    IF k \notin c.keys
      THEN c
      ELSE IF Expired(c, k) THEN Delete(c, k) ELSE MoveToHead(c, k)

-----------------------------------------------------------------------------
(* Operations.                                                             *)

Idle == work = "none"

SetEntry(k) == Idle /\ cache' = Set(cache, k) /\ UNCHANGED <<work, todo>>

GetEntry(k) == Idle /\ cache' = Get(cache, k) /\ UNCHANGED <<work, todo>>

\* mergeDeviceInfo, and the cache manager's initializeOrUpdateModule, read an
\* entry and store it back merged.
MergeEntry(k) == Idle /\ cache' = Set(Get(cache, k), k) /\ UNCHANGED <<work, todo>>

GetAllModules(d) ==
    /\ Idle
    /\ work' = "touch"
    /\ todo' = ModuleKeys[d] \cap cache.keys
    /\ UNCHANGED cache

\* Mutation: the sweep looks at the least recently used entry only.
CleanupTail ==
    /\ Idle
    /\ work' = "delete"
    /\ todo' = {k \in cache.keys : Expired(cache, k) /\ k = cache.tail}
    /\ UNCHANGED cache

\* Every minute, for as long as the process runs: nothing calls dispose().
CleanupExpired ==
    /\ Idle
    /\ work' = "delete"
    /\ todo' = {k \in cache.keys : Expired(cache, k)}
    /\ UNCHANGED cache

Touch(k) ==
    /\ work = "touch"
    /\ k \in todo
    /\ cache' = IF Expired(cache, k) THEN cache ELSE MoveToHead(cache, k)
    /\ todo' = todo \ {k}
    /\ UNCHANGED work

SweepDelete(k) ==
    /\ work = "delete"
    /\ k \in todo
    /\ cache' = Delete(cache, k)
    /\ todo' = todo \ {k}
    /\ UNCHANGED work

LoopEnds ==
    /\ work # "none"
    /\ todo = {}
    /\ work' = "none"
    /\ UNCHANGED <<cache, todo>>

\* Ages stop at the first one that is expired; the clock is monotonic here.
Tick ==
    /\ cache' = [cache EXCEPT !.age =
                   [k \in Keys |-> IF k \in cache.keys /\ ~Expired(cache, k)
                                     THEN @[k] + 1 ELSE @[k]]]
    /\ UNCHANGED <<work, todo>>

\* Public operations the application itself never calls.
DeleteEntry(k) == Idle /\ cache' = Delete(cache, k) /\ UNCHANGED <<work, todo>>

\* clear(), and dispose() but for the timer it stops.
Clear == Idle /\ cache' = Empty /\ UNCHANGED <<work, todo>>

Loop == LoopEnds \/ \E k \in Keys : Touch(k) \/ SweepDelete(k)

Serve ==
    \/ \E k \in Keys : SetEntry(k) \/ GetEntry(k) \/ MergeEntry(k)
    \/ \E d \in Devices : GetAllModules(d)
    \/ CleanupExpired
    \/ Loop
    \/ Tick

Next == Serve \/ Clear \/ \E k \in Keys : DeleteEntry(k)

Spec == Init /\ [][Next]_vars

\* A loop is never left half done.  The sweep is a timer, which the event loop
\* serves however busy it is: it may wait for a loop, never for ever.
FairSpec == Spec /\ WF_vars(Loop) /\ SF_vars(CleanupExpired)

-----------------------------------------------------------------------------
(* Properties.                                                             *)

CacheType ==
    [keys  : SUBSET Keys,
     head  : Keys \cup {Null},
     tail  : Keys \cup {Null},
     prev  : [Keys -> Keys \cup {Null}],
     next  : [Keys -> Keys \cup {Null}],
     size  : Nat,
     age   : [Keys -> 0..TTL + 1],
     newer : [Keys -> SUBSET Keys]]

TypeOK ==
    /\ cache \in CacheType
    /\ work \in {"none", "touch", "delete"}
    /\ todo \in SUBSET Keys

\* The counter the eviction decides by (uos-cache.ts:342) is the number of
\* entries, through every mix of deletions, sweeps, evictions and clears, and
\* it never passes the configured maximum.
SizeIsCount ==
    /\ cache.size = Cardinality(cache.keys)
    /\ cache.size <= MaxSize

\* The list with ends h and t and links p and n holds the entries of S, and the
\* entries in front of each are those w says were used since.
InOrder(S, h, t, p, n, w) ==
    /\ \A k \in S :
         /\ h = k <=> p[k] = Null
         /\ t = k <=> n[k] = Null
         /\ w[k] \subseteq S \ {k}
         /\ p[k] = Null => w[k] = {}
         /\ p[k] # Null => p[k] \in S /\ n[p[k]] = k /\ w[k] = w[p[k]] \cup {p[k]}
         /\ n[k] # Null => n[k] \in S /\ p[n[k]] = k
    /\ S = {} => h = Null /\ t = Null
    /\ S # {} => h \in S /\ t \in S /\ w[t] = S \ {t}

\* Walked from either end, the list holds exactly the entries of the map, in
\* the order of their last use (uos-cache.ts:413-451).
ListIsRecency ==
    InOrder(cache.keys, cache.head, cache.tail, cache.prev, cache.next, cache.newer)

\* An entry leaves the cache only because its time to live is over, a caller
\* removes it, or the cache is full, another entry comes in and this one was used
\* longest ago: reading, updating, listing and sweeping never cost a live entry.
LiveEntriesStay ==
    [][\A k \in cache.keys \ cache'.keys :
          \/ Expired(cache, k)
          \/ DeleteEntry(k) \/ Clear
          \/ /\ Cardinality(cache.keys) = MaxSize
             /\ cache.newer[k] = cache.keys \ {k}
             /\ cache'.keys \ cache.keys # {}]_vars

\* An entry past its time to live is removed or renewed, whatever else keeps
\* the cache busy (the sweep of uos-cache.ts:466-482).
ExpiredIsReclaimed ==
    \A k \in Keys :
       k \in cache.keys /\ Expired(cache, k) ~>
          ~(k \in cache.keys /\ Expired(cache, k))

\* The linked list implements the cache that evicts by recency of use.
Recency == INSTANCE RecencyCache WITH keys <- cache.keys, newer <- cache.newer

ImplementsRecency == Recency!Spec
=============================================================================

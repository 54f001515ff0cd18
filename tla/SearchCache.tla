------------------------------ MODULE SearchCache ------------------------------
(***************************************************************************)
(* The search cache (cache/trigram_cache.go): a query is answered by the   *)
(* entry stored for it or by the most similar one, the least recently used *)
(* entry makes room.  Get scans under the read lock, gives it up and       *)
(* promotes what it found under the write lock.                            *)
(***************************************************************************)
EXTENDS Naturals, Sequences, SequencesExt, FiniteSets, Ordered

CONSTANTS
    Queries,     \* normalized queries
    Similar,     \* the pairs whose trigrams are alike to the threshold
    MaxEntries,
    Ttl,         \* in ticks
    Callers,     \* goroutines
    MaxNow       \* bound on the clock

ASSUME CacheAssumption ==
    /\ {MaxEntries, Ttl, MaxNow} \subseteq Nat /\ Similar \subseteq Queries \X Queries

VARIABLES
    items,    \* the map: each query with an entry and when that was stored
    lru,      \* the list: the queries from the most recently used
    now,      \* the time
    getting   \* each caller of Get: the query, and the entry its scan found

cacheVars == <<items, lru, now, getting>>

NoEntry == [at |-> MaxNow + 1]
Quiet == [query |-> "none", found |-> "none"]

CacheInit ==
    /\ items = [q \in Queries |-> NoEntry] /\ lru = <<>> /\ now = 0
    /\ getting = [c \in Callers |-> Quiet]

Held(q) == items[q] # NoEntry
Live(q) == Held(q) /\ now - items[q].at < Ttl
Without(s, q) == AtPositions(s, {i \in DOMAIN s : s[i] # q})

-----------------------------------------------------------------------------
\* The scan: the entry of the query itself, else the live one most like it (any of
\* those alike enough may be the best), else a miss.
Scan(c, q) ==
    /\ getting[c] = Quiet
    /\ LET near == {k \in Queries : Live(k) /\ <<q, k>> \in Similar}
       IN \E k \in (IF Live(q) THEN {q} ELSE near) :
             getting' = [getting EXCEPT ![c] = [query |-> q, found |-> k]]
    /\ UNCHANGED <<items, lru, now>>

\* Mutant of Promoted: the entry found is taken to be there still.
PromotedUnchecked(q) == <<q>> \o Without(lru, q)
\* Back under the lock: an entry that has gone in between is not promoted.
Promoted(q) == IF Held(q) THEN <<q>> \o Without(lru, q) ELSE lru

Promote(c) ==
    /\ getting[c] # Quiet
    /\ lru' = Promoted(getting[c].found)
    /\ getting' = [getting EXCEPT ![c] = Quiet]
    /\ UNCHANGED <<items, now>>

\* evictExpiredLocked
Unexpired == AtPositions(lru, {i \in DOMAIN lru : Live(lru[i])})
\* What stays of the list beside the entry that is put.
MadeRoom(kept, q) ==
    LET room == IF MaxEntries = 0 THEN 0 ELSE MaxEntries - 1
    IN  IF Contains(kept, q) THEN Without(kept, q)
        ELSE SubSeq(kept, 1, IF Len(kept) > room THEN room ELSE Len(kept))

\* The entry is replaced or put in front; the oldest make room, and a list that is
\* empty ends the loop whatever the capacity.
Put(q) ==
    /\ LET fits == MadeRoom(Unexpired, q)
       IN /\ lru' = <<q>> \o fits
          /\ items' = [k \in Queries |-> IF k = q THEN [at |-> now]
                                         ELSE IF Contains(fits, k) THEN items[k] ELSE NoEntry]
    /\ UNCHANGED <<now, getting>>

CacheTick == now < MaxNow /\ now' = now + 1 /\ UNCHANGED <<items, lru, getting>>

CacheNext ==
    \/ \E q \in Queries : Put(q) \/ \E c \in Callers : Scan(c, q)
    \/ \E c \in Callers : Promote(c)
    \/ CacheTick

CacheSpec == CacheInit /\ [][CacheNext]_cacheVars

-----------------------------------------------------------------------------
(* Properties *)

(* The map and the list stay one cache: they hold the same queries, each   *)
(* once, never more than the capacity (and one, when that is 0), however   *)
(* scans, promotions and evictions fall between each other (Get, Put,      *)
(* evictExpiredLocked).                                                    *)
CacheIsOne ==
    /\ ToSet(lru) = {q \in Queries : Held(q)}
    /\ Len(lru) = Cardinality(ToSet(lru))
    /\ Len(lru) <= (IF MaxEntries = 0 THEN 1 ELSE MaxEntries)
=============================================================================

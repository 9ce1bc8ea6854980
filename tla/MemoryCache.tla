---------------------------- MODULE MemoryCache ----------------------------
(***************************************************************************)
(* The in-process artifact cache (MemoryCache): an OrderedDict of at most  *)
(* max_size entries, the least recently used first.  Every operation runs  *)
(* under one lock and is one step.  An entry is expired or not; what is    *)
(* expired stays until somebody looks at it.                               *)
(***************************************************************************)
EXTENDS Naturals, Sequences, SequencesExt, Lists

CONSTANTS
    CacheKey,
    CacheValue,  \* values; equal values have equal hashes
    MaxSize      \* max_size; with 0 the first set raises KeyError

ASSUME MemoryCacheAssumption == MaxSize \in Nat \ {0}

VARIABLES
    order,      \* the keys of _cache, the oldest first
    value,      \* value[k]: the value of an entry
    expired,    \* keys of entries whose time is over
    since       \* history: since[k]: the keys used since k was

memoryVars == <<order, value, expired, since>>

Cached == ToSet(order)

MemoryCacheTypeOK ==
    /\ order \in Seq(CacheKey) /\ IsInjective(order)
    /\ value \in [CacheKey -> CacheValue]
    /\ expired \subseteq Cached
    /\ since \in [CacheKey -> SUBSET CacheKey]

-----------------------------------------------------------------------------
MemoryCacheInit ==
    /\ order = <<>>
    /\ value \in [CacheKey -> CacheValue]
    /\ expired = {}
    /\ since = [k \in CacheKey |-> {}]

Use(k) == since' = [j \in CacheKey |-> IF j = k THEN {} ELSE since[j] \cup {k}]

Drop(set) ==
    /\ order' = Without(order, set)
    /\ expired' = expired \ set

(* A get that leaves the entry in its place.                               *)
MemoryGetInPlace(k) ==
    /\ k \in Cached
    /\ IF k \in expired
       THEN Drop({k}) /\ UNCHANGED since
       ELSE Use(k) /\ UNCHANGED <<order, expired>>
    /\ UNCHANGED value

(* get of a key that is there: dropped if expired, otherwise moved to the  *)
(* end.  (A key that is not there only counts as a miss.)                  *)
MemoryGet(k) ==
    /\ k \in Cached
    /\ IF k \in expired
       THEN Drop({k}) /\ UNCHANGED since
       ELSE /\ order' = Append(Without(order, {k}), k)
            /\ Use(k)
            /\ UNCHANGED expired
    /\ UNCHANGED value

(* set: the old entry goes, then the oldest ones until there is room.      *)
MemorySet(k, v) ==
    /\ LET others == Without(order, {k})
           excess == IF Len(others) >= MaxSize THEN Len(others) - MaxSize + 1 ELSE 0
       IN  order' = Append(SubSeq(others, 1 + excess, Len(others)), k)
    /\ value' = [value EXCEPT ![k] = v]
    /\ expired' = (expired \cap {order'[i] : i \in DOMAIN order'}) \ {k}
    /\ Use(k)

MemoryDelete(k) ==
    /\ k \in Cached
    /\ Drop({k})
    /\ UNCHANGED <<value, since>>

(* has drops an expired entry and counts as no use of another.             *)
Has(k) ==
    /\ k \in expired
    /\ Drop({k})
    /\ UNCHANGED <<value, since>>

InvalidateByHash(v) ==
    /\ Drop({k \in Cached : value[k] = v})
    /\ UNCHANGED <<value, since>>

CleanupExpired == Drop(expired) /\ UNCHANGED <<value, since>>

MemoryClear == Drop(Cached) /\ UNCHANGED <<value, since>>

(* Time passes for an entry that was set with a ttl.                       *)
Expire(k) ==
    /\ k \in Cached \ expired
    /\ expired' = expired \cup {k}
    /\ UNCHANGED <<order, value, since>>

MemoryCacheNext ==
    \/ \E k \in CacheKey :
        \/ MemoryGet(k) \/ MemoryDelete(k) \/ Has(k) \/ Expire(k)
        \/ \E v \in CacheValue : MemorySet(k, v)
    \/ \E v \in CacheValue : InvalidateByHash(v)
    \/ CleanupExpired
    \/ MemoryClear

MemoryCacheSpec == MemoryCacheInit /\ [][MemoryCacheNext]_memoryVars

-----------------------------------------------------------------------------
(* Properties *)

(* "LRU (Least Recently Used) eviction policy": the cache never outgrows   *)
(* max_size, and what makes room for another entry was the only one not    *)
(* used since its own last use, at a time when there was no room left.     *)
EvictsLeastRecent ==
    [][/\ Len(order') <= MaxSize
       /\ \A k \in Cached :
            k \notin Cached' /\ Len(order') >= Len(order) =>
                /\ Len(order) = MaxSize
                /\ Cached \ {k} \subseteq since[k]]_memoryVars
=============================================================================

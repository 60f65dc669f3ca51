--------------------------- MODULE EmbeddingCache ---------------------------
(***************************************************************************)
(* The bounded map of crates/subtoken-core/src/cache.rs (EmbeddingCache):  *)
(* it admits entries until it is full and then declines new ones; nothing  *)
(* is evicted.  The whole map lives behind one mutex (CACHE in lib.rs), so *)
(* an operation, or the few that lib.rs makes in one critical section, is  *)
(* one atomic step.                                                        *)
(*                                                                         *)
(* Each method is an operator over the cache's own variables.  It says     *)
(* what happens to the variables the method can touch and leaves the       *)
(* caller to say UNCHANGED of the rest, because SingleFlight conjoins two  *)
(* methods in one step (a miss in get followed by note_uncached).          *)
(***************************************************************************)
EXTENDS Naturals, FiniteSets

CONSTANT Capacity       \* the most vectors the cache will hold; 0 is a cache that is off

ASSUME CapacityAssumption == Capacity \in Nat

VARIABLES
  entries,              \* cache key -> vector, a function on the keys held
  hits,                 \* lookups answered from the cache
  misses,               \* lookups that had to be embedded
  uncached              \* lookups the cache was too full to store

cacheVars == <<entries, hits, misses, uncached>>

Held == DOMAIN entries

\* with_capacity, and the state clear leaves behind.
EmptyMap == [key \in {} |-> key]

CacheInit ==
  /\ entries = EmptyMap
  /\ hits = 0
  /\ misses = 0
  /\ uncached = 0

IsFull == Cardinality(Held) >= Capacity

(***************************************************************************)
(* get: look a key up, counting the outcome.                               *)
(***************************************************************************)
GetHit(key) ==
  /\ key \in Held
  /\ hits' = hits + 1
  /\ UNCHANGED <<entries, misses, uncached>>

GetMiss(key) ==
  /\ key \notin Held
  /\ misses' = misses + 1
  /\ UNCHANGED <<entries, hits>>

NoteUncached == uncached' = uncached + 1

(***************************************************************************)
(* recheck: the second look of one row.  A hit turns the miss that row     *)
(* already recorded into a hit; the subtraction saturates, because a clear *)
(* may have zeroed the counter since.  A miss changes nothing.             *)
(***************************************************************************)
\* Mutant: a subtraction that does not saturate.
PlainDec(n) == n - 1

SaturatingDec(n) == IF n = 0 THEN 0 ELSE n - 1

\* Mutant: a recheck that counts the hit and keeps the miss.
RecheckHitKeepingMiss(key) ==
  /\ key \in Held
  /\ hits' = hits + 1
  /\ UNCHANGED <<entries, misses, uncached>>

RecheckHit(key) ==
  /\ key \in Held
  /\ misses' = SaturatingDec(misses)
  /\ hits' = hits + 1
  /\ UNCHANGED <<entries, uncached>>

(***************************************************************************)
(* insert: a full cache declines a key it does not hold and counts it.     *)
(***************************************************************************)
With(map, key, vector) ==
  [k \in DOMAIN map \cup {key} |-> IF k = key THEN vector ELSE map[k]]

\* Mutant: an insert that trusts its caller to have asked whether there is room.
InsertUnbounded(key, vector) ==
  /\ entries' = With(entries, key, vector)
  /\ UNCHANGED <<hits, misses, uncached>>

\* Mutant: a full cache makes room by evicting a vector.
InsertEvicting(key, vector) ==
  /\ entries' = IF IsFull /\ key \notin Held /\ Held # {}
                THEN LET victim == CHOOSE k \in Held : TRUE
                     IN  With([k \in Held \ {victim} |-> entries[k]], key, vector)
                ELSE With(entries, key, vector)
  /\ UNCHANGED <<hits, misses, uncached>>

Insert(key, vector) ==
  \/ /\ IsFull
     /\ key \notin Held
     /\ uncached' = uncached + 1
     /\ UNCHANGED <<entries, hits, misses>>
  \/ /\ ~IsFull \/ key \in Held
     /\ entries' = With(entries, key, vector)
     /\ UNCHANGED <<hits, misses, uncached>>

(***************************************************************************)
(* clear: drop every vector; the counters go with the entries.             *)
(***************************************************************************)
\* Mutant: a clear that forgets one counter.
ClearCacheKeepingUncached ==
  /\ entries' = EmptyMap
  /\ hits' = 0
  /\ misses' = 0
  /\ UNCHANGED uncached

ClearCache ==
  /\ entries' = EmptyMap
  /\ hits' = 0
  /\ misses' = 0
  /\ uncached' = 0

=============================================================================

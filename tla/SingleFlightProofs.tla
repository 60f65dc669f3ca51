------------------------- MODULE SingleFlightProofs -------------------------
(***************************************************************************)
(* The safety of SingleFlight for every set of threads and texts, every    *)
(* capacity, every encoder and every choice of operations.                 *)
(*                                                                         *)
(* OneFlightPerKey is inductive with the types alone.  The rest stands on  *)
(* it: only the holder of a key stores that key, so between the holder's   *)
(* recheck and its insert nobody else can make the key held.               *)
(***************************************************************************)
EXTENDS SingleFlight, FiniteSetTheorems, FunctionTheorems, TLAPS

\* Texts and their keys correspond one to one (cache_key, cache.rs:422).
LEMMA KeyInjective ==
  \A x, y : CacheKey(x) = CacheKey(y) <=> x = y
  BY DEF CacheKey

\* The encoder's value is a vector unless it is Failure, and never None.
LEMMA EncoderType ==
  ASSUME NEW x \in Texts
  PROVE  /\ Encoder[x] \in Vectors \cup {Failure}
         /\ Encoder[x] # None
         /\ Encoder[x] # Failure => Encoder[x] \in Vectors
  BY EncoderAssumption, FailureAssumption

\* Storing under a key adds that key and changes no other (insert, cache.rs:372).
LEMMA WithIsUpdate ==
  ASSUME NEW map, NEW key, NEW vector
  PROVE  /\ DOMAIN With(map, key, vector) = DOMAIN map \cup {key}
         /\ With(map, key, vector)[key] = vector
         /\ \A k \in DOMAIN map : k # key => With(map, key, vector)[k] = map[k]
  BY DEF With

-----------------------------------------------------------------------------
\* The types hold at the start.
LEMMA TypeInit == Init => TypeOK
  BY DEF Init, CacheInit, EmptyMap, TypeOK, Held, Reports, NoReport, PCs

\* Every step keeps the types; the insert step needs InsertsVectors.
LEMMA TypeStep == TypeOK /\ InsertsVectors /\ IsFiniteSet(Held) /\ [Next]_vars => TypeOK'
<1> SUFFICES ASSUME TypeOK, InsertsVectors, IsFiniteSet(Held), [Next]_vars
             PROVE  TypeOK'
  OBVIOUS
<1> USE DEF TypeOK, Held, Goto, PCs, Key, cacheVars
<1>1. ASSUME NEW t \in Threads, NEW x \in Texts, CallEmbed(t, x) \/ CallUncached(t, x)
      PROVE  TypeOK'
  <2>1. CASE CallEmbed(t, x)
    BY <2>1 DEF CallEmbed
  <2>2. CASE CallUncached(t, x)
    BY <2>2 DEF CallUncached
  <2> QED
    BY <1>1, <2>1, <2>2
<1>2. ASSUME NEW t \in Threads, CallStats(t) \/ CallClear(t)
      PROVE  TypeOK'
  <2>1. CASE CallStats(t)
    BY <2>1 DEF CallStats, CallOther
  <2>2. CASE CallClear(t)
    BY <2>2 DEF CallClear, CallOther
  <2> QED
    BY <1>2, <2>1, <2>2
<1>3. ASSUME NEW t \in Threads, LookupHit(t)
      PROVE  TypeOK'
  BY <1>3 DEF LookupHit, GetHit
<1>4. ASSUME NEW t \in Threads, LookupFull(t) \/ LookupMiss(t)
      PROVE  TypeOK'
  BY <1>4 DEF LookupFull, LookupMiss, GetMiss, NoteUncached
<1>5. ASSUME NEW t \in Threads, BeginWait(t) \/ SpuriousWake(t)
      PROVE  TypeOK'
  BY <1>5 DEF BeginWait, SpuriousWake
<1>6. ASSUME NEW t \in Threads, BeginFlight(t)
      PROVE  TypeOK'
  BY <1>6 DEF BeginFlight
<1>7. ASSUME NEW t \in Threads, RecheckFound(t)
      PROVE  TypeOK'
  BY <1>7 DEF RecheckFound, RecheckHit, SaturatingDec
<1>8. ASSUME NEW t \in Threads, RecheckAbsent(t)
      PROVE  TypeOK'
  BY <1>8 DEF RecheckAbsent
<1>9. ASSUME NEW t \in Threads, EncodeInFlight(t) \/ EncodeAlone(t)
      PROVE  TypeOK'
  <2>1. text[t] \in Texts
    BY <1>9 DEF EncodeInFlight, EncodeAlone
  <2>2. Encoder[text[t]] \in Vectors \cup {Failure}
    BY <2>1, EncoderType
  <2>3. RunEncoder(t)
    BY <1>9 DEF EncodeInFlight, EncodeAlone
  <2>6. result' \in [Threads -> Vectors \cup {Failure, None}]
    BY <2>2, <2>3 DEF RunEncoder
  <2>7. encoded' \in Nat
    BY <2>3 DEF RunEncoder
  <2>4. CASE EncodeInFlight(t)
    <3>1. pc' \in [Threads -> PCs]
      BY <2>4 DEF EncodeInFlight
    <3>2. \A u \in Threads : pc'[u] = pc[u] \/ u = t
      BY <2>4 DEF EncodeInFlight
    <3> QED
      BY <2>1, <2>6, <2>7, <2>4, <3>1, <3>2 DEF EncodeInFlight, RunEncoder
  <2>5. CASE EncodeAlone(t)
    BY <2>5, <2>6, <2>7 DEF EncodeAlone, RunEncoder
  <2> QED
    BY <1>9, <2>4, <2>5
<1>10. ASSUME NEW t \in Threads, InsertVector(t)
       PROVE  TypeOK'
  <2>1. result[t] \in Vectors /\ text[t] \in Texts
    BY <1>10 DEF InsertVector, InsertsVectors, At
  <2>2. CASE entries' = entries
    BY <1>10, <2>1, <2>2 DEF InsertVector, Insert
  <2>3. CASE entries' = With(entries, Key(t), result[t])
    <3>1. Held' = Held \cup {CacheKey(text[t])}
      BY <2>3, WithIsUpdate
    <3>2. entries' \in [Held' -> Vectors]
      BY <2>1, <2>3 DEF With
    <3>3. Held' \subseteq {CacheKey(x) : x \in Texts}
      BY <2>1, <3>1
    <3> QED
      BY <1>10, <2>1, <2>3, <3>2, <3>3 DEF InsertVector, Insert
  <2> QED
    BY <1>10, <2>2, <2>3 DEF InsertVector, Insert
<1>11. ASSUME NEW t \in Threads, Release(t)
       PROVE  TypeOK'
  BY <1>11 DEF Release
<1>12. ASSUME NEW t \in Threads, NotifyAll(t)
       PROVE  TypeOK'
  BY <1>12 DEF NotifyAll
<1>13. ASSUME NEW t \in Threads, Stats(t)
       PROVE  TypeOK'
  <2>1. Cardinality(Held) \in Nat
    BY FS_CardinalityType
  <2>2. report' \in [Threads -> Reports]
    <3>1. CASE pc[t] = "stats"
      BY <1>13, <2>1, <3>1 DEF Stats, Reports
    <3>2. CASE pc[t] = "stats_encoded"
      <4>1. [report[t] EXCEPT !.encoded = encoded] \in Reports
        BY DEF Reports
      <4> QED
        BY <1>13, <3>2, <4>1 DEF Stats
    <3> QED
      BY <1>13, <3>1, <3>2 DEF Stats
  <2>3. \E p \in {"stats_encoded", "idle"} : pc' = [pc EXCEPT ![t] = p]
    BY <1>13 DEF Stats
  <2>4. UNCHANGED <<cacheVars, inFlight, encoded, text, result, rows, others>>
    BY <1>13 DEF Stats
  <2> QED
    BY <2>2, <2>3, <2>4
<1>14. ASSUME NEW t \in Threads, Clear(t)
       PROVE  TypeOK'
  <2>1. CASE pc[t] = "clear"
    <3>1. pc' = [pc EXCEPT ![t] = "clear_cache"] /\ encoded' = 0
      BY <1>14, <2>1 DEF Clear
    <3>2. UNCHANGED <<cacheVars, inFlight, text, result, report, rows, others>>
      BY <1>14, <2>1 DEF Clear
    <3> QED
      BY <3>1, <3>2
  <2>2. CASE pc[t] = "clear_cache"
    <3>1. Held' = {} /\ entries' \in [Held' -> Vectors]
      BY <1>14, <2>2 DEF Clear, ClearCache, EmptyMap
    <3>2. hits' = 0 /\ misses' = 0 /\ uncached' = 0
      BY <1>14, <2>2 DEF Clear, ClearCache
    <3>3. /\ pc' = [pc EXCEPT ![t] = "idle"]
          /\ UNCHANGED <<inFlight, encoded, text, result, report, rows, others>>
      BY <1>14, <2>2 DEF Clear
    <3> QED
      BY <3>1, <3>2, <3>3
  <2> QED
    BY <1>14, <2>1, <2>2 DEF Clear
<1>15. CASE UNCHANGED vars
  BY <1>15 DEF vars, flightVars
<1> QED
  BY <1>1, <1>2, <1>3, <1>4, <1>5, <1>6, <1>7, <1>8, <1>9, <1>10, <1>11, <1>12,
     <1>13, <1>14, <1>15 DEF Next, Call, Proceed, Finished

-----------------------------------------------------------------------------
(***************************************************************************)
(* Mutual exclusion per key.                                               *)
(***************************************************************************)

\* A step that moves no thread into or out of a flight keeps the exclusion.
LEMMA FlightsUntouched ==
  ASSUME OneFlightPerKey,
         inFlight' = inFlight,
         Holders' = Holders,
         \A t \in Holders : text'[t] = text[t]
  PROVE  OneFlightPerKey'
  BY DEF OneFlightPerKey, Key, CacheKey

\* Nobody holds a flight at the start.
LEMMA FlightInit == Init => OneFlightPerKey
  BY DEF Init, OneFlightPerKey, Holders, Key

\* Flights are taken and given back by their holders only.
LEMMA FlightStep == TypeOK /\ OneFlightPerKey /\ [Next]_vars => OneFlightPerKey'
<1> SUFFICES ASSUME TypeOK, OneFlightPerKey, [Next]_vars
             PROVE  OneFlightPerKey'
  OBVIOUS
<1>0. pc \in [Threads -> PCs] /\ text \in [Threads -> Texts \cup {None}]
  BY DEF TypeOK
<1> USE DEF Goto, Holders
<1>1. ASSUME NEW t \in Threads, NEW x \in Texts, CallEmbed(t, x) \/ CallUncached(t, x)
      PROVE  OneFlightPerKey'
  BY <1>0, <1>1, FlightsUntouched DEF CallEmbed, CallUncached
<1>2. ASSUME NEW t \in Threads, CallStats(t) \/ CallClear(t)
      PROVE  OneFlightPerKey'
  BY <1>0, <1>2, FlightsUntouched DEF CallStats, CallClear, CallOther
<1>3. ASSUME NEW t \in Threads, LookupHit(t) \/ LookupFull(t) \/ LookupMiss(t)
      PROVE  OneFlightPerKey'
  BY <1>0, <1>3, FlightsUntouched DEF LookupHit, LookupFull, LookupMiss
<1>4. ASSUME NEW t \in Threads, BeginWait(t) \/ SpuriousWake(t)
      PROVE  OneFlightPerKey'
  BY <1>0, <1>4, FlightsUntouched DEF BeginWait, SpuriousWake
<1>5. ASSUME NEW t \in Threads, BeginFlight(t)
      PROVE  OneFlightPerKey'
  <2>1. Holders' = Holders \cup {t} /\ text' = text
    BY <1>0, <1>5 DEF BeginFlight
  <2>2. inFlight' = inFlight \cup {Key(t)} /\ Key(t) \notin inFlight
    BY <1>5 DEF BeginFlight
  <2> QED
    BY <2>1, <2>2 DEF OneFlightPerKey, Key
<1>6. ASSUME NEW t \in Threads, RecheckFound(t) \/ RecheckAbsent(t)
      PROVE  OneFlightPerKey'
  BY <1>0, <1>6, FlightsUntouched DEF RecheckFound, RecheckAbsent
<1>7. ASSUME NEW t \in Threads, EncodeInFlight(t)
      PROVE  OneFlightPerKey'
  BY <1>0, <1>7, FlightsUntouched DEF EncodeInFlight, RunEncoder
<1>8. ASSUME NEW t \in Threads, EncodeAlone(t) \/ InsertVector(t)
      PROVE  OneFlightPerKey'
  BY <1>0, <1>8, FlightsUntouched DEF EncodeAlone, RunEncoder, InsertVector
<1>9. ASSUME NEW t \in Threads, Release(t)
      PROVE  OneFlightPerKey'
  <2>1. Holders' = Holders \ {t} /\ t \in Holders /\ text' = text
    BY <1>0, <1>9 DEF Release
  <2>2. inFlight' = inFlight \ {Key(t)}
    BY <1>9 DEF Release
  <2> QED
    BY <2>1, <2>2 DEF OneFlightPerKey, Key
<1>10. ASSUME NEW t \in Threads, NotifyAll(t)
       PROVE  OneFlightPerKey'
  BY <1>0, <1>10, FlightsUntouched DEF NotifyAll
<1>11. ASSUME NEW t \in Threads, Stats(t) \/ Clear(t)
       PROVE  OneFlightPerKey'
  BY <1>0, <1>11, FlightsUntouched DEF Stats, Clear
<1>12. CASE UNCHANGED vars
  BY <1>12, FlightsUntouched DEF vars, flightVars
<1> QED
  BY <1>1, <1>2, <1>3, <1>4, <1>5, <1>6, <1>7, <1>8, <1>9, <1>10, <1>11, <1>12
     DEF Next, Call, Proceed, Finished

-----------------------------------------------------------------------------
(***************************************************************************)
(* What a step can do to the cache, to the threads about to store, and to  *)
(* the results: three frames, from which the invariants follow without     *)
(* going through the actions again.                                        *)
(***************************************************************************)
KeepsEntries == entries' = entries /\ (uncached' = uncached \/ IsFull)

Stores(t) ==
  /\ pc[t] = "insert"
  /\ pc' = [pc EXCEPT ![t] = "release"]
  /\ ~IsFull \/ Key(t) \in Held
  /\ entries' = With(entries, Key(t), result[t])
  /\ uncached' = uncached

Empties == entries' = EmptyMap /\ uncached' = 0

\* What a step that leaves the cache alone keeps.
LEMMA CacheFrame ==
  [Next]_vars => KeepsEntries \/ Empties \/ \E t \in Threads : Stores(t)
<1> SUFFICES ASSUME [Next]_vars
             PROVE  KeepsEntries \/ Empties \/ \E t \in Threads : Stores(t)
  OBVIOUS
<1> USE DEF cacheVars
<1>1. ASSUME NEW t \in Threads, Call(t)
      PROVE  KeepsEntries
  BY <1>1 DEF Call, CallEmbed, CallUncached, CallStats, CallClear, CallOther, KeepsEntries
<1>2. ASSUME NEW t \in Threads, LookupHit(t) \/ LookupFull(t) \/ LookupMiss(t)
      PROVE  KeepsEntries
  BY <1>2 DEF LookupHit, LookupFull, LookupMiss, GetHit, GetMiss, KeepsEntries
<1>3. ASSUME NEW t \in Threads, BeginWait(t) \/ BeginFlight(t) \/ SpuriousWake(t)
      PROVE  KeepsEntries
  BY <1>3 DEF BeginWait, BeginFlight, SpuriousWake, KeepsEntries
<1>4. ASSUME NEW t \in Threads, RecheckFound(t) \/ RecheckAbsent(t)
      PROVE  KeepsEntries
  BY <1>4 DEF RecheckFound, RecheckHit, RecheckAbsent, KeepsEntries
<1>5. ASSUME NEW t \in Threads, EncodeInFlight(t) \/ EncodeAlone(t)
      PROVE  KeepsEntries
  BY <1>5 DEF EncodeInFlight, EncodeAlone, RunEncoder, KeepsEntries
<1>6. ASSUME NEW t \in Threads, InsertVector(t)
      PROVE  KeepsEntries \/ Stores(t)
  BY <1>6 DEF InsertVector, Insert, Goto, KeepsEntries, Stores
<1>7. ASSUME NEW t \in Threads, Release(t) \/ NotifyAll(t) \/ Stats(t)
      PROVE  KeepsEntries
  BY <1>7 DEF Release, NotifyAll, Stats, KeepsEntries
<1>8. ASSUME NEW t \in Threads, Clear(t)
      PROVE  KeepsEntries \/ Empties
  BY <1>8 DEF Clear, ClearCache, KeepsEntries, Empties
<1>9. CASE UNCHANGED vars
  BY <1>9 DEF vars, KeepsEntries
<1> QED
  BY <1>1, <1>2, <1>3, <1>4, <1>5, <1>6, <1>7, <1>8, <1>9 DEF Next, Proceed, Finished

\* A thread reaches the encode only from a recheck that found nothing, and the
\* insert only from an encode that returned a vector.
LEMMA StorerFrame ==
  ASSUME TypeOK, [Next]_vars,
         NEW u \in Threads, pc'[u] \in {"encode", "insert"}
  PROVE  /\ text'[u] = text[u]
         /\ \/ pc[u] \in {"encode", "insert"}
            \/ pc[u] = "recheck" /\ Key(u) \notin Held
         /\ pc'[u] = "insert" =>
              \/ pc[u] = "insert" /\ result'[u] = result[u]
              \/ result'[u] = Encoder[text[u]] /\ Encoder[text[u]] # Failure
<1>0. /\ pc \in [Threads -> PCs] /\ text \in [Threads -> Texts \cup {None}]
      /\ result \in [Threads -> Vectors \cup {Failure, None}]
  BY DEF TypeOK
<1> USE DEF Goto
<1> DEFINE Same == pc'[u] = pc[u] /\ text'[u] = text[u] /\ result'[u] = result[u]
<1>1. ASSUME NEW t \in Threads, Call(t)
      PROVE  Same
  BY <1>0, <1>1 DEF Call, CallEmbed, CallUncached, CallStats, CallClear, CallOther
<1>2. ASSUME NEW t \in Threads, LookupHit(t) \/ LookupFull(t) \/ LookupMiss(t)
      PROVE  Same
  BY <1>0, <1>2 DEF LookupHit, LookupFull, LookupMiss
<1>3. ASSUME NEW t \in Threads, BeginWait(t) \/ BeginFlight(t) \/ SpuriousWake(t)
      PROVE  Same
  BY <1>0, <1>3 DEF BeginWait, BeginFlight, SpuriousWake
<1>4. ASSUME NEW t \in Threads, RecheckFound(t)
      PROVE  Same
  BY <1>0, <1>4 DEF RecheckFound
<1>5. ASSUME NEW t \in Threads, RecheckAbsent(t)
      PROVE  Same \/ /\ pc[u] = "recheck" /\ Key(u) \notin Held
                     /\ text'[u] = text[u] /\ pc'[u] = "encode"
  BY <1>0, <1>5 DEF RecheckAbsent
<1>6. ASSUME NEW t \in Threads, EncodeInFlight(t)
      PROVE  Same \/ /\ pc[u] = "encode" /\ text'[u] = text[u]
                     /\ result'[u] = Encoder[text[u]] /\ Encoder[text[u]] # Failure
  BY <1>0, <1>6 DEF EncodeInFlight, RunEncoder
<1>7. ASSUME NEW t \in Threads, EncodeAlone(t)
      PROVE  Same
  BY <1>0, <1>7 DEF EncodeAlone, RunEncoder
<1>8. ASSUME NEW t \in Threads, InsertVector(t) \/ Release(t) \/ NotifyAll(t)
      PROVE  Same
  BY <1>0, <1>8 DEF InsertVector, Release, NotifyAll
<1>9. ASSUME NEW t \in Threads, Stats(t) \/ Clear(t)
      PROVE  Same
  BY <1>0, <1>9 DEF Stats, Clear
<1>10. CASE UNCHANGED vars
  BY <1>10 DEF vars, flightVars
<1> QED
  BY <1>1, <1>2, <1>3, <1>4, <1>5, <1>6, <1>7, <1>8, <1>9, <1>10 DEF Next, Proceed, Finished

\* A result is either the one already in hand for the same text, one read from
\* the cache under the key of that text, or the encoder's own.
LEMMA ResultFrame ==
  ASSUME TypeOK, [Next]_vars,
         NEW u \in Threads, result'[u] # None
  PROVE  \/ result'[u] = result[u] /\ text'[u] = text[u]
         \/ /\ text'[u] = text[u] /\ text[u] \in Texts
            /\ Key(u) \in Held /\ result'[u] = entries[Key(u)]
         \/ text'[u] = text[u] /\ result'[u] = Encoder[text[u]]
<1>0. /\ pc \in [Threads -> PCs] /\ text \in [Threads -> Texts \cup {None}]
      /\ result \in [Threads -> Vectors \cup {Failure, None}]
      /\ \A t \in Threads : pc[t] \in {"lookup", "recheck"} => text[t] \in Texts
  BY DEF TypeOK
<1> USE DEF Goto
<1> DEFINE Same == text'[u] = text[u] /\ result'[u] = result[u]
<1>1. ASSUME NEW t \in Threads, Call(t)
      PROVE  Same
  BY <1>0, <1>1 DEF Call, CallEmbed, CallUncached, CallStats, CallClear, CallOther
<1>2. ASSUME NEW t \in Threads, LookupHit(t) \/ RecheckFound(t)
      PROVE  \/ Same
             \/ /\ text'[u] = text[u] /\ text[u] \in Texts
                /\ Key(u) \in Held /\ result'[u] = entries[Key(u)]
  BY <1>0, <1>2 DEF LookupHit, GetHit, RecheckFound, RecheckHit
<1>3. ASSUME NEW t \in Threads,
             LookupFull(t) \/ LookupMiss(t) \/ BeginWait(t) \/ BeginFlight(t)
             \/ SpuriousWake(t) \/ RecheckAbsent(t)
      PROVE  Same
  BY <1>0, <1>3 DEF LookupFull, LookupMiss, BeginWait, BeginFlight, SpuriousWake,
     RecheckAbsent
<1>4. ASSUME NEW t \in Threads, EncodeInFlight(t) \/ EncodeAlone(t)
      PROVE  Same \/ (text'[u] = text[u] /\ result'[u] = Encoder[text[u]])
  BY <1>0, <1>4 DEF EncodeInFlight, EncodeAlone, RunEncoder
<1>5. ASSUME NEW t \in Threads,
             InsertVector(t) \/ Release(t) \/ NotifyAll(t) \/ Stats(t) \/ Clear(t)
      PROVE  Same
  BY <1>0, <1>5 DEF InsertVector, Release, NotifyAll, Stats, Clear
<1>6. CASE UNCHANGED vars
  BY <1>6 DEF vars, flightVars
<1> QED
  BY <1>1, <1>2, <1>3, <1>4, <1>5, <1>6 DEF Next, Proceed, Finished

-----------------------------------------------------------------------------
(***************************************************************************)
(* The invariants of the cache's contents.                                 *)
(***************************************************************************)

\* Nobody but the holder of a key stores it.
LEMMA AbsentStep ==
  TypeOK /\ OneFlightPerKey /\ EncodesOnlyAbsentKeys /\ [Next]_vars
    => EncodesOnlyAbsentKeys'
<1> SUFFICES ASSUME TypeOK, OneFlightPerKey, EncodesOnlyAbsentKeys, [Next]_vars,
                    NEW u \in Threads, pc'[u] \in {"encode", "insert"}
             PROVE  CacheKey(text[u]) \notin Held'
  BY StorerFrame DEF EncodesOnlyAbsentKeys, At, Key
<1>1. u \in Holders /\ Key(u) \notin Held
  BY StorerFrame DEF EncodesOnlyAbsentKeys, At, Holders
<1>2. CASE KeepsEntries
  BY <1>1, <1>2 DEF KeepsEntries, Held, Key
<1>3. CASE Empties
  BY <1>3 DEF Empties, EmptyMap, Held
<1>4. ASSUME NEW t \in Threads, Stores(t)
      PROVE  CacheKey(text[u]) \notin Held'
  <2>1. t \in Holders /\ t # u
    BY <1>4 DEF Stores, Holders, TypeOK
  <2>2. Key(t) # Key(u)
    BY <1>1, <2>1 DEF OneFlightPerKey
  <2>3. Held' = Held \cup {Key(t)}
    BY <1>4, WithIsUpdate DEF Stores, Held
  <2> QED
    BY <1>1, <2>2, <2>3 DEF Key
<1> QED
  BY <1>2, <1>3, <1>4, CacheFrame

\* The full test and the store are one step, so the bound cannot be overshot,
\* and the counter of refusals moves only in a step that found the cache full.
LEMMA BoundStep ==
  CapacityBound /\ TurnedAwayOnlyWhenFull /\ uncached \in Nat /\ [Next]_vars
    => CapacityBound' /\ TurnedAwayOnlyWhenFull'
<1> SUFFICES ASSUME CapacityBound, TurnedAwayOnlyWhenFull, uncached \in Nat, [Next]_vars
             PROVE  CapacityBound' /\ TurnedAwayOnlyWhenFull'
  OBVIOUS
<1> USE CapacityAssumption DEF CapacityBound, TurnedAwayOnlyWhenFull, IsFull
<1>0. Cardinality(Held) \in Nat
  BY FS_CardinalityType
<1>1. CASE KeepsEntries
  BY <1>1 DEF KeepsEntries, Held
<1>2. CASE Empties
  <2>1. Held' = {}
    BY <1>2 DEF Empties, EmptyMap, Held
  <2> QED
    BY <1>2, <2>1, FS_EmptySet DEF Empties
<1>3. ASSUME NEW t \in Threads, Stores(t)
      PROVE  CapacityBound' /\ TurnedAwayOnlyWhenFull'
  <2>1. Held' = Held \cup {Key(t)} /\ uncached' = uncached
    BY <1>3, WithIsUpdate DEF Stores, Held
  <2>2. CASE Key(t) \in Held
    <3>1. Held' = Held
      BY <2>1, <2>2
    <3> QED
      BY <2>1, <3>1
  <2>3. CASE Key(t) \notin Held
    <3>1. IsFiniteSet(Held') /\ Cardinality(Held') = Cardinality(Held) + 1
      BY <2>1, <2>3, FS_AddElement
    <3>2. ~IsFull
      BY <1>3, <2>3 DEF Stores
    <3> QED
      BY <1>0, <2>1, <3>1, <3>2
  <2> QED
    BY <2>2, <2>3
<1> QED
  BY <1>1, <1>2, <1>3, CacheFrame

\* Vectors stay with their texts: in the cache, in hand, and on the way to it.
LEMMA VectorStep ==
  TypeOK /\ EachRowOwnVector /\ InsertsVectors /\ [Next]_vars
    => EachRowOwnVector' /\ InsertsVectors'
<1> SUFFICES ASSUME TypeOK, EachRowOwnVector, InsertsVectors, [Next]_vars
             PROVE  EachRowOwnVector' /\ InsertsVectors'
  OBVIOUS
<1>1. ASSUME NEW u \in Threads, result'[u] # None
      PROVE  result'[u] = Encoder[text'[u]]
  BY <1>1, ResultFrame DEF EachRowOwnVector, Key
<1>2. ASSUME NEW x \in Texts, CacheKey(x) \in Held'
      PROVE  entries'[CacheKey(x)] = Encoder[x]
  <2>1. CASE KeepsEntries
    BY <1>2, <2>1 DEF KeepsEntries, Held, EachRowOwnVector
  <2>2. CASE Empties
    BY <1>2, <2>2 DEF Empties, EmptyMap, Held
  <2>3. ASSUME NEW t \in Threads, Stores(t)
        PROVE  entries'[CacheKey(x)] = Encoder[x]
    <3>1. result[t] = Encoder[text[t]]
      BY <2>3, FailureAssumption DEF Stores, InsertsVectors, At, EachRowOwnVector
    <3> DEFINE k == CacheKey(x)
    <3>2. /\ DOMAIN entries' = DOMAIN entries \cup {Key(t)}
          /\ entries'[Key(t)] = result[t]
          /\ \A j \in DOMAIN entries : j # Key(t) => entries'[j] = entries[j]
      <4>1. entries' = With(entries, Key(t), result[t])
        BY <2>3 DEF Stores
      <4> DEFINE stored == With(entries, Key(t), result[t])
      <4>2. /\ DOMAIN stored = DOMAIN entries \cup {Key(t)}
            /\ stored[Key(t)] = result[t]
            /\ \A j \in DOMAIN entries : j # Key(t) => stored[j] = entries[j]
        BY DEF With
      <4> QED
        BY <4>1, <4>2
    <3>3. CASE x = text[t]
      <4>1. k = Key(t)
        BY <3>3 DEF Key
      <4> QED
        BY <3>1, <3>2, <3>3, <4>1
    <3>4. CASE x # text[t]
      <4>1. k # Key(t)
        BY <3>4, KeyInjective DEF Key
      <4>2. k \in DOMAIN entries
        BY <1>2, <3>2, <4>1 DEF Held
      <4>3. entries'[k] = entries[k]
        BY <3>2, <4>1, <4>2
      <4> QED
        BY <4>2, <4>3 DEF Held, EachRowOwnVector
    <3> QED
      BY <3>3, <3>4
  <2> QED
    BY <2>1, <2>2, <2>3, CacheFrame
<1>3. ASSUME NEW u \in Threads, pc'[u] = "insert"
      PROVE  result'[u] \in Vectors
  <2>1. CASE pc[u] = "insert" /\ result'[u] = result[u]
    BY <2>1 DEF InsertsVectors, At
  <2>2. CASE result'[u] = Encoder[text[u]] /\ Encoder[text[u]] # Failure
    <3>1. text[u] \in Texts
      BY <1>3, StorerFrame DEF TypeOK
    <3> QED
      BY <2>2, <3>1, EncoderType
  <2> QED
    BY <1>3, <2>1, <2>2, StorerFrame
<1> QED
  BY <1>1, <1>2, <1>3 DEF EachRowOwnVector, InsertsVectors, At

-----------------------------------------------------------------------------
\* SafetyInv holds at the start.
LEMMA SafetyInit == Init => SafetyInv
<1> SUFFICES ASSUME Init
             PROVE  SafetyInv
  OBVIOUS
<1>1. Held = {} /\ IsFiniteSet(Held) /\ Cardinality(Held) = 0
  BY FS_EmptySet DEF Init, CacheInit, EmptyMap, Held
<1>2. CapacityBound /\ TurnedAwayOnlyWhenFull
  BY <1>1, CapacityAssumption DEF CapacityBound, TurnedAwayOnlyWhenFull, Init, CacheInit
<1>3. EncodesOnlyAbsentKeys /\ InsertsVectors /\ EachRowOwnVector
  BY <1>1 DEF Init, EncodesOnlyAbsentKeys, InsertsVectors, EachRowOwnVector, At
<1> QED
  BY <1>2, <1>3, TypeInit, FlightInit DEF SafetyInv

\* Each step keeps SafetyInv.
LEMMA SafetyStep == SafetyInv /\ [Next]_vars => SafetyInv'
<1> SUFFICES ASSUME SafetyInv, [Next]_vars
             PROVE  SafetyInv'
  OBVIOUS
<1>1. TypeOK'
  BY TypeStep DEF SafetyInv, CapacityBound
<1>2. OneFlightPerKey'
  BY FlightStep DEF SafetyInv
<1>3. EncodesOnlyAbsentKeys'
  BY AbsentStep DEF SafetyInv
<1>4. CapacityBound' /\ TurnedAwayOnlyWhenFull'
  BY BoundStep DEF SafetyInv, TypeOK
<1>5. EachRowOwnVector' /\ InsertsVectors'
  BY VectorStep DEF SafetyInv
<1> QED
  BY <1>1, <1>2, <1>3, <1>4, <1>5 DEF SafetyInv

\* The invariant holds in every reachable state.
THEOREM Safety == Spec => []SafetyInv
  BY SafetyInit, SafetyStep, PTL DEF Spec

\* Every variable keeps its type, saturating counters included.
THEOREM TypeCorrect == Spec => []TypeOK
<1>1. SafetyInv => TypeOK
  BY DEF SafetyInv
<1> QED
  BY <1>1, Safety, PTL

\* At most one thread embeds a key at a time, and no flight is lost (Flight).
THEOREM FlightExclusion == Spec => []OneFlightPerKey
<1>1. SafetyInv => OneFlightPerKey
  BY DEF SafetyInv
<1> QED
  BY <1>1, Safety, PTL

\* No thread holding a flight encodes a text whose vector is already held.
THEOREM OneEncodeForConcurrentRows == Spec => []EncodesOnlyAbsentKeys
<1>1. SafetyInv => EncodesOnlyAbsentKeys
  BY DEF SafetyInv
<1> QED
  BY <1>1, Safety, PTL

\* The cache never holds more than Capacity vectors.
THEOREM NeverOverCapacity == Spec => []CapacityBound
<1>1. SafetyInv => CapacityBound
  BY DEF SafetyInv
<1> QED
  BY <1>1, Safety, PTL

\* Every row is answered with the vector, or the failure, of its own text.
THEOREM RowsGetTheirOwnVectors == Spec => []EachRowOwnVector
<1>1. SafetyInv => EachRowOwnVector
  BY DEF SafetyInv
<1> QED
  BY <1>1, Safety, PTL

\* A non-zero uncached always means a full cache, clears included.
THEOREM RefusalsMeanFull == Spec => []TurnedAwayOnlyWhenFull
<1>1. SafetyInv => TurnedAwayOnlyWhenFull
  BY DEF SafetyInv
<1> QED
  BY <1>1, Safety, PTL

-----------------------------------------------------------------------------
(***************************************************************************)
(* Sleepers.  A key somebody sleeps for leaves IN_FLIGHT only in Release,  *)
(* and the thread that took it out is then on its way to wake everyone.    *)
(***************************************************************************)
Holding == {"recheck", "encode", "insert", "release"}

\* A step of t that wakes nobody: a holder stays one or is about to notify, and
\* only a thread that finds its key in flight goes to sleep.
WakesNobody(t) ==
  /\ \A u \in Threads \ {t} : pc'[u] = pc[u] /\ text'[u] = text[u]
  /\ pc[t] # "notify"
  /\ pc[t] \in Holding => text'[t] = text[t] /\ pc'[t] \in Holding \cup {"notify"}
  /\ pc'[t] = "waiting" => pc[t] = "begin" /\ text'[t] = text[t] /\ Key(t) \in inFlight

\* What a step does to those who sleep and those they sleep for.
LEMMA SleepFrame ==
  ASSUME TypeOK, [Next]_vars
  PROVE  \/ UNCHANGED <<pc, text>>
         \/ \E t \in Threads : WakesNobody(t) \/ NotifyAll(t)
<1>0. pc \in [Threads -> PCs] /\ text \in [Threads -> Texts \cup {None}]
  BY DEF TypeOK
<1> USE <1>0 DEF Goto, WakesNobody, Holding
<1>1. ASSUME NEW t \in Threads, Call(t)
      PROVE  WakesNobody(t)
  BY <1>1 DEF Call, CallEmbed, CallUncached, CallStats, CallClear, CallOther
<1>2. ASSUME NEW t \in Threads, LookupHit(t) \/ LookupFull(t) \/ LookupMiss(t)
      PROVE  WakesNobody(t)
  BY <1>2 DEF LookupHit, LookupFull, LookupMiss
<1>3. ASSUME NEW t \in Threads, BeginWait(t) \/ BeginFlight(t) \/ SpuriousWake(t)
      PROVE  WakesNobody(t)
  BY <1>3 DEF BeginWait, BeginFlight, SpuriousWake
<1>4. ASSUME NEW t \in Threads, RecheckFound(t) \/ RecheckAbsent(t) \/ InsertVector(t)
      PROVE  WakesNobody(t)
  BY <1>4 DEF RecheckFound, RecheckAbsent, InsertVector
<1>5. ASSUME NEW t \in Threads, EncodeInFlight(t) \/ EncodeAlone(t)
      PROVE  WakesNobody(t)
  BY <1>5 DEF EncodeInFlight, EncodeAlone, RunEncoder
<1>6. ASSUME NEW t \in Threads, Release(t) \/ Stats(t) \/ Clear(t)
      PROVE  WakesNobody(t)
  BY <1>6 DEF Release, Stats, Clear
<1>7. CASE Finished \/ UNCHANGED vars
  BY <1>7 DEF Finished, vars, flightVars
<1> QED
  BY <1>1, <1>2, <1>3, <1>4, <1>5, <1>6, <1>7 DEF Next, Proceed

\* Each step keeps somebody to wake those who sleep.
LEMMA SleepersStep == SafetyInv /\ SleepersAreWoken /\ [Next]_vars => SleepersAreWoken'
<1> SUFFICES ASSUME SafetyInv, SleepersAreWoken, [Next]_vars,
                    NEW s \in Threads, pc'[s] = "waiting"
             PROVE  \/ \E u \in Threads : pc'[u] = "notify"
                    \/ \E u \in Threads : pc'[u] \in Holding /\ Key(u)' = Key(s)'
  BY DEF SleepersAreWoken, At, Holders, Holding
<1>0. TypeOK /\ OneFlightPerKey
  BY DEF SafetyInv
<1>1. ASSUME pc[s] = "waiting"
      PROVE  \/ \E u \in Threads : pc[u] = "notify"
             \/ \E u \in Threads : pc[u] \in Holding /\ Key(u) = Key(s)
  BY <1>1 DEF SleepersAreWoken, At, Holders, Holding
<1>2. CASE UNCHANGED <<pc, text>>
  BY <1>1, <1>2 DEF Key
<1>3. ASSUME NEW t \in Threads, NotifyAll(t)
      PROVE  FALSE
  BY <1>0, <1>3 DEF NotifyAll, TypeOK
<1>4. ASSUME NEW t \in Threads, WakesNobody(t)
      PROVE  \/ \E u \in Threads : pc'[u] = "notify"
             \/ \E u \in Threads : pc'[u] \in Holding /\ Key(u)' = Key(s)'
  <2>1. text'[s] = text[s]
    BY <1>4 DEF WakesNobody
  <2>2. CASE s = t
    <3>1. Key(s) \in inFlight /\ pc[s] = "begin"
      BY <1>4, <2>2 DEF WakesNobody
    <3>2. PICK u \in Threads : pc[u] \in Holding /\ Key(u) = Key(s)
      BY <1>0, <3>1 DEF OneFlightPerKey, Holders, Holding
    <3>3. u # t
      BY <2>2, <3>1, <3>2 DEF Holding
    <3> QED
      BY <1>4, <2>1, <3>2, <3>3 DEF WakesNobody, Key
  <2>3. CASE s # t
    <3>1. pc[s] = "waiting"
      BY <1>4, <2>3 DEF WakesNobody
    <3>2. ASSUME NEW u \in Threads, pc[u] = "notify"
          PROVE  pc'[u] = "notify"
      BY <1>4, <3>2 DEF WakesNobody
    <3>3. ASSUME NEW u \in Threads, pc[u] \in Holding, Key(u) = Key(s)
          PROVE  pc'[u] \in Holding \cup {"notify"} /\ Key(u)' = Key(s)'
      BY <1>4, <2>1, <3>3 DEF WakesNobody, Key
    <3> QED
      BY <1>1, <3>1, <3>2, <3>3
  <2> QED
    BY <2>2, <2>3
<1> QED
  BY <1>0, <1>2, <1>3, <1>4, SleepFrame

\* No thread sleeps with nobody to wake it, for any number of threads and keys on
\* the one condition variable (Flight::begin and drop, lib.rs:80-100).
THEOREM SleepersAreNotForgotten == Spec => []SleepersAreWoken
<1>1. Init => SleepersAreWoken
  BY DEF Init, SleepersAreWoken, At
<1> QED
  BY <1>1, SleepersStep, Safety, PTL DEF Spec

-----------------------------------------------------------------------------
(***************************************************************************)
(* The engine implements the fill-once store, for every set of threads and *)
(* texts, every capacity, encoder and choice of operations: what callers   *)
(* see of SingleFlight is a memo that answers each row in one step.        *)
(*                                                                         *)
(* The mapping is that of SingleFlight.  Each step of a thread is shown to *)
(* be one action of the store, or to change nothing the store has, on the  *)
(* states of SafetyInv: EncodesOnlyAbsentKeys makes an insert an admission *)
(* and EachRowOwnVector makes what it returns the text's own.              *)
(***************************************************************************)

\* What the mapping makes of the cache and of each thread.
HeldTexts == {x \in Texts : CacheKey(x) \in Held}
StoreOf == [x \in {y \in Texts : CacheKey(y) \in Held} |-> entries[CacheKey(x)]]
AskedBy(t) == IF Asking(t) THEN text[t] ELSE None
AnswerOf(t) ==
  CASE Asking(t)                        -> None
    [] pc[t] \in {"bypass", "uncached"} -> Encoder[text[t]]
    [] OTHER                            -> result[t]
AskedOf == [t \in Threads |-> AskedBy(t)]
AnswersOf == [t \in Threads |-> AnswerOf(t)]

\* The store has as many texts as the cache has keys.
LEMMA StoreSize ==
  ASSUME TypeOK, IsFiniteSet(Held)
  PROVE  Cardinality(HeldTexts) = Cardinality(Held)
<1> DEFINE textOf == [key \in Held |-> key[2]]
<1>1. Held \subseteq {CacheKey(x) : x \in Texts}
  BY DEF TypeOK
<1>2. textOf \in [Held -> HeldTexts]
  BY <1>1 DEF CacheKey, HeldTexts
<1>3. \A a, b \in Held : textOf[a] = textOf[b] => a = b
  BY <1>1 DEF CacheKey
<1>4. \A x \in HeldTexts : \E key \in Held : textOf[key] = x
  <2> SUFFICES ASSUME NEW x \in HeldTexts
               PROVE  textOf[CacheKey(x)] = x /\ CacheKey(x) \in Held
    OBVIOUS
  <2> QED
    BY DEF HeldTexts, CacheKey
<1> HIDE DEF textOf
<1>5. textOf \in Bijection(Held, HeldTexts)
  BY <1>2, <1>3, <1>4, Fun_IsBij
<1> QED
  BY <1>5, FS_Bijection, Fun_ExistsBij

\* The cardinality the store's module speaks of is the cache's.
LEMMA StoreCardinality == \A S : Store!Cardinality(S) = Cardinality(S)
  BY DEF Store!Cardinality, Cardinality

\* The engine starts as the store does.
LEMMA RefinementInit == Init => Store!Init
  BY DEF Init, CacheInit, EmptyMap, Held, Asking, Store!Init

\* Nobody but t has changed anything the mapping looks at.
OthersKeep(t) ==
  \A u \in Threads \ {t} : AskedBy(u)' = AskedBy(u) /\ AnswerOf(u)' = AnswerOf(u)

\* A step that moves t alone and its text and result alone.
LEMMA MovesOne ==
  ASSUME TypeOK, NEW t \in Threads, NEW p, NEW x, NEW r,
         pc' = [pc EXCEPT ![t] = p],
         text' = text \/ text' = [text EXCEPT ![t] = x],
         result' = result \/ result' = [result EXCEPT ![t] = r]
  PROVE  /\ OthersKeep(t)
         /\ pc'[t] = p
         /\ text'[t] = text[t] \/ text'[t] = x
  BY DEF TypeOK, OthersKeep, AskedBy, AnswerOf, Asking

\* A step after which each thread asks and has been answered what it was before.
LEMMA Stutters ==
  ASSUME NEW t \in Threads, OthersKeep(t),
         AskedBy(t)' = AskedBy(t), AnswerOf(t)' = AnswerOf(t)
  PROVE  AskedOf' = AskedOf /\ AnswersOf' = AnswersOf
  BY DEF AskedOf, AnswersOf, OthersKeep

\* A step that settles the row t asks for.
LEMMA Settles ==
  ASSUME NEW t \in Threads, OthersKeep(t), NEW a,
         ~Asking(t)', AnswerOf(t)' = a
  PROVE  /\ AskedOf' = [AskedOf EXCEPT ![t] = None]
         /\ AnswersOf' = [AnswersOf EXCEPT ![t] = a]
  BY DEF AskedOf, AnswersOf, OthersKeep, AskedBy

\* A step that leaves the cache's contents alone leaves the store's.
LEMMA StoreKept ==
  ASSUME entries' = entries
  PROVE  StoreOf' = StoreOf
  BY DEF StoreOf, Held

-----------------------------------------------------------------------------
(***************************************************************************)
(* Each action of a thread, as the store sees it.                          *)
(***************************************************************************)
StoreStutters ==
  /\ StoreOf' = StoreOf /\ AskedOf' = AskedOf /\ AnswersOf' = AnswersOf
  /\ hits' = hits /\ uncached' = uncached

\* A thread that begins a call asks the store, or is answered around it.
LEMMA CallStep ==
  ASSUME SafetyInv, NEW t \in Threads, Call(t)
  PROVE  (\E x \in Texts : Store!Ask(t, x) \/ Store!AnswerUncached(t, x)) \/ StoreStutters
<1> USE DEF Goto, cacheVars
<1>0. TypeOK
  BY DEF SafetyInv
<1>1. ASSUME NEW x \in Texts, CallEmbed(t, x)
      PROVE  Store!Ask(t, x)
  <2>1. OthersKeep(t) /\ StoreOf' = StoreOf
    BY <1>0, <1>1, MovesOne, StoreKept DEF CallEmbed
  <2>2. AskedBy(t) = None /\ AskedBy(t)' = x /\ AnswerOf(t)' = None
    BY <1>0, <1>1 DEF CallEmbed, AskedBy, AnswerOf, Asking, TypeOK
  <2>3. /\ AskedOf[t] = None
        /\ AskedOf' = [AskedOf EXCEPT ![t] = x]
        /\ AnswersOf' = [AnswersOf EXCEPT ![t] = None]
    BY <2>1, <2>2 DEF AskedOf, AnswersOf, OthersKeep
  <2> QED
    BY <1>1, <2>1, <2>3 DEF CallEmbed, Store!Ask, AskedOf, AnswersOf, AskedBy, AnswerOf, StoreOf
<1>2. ASSUME NEW x \in Texts, CallUncached(t, x)
      PROVE  Store!AnswerUncached(t, x)
  <2>1. OthersKeep(t) /\ StoreOf' = StoreOf
    BY <1>0, <1>2, MovesOne, StoreKept DEF CallUncached
  <2>2. AskedBy(t) = None /\ AskedBy(t)' = None /\ AnswerOf(t)' = Encoder[x]
    BY <1>0, <1>2 DEF CallUncached, AskedBy, AnswerOf, Asking, TypeOK
  <2>3. /\ AskedOf[t] = None
        /\ AskedOf' = AskedOf
        /\ AnswersOf' = [AnswersOf EXCEPT ![t] = Encoder[x]]
    BY <2>1, <2>2 DEF AskedOf, AnswersOf, OthersKeep
  <2> QED
    BY <1>2, <2>1, <2>3 DEF CallUncached, Store!AnswerUncached, AskedOf, AnswersOf,
       AskedBy, AnswerOf, StoreOf
<1>3. ASSUME CallStats(t) \/ CallClear(t)
      PROVE  StoreStutters
  <2>1. OthersKeep(t) /\ StoreOf' = StoreOf
    BY <1>0, <1>3, MovesOne, StoreKept DEF CallStats, CallClear, CallOther
  <2>2. AskedBy(t)' = AskedBy(t) /\ AnswerOf(t)' = AnswerOf(t)
    BY <1>0, <1>3 DEF CallStats, CallClear, CallOther, AskedBy, AnswerOf, Asking, TypeOK
  <2> QED
    BY <1>3, <2>1, <2>2, Stutters DEF CallStats, CallClear, CallOther, StoreStutters
<1> QED
  BY <1>1, <1>2, <1>3 DEF Call

\* Steps that only bring a row nearer to its answer, or its caller nearer to
\* returning with it.
LEMMA QuietStep ==
  ASSUME SafetyInv, NEW t \in Threads,
         \/ LookupMiss(t) \/ BeginWait(t) \/ BeginFlight(t) \/ SpuriousWake(t)
         \/ RecheckAbsent(t) \/ EncodeAlone(t) \/ Release(t) \/ NotifyAll(t) \/ Stats(t)
  PROVE  StoreStutters
<1> USE DEF Goto, cacheVars
<1>0. TypeOK
  BY DEF SafetyInv
<1>1. CASE LookupMiss(t) \/ BeginWait(t) \/ BeginFlight(t) \/ SpuriousWake(t) \/ RecheckAbsent(t)
  <2>1. OthersKeep(t) /\ StoreOf' = StoreOf
    BY <1>0, <1>1, MovesOne, StoreKept
       DEF LookupMiss, GetMiss, BeginWait, BeginFlight, SpuriousWake, RecheckAbsent
  <2>2. AskedBy(t)' = AskedBy(t) /\ AnswerOf(t)' = AnswerOf(t)
    BY <1>0, <1>1 DEF LookupMiss, BeginWait, BeginFlight, SpuriousWake, RecheckAbsent,
       AskedBy, AnswerOf, Asking, TypeOK
  <2> QED
    BY <1>1, <2>1, <2>2, Stutters
       DEF LookupMiss, GetMiss, BeginWait, BeginFlight, SpuriousWake, RecheckAbsent, StoreStutters
<1>2. CASE EncodeAlone(t)
  <2>1. OthersKeep(t) /\ StoreOf' = StoreOf
    BY <1>0, <1>2, MovesOne, StoreKept DEF EncodeAlone, RunEncoder
  <2>2. AskedBy(t)' = AskedBy(t) /\ AnswerOf(t)' = AnswerOf(t)
    BY <1>0, <1>2 DEF EncodeAlone, RunEncoder, AskedBy, AnswerOf, Asking, TypeOK
  <2> QED
    BY <1>2, <2>1, <2>2, Stutters DEF EncodeAlone, RunEncoder, StoreStutters
<1>3. CASE Release(t) \/ Stats(t)
  <2>1. OthersKeep(t) /\ StoreOf' = StoreOf
    BY <1>0, <1>3, MovesOne, StoreKept DEF Release, Stats
  <2>2. AskedBy(t)' = AskedBy(t) /\ AnswerOf(t)' = AnswerOf(t)
    BY <1>0, <1>3 DEF Release, Stats, AskedBy, AnswerOf, Asking, TypeOK
  <2> QED
    BY <1>3, <2>1, <2>2, Stutters DEF Release, Stats, StoreStutters
<1>4. CASE NotifyAll(t)
  <2>1. \A u \in Threads : AskedBy(u)' = AskedBy(u) /\ AnswerOf(u)' = AnswerOf(u)
    BY <1>0, <1>4 DEF NotifyAll, AskedBy, AnswerOf, Asking, TypeOK
  <2> QED
    BY <1>4, <2>1, StoreKept DEF NotifyAll, StoreStutters, AskedOf, AnswersOf
<1> QED
  BY <1>1, <1>2, <1>3, <1>4

\* A hit at either look answers the row from the store.
LEMMA HitStep ==
  ASSUME SafetyInv, NEW t \in Threads, LookupHit(t) \/ RecheckFound(t)
  PROVE  Store!AnswerFromStore(t)
<1> USE DEF Goto, LookupHit, RecheckFound, GetHit, RecheckHit
<1>0. TypeOK
  BY DEF SafetyInv
<1>1. Asking(t) /\ text[t] \in Texts /\ Key(t) \in Held
  BY <1>0 DEF Asking, TypeOK
<1>2. OthersKeep(t) /\ StoreOf' = StoreOf /\ hits' = hits + 1 /\ uncached' = uncached
  BY <1>0, MovesOne, StoreKept
<1>3. ~Asking(t)' /\ AnswerOf(t)' = entries[Key(t)]
  BY <1>0 DEF Asking, AnswerOf, TypeOK
<1>4. AskedOf[t] = text[t] /\ text[t] \in DOMAIN StoreOf /\ StoreOf[text[t]] = entries[Key(t)]
  BY <1>1 DEF AskedOf, AskedBy, StoreOf, Key
<1>5. /\ AskedOf' = [AskedOf EXCEPT ![t] = None]
      /\ AnswersOf' = [AnswersOf EXCEPT ![t] = StoreOf[AskedOf[t]]]
  BY <1>2, <1>3, <1>4, Settles
<1> QED
  BY <1>2, <1>4, <1>5 DEF Store!AnswerFromStore, Store!Answer, AskedOf, AnswersOf,
     AskedBy, AnswerOf, StoreOf

\* A look that finds the cache full sends the row around it.
LEMMA BypassStep ==
  ASSUME SafetyInv, NEW t \in Threads, LookupFull(t)
  PROVE  Store!AnswerDeclined(t)
<1> USE DEF Goto, LookupFull, GetMiss, NoteUncached
<1>0. TypeOK /\ IsFiniteSet(Held)
  BY DEF SafetyInv, CapacityBound
<1>1. Asking(t) /\ text[t] \in Texts /\ Key(t) \notin Held
  BY <1>0 DEF Asking, TypeOK
<1>2. OthersKeep(t) /\ StoreOf' = StoreOf /\ hits' = hits /\ uncached' = uncached + 1
  BY <1>0, MovesOne, StoreKept
<1>3. ~Asking(t)' /\ AnswerOf(t)' = Encoder[text[t]]
  BY <1>0 DEF Asking, AnswerOf, TypeOK
<1>4. AskedOf[t] = text[t] /\ text[t] \in Texts \ DOMAIN StoreOf
  BY <1>1 DEF AskedOf, AskedBy, StoreOf, Key
<1>5. Store!Cardinality(DOMAIN StoreOf) >= Capacity
  BY <1>0, StoreSize, StoreCardinality DEF IsFull, StoreOf, HeldTexts
<1>6. /\ AskedOf' = [AskedOf EXCEPT ![t] = None]
      /\ AnswersOf' = [AnswersOf EXCEPT ![t] = Encoder[AskedOf[t]]]
  BY <1>2, <1>3, <1>4, Settles
<1> QED
  BY <1>2, <1>4, <1>5, <1>6 DEF Store!AnswerDeclined, Store!Missing, Store!Answer,
     AskedOf, AnswersOf, AskedBy, AnswerOf, StoreOf

\* A failed encode is its caller's alone; one that succeeds is not seen yet.
LEMMA EncodeStep ==
  ASSUME SafetyInv, NEW t \in Threads, EncodeInFlight(t)
  PROVE  Store!AnswerFailed(t) \/ StoreStutters
<1> USE DEF Goto, EncodeInFlight, RunEncoder, cacheVars
<1>0. TypeOK
  BY DEF SafetyInv
<1>1. Asking(t) /\ text[t] \in Texts /\ Key(t) \notin Held
  BY <1>0 DEF SafetyInv, EncodesOnlyAbsentKeys, At, Asking, TypeOK
<1>2. OthersKeep(t) /\ StoreOf' = StoreOf /\ hits' = hits /\ uncached' = uncached
  BY <1>0, MovesOne, StoreKept
<1>3. CASE Encoder[text[t]] = Failure
  <2>1. ~Asking(t)' /\ AnswerOf(t)' = Failure
    BY <1>0, <1>3 DEF Asking, AnswerOf, TypeOK
  <2>2. AskedOf[t] = text[t] /\ text[t] \in Texts \ DOMAIN StoreOf
    BY <1>1 DEF AskedOf, AskedBy, StoreOf, Key
  <2>3. /\ AskedOf' = [AskedOf EXCEPT ![t] = None]
        /\ AnswersOf' = [AnswersOf EXCEPT ![t] = Failure]
    BY <1>2, <2>1, Settles
  <2> QED
    BY <1>2, <1>3, <2>2, <2>3 DEF Store!AnswerFailed, Store!Missing, Store!Answer,
       AskedOf, AnswersOf, AskedBy, AnswerOf, StoreOf
<1>4. CASE Encoder[text[t]] # Failure
  <2>1. AskedBy(t)' = AskedBy(t) /\ AnswerOf(t)' = AnswerOf(t)
    BY <1>0, <1>4 DEF Asking, AskedBy, AnswerOf, TypeOK
  <2> QED
    BY <1>2, <2>1, Stutters DEF StoreStutters
<1> QED
  BY <1>3, <1>4

\* The insert admits the vector, or finds that the cache has filled meanwhile.
LEMMA InsertStep ==
  ASSUME SafetyInv, NEW t \in Threads, InsertVector(t)
  PROVE  Store!AnswerAndAdmit(t) \/ Store!AnswerDeclined(t)
<1> USE DEF Goto
<1>0. TypeOK /\ IsFiniteSet(Held)
  BY DEF SafetyInv, CapacityBound
<1>1. Asking(t) /\ text[t] \in Texts /\ Key(t) \notin Held /\ result[t] \in Vectors
  BY <1>0 DEF InsertVector, SafetyInv, EncodesOnlyAbsentKeys, InsertsVectors, At, Asking, TypeOK
<1>2. result[t] = Encoder[text[t]] /\ Encoder[text[t]] # Failure
  BY <1>1, FailureAssumption DEF SafetyInv, EachRowOwnVector
<1>3. OthersKeep(t) /\ hits' = hits
  BY <1>0, MovesOne DEF InsertVector, Insert
<1>4. ~Asking(t)' /\ AnswerOf(t)' = Encoder[text[t]]
  BY <1>0, <1>2 DEF InsertVector, Asking, AnswerOf, TypeOK
<1>5. AskedOf[t] = text[t] /\ text[t] \in Texts \ DOMAIN StoreOf
  BY <1>1 DEF AskedOf, AskedBy, StoreOf, Key
<1>6. /\ AskedOf' = [AskedOf EXCEPT ![t] = None]
      /\ AnswersOf' = [AnswersOf EXCEPT ![t] = Encoder[AskedOf[t]]]
  BY <1>3, <1>4, <1>5, Settles
<1>7. CASE IsFull /\ uncached' = uncached + 1 /\ entries' = entries
  <2>1. StoreOf' = StoreOf
    BY <1>7, StoreKept
  <2>2. Store!Cardinality(DOMAIN StoreOf) >= Capacity
    BY <1>0, <1>7, StoreSize, StoreCardinality DEF IsFull, StoreOf, HeldTexts
  <2> QED
    BY <1>3, <1>5, <1>6, <1>7, <2>1, <2>2 DEF Store!AnswerDeclined, Store!Missing,
       Store!Answer, AskedOf, AnswersOf, AskedBy, AnswerOf, StoreOf
<1>8. CASE ~IsFull /\ uncached' = uncached /\ entries' = With(entries, Key(t), result[t])
  <2>1. Store!Cardinality(DOMAIN StoreOf) < Capacity
    <3>1. Cardinality(Held) \in Nat /\ Cardinality(DOMAIN StoreOf) = Cardinality(Held)
      BY <1>0, StoreSize, FS_CardinalityType DEF StoreOf, HeldTexts
    <3> QED
      BY <1>8, <3>1, StoreCardinality, CapacityAssumption DEF IsFull
  <2>2. StoreOf' = [x \in DOMAIN StoreOf \cup {AskedOf[t]} |-> Encoder[x]]
    <3>1. \A x \in Texts : CacheKey(x) \in Held' <=> x = text[t] \/ CacheKey(x) \in Held
      BY <1>8, KeyInjective DEF With, Held, Key
    <3>2. \A x \in Texts : CacheKey(x) \in Held => entries[CacheKey(x)] = Encoder[x]
      BY DEF SafetyInv, EachRowOwnVector
    <3>3. \A x \in Texts : CacheKey(x) \in Held' => entries'[CacheKey(x)] = Encoder[x]
      BY <1>2, <1>8, <3>1, <3>2, KeyInjective DEF With, Held, Key
    <3>4. {x \in Texts : CacheKey(x) \in Held'} = {x \in Texts : CacheKey(x) \in Held} \cup {text[t]}
      BY <1>1, <3>1
    <3>5. StoreOf' = [x \in {y \in Texts : CacheKey(y) \in Held'} |-> Encoder[x]]
      BY <3>3 DEF StoreOf, CacheKey
    <3>6. DOMAIN StoreOf = {x \in Texts : CacheKey(x) \in Held}
      BY DEF StoreOf
    <3> QED
      BY <1>5, <3>4, <3>5, <3>6
  <2> QED
    BY <1>2, <1>3, <1>5, <1>6, <1>8, <2>1, <2>2 DEF Store!AnswerAndAdmit, Store!Missing,
       Store!Answer, AskedOf, AnswersOf, AskedBy, AnswerOf, StoreOf
<1> QED
  BY <1>1, <1>7, <1>8 DEF InsertVector, Insert

\* The store is cleared where the cache is, after ENCODED.
LEMMA ClearStep ==
  ASSUME SafetyInv, NEW t \in Threads, Clear(t)
  PROVE  Store!ClearAll \/ StoreStutters
<1> USE DEF Goto, cacheVars
<1>0. TypeOK
  BY DEF SafetyInv
<1>1. OthersKeep(t)
  BY <1>0, MovesOne DEF Clear
<1>2. AskedBy(t)' = AskedBy(t) /\ AnswerOf(t)' = AnswerOf(t)
  BY <1>0 DEF Clear, AskedBy, AnswerOf, Asking, TypeOK
<1>3. AskedOf' = AskedOf /\ AnswersOf' = AnswersOf
  BY <1>1, <1>2, Stutters
<1>4. CASE UNCHANGED cacheVars
  BY <1>3, <1>4, StoreKept DEF StoreStutters
<1>5. CASE ClearCache
  <2>1. Held' = {}
    BY <1>5 DEF ClearCache, EmptyMap, Held
  <2>2. StoreOf' = [x \in {} |-> x]
    BY <2>1 DEF StoreOf
  <2> QED
    BY <1>3, <1>5, <2>2 DEF ClearCache, Store!ClearAll, AskedOf, AnswersOf, AskedBy,
       AnswerOf, StoreOf
<1> QED
  BY <1>4, <1>5 DEF Clear

-----------------------------------------------------------------------------
\* Each step of the engine is one of the store, or none.
LEMMA RefinementStep == SafetyInv /\ [Next]_vars => [Store!Next]_(Store!vars)
<1> SUFFICES ASSUME SafetyInv, [Next]_vars
             PROVE  Store!Next \/ UNCHANGED Store!vars
  OBVIOUS
<1>1. StoreStutters => UNCHANGED Store!vars
  BY DEF StoreStutters, Store!vars, StoreOf, AskedOf, AnswersOf, AskedBy, AnswerOf
<1>2. ASSUME NEW t \in Threads, Call(t)
      PROVE  Store!Next \/ StoreStutters
  BY <1>2, CallStep DEF Store!Next
<1>3. ASSUME NEW t \in Threads, Proceed(t) \/ SpuriousWake(t)
      PROVE  Store!Next \/ StoreStutters
  <2>1. CASE LookupMiss(t) \/ BeginWait(t) \/ BeginFlight(t) \/ SpuriousWake(t)
             \/ RecheckAbsent(t) \/ EncodeAlone(t) \/ Release(t) \/ NotifyAll(t) \/ Stats(t)
    BY <2>1, QuietStep
  <2>2. CASE LookupHit(t) \/ RecheckFound(t)
    BY <2>2, HitStep DEF Store!Next
  <2>3. CASE LookupFull(t)
    BY <2>3, BypassStep DEF Store!Next
  <2>4. CASE EncodeInFlight(t)
    BY <2>4, EncodeStep DEF Store!Next
  <2>5. CASE InsertVector(t)
    BY <2>5, InsertStep DEF Store!Next
  <2>6. CASE Clear(t)
    BY <2>6, ClearStep DEF Store!Next
  <2> QED
    BY <1>3, <2>1, <2>2, <2>3, <2>4, <2>5, <2>6 DEF Proceed
<1>4. CASE UNCHANGED vars
  <2>1. entries' = entries /\ hits' = hits /\ uncached' = uncached
        /\ pc' = pc /\ text' = text /\ result' = result
    BY <1>4 DEF vars, cacheVars, flightVars
  <2>2. \A t \in Threads : AskedBy(t)' = AskedBy(t) /\ AnswerOf(t)' = AnswerOf(t)
    BY <2>1 DEF AskedBy, AnswerOf, Asking
  <2> QED
    BY <1>1, <2>1, <2>2, StoreKept DEF StoreStutters, AskedOf, AnswersOf
<1> QED
  BY <1>1, <1>2, <1>3, <1>4 DEF Next, Finished

\* Concurrent callers cannot tell the engine from the atomic store, whatever the
\* threads, the texts, the encoder, the capacity and the operations they call
\* (lib.rs:7-27).
THEOREM EngineImplementsStore == Spec => ImplementsStore
<1>1. Init => Store!Init
  BY RefinementInit
<1>2. SafetyInv /\ [Next]_vars => [Store!Next]_(Store!vars)
  BY RefinementStep
<1> QED
  BY <1>1, <1>2, Safety, PTL DEF Spec, ImplementsStore, Store!Spec

=============================================================================

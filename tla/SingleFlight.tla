---------------------------- MODULE SingleFlight ----------------------------
(***************************************************************************)
(* The engine of crates/subtoken-core/src/lib.rs: DuckDB worker threads    *)
(* calling embed, embed_uncached, stats and clear_cache on process-global  *)
(* state.  Three pieces of that state are shared and none of them is       *)
(* locked together with another: the cache (CACHE, one mutex), the set of  *)
(* keys being embedded (IN_FLIGHT, one mutex and one condition variable    *)
(* for every key) and the count of finished encoder runs (ENCODED, an      *)
(* atomic).  A step here is one critical section or one atomic operation,  *)
(* and threads interleave between them.                                    *)
(*                                                                         *)
(* The encoder itself is external: a function from the text to its vector, *)
(* or to Failure for a text whose encode returns Err or panics.  Both      *)
(* leave the function by the same road, because Flight is released by Drop *)
(* and exec_trampoline catches the unwind.  The bundled model is taken as  *)
(* loaded, and the digest of cache_key as collision free.                  *)
(***************************************************************************)
EXTENDS EmbeddingCache

CONSTANTS
  Threads,              \* DuckDB worker threads
  Texts,                \* the distinct strings rows hold
  Vectors,              \* what the encoder can return
  Encoder,              \* Encoder[x]: the vector of text x, or Failure
  Failure,              \* an encode that returned Err or panicked
  None,                 \* no text asked, or no result yet
  ModelKey,             \* the loaded model's content address
  Operations,           \* which entry points the threads call
  MaxRows,              \* bound: embed calls in a behaviour
  MaxOthers             \* bound: calls of the other entry points

AllOperations == {"embed", "embed_uncached", "stats", "clear_cache"}

ASSUME EncoderAssumption == Encoder \in [Texts -> Vectors \cup {Failure}]
ASSUME FailureAssumption ==
  /\ Failure \notin Vectors
  /\ None \notin Texts \cup Vectors \cup {Failure}
ASSUME OperationsAssumption == Operations \subseteq AllOperations

VARIABLES
  inFlight,             \* IN_FLIGHT: keys some thread has the right to embed
  encoded,              \* ENCODED: finished encoder runs since the last clear
  pc,                   \* pc[t]: where thread t is; "idle" between calls
  text,                 \* text[t]: the argument of t's latest embed call
  result,               \* result[t]: the vector (or Failure) t's call has in hand
  report,               \* report[t]: what t's latest stats call has read so far
  rows,                 \* embed calls started, which is rows asked for
  others                \* other calls started

flightVars == <<inFlight, encoded, pc, text, result, report, rows, others>>
vars == <<cacheVars, flightVars>>

\* Mutant: a key that leaves the text out.
CacheKeyOfModel(x) == <<ModelKey>>

CacheKey(x) == <<ModelKey, x>>
Key(t) == CacheKey(text[t])

Reports ==
  [hits : Nat, misses : Nat, uncached : Nat, entries : Nat, encoded : Nat]

NoReport ==
  [hits |-> 0, misses |-> 0, uncached |-> 0, entries |-> 0, encoded |-> 0]

(***************************************************************************)
(* The program points of the four entry points.                            *)
(***************************************************************************)
PCs == {"idle",
        "lookup",       \* embed: before the first critical section
        "bypass",       \* embed: the cache was full, encode without a flight
        "begin",        \* Flight::begin: about to lock IN_FLIGHT
        "waiting",      \* Flight::begin: asleep on the condition variable
        "recheck",      \* embed: holds the flight, about to look again
        "encode",       \* embed: holds the flight, about to encode
        "insert",       \* embed: encoded, about to lock the cache again
        "release",      \* Flight::drop: about to take the key out
        "notify",       \* Flight::drop: about to call notify_all
        "uncached",     \* embed_uncached: about to encode
        "stats",        \* stats: about to read the cache's counters
        "stats_encoded",\* stats: about to load ENCODED
        "clear",        \* clear_cache: about to store 0 in ENCODED
        "clear_cache"}  \* clear_cache: about to clear the cache

At(p) == {t \in Threads : pc[t] = p}

\* A thread holds the flight of its key from Flight::begin to the first half of drop.
Holders == {t \in Threads : pc[t] \in {"recheck", "encode", "insert", "release"}}

Init ==
  /\ CacheInit
  /\ inFlight = {}
  /\ encoded = 0
  /\ pc = [t \in Threads |-> "idle"]
  /\ text = [t \in Threads |-> None]
  /\ result = [t \in Threads |-> None]
  /\ report = [t \in Threads |-> NoReport]
  /\ rows = 0
  /\ others = 0

Goto(t, p) == pc' = [pc EXCEPT ![t] = p]

-----------------------------------------------------------------------------
(***************************************************************************)
(* Calls.  A worker thread makes one call at a time; which, and with what  *)
(* text, is DuckDB's choice.                                               *)
(***************************************************************************)
CallEmbed(t, x) ==
  /\ pc[t] = "idle"
  /\ "embed" \in Operations
  /\ rows < MaxRows
  /\ rows' = rows + 1
  /\ text' = [text EXCEPT ![t] = x]
  /\ result' = [result EXCEPT ![t] = None]
  /\ Goto(t, "lookup")
  /\ UNCHANGED <<cacheVars, inFlight, encoded, report, others>>

CallUncached(t, x) ==
  /\ pc[t] = "idle"
  /\ "embed_uncached" \in Operations
  /\ others < MaxOthers
  /\ others' = others + 1
  /\ text' = [text EXCEPT ![t] = x]
  /\ result' = [result EXCEPT ![t] = None]
  /\ Goto(t, "uncached")
  /\ UNCHANGED <<cacheVars, inFlight, encoded, report, rows>>

CallOther(t, operation, p) ==
  /\ pc[t] = "idle"
  /\ operation \in Operations
  /\ others < MaxOthers
  /\ others' = others + 1
  /\ Goto(t, p)
  /\ UNCHANGED <<cacheVars, inFlight, encoded, text, result, report, rows>>

CallStats(t) == CallOther(t, "stats", "stats")
CallClear(t) == CallOther(t, "clear_cache", "clear")

-----------------------------------------------------------------------------
(***************************************************************************)
(* embed.  The first critical section looks the key up and, on a miss,     *)
(* asks whether the cache is full; only a miss with room left coordinates. *)
(***************************************************************************)
LookupHit(t) ==
  /\ pc[t] = "lookup"
  /\ GetHit(Key(t))
  /\ result' = [result EXCEPT ![t] = entries[Key(t)]]
  /\ Goto(t, "idle")
  /\ UNCHANGED <<inFlight, encoded, text, report, rows, others>>

\* Mutant: a row that goes around the full cache is not counted.
LookupFullUncounted(t) ==
  /\ pc[t] = "lookup"
  /\ GetMiss(Key(t))
  /\ IsFull
  /\ UNCHANGED uncached
  /\ Goto(t, "bypass")
  /\ UNCHANGED <<inFlight, encoded, text, result, report, rows, others>>

LookupFull(t) ==
  /\ pc[t] = "lookup"
  /\ GetMiss(Key(t))
  /\ IsFull
  /\ NoteUncached
  /\ Goto(t, "bypass")
  /\ UNCHANGED <<inFlight, encoded, text, result, report, rows, others>>

LookupMiss(t) ==
  /\ pc[t] = "lookup"
  /\ GetMiss(Key(t))
  /\ ~IsFull
  /\ UNCHANGED uncached
  /\ Goto(t, "begin")
  /\ UNCHANGED <<inFlight, encoded, text, result, report, rows, others>>

(***************************************************************************)
(* Flight::begin.  Testing the key and going to sleep are one step,        *)
(* because Condvar::wait releases the mutex atomically.  A woken thread    *)
(* goes back to "begin" to take the mutex and test again; it may also wake *)
(* for no reason.                                                          *)
(***************************************************************************)
BeginWait(t) ==
  /\ pc[t] = "begin"
  /\ Key(t) \in inFlight
  /\ Goto(t, "waiting")
  /\ UNCHANGED <<cacheVars, inFlight, encoded, text, result, report, rows, others>>

\* Mutant: a thread that reaches Flight::begin after the holder released takes
\* its flight to be the first and encodes without looking again.
BeginFlightToEncode(t) ==
  /\ pc[t] = "begin"
  /\ Key(t) \notin inFlight
  /\ inFlight' = inFlight \cup {Key(t)}
  /\ Goto(t, "encode")
  /\ UNCHANGED <<cacheVars, encoded, text, result, report, rows, others>>

\* Mutant: if in place of while, so a woken thread does not test again.
BeginFlightUntested(t) ==
  /\ pc[t] = "begin"
  /\ inFlight' = inFlight \cup {Key(t)}
  /\ Goto(t, "recheck")
  /\ UNCHANGED <<cacheVars, encoded, text, result, report, rows, others>>

BeginFlight(t) ==
  /\ pc[t] = "begin"
  /\ Key(t) \notin inFlight
  /\ inFlight' = inFlight \cup {Key(t)}
  /\ Goto(t, "recheck")
  /\ UNCHANGED <<cacheVars, encoded, text, result, report, rows, others>>

SpuriousWake(t) ==
  /\ pc[t] = "waiting"
  /\ Goto(t, "begin")
  /\ UNCHANGED <<cacheVars, inFlight, encoded, text, result, report, rows, others>>

(***************************************************************************)
(* The second look, under the flight and under a lock of its own.          *)
(***************************************************************************)
RecheckFound(t) ==
  /\ pc[t] = "recheck"
  /\ RecheckHit(Key(t))
  /\ result' = [result EXCEPT ![t] = entries[Key(t)]]
  /\ Goto(t, "release")
  /\ UNCHANGED <<inFlight, encoded, text, report, rows, others>>

RecheckAbsent(t) ==
  /\ pc[t] = "recheck"
  /\ Key(t) \notin Held
  /\ Goto(t, "encode")
  /\ UNCHANGED <<cacheVars, inFlight, encoded, text, result, report, rows, others>>

(***************************************************************************)
(* encode and embed_uncached: run the encoder, then count the run if it    *)
(* finished.  An encode that fails drops the flight and leaves the cache   *)
(* alone.                                                                  *)
(***************************************************************************)
RunEncoder(t) ==
  /\ result' = [result EXCEPT ![t] = Encoder[text[t]]]
  /\ encoded' = IF Encoder[text[t]] = Failure THEN encoded ELSE encoded + 1
  /\ UNCHANGED <<cacheVars, inFlight, text, report, rows, others>>

EncodeInFlight(t) ==
  /\ pc[t] = "encode"
  /\ RunEncoder(t)
  /\ Goto(t, IF Encoder[text[t]] = Failure THEN "release" ELSE "insert")

EncodeAlone(t) ==
  /\ pc[t] \in {"bypass", "uncached"}
  /\ RunEncoder(t)
  /\ Goto(t, "idle")

InsertVector(t) ==
  /\ pc[t] = "insert"
  /\ Insert(Key(t), result[t])
  /\ Goto(t, "release")
  /\ UNCHANGED <<inFlight, encoded, text, result, report, rows, others>>

(***************************************************************************)
(* Flight::drop: the key is taken out under the mutex; every waiter, on    *)
(* whatever key, is woken after the mutex is released.                     *)
(***************************************************************************)
Release(t) ==
  /\ pc[t] = "release"
  /\ inFlight' = inFlight \ {Key(t)}
  /\ Goto(t, "notify")
  /\ UNCHANGED <<cacheVars, encoded, text, result, report, rows, others>>

\* Mutant: the waiters are woken by an explicit call, which an encode that failed
\* skips, in place of Drop.
NotifyAfterSuccess(t) ==
  /\ pc[t] = "notify"
  /\ pc' = [u \in Threads |->
              CASE u = t                                    -> "idle"
                [] pc[u] = "waiting" /\ result[t] # Failure -> "begin"
                [] OTHER                                    -> pc[u]]
  /\ UNCHANGED <<cacheVars, inFlight, encoded, text, result, report, rows, others>>

NotifyAll(t) ==
  /\ pc[t] = "notify"
  /\ pc' = [u \in Threads |-> CASE u = t             -> "idle"
                                [] pc[u] = "waiting" -> "begin"
                                [] OTHER             -> pc[u]]
  /\ UNCHANGED <<cacheVars, inFlight, encoded, text, result, report, rows, others>>

-----------------------------------------------------------------------------
(***************************************************************************)
(* stats: the cache's counters under its lock, then ENCODED.               *)
(***************************************************************************)
\* Mutant: ENCODED is loaded before the cache's counters.
StatsEncodedFirst(t) ==
  \/ /\ pc[t] = "stats"
     /\ report' = [report EXCEPT ![t].encoded = encoded]
     /\ Goto(t, "stats_encoded")
     /\ UNCHANGED <<cacheVars, inFlight, encoded, text, result, rows, others>>
  \/ /\ pc[t] = "stats_encoded"
     /\ report' = [report EXCEPT ![t] = [hits |-> hits, misses |-> misses,
                                         uncached |-> uncached,
                                         entries |-> Cardinality(Held),
                                         encoded |-> @.encoded]]
     /\ Goto(t, "idle")
     /\ UNCHANGED <<cacheVars, inFlight, encoded, text, result, rows, others>>

Stats(t) ==
  \/ /\ pc[t] = "stats"
     /\ report' = [report EXCEPT ![t] = [hits |-> hits, misses |-> misses,
                                         uncached |-> uncached,
                                         entries |-> Cardinality(Held),
                                         encoded |-> 0]]
     /\ Goto(t, "stats_encoded")
     /\ UNCHANGED <<cacheVars, inFlight, encoded, text, result, rows, others>>
  \/ /\ pc[t] = "stats_encoded"
     /\ report' = [report EXCEPT ![t].encoded = encoded]
     /\ Goto(t, "idle")
     /\ UNCHANGED <<cacheVars, inFlight, encoded, text, result, rows, others>>

(***************************************************************************)
(* clear_cache: 0 into ENCODED, then the cache under its lock.             *)
(***************************************************************************)
Clear(t) ==
  \/ /\ pc[t] = "clear"
     /\ encoded' = 0
     /\ Goto(t, "clear_cache")
     /\ UNCHANGED <<cacheVars, inFlight, text, result, report, rows, others>>
  \/ /\ pc[t] = "clear_cache"
     /\ ClearCache
     /\ Goto(t, "idle")
     /\ UNCHANGED <<inFlight, encoded, text, result, report, rows, others>>

-----------------------------------------------------------------------------
Call(t) ==
  \/ \E x \in Texts : CallEmbed(t, x) \/ CallUncached(t, x)
  \/ CallStats(t)
  \/ CallClear(t)

\* What thread t does on its own once it is inside a call and not asleep.
Proceed(t) ==
  \/ LookupHit(t) \/ LookupFull(t) \/ LookupMiss(t)
  \/ BeginWait(t) \/ BeginFlight(t)
  \/ RecheckFound(t) \/ RecheckAbsent(t)
  \/ EncodeInFlight(t) \/ EncodeAlone(t)
  \/ InsertVector(t)
  \/ Release(t) \/ NotifyAll(t)
  \/ Stats(t)
  \/ Clear(t)

\* Every call has returned and the bounds allow no further one.
Finished ==
  /\ \A t \in Threads : pc[t] = "idle"
  /\ "embed" \in Operations => rows >= MaxRows
  /\ Operations # {"embed"} => others >= MaxOthers
  /\ UNCHANGED vars

Next ==
  \/ \E t \in Threads : Call(t) \/ Proceed(t) \/ SpuriousWake(t)
  \/ Finished

Spec == Init /\ [][Next]_vars

\* A running thread is scheduled again and a free mutex is granted in the end.
\* Nothing obliges DuckDB to call, or a condition variable to wake spuriously.
FairSpec == Spec /\ \A t \in Threads : WF_vars(Proceed(t))

-----------------------------------------------------------------------------
(***************************************************************************)
(* Properties.                                                             *)
(***************************************************************************)

\* The type of every variable: the cache is a function from the keys of texts
\* to vectors (never to a failure), the counters are naturals even where
\* recheck subtracts, and a thread inside an embed has a text.
TypeOK ==
  /\ Held \subseteq {CacheKey(x) : x \in Texts}
  /\ entries \in [Held -> Vectors]
  /\ hits \in Nat /\ misses \in Nat /\ uncached \in Nat /\ encoded \in Nat
  /\ inFlight \subseteq {CacheKey(x) : x \in Texts}
  /\ pc \in [Threads -> PCs]
  /\ text \in [Threads -> Texts \cup {None}]
  /\ \A t \in Threads :
       pc[t] \notin {"idle", "stats", "stats_encoded", "clear", "clear_cache"}
         => text[t] \in Texts
  /\ result \in [Threads -> Vectors \cup {Failure, None}]
  /\ report \in [Threads -> Reports]
  /\ rows \in Nat
  /\ others \in Nat

\* Mutual exclusion per key (struct Flight): no two threads hold the flight of
\* one key, and IN_FLIGHT is exactly the keys of the holders, so a flight is
\* never lost or left behind by an error, a panic or a hit on the recheck.
OneFlightPerKey ==
  /\ inFlight = {Key(t) : t \in Holders}
  /\ \A t, u \in Holders : Key(t) = Key(u) => t = u

\* "Two threads asking for the same text at the same time produce one encode,
\* not two" (lib.rs:19), at its strongest: a thread that holds the flight and
\* is encoding, or has encoded and not yet stored, works on a key the cache
\* does not hold, whoever else missed, slept, stored or cleared in between.
EncodesOnlyAbsentKeys ==
  \A t \in At("encode") \cup At("insert") : Key(t) \notin Held

\* The bound is a ceiling although is_full and insert are asked in different
\* critical sections, with other threads storing in between.
CapacityBound == IsFiniteSet(Held) /\ Cardinality(Held) <= Capacity

\* A row gets the vector of its own text, whichever thread computed it and
\* whichever of the four ways it was answered; a stored vector is the vector
\* of its key.
EachRowOwnVector ==
  /\ \A t \in Threads : result[t] # None => result[t] = Encoder[text[t]]
  /\ \A x \in Texts : CacheKey(x) \in Held => entries[CacheKey(x)] = Encoder[x]

\* uncached is non-zero only while the cache is full (cache.rs:294), even
\* though the two places that count it read fullness in different sections and
\* clear_cache may come between a miss and its insert.
TurnedAwayOnlyWhenFull == uncached > 0 => IsFull

\* What insert is handed is a vector: an encode that failed has left already.
InsertsVectors == \A t \in At("insert") : result[t] \in Vectors

\* The inductive invariant behind the five properties above.
SafetyInv ==
  /\ TypeOK
  /\ OneFlightPerKey
  /\ EncodesOnlyAbsentKeys
  /\ CapacityBound
  /\ EachRowOwnVector
  /\ InsertsVectors
  /\ TurnedAwayOnlyWhenFull

-----------------------------------------------------------------------------
(***************************************************************************)
(* What the counters say of one another between two clears, for threads    *)
(* that only embed and read the counters.                                  *)
(***************************************************************************)
Undisturbed == Operations \subseteq {"embed", "stats"}

\* hits + misses is the number of rows looked up (cache.rs:341-344): a row that
\* missed, waited and was answered by another thread's encode counts once.
RowsAccounted ==
  Undisturbed => hits + misses = rows - Cardinality(At("lookup"))

\* One encode per distinct value: when every encode succeeds, the finished
\* runs are one for each vector held or about to be stored and one for each
\* row turned away, so with uncached 0 and every call returned encoded is the
\* number of distinct values (README.md:176-177, test/sql/09).
EncodesAccounted ==
  Undisturbed /\ (\A x \in Texts : Encoder[x] # Failure) =>
    encoded + Cardinality(At("bypass")) =
      Cardinality(Held) + Cardinality(At("insert")) + uncached

\* "uncached 0 means the column fitted" (README.md:176): then every value a
\* returned call embedded is held, so a repeat of the query encodes nothing.
FittedColumnIsHeld ==
  Undisturbed /\ uncached = 0 =>
    \A t \in At("idle") : result[t] \in Vectors => Key(t) \in Held

\* A report whose two halves were read at different times is still coherent:
\* every vector it says is held has been counted as encoded.
ReportsCoherent ==
  Undisturbed =>
    \A t \in Threads \ At("stats_encoded") :
      report[t].entries <= report[t].encoded

-----------------------------------------------------------------------------
(***************************************************************************)
(* A statement of the documentation that concurrent calls break.           *)
(***************************************************************************)

\* README.md:174-177, after subtoken_cache_clear(): with uncached 0, encoded is
\* one per distinct value embedded since.
EncodedIsOnePerDistinctValue ==
  (\A t \in Threads : pc[t] = "idle") /\ uncached = 0
    => encoded = Cardinality(Held)

-----------------------------------------------------------------------------
(***************************************************************************)
(* The refinement.  A row is answered where its vector is settled: at a    *)
(* hit of either look, at the insert, at a failed encode, and, for a row   *)
(* that goes around the cache, at the look that sent it there (the encoder *)
(* is a function, so what it will return is known).                        *)
(***************************************************************************)
Asking(t) ==
  pc[t] \in {"lookup", "begin", "waiting", "recheck", "encode", "insert"}

Store == INSTANCE FillOnceStore WITH
  store    <- [x \in {y \in Texts : CacheKey(y) \in Held} |-> entries[CacheKey(x)]],
  asked    <- [t \in Threads |-> IF Asking(t) THEN text[t] ELSE None],
  answer   <- [t \in Threads |->
                 CASE Asking(t)                        -> None
                   [] pc[t] \in {"bypass", "uncached"} -> Encoder[text[t]]
                   [] OTHER                            -> result[t]],
  declined <- uncached

\* The engine implements the abstract store: concurrent callers cannot tell it
\* from a memo that answers each row at once.
ImplementsStore == Store!Spec

-----------------------------------------------------------------------------
\* No sleeper is forgotten (Flight::begin, Flight::drop), whatever key it sleeps
\* for and however the encode it waits for ends: another thread has yet to
\* release that key, or is past the release and about to wake everyone.  This is
\* what of EveryCallReturns every single state shows.
SleepersAreWoken ==
  \A t \in At("waiting") :
    At("notify") # {} \/ \E u \in Holders : Key(u) = Key(t)

\* No call is stranded: neither a holder that releases between a waiter's test
\* and its sleep, nor a wake-up meant for another key, nor a failed encode leaves
\* a thread asleep.
EveryCallReturns == \A t \in Threads : pc[t] # "idle" ~> pc[t] = "idle"

=============================================================================

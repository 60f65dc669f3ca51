--------------------------- MODULE AccountingProofs ---------------------------
(***************************************************************************)
(* What the counters say of one another between two clears, for every set  *)
(* of threads and texts, every capacity and encoder.                       *)
(*                                                                         *)
(* Each step is first reduced to what it adds to each counter and to the   *)
(* number of threads at each point that matters (StepCounts).  What the    *)
(* properties then need is arithmetic, and two facts a counter alone does  *)
(* not have: that a thread about to look again has been counted as a miss  *)
(* which is still there, and that nothing encoded is lost on its way to    *)
(* the cache.                                                              *)
(***************************************************************************)
EXTENDS SingleFlightProofs

In(points) == {t \in Threads : pc[t] \in points}

Looking == In({"lookup"})
Missed == In({"begin", "waiting", "recheck"})
Bypassing == In({"bypass"})
Storing == In({"insert"})

\* Threads that only embed and report stay at the points of the two.
OnlyEmbeds ==
  /\ In({"uncached", "clear", "clear_cache"}) = {}
  /\ IsFiniteSet(Looking) /\ IsFiniteSet(Missed)
  /\ IsFiniteSet(Bypassing) /\ IsFiniteSet(Storing)

\* The four numbers of threads.
L == Cardinality(Looking)
M == Cardinality(Missed)
B == Cardinality(Bypassing)
I == Cardinality(Storing)

\* What gaining or losing one member adds to a number of threads.
Adds(S, T, t) ==
  IF t \in S THEN (IF t \in T THEN 0 ELSE -1)
             ELSE (IF t \in T THEN 1 ELSE 0)

\* A set that gains or loses one member.
LEMMA OneMember ==
  ASSUME NEW S, NEW T, NEW t, IsFiniteSet(S), T \ {t} = S \ {t}
  PROVE  /\ IsFiniteSet(T)
         /\ Cardinality(S) \in Nat /\ Cardinality(T) \in Nat
         /\ Cardinality(T) = Cardinality(S) + Adds(S, T, t)
<1>1. Cardinality(S) \in Nat
  BY FS_CardinalityType
<1>2. CASE t \notin S /\ t \in T
  <2>1. T = S \cup {t}
    BY <1>2
  <2> QED
    BY <1>1, <1>2, <2>1, FS_AddElement DEF Adds
<1>3. CASE t \in S /\ t \notin T
  <2>1. T = S \ {t}
    BY <1>3
  <2>2. IsFiniteSet(T) /\ Cardinality(T) = Cardinality(S) - 1
    BY <1>3, <2>1, FS_RemoveElement
  <2> QED
    BY <1>1, <1>3, <2>2, FS_CardinalityType DEF Adds
<1>4. CASE t \in S <=> t \in T
  <2>1. T = S
    BY <1>4
  <2> QED
    BY <1>1, <1>4, <2>1 DEF Adds
<1> QED
  BY <1>2, <1>3, <1>4

\* A count before and after a thread moves from outside or inside to inside or
\* outside.
Shift(m, n, inside, insideAfter) ==
  /\ inside /\ ~insideAfter => n = m - 1
  /\ ~inside /\ insideAfter => n = m + 1
  /\ (inside <=> insideAfter) => n = m

\* A thread that moves is counted where it arrives and not where it left.
LEMMA Moves ==
  ASSUME NEW t \in Threads, OnlyEmbeds,
         \A u \in Threads \ {t} : pc'[u] = pc[u],
         pc'[t] \notin {"uncached", "clear", "clear_cache"}
  PROVE  /\ OnlyEmbeds'
         /\ L \in Nat /\ M \in Nat /\ B \in Nat /\ I \in Nat
         /\ L' \in Nat /\ M' \in Nat /\ B' \in Nat /\ I' \in Nat
         /\ Shift(L, L', pc[t] = "lookup", pc'[t] = "lookup")
         /\ Shift(M, M', pc[t] \in {"begin", "waiting", "recheck"},
                         pc'[t] \in {"begin", "waiting", "recheck"})
         /\ Shift(B, B', pc[t] = "bypass", pc'[t] = "bypass")
         /\ Shift(I, I', pc[t] = "insert", pc'[t] = "insert")
<1>1. /\ Looking' \ {t} = Looking \ {t} /\ Missed' \ {t} = Missed \ {t}
      /\ Bypassing' \ {t} = Bypassing \ {t} /\ Storing' \ {t} = Storing \ {t}
  BY DEF Looking, Missed, Bypassing, Storing, In
<1>2. /\ t \in Looking <=> pc[t] = "lookup"
      /\ t \in Looking' <=> pc'[t] = "lookup"
      /\ t \in Missed <=> pc[t] \in {"begin", "waiting", "recheck"}
      /\ t \in Missed' <=> pc'[t] \in {"begin", "waiting", "recheck"}
      /\ t \in Bypassing <=> pc[t] = "bypass"
      /\ t \in Bypassing' <=> pc'[t] = "bypass"
      /\ t \in Storing <=> pc[t] = "insert"
      /\ t \in Storing' <=> pc'[t] = "insert"
  BY DEF Looking, Missed, Bypassing, Storing, In
<1>3. /\ IsFiniteSet(Looking') /\ L \in Nat /\ L' \in Nat
      /\ L' = L + Adds(Looking, Looking', t)
  BY <1>1, OneMember DEF OnlyEmbeds, L
<1>4. /\ IsFiniteSet(Missed') /\ M \in Nat /\ M' \in Nat
      /\ M' = M + Adds(Missed, Missed', t)
  BY <1>1, OneMember DEF OnlyEmbeds, M
<1>5. /\ IsFiniteSet(Bypassing') /\ B \in Nat /\ B' \in Nat
      /\ B' = B + Adds(Bypassing, Bypassing', t)
  BY <1>1, OneMember DEF OnlyEmbeds, B
<1>6. /\ IsFiniteSet(Storing') /\ I \in Nat /\ I' \in Nat
      /\ I' = I + Adds(Storing, Storing', t)
  BY <1>1, OneMember DEF OnlyEmbeds, I
<1>7. In({"uncached", "clear", "clear_cache"})' = {}
  BY DEF OnlyEmbeds, In
<1>8. /\ Shift(L, L', pc[t] = "lookup", pc'[t] = "lookup")
      /\ Shift(M, M', pc[t] \in {"begin", "waiting", "recheck"},
                      pc'[t] \in {"begin", "waiting", "recheck"})
  BY <1>2, <1>3, <1>4 DEF Adds, Shift
<1>9. /\ Shift(B, B', pc[t] = "bypass", pc'[t] = "bypass")
      /\ Shift(I, I', pc[t] = "insert", pc'[t] = "insert")
  BY <1>2, <1>5, <1>6 DEF Adds, Shift
<1> QED
  BY <1>3, <1>4, <1>5, <1>6, <1>7, <1>8, <1>9 DEF OnlyEmbeds

\* A step that moves nobody, or wakes sleepers: of the counted sets it changes
\* none, but for the thread that wakes them, which is in none of them.
LEMMA NobodyMoves ==
  ASSUME OnlyEmbeds, UNCHANGED pc \/ \E t \in Threads : NotifyAll(t), pc \in [Threads -> PCs]
  PROVE  OnlyEmbeds' /\ L' = L /\ M' = M /\ B' = B /\ I' = I
<1>1. \A u \in Threads : \/ pc'[u] = pc[u]
                         \/ pc[u] = "waiting" /\ pc'[u] = "begin"
                         \/ pc[u] = "notify" /\ pc'[u] = "idle"
  BY DEF NotifyAll
<1>2. /\ Looking' = Looking /\ Missed' = Missed /\ Bypassing' = Bypassing /\ Storing' = Storing
      /\ In({"uncached", "clear", "clear_cache"})' = In({"uncached", "clear", "clear_cache"})
  BY <1>1 DEF Looking, Missed, Bypassing, Storing, In
<1> QED
  BY <1>2 DEF OnlyEmbeds, L, M, B, I

\* What is tallied is numbers.
LEMMA Tallied ==
  OnlyEmbeds => L \in Nat /\ M \in Nat /\ B \in Nat /\ I \in Nat
  BY FS_CardinalityType DEF OnlyEmbeds, L, M, B, I

-----------------------------------------------------------------------------
AllEncode == \A x \in Texts : Encoder[x] # Failure

\* The inductive invariant of the counters.
Tally ==
  /\ OnlyEmbeds
  /\ hits + misses = rows - L
  /\ M <= misses
  /\ Cardinality(Held) + I <= encoded
  /\ AllEncode => encoded + B = Cardinality(Held) + I + uncached
  /\ B > 0 => uncached > 0

\* Nothing is counted at the start.
LEMMA TallyInit == Init => Tally
<1> SUFFICES ASSUME Init
             PROVE  Tally
  OBVIOUS
<1>1. \A points : "idle" \notin points => In(points) = {}
  BY DEF Init, In
<1>2. Held = {} /\ Looking = {} /\ Missed = {} /\ Bypassing = {} /\ Storing = {}
      /\ In({"uncached", "clear", "clear_cache"}) = {}
  BY <1>1 DEF Init, CacheInit, EmptyMap, Held, Looking, Missed, Bypassing, Storing
<1> QED
  BY <1>2, FS_EmptySet DEF Tally, OnlyEmbeds, L, M, B, I, Init, CacheInit

\* Threads that only embed and report neither clear nor call embed_uncached.
LEMMA NeverDisturbed ==
  ASSUME Undisturbed, Tally, NEW t \in Threads
  PROVE  ~(CallClear(t) \/ Clear(t) \/ \E x \in Texts : CallUncached(t, x))
<1>1. ~CallClear(t) /\ ~\E x \in Texts : CallUncached(t, x)
  BY DEF Undisturbed, CallClear, CallOther, CallUncached
<1>2. ~Clear(t)
  BY DEF Tally, OnlyEmbeds, In, Clear
<1> QED
  BY <1>1, <1>2

\* Each step keeps the tally.
LEMMA TallyStep ==
  ASSUME SafetyInv, Undisturbed, Tally, [Next]_vars
  PROVE  Tally'
<1> DEFINE H == Cardinality(Held)
<1>0. /\ hits \in Nat /\ misses \in Nat /\ uncached \in Nat /\ encoded \in Nat /\ rows \in Nat
      /\ pc \in [Threads -> PCs] /\ text \in [Threads -> Texts \cup {None}]
      /\ H \in Nat /\ OnlyEmbeds
      /\ L \in Nat /\ M \in Nat /\ B \in Nat /\ I \in Nat
  BY Tallied, FS_CardinalityType DEF SafetyInv, TypeOK, CapacityBound, Tally
<1> USE <1>0 DEF Tally, cacheVars, Goto, Shift
<1>1. ASSUME NEW t \in Threads, NEW x \in Texts, CallEmbed(t, x)
      PROVE  Tally'
  <2>1. OnlyEmbeds' /\ L' = L + 1 /\ M' = M /\ B' = B /\ I' = I
    BY <1>1, Moves DEF CallEmbed
  <2>2. /\ rows' = rows + 1 /\ H' = H
        /\ UNCHANGED <<hits, misses, uncached, encoded>>
    BY <1>1 DEF CallEmbed, Held
  <2> QED
    BY <2>1, <2>2
<1>2. ASSUME NEW t \in Threads, CallStats(t) \/ Stats(t)
      PROVE  Tally'
  <2>1. \E p, q \in {"idle", "stats", "stats_encoded"} :
          pc[t] = p /\ pc' = [pc EXCEPT ![t] = q]
    BY <1>2 DEF CallStats, CallOther, Stats
  <2>2. OnlyEmbeds' /\ L' = L /\ M' = M /\ B' = B /\ I' = I
    BY <2>1, Moves
  <2>3. H' = H /\ UNCHANGED <<hits, misses, uncached, encoded, rows>>
    BY <1>2 DEF CallStats, CallOther, Stats, Held
  <2> QED
    BY <2>2, <2>3
<1>3. ASSUME NEW t \in Threads, LookupHit(t)
      PROVE  Tally'
  <2>1. OnlyEmbeds' /\ L' = L - 1 /\ M' = M /\ B' = B /\ I' = I
    BY <1>3, Moves
      DEF LookupHit
  <2>2. hits' = hits + 1 /\ H' = H /\ UNCHANGED <<misses, uncached, encoded, rows>>
    BY <1>3 DEF LookupHit, GetHit, Held
  <2> QED
    BY <2>1, <2>2
<1>4. ASSUME NEW t \in Threads, LookupFull(t)
      PROVE  Tally'
  <2>1. OnlyEmbeds' /\ L' = L - 1 /\ M' = M /\ B' = B + 1 /\ I' = I
    BY <1>4, Moves
      DEF LookupFull
  <2>2. /\ misses' = misses + 1 /\ uncached' = uncached + 1 /\ H' = H
        /\ UNCHANGED <<hits, encoded, rows>>
    BY <1>4 DEF LookupFull, GetMiss, NoteUncached, Held
  <2> QED
    BY <2>1, <2>2
<1>5. ASSUME NEW t \in Threads, LookupMiss(t)
      PROVE  Tally'
  <2>1. OnlyEmbeds' /\ L' = L - 1 /\ M' = M + 1 /\ B' = B /\ I' = I
    BY <1>5, Moves
      DEF LookupMiss
  <2>2. misses' = misses + 1 /\ H' = H /\ UNCHANGED <<hits, uncached, encoded, rows>>
    BY <1>5 DEF LookupMiss, GetMiss, Held
  <2> QED
    BY <2>1, <2>2
<1>6. ASSUME NEW t \in Threads, BeginWait(t) \/ BeginFlight(t) \/ SpuriousWake(t)
      PROVE  Tally'
  <2>1. \E p, q \in {"begin", "waiting", "recheck"} :
          pc[t] = p /\ pc' = [pc EXCEPT ![t] = q]
    BY <1>6 DEF BeginWait, BeginFlight, SpuriousWake
  <2>2. OnlyEmbeds' /\ L' = L /\ M' = M /\ B' = B /\ I' = I
    BY <2>1, Moves
  <2>3. H' = H /\ UNCHANGED <<hits, misses, uncached, encoded, rows>>
    BY <1>6 DEF BeginWait, BeginFlight, SpuriousWake, Held
  <2> QED
    BY <2>2, <2>3
<1>7. ASSUME NEW t \in Threads, RecheckFound(t)
      PROVE  Tally'
  <2>1. OnlyEmbeds' /\ L' = L /\ M' = M - 1 /\ M' \in Nat /\ B' = B /\ I' = I
    BY <1>7, Moves
      DEF RecheckFound
  <2>2. /\ hits' = hits + 1 /\ misses' = SaturatingDec(misses) /\ H' = H
        /\ UNCHANGED <<uncached, encoded, rows>>
    BY <1>7 DEF RecheckFound, RecheckHit, Held
  <2>3. misses' = misses - 1
    BY <2>1, <2>2 DEF SaturatingDec
  <2> QED
    BY <2>1, <2>2, <2>3
<1>8. ASSUME NEW t \in Threads, RecheckAbsent(t)
      PROVE  Tally'
  <2>1. OnlyEmbeds' /\ L' = L /\ M' = M - 1 /\ B' = B /\ I' = I
    BY <1>8, Moves
      DEF RecheckAbsent
  <2>2. H' = H /\ UNCHANGED <<hits, misses, uncached, encoded, rows>>
    BY <1>8 DEF RecheckAbsent, Held
  <2> QED
    BY <2>1, <2>2
<1>9. ASSUME NEW t \in Threads, EncodeInFlight(t)
      PROVE  Tally'
  <2>1. text[t] \in Texts /\ pc[t] = "encode"
    BY <1>9 DEF EncodeInFlight, SafetyInv, TypeOK
  <2>2. H' = H /\ UNCHANGED <<hits, misses, uncached, rows>>
    BY <1>9 DEF EncodeInFlight, RunEncoder, Held
  <2>3. CASE Encoder[text[t]] = Failure
    <3>1. OnlyEmbeds' /\ L' = L /\ M' = M /\ B' = B /\ I' = I
      BY <1>9, <2>1, <2>3, Moves
        DEF EncodeInFlight
    <3>2. encoded' = encoded
      BY <1>9, <2>3 DEF EncodeInFlight, RunEncoder
    <3> QED
      BY <2>2, <3>1, <3>2
  <2>4. CASE Encoder[text[t]] # Failure
    <3>1. OnlyEmbeds' /\ L' = L /\ M' = M /\ B' = B /\ I' = I + 1
      BY <1>9, <2>1, <2>4, Moves
        DEF EncodeInFlight
    <3>2. encoded' = encoded + 1
      BY <1>9, <2>4 DEF EncodeInFlight, RunEncoder
    <3> QED
      BY <2>2, <3>1, <3>2
  <2> QED
    BY <2>3, <2>4
<1>10. ASSUME NEW t \in Threads, EncodeAlone(t)
       PROVE  Tally'
  <2>1. text[t] \in Texts /\ pc[t] = "bypass"
    BY <1>10 DEF EncodeAlone, SafetyInv, TypeOK, OnlyEmbeds, In
  <2>2. H' = H /\ UNCHANGED <<hits, misses, uncached, rows>>
    BY <1>10 DEF EncodeAlone, RunEncoder, Held
  <2>3. OnlyEmbeds' /\ L' = L /\ M' = M /\ B' = B - 1 /\ I' = I /\ B' \in Nat
    BY <1>10, <2>1, Moves DEF EncodeAlone
  <2>4. encoded' = encoded \/ encoded' = encoded + 1
    BY <1>10 DEF EncodeAlone, RunEncoder
  <2>5. AllEncode => encoded' = encoded + 1
    BY <1>10, <2>1 DEF EncodeAlone, RunEncoder, AllEncode
  <2> QED
    BY <2>2, <2>3, <2>4, <2>5
<1>11. ASSUME NEW t \in Threads, InsertVector(t)
       PROVE  Tally'
  <2>1. OnlyEmbeds' /\ L' = L /\ M' = M /\ B' = B /\ I' = I - 1 /\ I' \in Nat
    BY <1>11, Moves
      DEF InsertVector
  <2>2. UNCHANGED <<hits, misses, encoded, rows>>
    BY <1>11 DEF InsertVector, Insert
  <2>3. Key(t) \notin Held
    BY <1>11 DEF InsertVector, SafetyInv, EncodesOnlyAbsentKeys, At
  <2>4. CASE uncached' = uncached + 1 /\ entries' = entries
    <3>1. H' = H
      BY <2>4 DEF Held
    <3> QED
      BY <2>1, <2>2, <2>4, <3>1
  <2>5. CASE uncached' = uncached /\ entries' = With(entries, Key(t), result[t])
    <3>1. Held' = Held \cup {Key(t)}
      BY <2>5, WithIsUpdate DEF Held
    <3>2. H' = H + 1
      BY <2>3, <3>1, FS_AddElement DEF SafetyInv, CapacityBound
    <3> QED
      BY <2>1, <2>2, <2>5, <3>2
  <2> QED
    BY <1>11, <2>4, <2>5 DEF InsertVector, Insert
<1>12. ASSUME NEW t \in Threads, Release(t)
       PROVE  Tally'
  <2>1. OnlyEmbeds' /\ L' = L /\ M' = M /\ B' = B /\ I' = I
    BY <1>12, Moves
      DEF Release
  <2>2. H' = H /\ UNCHANGED <<hits, misses, uncached, encoded, rows>>
    BY <1>12 DEF Release, Held
  <2> QED
    BY <2>1, <2>2
<1>13. CASE UNCHANGED vars \/ \E t \in Threads : NotifyAll(t)
  <2>1. UNCHANGED pc \/ \E t \in Threads : NotifyAll(t)
    BY <1>13 DEF vars, flightVars
  <2>2. OnlyEmbeds' /\ L' = L /\ M' = M /\ B' = B /\ I' = I
    BY <2>1, NobodyMoves
  <2>3. H' = H /\ UNCHANGED <<hits, misses, uncached, encoded, rows>>
    BY <1>13 DEF NotifyAll, vars, flightVars, Held
  <2> QED
    BY <2>2, <2>3
<1>14. ASSUME NEW t \in Threads, CallClear(t) \/ Clear(t) \/ \E x \in Texts : CallUncached(t, x)
       PROVE  FALSE
  BY <1>14, NeverDisturbed
<1> QED
  BY <1>1, <1>2, <1>3, <1>4, <1>5, <1>6, <1>7, <1>8, <1>9, <1>10, <1>11, <1>12, <1>13,
     <1>14 DEF Next, Call, Proceed, Finished

-----------------------------------------------------------------------------
\* Looking is the set the properties call At("lookup"), and so for the others.
LEMMA SamePlaces ==
  Looking = At("lookup") /\ Bypassing = At("bypass") /\ Storing = At("insert")
  BY DEF Looking, Bypassing, Storing, In, At

\* The tally holds until a clear.
LEMMA Tallies == Spec => [](SafetyInv /\ (Undisturbed => Tally))
<1>1. Init => SafetyInv /\ (Undisturbed => Tally)
  BY SafetyInit, TallyInit
<1>2. SafetyInv /\ (Undisturbed => Tally) /\ [Next]_vars
        => (SafetyInv /\ (Undisturbed => Tally))'
  <2> SUFFICES ASSUME SafetyInv, Undisturbed => Tally, [Next]_vars
               PROVE  SafetyInv' /\ (Undisturbed' => Tally')
    OBVIOUS
  <2>1. SafetyInv'
    BY SafetyStep
  <2>2. Undisturbed' => Undisturbed
    BY DEF Undisturbed
  <2>3. Undisturbed => Tally'
    BY TallyStep
  <2> QED
    BY <2>1, <2>2, <2>3
<1> QED
  BY <1>1, <1>2, PTL DEF Spec

\* hits + misses is the number of rows looked up (cache.rs:341-344), whoever
\* waited for whom.
THEOREM RowsAreAccounted == Spec => []RowsAccounted
<1>1. SafetyInv /\ (Undisturbed => Tally) => RowsAccounted
  BY SamePlaces DEF RowsAccounted, Tally, L
<1> QED
  BY <1>1, Tallies, PTL

\* When every encode succeeds the finished runs are those of the vectors held,
\* of those about to be stored and of the rows turned away.
THEOREM EncodesAreAccounted == Spec => []EncodesAccounted
<1>1. SafetyInv /\ (Undisturbed => Tally) => EncodesAccounted
  BY SamePlaces DEF EncodesAccounted, Tally, AllEncode, B, I
<1> QED
  BY <1>1, Tallies, PTL

-----------------------------------------------------------------------------
(***************************************************************************)
(* A column that fitted is held.  While nothing has been turned away, each *)
(* row that is answered has its value in the cache: it was found there, or *)
(* its thread stored it, or the encode failed and there is no vector.  The *)
(* row that goes around the cache is excluded by Tally: B > 0 says that    *)
(* something has been turned away before it returns.                       *)
(***************************************************************************)
Settled == {"idle", "release", "notify", "stats", "stats_encoded"}

HeldIfSettled(u) == pc[u] \in Settled /\ result[u] \in Vectors => Key(u) \in Held

Fitted == uncached = 0 => \A u \in Threads : HeldIfSettled(u)

\* A step that moves t, and of the others at most wakes sleepers, and drops
\* nothing from the cache, owes HeldIfSettled only for t.
LEMMA FittedFor ==
  ASSUME NEW t \in Threads, Fitted, uncached' = 0 => uncached = 0, Held \subseteq Held',
         \A u \in Threads \ {t} :
           /\ pc'[u] = pc[u] \/ pc'[u] = "begin"
           /\ text'[u] = text[u] /\ result'[u] = result[u],
         uncached' = 0 => HeldIfSettled(t)'
  PROVE  Fitted'
<1> SUFFICES ASSUME uncached' = 0, NEW u \in Threads
             PROVE  HeldIfSettled(u)'
  BY DEF Fitted
<1>1. CASE u = t
  BY <1>1
<1>2. CASE u # t
  <2>1. HeldIfSettled(u)
    BY DEF Fitted
  <2>2. Key(u)' = Key(u) /\ result'[u] = result[u]
    BY <1>2 DEF Key
  <2>3. pc'[u] \in Settled => pc[u] \in Settled
    BY <1>2 DEF Settled
  <2> QED
    BY <2>1, <2>2, <2>3 DEF HeldIfSettled
<1> QED
  BY <1>1, <1>2

\* Each step keeps what a fitted column has.
LEMMA FittedStep ==
  ASSUME SafetyInv, Undisturbed, Tally, Fitted, [Next]_vars
  PROVE  Fitted'
<1>0. /\ uncached \in Nat /\ pc \in [Threads -> PCs]
      /\ text \in [Threads -> Texts \cup {None}]
      /\ result \in [Threads -> Vectors \cup {Failure, None}]
  BY DEF SafetyInv, TypeOK
<1> USE <1>0 DEF cacheVars, Goto, Key
<1> DEFINE Others(t) == \A u \in Threads \ {t} :
                          /\ pc'[u] = pc[u] \/ pc'[u] = "begin"
                          /\ text'[u] = text[u] /\ result'[u] = result[u]
           Owed(t) == uncached' = 0 => HeldIfSettled(t)'
           Grows == (uncached' = 0 => uncached = 0) /\ Held \subseteq Held'
<1>1. ASSUME NEW t \in Threads, NEW x \in Texts, CallEmbed(t, x)
      PROVE  Grows /\ Others(t) /\ Owed(t)
  BY <1>1 DEF CallEmbed, HeldIfSettled, Settled, Held
<1>2. ASSUME NEW t \in Threads, CallStats(t) \/ Stats(t)
      PROVE  Grows /\ Others(t) /\ Owed(t)
  <2>1. /\ pc[t] \in Settled
        /\ UNCHANGED <<cacheVars, text, result>>
        /\ \A u \in Threads \ {t} : pc'[u] = pc[u]
    BY <1>2 DEF CallStats, CallOther, Stats, Settled
  <2>2. Fitted => Owed(t)
    BY <2>1 DEF HeldIfSettled, Held, Fitted
  <2> QED
    BY <2>1, <2>2 DEF Held
<1>3. ASSUME NEW t \in Threads, LookupHit(t) \/ RecheckFound(t)
      PROVE  Grows /\ Others(t) /\ Owed(t)
  <2>1. Key(t) \in Held /\ UNCHANGED <<entries, uncached, text>>
    BY <1>3 DEF LookupHit, GetHit, RecheckFound, RecheckHit
  <2>2. Owed(t)
    BY <2>1 DEF HeldIfSettled, Held
  <2>3. Others(t)
    BY <1>3 DEF LookupHit, RecheckFound
  <2> QED
    BY <2>1, <2>2, <2>3 DEF Held
<1>4. ASSUME NEW t \in Threads,
             \/ LookupFull(t) \/ LookupMiss(t) \/ BeginWait(t) \/ BeginFlight(t)
             \/ SpuriousWake(t) \/ RecheckAbsent(t)
      PROVE  Grows /\ Others(t) /\ Owed(t)
  <2>1. pc'[t] \notin Settled
    BY <1>4 DEF LookupFull, LookupMiss, BeginWait, BeginFlight, SpuriousWake,
                RecheckAbsent, Settled
  <2>2. Others(t)
    BY <1>4 DEF LookupFull, LookupMiss, BeginWait, BeginFlight, SpuriousWake, RecheckAbsent
  <2>3. entries' = entries /\ (uncached' = uncached \/ uncached' = uncached + 1)
    BY <1>4 DEF LookupFull, LookupMiss, BeginWait, BeginFlight, SpuriousWake,
                RecheckAbsent, GetMiss, NoteUncached
  <2> QED
    BY <2>1, <2>2, <2>3 DEF HeldIfSettled, Held
<1>5. ASSUME NEW t \in Threads, EncodeInFlight(t)
      PROVE  Grows /\ Others(t) /\ Owed(t)
  <2>1. \/ pc'[t] \notin Settled
        \/ pc'[t] = "release" /\ result'[t] = Failure
    BY <1>5 DEF EncodeInFlight, RunEncoder, Settled
  <2>2. Others(t) /\ UNCHANGED <<entries, uncached>>
    BY <1>5 DEF EncodeInFlight, RunEncoder
  <2> QED
    BY <2>1, <2>2, FailureAssumption DEF HeldIfSettled, Held
<1>6. ASSUME NEW t \in Threads, EncodeAlone(t)
      PROVE  Grows /\ Others(t) /\ Owed(t)
  <2>1. t \in Bypassing
    BY <1>6 DEF EncodeAlone, Tally, OnlyEmbeds, Bypassing, In
  <2>2. B > 0
    BY <2>1, FS_EmptySet, FS_CardinalityType DEF Tally, OnlyEmbeds, B
  <2>3. uncached' = uncached /\ uncached > 0 /\ entries' = entries
    BY <1>6, <2>2 DEF EncodeAlone, RunEncoder, Tally
  <2>4. Others(t)
    BY <1>6 DEF EncodeAlone, RunEncoder
  <2> QED
    BY <2>3, <2>4 DEF Held
<1>7. ASSUME NEW t \in Threads, InsertVector(t)
      PROVE  Grows /\ Others(t) /\ Owed(t)
  <2>1. Others(t) /\ UNCHANGED <<text, result>>
    BY <1>7 DEF InsertVector
  <2>2. CASE uncached' = uncached + 1 /\ entries' = entries
    BY <2>1, <2>2 DEF Held
  <2>3. CASE uncached' = uncached /\ entries' = With(entries, Key(t), result[t])
    <3>1. Held' = Held \cup {Key(t)}
      BY <2>3, WithIsUpdate DEF Held
    <3> QED
      BY <2>1, <2>3, <3>1 DEF HeldIfSettled
  <2> QED
    BY <1>7, <2>2, <2>3 DEF InsertVector, Insert
<1>8. ASSUME NEW t \in Threads, Release(t) \/ NotifyAll(t)
      PROVE  Grows /\ Others(t) /\ Owed(t)
  <2>1. pc[t] \in Settled /\ UNCHANGED <<cacheVars, text, result>>
    BY <1>8 DEF Release, NotifyAll, Settled
  <2>2. Owed(t)
    BY <2>1 DEF HeldIfSettled, Held, Fitted
  <2>3. \A u \in Threads \ {t} : pc'[u] = pc[u] \/ pc'[u] = "begin"
    BY <1>8 DEF Release, NotifyAll
  <2> QED
    BY <2>1, <2>2, <2>3 DEF Held
<1>9. CASE UNCHANGED vars
  BY <1>9 DEF vars, flightVars, Fitted, HeldIfSettled, Held
<1>10. ASSUME NEW t \in Threads, CallClear(t) \/ Clear(t) \/ \E x \in Texts : CallUncached(t, x)
       PROVE  FALSE
  BY <1>10, NeverDisturbed
<1>11. ASSUME NEW t \in Threads, Grows, Others(t), Owed(t)
       PROVE  Fitted'
  BY <1>11, FittedFor
<1> QED
  BY <1>1, <1>2, <1>3, <1>4, <1>5, <1>6, <1>7, <1>8, <1>9, <1>10, <1>11
  DEF Next, Call, Proceed, Finished

\* "uncached 0 means the column fitted" (README.md:176), for any capacity.
THEOREM AFittedColumnIsHeld == Spec => []FittedColumnIsHeld
<1>1. Init => Fitted
  BY FailureAssumption DEF Init, Fitted, HeldIfSettled
<1>2. SafetyInv /\ (Undisturbed => Tally /\ Fitted) /\ [Next]_vars => (Undisturbed => Fitted)'
  <2>1. Undisturbed' => Undisturbed
    BY DEF Undisturbed
  <2> QED
    BY <2>1, FittedStep
<1>3. (Undisturbed => Tally /\ Fitted) => FittedColumnIsHeld
  BY DEF FittedColumnIsHeld, Fitted, HeldIfSettled, Settled, At
<1> QED
  BY <1>1, <1>2, <1>3, Tallies, PTL DEF Spec

-----------------------------------------------------------------------------
\* What a report says is held had been encoded by then; the count it is about to
\* read can only have grown.
Coherent(t) ==
  report[t].entries <= IF pc[t] = "stats_encoded" THEN encoded ELSE report[t].encoded

\* Each step keeps reports coherent.
LEMMA CoherentStep ==
  ASSUME SafetyInv, Undisturbed, Tally, \A t \in Threads : Coherent(t), [Next]_vars
  PROVE  \A t \in Threads : Coherent(t)'
<1>0. /\ encoded \in Nat /\ pc \in [Threads -> PCs] /\ report \in [Threads -> Reports]
      /\ Cardinality(Held) \in Nat /\ Cardinality(Held) <= encoded
  BY Tallied, FS_CardinalityType DEF SafetyInv, TypeOK, CapacityBound, Tally
<1>1. ASSUME NEW t \in Threads, Stats(t)
      PROVE  \A u \in Threads : Coherent(u)'
  <2>1. ASSUME NEW u \in Threads, u # t
        PROVE  Coherent(u)'
    BY <1>0, <1>1, <2>1 DEF Stats, Goto, Coherent
  <2>2. CASE pc[t] = "stats"
    BY <1>0, <1>1, <2>1, <2>2 DEF Stats, Goto, Coherent
  <2>3. CASE pc[t] = "stats_encoded"
    <3>1. report'[t].entries = report[t].entries /\ report'[t].encoded = encoded
      BY <1>0, <1>1, <2>3 DEF Stats, Reports
    <3>2. pc'[t] = "idle" /\ report[t].entries <= encoded
      BY <1>0, <1>1, <2>3 DEF Stats, Goto, Coherent
    <3>3. Coherent(t)'
      BY <3>1, <3>2 DEF Coherent
    <3> QED
      BY <2>1, <3>3
  <2> QED
    BY <1>1, <2>2, <2>3 DEF Stats
<1>2. ASSUME report' = report, encoded' = encoded \/ encoded' = encoded + 1,
             \A u \in Threads : pc'[u] = "stats_encoded" <=> pc[u] = "stats_encoded"
      PROVE  \A u \in Threads : Coherent(u)'
  <2> SUFFICES ASSUME NEW u \in Threads
               PROVE  Coherent(u)'
    OBVIOUS
  <2>1. report[u].entries \in Nat
    BY <1>0 DEF Reports
  <2> QED
    BY <1>0, <1>2, <2>1 DEF Coherent
<1> DEFINE Quiet == /\ report' = report /\ (encoded' = encoded \/ encoded' = encoded + 1)
                    /\ \A u \in Threads : pc'[u] = "stats_encoded" <=> pc[u] = "stats_encoded"
<1>3. ASSUME NEW t \in Threads, CallStats(t) \/ \E x \in Texts : CallEmbed(t, x)
      PROVE  Quiet
  BY <1>0, <1>3 DEF CallEmbed, CallStats, CallOther, Goto
<1>4. ASSUME NEW t \in Threads, LookupHit(t) \/ LookupFull(t) \/ LookupMiss(t)
      PROVE  Quiet
  BY <1>0, <1>4 DEF LookupHit, LookupFull, LookupMiss, Goto
<1>5. ASSUME NEW t \in Threads,
             BeginWait(t) \/ BeginFlight(t) \/ SpuriousWake(t) \/ RecheckFound(t)
               \/ RecheckAbsent(t)
      PROVE  Quiet
  BY <1>0, <1>5 DEF BeginWait, BeginFlight, SpuriousWake, RecheckFound, RecheckAbsent, Goto
<1>6. ASSUME NEW t \in Threads, EncodeInFlight(t) \/ EncodeAlone(t)
      PROVE  Quiet
  BY <1>0, <1>6 DEF EncodeInFlight, EncodeAlone, RunEncoder, Goto
<1>7. ASSUME NEW t \in Threads, InsertVector(t) \/ Release(t) \/ NotifyAll(t)
      PROVE  Quiet
  BY <1>0, <1>7 DEF InsertVector, Release, NotifyAll, Goto
<1>8. CASE UNCHANGED vars
  BY <1>8 DEF vars, flightVars, Coherent
<1>9. ASSUME NEW t \in Threads, CallClear(t) \/ Clear(t) \/ \E x \in Texts : CallUncached(t, x)
      PROVE  FALSE
  BY <1>9, NeverDisturbed
<1> QED
  BY <1>1, <1>2, <1>3, <1>4, <1>5, <1>6, <1>7, <1>8, <1>9 DEF Next, Call, Proceed, Finished

\* The two halves of a report are read at different times and still agree
\* (stats, lib.rs:239): no vector is said to be held that was not encoded.
THEOREM ReportsAreCoherent == Spec => []ReportsCoherent
<1> DEFINE AllCoherent == \A t \in Threads : Coherent(t)
<1>1. Init => AllCoherent
  BY DEF Init, Coherent, NoReport
<1>2. SafetyInv /\ (Undisturbed => Tally /\ AllCoherent) /\ [Next]_vars
        => (Undisturbed => AllCoherent)'
  <2>1. Undisturbed' => Undisturbed
    BY DEF Undisturbed
  <2> QED
    BY <2>1, CoherentStep
<1>3. (Undisturbed => Tally /\ AllCoherent) => ReportsCoherent
  BY DEF ReportsCoherent, Coherent, At
<1> HIDE DEF AllCoherent
<1> QED
  BY <1>1, <1>2, <1>3, Tallies, PTL DEF Spec

=============================================================================

--------------------------- MODULE TruncationProofs ---------------------------
(***************************************************************************)
(* is_truncated tells the truth about the ids for every tokenizer, every   *)
(* cap and every text: nothing in the argument depends on how a text       *)
(* becomes ids, only on both sides asking the same tokenizer.  That the    *)
(* vector shows it needs one thing of the tokenizer: that it spells the    *)
(* marker with an id it spells nothing else with.                          *)
(***************************************************************************)
EXTENDS Truncation, FiniteSetTheorems, TLAPS

\* The answer and the two id lists are those of the text on record.
Recorded ==
  /\ text \in Seq(Characters) /\ Len(text) <= MaxLength
  /\ truncated = Truncates(text, MaxTokens)
  /\ pooled = EncodeCapped(text)
  /\ whole = EncodeWhole(text)

\* A cut that keeps the length of a text keeps the text, which is what lets
\* truncates skip the second tokenisation (model.rs:230-239).
LEMMA SameLengthSameText ==
  ASSUME NEW S, NEW t \in Seq(S), NEW n \in Nat, Len(AtMost(n, t)) = Len(t)
  PROVE  AtMost(n, t) = t
<1>1. Len(t) \in Nat
  OBVIOUS
<1>2. CASE Len(t) < n
  <2>1. AtMost(n, t) = SubSeq(t, 1, Len(t))
    BY <1>2 DEF AtMost
  <2>. QED
    BY <2>1
<1>3. CASE ~(Len(t) < n)
  <2>1. AtMost(n, t) = SubSeq(t, 1, n)
    BY <1>3 DEF AtMost
  <2>2. n <= Len(t)
    BY <1>1, <1>3
  <2>3. Len(SubSeq(t, 1, n)) = n
    BY <1>1, <2>2
  <2>4. n = Len(t)
    BY <2>1, <2>3
  <2>. QED
    BY <2>1, <2>4
<1>. QED
  BY <1>2, <1>3

\* The answer is true exactly when the ids embed pools are not those of the
\* whole text.
LEMMA TruncatesComparesIds ==
  ASSUME NEW t \in Seq(Characters)
  PROVE  Truncates(t, MaxTokens) <=> EncodeCapped(t) # EncodeWhole(t)
<1> DEFINE limit == MaxTokens * MedianTokenLength
           cut   == AtMost(limit, t)
<1>1. limit \in Nat
  BY CutsAssumption
<1>2. CASE Len(cut) = Len(t)
  <2>1. cut = t
    BY <1>1, <1>2, SameLengthSameText
  <2>. QED
    BY <2>1 DEF Truncates, CharTruncate, SurvivingIds, EncodeCapped, EncodeWhole
<1>3. CASE Len(cut) # Len(t)
  BY <1>3 DEF Truncates, CharTruncate, SurvivingIds, EncodeCapped, EncodeWhole
<1>. QED
  BY <1>2, <1>3

\* What is on record is kept so by asking about another text.
LEMMA RecordedHolds == Spec => []Recorded
<1>1. Init => Recorded
  BY CutsAssumption DEF Init, Recorded
<1>2. ASSUME Recorded, [Next]_vars
      PROVE  Recorded'
  <2>1. CASE UNCHANGED vars
    BY <1>2, <2>1 DEF Recorded, vars
  <2>2. ASSUME NEW character \in Characters, Ask(character)
        PROVE  Recorded'
    <3>1. text' \in Seq(Characters) /\ Len(text') <= MaxLength
      BY <1>2, <2>2, CutsAssumption DEF Recorded, Ask
    <3>. QED
      BY <3>1, <2>2 DEF Recorded, Ask
  <2>. QED
    BY <1>2, <2>1, <2>2 DEF Next
<1>. QED
  BY <1>1, <1>2, PTL DEF Spec

\* The answer of record compares the ids of record.
LEMMA RecordedIsExact ==
  ASSUME Recorded
  PROVE  truncated <=> pooled # whole
BY TruncatesComparesIds DEF Recorded

\* A text that lost no id is never reported truncated, for any tokenizer and
\* any cap: the false alarm model.rs:219-224 rules out.
THEOREM NoFalseAlarm == Spec => []LosslessIsNotTruncated
<1>1. Recorded => LosslessIsNotTruncated
  BY RecordedIsExact DEF LosslessIsNotTruncated
<1>. QED
  BY <1>1, RecordedHolds, PTL

\* An answer of false means the vector is that of the whole text, for any
\* tokenizer and any cap: is_truncated misses nothing (model.rs:872-874).
THEOREM NoMissedTruncation == Spec => []NotTruncatedMeansWholeVector
<1>1. Recorded => NotTruncatedMeansWholeVector
  <2>1. ASSUME NEW ids PROVE SameMean(ids, ids)
    BY DEF SameMean
  <2>. QED
    BY <2>1, RecordedIsExact DEF NotTruncatedMeansWholeVector
<1>. QED
  BY <1>1, RecordedHolds, PTL

-----------------------------------------------------------------------------
(***************************************************************************)
(* A marker at the end of the text.                                        *)
(***************************************************************************)

\* What a cut leaves: the first of the ids.
LEMMA FirstIds ==
  ASSUME NEW S, NEW ids \in Seq(S), NEW n \in Nat
  PROVE  /\ AtMost(n, ids) \in Seq(S) /\ Len(AtMost(n, ids)) <= Len(ids)
         /\ Len(AtMost(n, ids)) \in Nat
         /\ \A i \in 1 .. Len(AtMost(n, ids)) : AtMost(n, ids)[i] = ids[i]
<1> DEFINE k == IF Len(ids) < n THEN Len(ids) ELSE n
<1>1. k \in 0 .. Len(ids) /\ Len(ids) \in Nat
  OBVIOUS
<1>2. AtMost(n, ids) = SubSeq(ids, 1, k)
  BY DEF AtMost
<1> HIDE DEF k
<1>3. SubSeq(ids, 1, k) \in Seq(S) /\ Len(SubSeq(ids, 1, k)) = k
      /\ \A i \in 1 .. k : SubSeq(ids, 1, k)[i] = ids[i]
  BY <1>1
<1> QED
  BY <1>1, <1>2, <1>3

\* A position that is not the last is before it.
LEMMA BeforeTheLast ==
  ASSUME NEW l \in Nat, NEW n \in 1 .. l, n # l
  PROVE  n \in 1 .. l - 1
OBVIOUS

\* The mean moves when an id that ended the whole is gone.
LEMMA LostIdMovesTheMean ==
  ASSUME NEW S, NEW ids \in Seq(S), NEW T, NEW others \in Seq(T), NEW id,
         \A n \in 1 .. Len(ids) : ids[n] # id, EndsWith(id, others)
  PROVE  ~SameMean(ids, others)
<1>1. DOMAIN ids = 1 .. Len(ids) /\ DOMAIN others = 1 .. Len(others)
      /\ Len(ids) \in Nat /\ Len(others) \in Nat
  OBVIOUS
<1>2. Count(id, ids) = 0
  <2>1. {n \in DOMAIN ids : ids[n] = id} = {}
    BY <1>1
  <2> QED
    BY <2>1, FS_EmptySet DEF Count
<1>3. Count(id, others) = 1
  <2>1. {n \in DOMAIN others : others[n] = id} = {Len(others)}
    <3>1. /\ Len(others) > 0 /\ others[Len(others)] = id
          /\ \A n \in 1 .. Len(others) - 1 : others[n] # id
      BY DEF EndsWith
    <3>2. ASSUME NEW n \in 1 .. Len(others), n # Len(others)
          PROVE  others[n] # id
      <4>1. n \in 1 .. Len(others) - 1
        BY <1>1, <3>2, BeforeTheLast
      <4> QED
        BY <3>1, <4>1
    <3>3. Len(others) \in 1 .. Len(others)
      BY <1>1, <3>1
    <3> QED
      BY <1>1, <3>1, <3>2, <3>3
  <2> QED
    BY <2>1, FS_Singleton DEF Count
<1>4. id \in Range(ids) \cup Range(others) /\ others # <<>>
  BY <1>1 DEF EndsWith, Range
<1> SUFFICES ASSUME SameMean(ids, others)
             PROVE  FALSE
  OBVIOUS
<1>5. Count(id, ids) * Len(others) = Count(id, others) * Len(ids)
  BY <1>4 DEF SameMean
<1>6. Len(ids) = 0
  BY <1>1, <1>2, <1>3, <1>5
<1>7. ids = <<>>
  BY <1>6
<1> QED
  BY <1>4, <1>7 DEF SameMean

\* What the ids of a cut text and of the whole have of the marker's.
LEMMA CutLosesTheMarker ==
  ASSUME NEW t \in Seq(Characters), Len(t) <= MaxLength, Marked(t),
         NEW id, MarkerHasId(id), EncodeCapped(t) # EncodeWhole(t)
  PROVE  ~SameMean(EncodeCapped(t), EncodeWhole(t))
<1> DEFINE limit == MaxTokens * MedianTokenLength
           cut == AtMost(limit, t)
           ids == SurvivingIds(cut)
           all == SurvivingIds(t)
<1>1. limit \in Nat /\ MaxTokens \in Nat
  BY CutsAssumption
<1>2. /\ cut \in Seq(Characters) /\ Len(cut) <= Len(t) /\ Len(cut) \in Nat /\ Len(t) \in Nat
      /\ \A i \in 1 .. Len(cut) : cut[i] = t[i]
  BY <1>1, FirstIds
<1>3. EncodeCapped(t) = AtMost(MaxTokens, ids) /\ EncodeWhole(t) = all
  BY DEF EncodeCapped, EncodeWhole, SurvivingIds
<1>4. ASSUME NEW u \in Seq(Characters), Len(u) <= MaxLength
      PROVE  /\ \E S : SurvivingIds(u) \in Seq(S)
             /\ Marked(u) => EndsWith(id, SurvivingIds(u))
             /\ (\A n \in 1 .. Len(u) : u[n] # Marker) =>
                  \A n \in 1 .. Len(SurvivingIds(u)) : SurvivingIds(u)[n] # id
  <2> DEFINE found == SurvivingIds(u)
  <2>1. Len(u) \in 0 .. MaxLength /\ u \in [1 .. Len(u) -> Characters]
    BY <1>4, CutsAssumption
  <2>2. /\ Len(found) \in Nat /\ found = [n \in 1 .. Len(found) |-> found[n]]
        /\ Marked(u) => EndsWith(id, found)
        /\ (\A n \in 1 .. Len(u) : u[n] # Marker) => \A n \in 1 .. Len(found) : found[n] # id
    BY <2>1 DEF MarkerHasId, EndsWith
  <2> HIDE DEF found
  <2>3. found \in Seq({found[n] : n \in 1 .. Len(found)})
    <3> DEFINE S == {found[n] : n \in 1 .. Len(found)}
    <3>1. \A n \in 1 .. Len(found) : found[n] \in S
      OBVIOUS
    <3> HIDE DEF S
    <3>2. [n \in 1 .. Len(found) |-> found[n]] \in Seq(S)
      BY <2>2, <3>1
    <3> QED
      BY <2>2, <3>2 DEF S
  <2> QED
    BY <2>2, <2>3 DEF found
<1>5. PICK S, T : all \in Seq(S) /\ ids \in Seq(T)
  <2>1. Len(cut) <= MaxLength
    BY <1>2, CutsAssumption
  <2> HIDE DEF cut
  <2> QED
    BY <1>2, <1>4, <2>1
<1>6. EndsWith(id, all)
  BY <1>4
<1> HIDE DEF limit
<1>7. \A n \in 1 .. Len(AtMost(MaxTokens, ids)) : AtMost(MaxTokens, ids)[n] # id
  <2>1. CASE cut = t
    <3> DEFINE some == AtMost(MaxTokens, all)
    <3>1. some # all
      BY <1>3, <2>1
    <3>2. Len(some) # Len(all)
      BY <1>1, <1>5, <3>1, SameLengthSameText
    <3>3. /\ Len(some) <= Len(all) /\ Len(some) \in Nat /\ Len(all) \in Nat
          /\ \A i \in 1 .. Len(some) : some[i] = all[i]
      BY <1>1, <1>5, FirstIds
    <3> HIDE DEF some, all
    <3>4. \A n \in 1 .. Len(some) : n \in 1 .. Len(all) - 1
      BY <3>2, <3>3
    <3>5. \A n \in 1 .. Len(some) : some[n] # id
      BY <1>6, <3>3, <3>4 DEF EndsWith
    <3> QED
      BY <2>1, <3>5 DEF some, all
  <2>2. CASE cut # t
    <3>1. Len(cut) # Len(t)
      BY <1>1, <2>2, SameLengthSameText
    <3>2. \A n \in 1 .. Len(cut) : cut[n] # Marker
      <4> HIDE DEF cut
      <4>1. \A n \in 1 .. Len(cut) : n \in 1 .. Len(t) - 1
        BY <1>2, <3>1
      <4> QED
        BY <1>2, <4>1 DEF Marked
    <3>3. Len(cut) <= MaxLength
      BY <1>2, CutsAssumption
    <3>4. \A n \in 1 .. Len(ids) : ids[n] # id
      <4> HIDE DEF cut
      <4> QED
        BY <1>2, <1>4, <3>2, <3>3
    <3> HIDE DEF ids, cut
    <3>5. /\ Len(AtMost(MaxTokens, ids)) <= Len(ids) /\ Len(AtMost(MaxTokens, ids)) \in Nat
          /\ Len(ids) \in Nat
          /\ \A i \in 1 .. Len(AtMost(MaxTokens, ids)) : AtMost(MaxTokens, ids)[i] = ids[i]
      BY <1>1, <1>5, FirstIds
    <3> QED
      BY <3>4, <3>5
  <2> QED
    BY <2>1, <2>2
<1>8. AtMost(MaxTokens, ids) \in Seq(T)
  <2> HIDE DEF ids
  <2> QED
    BY <1>1, <1>5, FirstIds
<1> HIDE DEF ids, all
<1>9. ~SameMean(AtMost(MaxTokens, ids), all)
  BY <1>5, <1>6, <1>7, <1>8, LostIdMovesTheMean
<1> QED
  BY <1>3, <1>9

\* Of a marked text the answer is exact for every tokenizer that spells the
\* marker with an id of its own, and for every cap: each cut takes the marker,
\* so a vector that lost any id is not that of the whole.
THEOREM MarkedTextsAreExact ==
  ASSUME NEW id, MarkerHasId(id)
  PROVE  Spec => []MarkedAnswerIsExact
<1>1. Recorded => MarkedAnswerIsExact
  <2> SUFFICES ASSUME Recorded, Marked(text)
               PROVE  truncated <=> ~SameMean(pooled, whole)
    BY DEF MarkedAnswerIsExact
  <2>2. truncated <=> pooled # whole
    BY RecordedIsExact
  <2>3. pooled = whole => SameMean(pooled, whole)
    BY DEF SameMean
  <2>4. pooled # whole => ~SameMean(pooled, whole)
    BY CutLosesTheMarker DEF Recorded
  <2>5. truncated \in BOOLEAN
    BY DEF Recorded, Truncates
  <2> QED
    BY <2>2, <2>3, <2>4, <2>5
<1>. QED
  BY <1>1, RecordedHolds, PTL

=============================================================================

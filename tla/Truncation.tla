------------------------------ MODULE Truncation ------------------------------
(***************************************************************************)
(* subtoken_is_truncated against subtoken_embed: Truncation and            *)
(* Model::embed, crates/subtoken-core/src/model.rs.                        *)
(*                                                                         *)
(* embed hands the whole text to model2vec_rs, which cuts it twice before  *)
(* it pools: the raw string to a number of characters, then the ids, with  *)
(* the unknown one dropped, to MaxTokens.  Both cuts are private to it, so *)
(* is_truncated repeats them with a tokenizer of its own and compares the  *)
(* ids they leave with the ids of the whole text.  What is modelled is     *)
(* whether that reconstruction tells the truth about the vector.           *)
(*                                                                         *)
(* A text is a sequence of characters and Tokenise any function from texts *)
(* to sequences of ids.  The vector of a text is the mean of its ids; ids  *)
(* are taken to have independent vectors, so two means agree when the ids  *)
(* occur in the same proportions.  encode_fast does not fail: WordPiece    *)
(* can only miss its unknown token, which this vocabulary has.             *)
(***************************************************************************)
EXTENDS Naturals, Sequences, FiniteSets, Functions

CONSTANTS
  Characters,           \* the characters texts are made of
  MaxLength,            \* bound on the length of a text
  MaxTokens,            \* MAX_TOKENS
  MedianTokenLength,    \* median_token_length
  Unknown,              \* unk_token_id
  Marker, Blank,        \* MARKER of the tests, one character here, and a blank
  Tokenise(_)           \* the tokenizer, which upstream and Truncation share

ASSUME CutsAssumption ==
  /\ MaxTokens \in Nat
  /\ MedianTokenLength \in Nat
  /\ MaxLength \in Nat

VARIABLES
  text,                 \* the text asked about
  truncated,            \* what is_truncated answers
  pooled,               \* the ids embed pools
  whole                 \* the ids embed pools without a cap (the tests' oracle)

vars == <<text, truncated, pooled, whole>>

AtMost(n, sequence) ==
  SubSeq(sequence, 1, IF Len(sequence) < n THEN Len(sequence) ELSE n)

Known(ids) == LET IsKnown(id) == id # Unknown IN SelectSeq(ids, IsKnown)

-----------------------------------------------------------------------------
(***************************************************************************)
(* model2vec_rs: encode_with_args with a cap, and without one.             *)
(***************************************************************************)
EncodeCapped(t) == AtMost(MaxTokens, Known(Tokenise(AtMost(MaxTokens * MedianTokenLength, t))))
EncodeWhole(t)  == Known(Tokenise(t))

-----------------------------------------------------------------------------
(***************************************************************************)
(* Truncation.                                                             *)
(***************************************************************************)
CharTruncate(t, maxTokens) == AtMost(maxTokens * MedianTokenLength, t)

SurvivingIds(t) == Known(Tokenise(t))

\* Mutant: the token cut is made before the unknown id is dropped.
TruncatesCutFirst(t, maxTokens) ==
  Known(AtMost(maxTokens, Tokenise(CharTruncate(t, maxTokens)))) # SurvivingIds(t)

\* Mutant: only the token cut is repeated, the first version's mistake
\* (model.rs, the doc of Truncation).
TruncatesByTokens(t, maxTokens) ==
  AtMost(maxTokens, SurvivingIds(t)) # SurvivingIds(t)

\* Mutant: whether a cut fired, rather than whether an id was lost to it.
TruncatesWhenCut(t, maxTokens) ==
  \/ CharTruncate(t, maxTokens) # t
  \/ Len(SurvivingIds(t)) > maxTokens

\* Truncation::truncates
Truncates(t, maxTokens) ==
  LET all    == SurvivingIds(t)
      cut    == CharTruncate(t, maxTokens)
      capped == IF Len(cut) = Len(t) THEN all ELSE SurvivingIds(cut)
  IN  AtMost(maxTokens, capped) # all

-----------------------------------------------------------------------------
(***************************************************************************)
(* Every text up to MaxLength is asked about, each one a character longer  *)
(* than the one before.                                                    *)
(***************************************************************************)
Init ==
  /\ text = <<>>
  /\ truncated = Truncates(<<>>, MaxTokens)
  /\ pooled = EncodeCapped(<<>>)
  /\ whole = EncodeWhole(<<>>)

Ask(character) ==
  /\ Len(text) < MaxLength
  /\ text' = Append(text, character)
  /\ truncated' = Truncates(text', MaxTokens)
  /\ pooled' = EncodeCapped(text')
  /\ whole' = EncodeWhole(text')

Next == \E character \in Characters : Ask(character)

Spec == Init /\ [][Next]_vars

-----------------------------------------------------------------------------
(***************************************************************************)
(* Properties.                                                             *)
(***************************************************************************)
Count(id, ids) == Cardinality({n \in DOMAIN ids : ids[n] = id})

SameMean(ids, others) ==
  /\ ids = <<>> <=> others = <<>>
  /\ \A id \in Range(ids) \cup Range(others) :
       Count(id, ids) * Len(others) = Count(id, others) * Len(ids)

\* "Not clipped" means the vector is the vector of the whole text: an answer
\* of false is never given for a text the cap cost anything
\* (model.rs:872-874, the safe half of the tests' oracle).
NotTruncatedMeansWholeVector == ~truncated => SameMean(pooled, whole)

\* A text that lost no id is never reported, however far past a cut it runs:
\* trailing blanks, symbols outside the vocabulary (model.rs:219-224).
LosslessIsNotTruncated == pooled = whole => ~truncated

\* A text that ends in a marker found nowhere else in it.
Marked(t) ==
  LET last == Len(t)
  IN  /\ last > 1
      /\ t[last] = Marker
      /\ t[last - 1] = Blank
      /\ \A n \in 1 .. last - 1 : t[n] # Marker

\* The ids end with id, and have it nowhere else.
EndsWith(id, ids) ==
  /\ Len(ids) > 0 /\ ids[Len(ids)] = id
  /\ \A n \in 1 .. Len(ids) - 1 : ids[n] # id

\* What the tests choose MARKER for: the pieces hold nothing of it, so its id is
\* once in the ids of a marked text, at the end, and not in those of a text
\* without it.
MarkerHasId(id) ==
  \A length \in 0 .. MaxLength : \A t \in [1 .. length -> Characters] :
    LET ids == SurvivingIds(t)
    IN  /\ Len(ids) \in Nat /\ ids = [n \in 1 .. Len(ids) |-> ids[n]]
        /\ Marked(t) => EndsWith(id, ids)
        /\ (\A n \in 1 .. length : t[n] # Marker) => \A n \in 1 .. Len(ids) : ids[n] # id

\* Of such a text the answer is exact: a cut of any size takes the marker and
\* the mean moves (model.rs:922-925).
MarkedAnswerIsExact == Marked(text) => (truncated <=> ~SameMean(pooled, whole))

\* "pooled fewer ids for text than the whole of text would have given it"
\* (model.rs:214-215, lib.rs:189-190).
TruncatedMeansFewerIds == truncated <=> Len(pooled) < Len(whole)

=============================================================================

--------------------------- MODULE MCSingleFlight ---------------------------
(***************************************************************************)
(* Instances of SingleFlight for TLC.  The vector of a text is the text    *)
(* tagged, so no two texts share one; FailingTexts are the texts whose     *)
(* encode returns Err or panics.                                           *)
(***************************************************************************)
EXTENDS SingleFlight, TLC

CONSTANT FailingTexts

MCVectors == {<<"vector of", x>> : x \in Texts}

MCEncoder ==
  [x \in Texts |-> IF x \in FailingTexts THEN Failure ELSE <<"vector of", x>>]

\* Threads and texts are interchangeable in a safety run; in one with a failing
\* text only the threads are.
ThreadSymmetry == Permutations(Threads)
ThreadAndTextSymmetry == Permutations(Threads) \cup Permutations(Texts)

=============================================================================

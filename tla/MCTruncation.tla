----------------------------- MODULE MCTruncation -----------------------------
(***************************************************************************)
(* A small WordPiece tokenizer, of the kind tokenizer.json describes: the  *)
(* longest piece first, a continuation spelt apart from a start, a whole   *)
(* word unknown when a part of it is.  Its texts can lose ids to either    *)
(* cut, be cut inside a word, and run past a cut losing nothing.           *)
(***************************************************************************)
EXTENDS Truncation, SequencesExt

Letters == {"a", "b", "m", "*", " "}

\* "*" is in no piece.
Starts        == {<<"a">>, <<"b">>, <<"a", "b">>, <<"m">>}
Continuations == {<<"b">>, <<"a">>}

UnknownPiece == <<"?">>

Words(t) ==
  LET Extend(words, character) ==
        IF character = " "
        THEN Append(words, <<>>)
        ELSE [words EXCEPT ![Len(words)] = Append(@, character)]
  IN  FoldLeft(Extend, << <<>> >>, t)

WordPieces(word) ==
  LET Vocabulary(n) == IF n = 1 THEN Starts ELSE Continuations
      Spelling(n, piece) == IF n = 1 THEN piece ELSE <<"##">> \o piece
      Ends(n) == {m \in n .. Len(word) : SubSeq(word, n, m) \in Vocabulary(n)}
      from[n \in 1 .. Len(word) + 1] ==
        IF n > Len(word) THEN <<>>
        ELSE IF Ends(n) = {} THEN <<UnknownPiece>>
        ELSE LET m == Max(Ends(n)) IN <<Spelling(n, SubSeq(word, n, m))>> \o from[m + 1]
  IN  IF Contains(from[1], UnknownPiece) THEN <<UnknownPiece>> ELSE from[1]

WordPiece(t) ==
  LET words == Words(t) IN FlattenSeq([n \in DOMAIN words |-> WordPieces(words[n])])

\* Among its texts the marker has an id of its own.
ASSUME MarkerAssumption == MarkerHasId(<<"m">>)

=============================================================================

----------------------------- MODULE MCChunkCall -----------------------------
(***************************************************************************)
(* Instances of ChunkCall for TLC: a text that embeds, a second one, one   *)
(* whose encode fails, and columns of two rows in every form, one of them  *)
(* with its entries in two words of the mask.                              *)
(***************************************************************************)
EXTENDS ChunkCall

CONSTANTS x1, x2, bad

\* Vectors of two floats, so offsets are not row numbers.
MCEncoder ==
  [x \in Texts |-> IF x = bad THEN Failure ELSE <<<<x, 1>>, <<x, 2>>>>]

Column(form, rows, physical, selection) ==
  [form |-> form, rows |-> rows,
   physical |-> [n \in 0 .. Len(physical) - 1 |-> physical[n + 1]],
   selection |-> [n \in 0 .. Len(selection) - 1 |-> selection[n + 1]]]

Columns ==
  {Column("FLAT", 2, <<Null, x1>>, <<>>),
   Column("FLAT", 2, <<x2, bad>>, <<>>),
   Column("CONSTANT", 2, <<x1>>, <<>>),
   Column("CONSTANT", 2, <<Null>>, <<>>),
   Column("DICTIONARY", 2, <<Null, x1, x2>>, <<1, 2>>),
   Column("OTHER", 2, <<Null, x1, x2>>, <<2, 0>>)}

=============================================================================

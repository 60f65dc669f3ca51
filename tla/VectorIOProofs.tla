---------------------------- MODULE VectorIOProofs ----------------------------
(***************************************************************************)
(* Reading an argument and writing a result, for every column, every word  *)
(* size, every list of values and every room DuckDB hands out.             *)
(*                                                                         *)
(* A writer is a script of steps.  Of each script it is shown that it is   *)
(* sane: a vector is sized before its pointer is fetched, and fetched      *)
(* before it is written through, inside the size.  Of a sane script it is  *)
(* shown, by what one more step does, that it leaves in the result what    *)
(* its copies say, for as long as the writer goes.  What DuckDB reads back *)
(* at the end is then what the rows were given.                            *)
(*                                                                         *)
(* What the recursive functions of VectorIO compute is shown by induction  *)
(* on the numbers: a set of numbers that is not empty has a least element. *)
(***************************************************************************)
EXTENDS VectorIO, WellFoundedInduction, TLAPS

-----------------------------------------------------------------------------
(***************************************************************************)
(* The argument.                                                           *)
(***************************************************************************)

\* A position is its word and its bit.
LEMMA WordAndBit ==
  ASSUME NEW m \in Nat, NEW n \in Nat,
         m \div WordBits = n \div WordBits, m % WordBits = n % WordBits
  PROVE  m = n
<1>1. WordBits \in Nat /\ WordBits > 0
  BY WordBitsAssumption
<1>2. ASSUME NEW k \in Nat
      PROVE  k = WordBits * (k \div WordBits) + (k % WordBits)
  BY <1>1
<1> QED
  BY <1>1, <1>2

\* The mask has the bit of a position exactly when the entry is not NULL.
LEMMA MaskIsValidity ==
  ASSUME NEW physical, DOMAIN physical \subseteq Nat, NEW n \in DOMAIN physical
  PROVE  n % WordBits \in Mask(physical)[n \div WordBits] <=> physical[n] # Null
<1> DEFINE valid == {m \in DOMAIN physical : physical[m] # Null}
<1>1. n \div WordBits \in {m \div WordBits : m \in DOMAIN physical}
  OBVIOUS
<1>2. Mask(physical)[n \div WordBits] =
        {m % WordBits : m \in {k \in valid : k \div WordBits = n \div WordBits}}
  BY <1>1 DEF Mask
<1>3. ASSUME physical[n] # Null
      PROVE  n % WordBits \in Mask(physical)[n \div WordBits]
  BY <1>2, <1>3
<1>4. ASSUME n % WordBits \in Mask(physical)[n \div WordBits]
      PROVE  physical[n] # Null
  <2>1. PICK m \in valid : m \div WordBits = n \div WordBits /\ n % WordBits = m % WordBits
    BY <1>2, <1>4
  <2>2. m = n
    BY <2>1, WordAndBit
  <2> QED
    BY <2>2
<1> QED
  BY <1>3, <1>4

\* The view of a column the view does not refuse, read at a row.
LEMMA ViewIsLogical ==
  ASSUME NEW chunk, IsColumn(chunk), NEW row \in Rows(chunk)
  PROVE  EntryOf(View(chunk), row) = Logical(chunk, row)
<1> DEFINE view == View(chunk)
           index == Selected(chunk, row)
<1>1. index \in DOMAIN chunk.physical /\ row \in Nat
  BY DEF IsColumn, Rows
<1>2. (IF view.selection = NoSelection THEN row ELSE view.selection[row]) = index
  <2>1. CASE chunk.form = "FLAT"
    BY <2>1 DEF View, Selected
  <2>2. CASE chunk.form # "FLAT"
    <3>1. view.selection = [r \in Rows(chunk) |-> Selected(chunk, r)]
      BY <2>2 DEF View
    <3>2. view.selection # NoSelection
      <4>1. row \in DOMAIN view.selection /\ DOMAIN NoSelection = {}
        BY <3>1 DEF NoSelection
      <4> QED
        BY <4>1
    <3> QED
      BY <3>1, <3>2
  <2> QED
    BY <2>1, <2>2
<1>3. view.data[index] = IF chunk.physical[index] = Null THEN Garbage ELSE chunk.physical[index]
  BY <1>1 DEF View
<1>4. CASE view.validity = NoMask
  <2>1. \A n \in DOMAIN chunk.physical : chunk.physical[n] # Null
    <3> SUFFICES ASSUME NEW n \in DOMAIN chunk.physical, chunk.physical[n] = Null
                 PROVE  FALSE
      OBVIOUS
    <3>1. view.validity = Mask(chunk.physical)
      BY DEF View
    <3>2. n \div WordBits \in DOMAIN view.validity
      BY <3>1 DEF Mask
    <3> QED
      BY <1>4, <3>2 DEF NoMask
  <2> QED
    BY <1>1, <1>2, <1>3, <1>4, <2>1 DEF EntryOf, Logical
<1>5. CASE view.validity # NoMask
  <2>1. view.validity = Mask(chunk.physical)
    BY <1>5 DEF View
  <2>2. index % WordBits \in view.validity[index \div WordBits] <=> chunk.physical[index] # Null
    BY <1>1, <2>1, MaskIsValidity DEF IsColumn
  <2> HIDE DEF view, index
  <2>3. EntryOf(view, row) =
          IF index % WordBits \in view.validity[index \div WordBits]
          THEN view.data[index] ELSE Null
    BY <1>2, <1>5 DEF EntryOf
  <2>4. EntryOf(view, row) = chunk.physical[index]
    BY <1>3, <2>2, <2>3
  <2> QED
    BY <2>4 DEF Logical, view, index
<1> QED
  BY <1>4, <1>5

\* Whatever form the column comes in, and wherever its entries fall in the words
\* of the mask, row n of the argument is what SQL says the row holds
\* (varchar_arg, capi.rs:512).
THEOREM ArgumentIsLogical ==
  ASSUME NEW chunk, IsColumn(chunk), NEW row \in Rows(chunk)
  PROVE  VarcharArg(chunk)[row] = Logical(chunk, row)
<1>1. CASE chunk.form # "OTHER"
  BY <1>1, ViewIsLogical DEF VarcharArg
<1>2. CASE chunk.form = "OTHER"
  <2> DEFINE flat == Flatten(chunk)
  <2>1. /\ flat.form = "FLAT" /\ flat.rows = chunk.rows
        /\ flat.physical = [r \in Rows(chunk) |-> Logical(chunk, r)]
    BY <1>2 DEF Flatten
  <2>2. Rows(flat) = Rows(chunk)
    BY <2>1 DEF Rows
  <2>3. IsColumn(flat)
    BY <2>1, <2>2 DEF IsColumn, Rows, Selected
  <2>4. Logical(flat, row) = Logical(chunk, row)
    BY <2>1 DEF Logical, Selected
  <2>5. EntryOf(View(flat), row) = Logical(flat, row)
    BY <2>2, <2>3, ViewIsLogical
  <2> HIDE DEF flat
  <2>6. VarcharArg(chunk)[row] = EntryOf(View(Flatten(chunk)), row)
    BY <1>2 DEF VarcharArg
  <2> QED
    BY <2>4, <2>5, <2>6 DEF flat
<1> QED
  BY <1>1, <1>2

-----------------------------------------------------------------------------
(***************************************************************************)
(* Induction, and the recursive functions of the writers.                  *)
(***************************************************************************)

\* The least of a set of numbers.
LEMMA LeastElement ==
  ASSUME NEW S \in SUBSET Nat, S # {}
  PROVE  \E n \in S : \A m \in S : n <= m
<1>1. \E n \in S : \A m \in S : ~ (<<m, n>> \in OpToRel(<, Nat))
  BY NatLessThanWellFounded, WFMin
<1>2. ASSUME NEW n \in Nat, NEW m \in Nat, ~ (<<m, n>> \in OpToRel(<, Nat))
      PROVE  n <= m
  BY <1>2 DEF OpToRel
<1> QED
  BY <1>1, <1>2

\* Induction up to a bound, on the set of the numbers that have the property.
LEMMA BoundedInduction ==
  ASSUME NEW N \in Nat, NEW S, 0 \in S, \A n \in 1 .. N : n - 1 \in S => n \in S
  PROVE  0 .. N \subseteq S
<1> DEFINE T == {n \in 0 .. N : n \notin S}
<1> SUFFICES ASSUME T # {}
             PROVE  FALSE
  OBVIOUS
<1>1. PICK n \in T : \A m \in T : n <= m
  <2>1. T \in SUBSET Nat
    OBVIOUS
  <2> QED
    BY <2>1, LeastElement
<1>2. n \in 1 .. N /\ n - 1 \in 0 .. N /\ n - 1 \notin T
  BY <1>1
<1> QED
  BY <1>2

\* f[n] is what the steps up to n make of base.
IsIteration(k, base, step, f) ==
  /\ f[0] = base
  /\ \A n \in 1 .. k : f[n] = step[n][f[n - 1]]

\* step may be applied N times over: there is the function of what each leaves.
LEMMA IterationExists ==
  ASSUME NEW N \in Nat, NEW D, NEW base \in D, NEW step \in [1 .. N -> [D -> D]]
  PROVE  \E f \in [0 .. N -> D] : IsIteration(N, base, step, f)
<1> DEFINE Has(k) == \E f \in [0 .. k -> D] : IsIteration(k, base, step, f)
           S == {k \in 0 .. N : Has(k)}
<1>1. Has(0)
  <2> DEFINE f == [n \in 0 .. 0 |-> base]
  <2>1. f \in [0 .. 0 -> D] /\ IsIteration(0, base, step, f)
    BY DEF IsIteration
  <2> QED
    BY <2>1
<1>2. ASSUME NEW k \in 1 .. N, Has(k - 1)
      PROVE  Has(k)
  <2>1. PICK f \in [0 .. k - 1 -> D] : IsIteration(k - 1, base, step, f)
    BY <1>2
  <2> DEFINE last == step[k][f[k - 1]]
             g == [n \in 0 .. k |-> IF n = k THEN last ELSE f[n]]
  <2>2. last \in D
    <3>1. f[k - 1] \in D /\ step[k] \in [D -> D]
      OBVIOUS
    <3> QED
      BY <3>1
  <2>3. g \in [0 .. k -> D]
    <3> HIDE DEF last
    <3> QED
      BY <2>2
  <2>4. ASSUME NEW n \in 1 .. k
        PROVE  g[n] = step[n][g[n - 1]]
    <3>1. g[n - 1] = f[n - 1]
      OBVIOUS
    <3>2. n # k => f[n] = step[n][f[n - 1]]
      BY <2>1 DEF IsIteration
    <3>3. g[n] = IF n = k THEN last ELSE f[n]
      OBVIOUS
    <3> QED
      BY <3>1, <3>2, <3>3
  <2>5. g[0] = base
    BY <2>1 DEF IsIteration
  <2>6. IsIteration(k, base, step, g)
    <3> HIDE DEF g
    <3> QED
      BY <2>4, <2>5 DEF IsIteration
  <2> HIDE DEF g
  <2> QED
    BY <2>3, <2>6
<1>3. 0 .. N \subseteq S
  <2> HIDE DEF Has
  <2>1. 0 \in S /\ \A k \in 1 .. N : k - 1 \in S => k \in S
    BY <1>1, <1>2
  <2> HIDE DEF S
  <2> QED
    BY <2>1, BoundedInduction
<1> QED
  BY <1>3

\* The values of the rows of embed: NULL, or a sequence of floats.
Values(F) == Seq({Null} \cup Seq(F))

\* A row's length is a number: that of its floats, when it has any.
LEMMA LengthType ==
  ASSUME NEW F, NEW values \in Values(F), NEW n \in 1 .. Len(values)
  PROVE  /\ Length(values[n]) \in Nat
         /\ values[n] # Null => values[n] \in Seq(F) /\ Length(values[n]) = Len(values[n])
  BY DEF Length, Values

\* The places where the rows begin, counted up to the end of the last.
IsOffset(values, offset) ==
  /\ offset \in [0 .. Len(values) -> Nat]
  /\ offset[0] = 0
  /\ \A n \in 1 .. Len(values) : offset[n] = offset[n - 1] + Length(values[n])

\* list_entries counts up offsets, and an entry is where its row begins.
LEMMA EntriesAtOffsets ==
  ASSUME NEW F, NEW values \in Values(F)
  PROVE  \E offset :
           /\ IsOffset(values, offset)
           /\ ListEntries(values) =
                [n \in 1 .. Len(values) |->
                   [offset |-> offset[n - 1], length |-> Length(values[n])]]
<1> DEFINE N == Len(values)
           step == [n \in 1 .. N |-> [d \in Nat |-> d + Length(values[n])]]
           Is(f) == f = [n \in 0 .. N |-> IF n = 0 THEN 0 ELSE f[n - 1] + Length(values[n])]
           offset == CHOOSE f : Is(f)
<1>0. N \in Nat
  BY DEF Values
<1>1. step \in [1 .. N -> [Nat -> Nat]]
  BY LengthType
<1>2. PICK f \in [0 .. N -> Nat] : IsIteration(N, 0, step, f)
  <2> HIDE DEF step, N
  <2> QED
    BY <1>0, <1>1, IterationExists
<1>3. f[0] = 0 /\ \A n \in 1 .. N : f[n] = f[n - 1] + Length(values[n])
  <2>1. ASSUME NEW n \in 1 .. N
        PROVE  step[n][f[n - 1]] = f[n - 1] + Length(values[n])
    <3>1. f[n - 1] \in Nat
      OBVIOUS
    <3> QED
      BY <3>1
  <2> HIDE DEF step
  <2> QED
    BY <1>2, <2>1 DEF IsIteration
<1>4. Is(f)
  <2>1. f = [n \in 0 .. N |-> f[n]]
    OBVIOUS
  <2>2. \A n \in 0 .. N : f[n] = IF n = 0 THEN 0 ELSE f[n - 1] + Length(values[n])
    BY <1>0, <1>3
  <2> HIDE DEF N
  <2> QED
    BY <2>1, <2>2
<1>5. Is(offset)
  <2> HIDE DEF Is
  <2> QED
    BY <1>4
<1>6. ListEntries(values) =
        [n \in 1 .. N |-> [offset |-> offset[n - 1], length |-> Length(values[n])]]
  BY DEF ListEntries
<1> HIDE DEF offset
<1>7. /\ offset[0] = 0
      /\ \A n \in 1 .. N : offset[n] = offset[n - 1] + Length(values[n])
      /\ DOMAIN offset = 0 .. N /\ offset = [n \in 0 .. N |-> offset[n]]
  BY <1>0, <1>5
<1>8. 0 .. N \subseteq {n \in 0 .. N : offset[n] \in Nat}
  <2> DEFINE S == {n \in 0 .. N : offset[n] \in Nat}
  <2>1. 0 \in S
    BY <1>0, <1>7
  <2>2. ASSUME NEW n \in 1 .. N, n - 1 \in S
        PROVE  n \in S
    <3>1. offset[n - 1] \in Nat /\ Length(values[n]) \in Nat
      BY <2>2, LengthType
    <3>2. offset[n] = offset[n - 1] + Length(values[n])
      BY <1>7
    <3>3. offset[n] \in Nat
      BY <3>1, <3>2
    <3> QED
      BY <3>3
  <2> HIDE DEF S
  <2>3. 0 .. N \subseteq S
    BY <1>0, <2>1, <2>2, BoundedInduction
  <2> QED
    BY <2>3 DEF S
<1>9. IsOffset(values, offset)
  BY <1>7, <1>8 DEF IsOffset
<1> QED
  BY <1>6, <1>9

\* A row is behind every mark, and a mark for every row that is NULL.
MarksTo(values, n, marks) ==
  /\ marks \in Seq({SetNull(row) : row \in Nat})
  /\ \A i \in 1 .. Len(marks) : \E r \in 1 .. n : values[r] = Null /\ marks[i] = SetNull(r - 1)
  /\ \A r \in 1 .. n : values[r] = Null => \E i \in 1 .. Len(marks) : marks[i] = SetNull(r - 1)

\* One more element of a sequence.
LEMMA Appended ==
  ASSUME NEW S, NEW s \in Seq(S), NEW e \in S
  PROVE  /\ Append(s, e) \in Seq(S)
         /\ Len(Append(s, e)) = Len(s) + 1 /\ Len(s) \in Nat
         /\ \A i \in 1 .. Len(s) : Append(s, e)[i] = s[i]
         /\ Append(s, e)[Len(s) + 1] = e
  OBVIOUS

\* The rows that are NULL are marked, and no others.
LEMMA NullsAreMarked ==
  ASSUME NEW values, Len(values) \in Nat
  PROVE  MarksTo(values, Len(values), SetNulls(values))
<1> DEFINE N == Len(values)
           Steps == {SetNull(row) : row \in Nat}
           More(n, s) == IF values[n] = Null THEN Append(s, SetNull(n - 1)) ELSE s
           step == [n \in 1 .. N |-> [s \in Seq(Steps) |-> More(n, s)]]
           Is(f) == f = [n \in 0 .. N |-> IF n = 0 THEN <<>> ELSE More(n, f[n - 1])]
           upTo == CHOOSE f : Is(f)
<1>0. N \in Nat
  OBVIOUS
<1>a. ASSUME NEW n \in 1 .. N
      PROVE  SetNull(n - 1) \in Steps
  OBVIOUS
<1>1. ASSUME NEW n \in 1 .. N, NEW s \in Seq(Steps)
      PROVE  More(n, s) \in Seq(Steps)
  <2> HIDE DEF Steps
  <2> QED
    BY <1>a, Appended
<1>2. SetNulls(values) = upTo[N]
  BY DEF SetNulls
<1> DEFINE S == {n \in 0 .. N : MarksTo(values, n, upTo[n])}
<1>3. /\ upTo[0] = <<>>
      /\ \A n \in 1 .. N : upTo[n] = More(n, upTo[n - 1])
  <2> HIDE DEF More
  <2>1. step \in [1 .. N -> [Seq(Steps) -> Seq(Steps)]] /\ <<>> \in Seq(Steps)
    <3> HIDE DEF Steps
    <3> QED
      BY <1>1
  <2>2. PICK f \in [0 .. N -> Seq(Steps)] : IsIteration(N, <<>>, step, f)
    <3> HIDE DEF step, N, Steps
    <3> QED
      BY <1>0, <2>1, IterationExists
  <2>3. f[0] = <<>> /\ \A n \in 1 .. N : f[n] = More(n, f[n - 1])
    <3> HIDE DEF Steps
    <3>1. ASSUME NEW n \in 1 .. N
          PROVE  step[n][f[n - 1]] = More(n, f[n - 1])
      <4>1. f[n - 1] \in Seq(Steps)
        OBVIOUS
      <4> QED
        BY <4>1
    <3> HIDE DEF step
    <3> QED
      BY <2>2, <3>1 DEF IsIteration
  <2>4. Is(f)
    <3>1. f = [n \in 0 .. N |-> f[n]]
      OBVIOUS
    <3> HIDE DEF N
    <3>2. \A n \in 0 .. N : f[n] = IF n = 0 THEN <<>> ELSE More(n, f[n - 1])
      BY <1>0, <2>3
    <3> QED
      BY <3>1, <3>2
  <2>5. Is(upTo)
    <3> HIDE DEF Is
    <3> QED
      BY <2>4
  <2> HIDE DEF upTo
  <2> QED
    BY <1>0, <2>5
<1> HIDE DEF upTo
<1>7. /\ upTo[0] = <<>>
      /\ \A n \in 1 .. N :
           upTo[n] = IF values[n] = Null THEN Append(upTo[n - 1], SetNull(n - 1))
                     ELSE upTo[n - 1]
  BY <1>3
<1>8. 0 \in S
  <2>1. MarksTo(values, 0, <<>>)
    BY DEF MarksTo
  <2> QED
    BY <1>0, <1>3, <2>1
<1>9. ASSUME NEW n \in 1 .. N, n - 1 \in S
      PROVE  n \in S
  <2>1. MarksTo(values, n - 1, upTo[n - 1])
    BY <1>9
  <2>2. CASE values[n] # Null
    <3>1. upTo[n] = upTo[n - 1]
      BY <1>7, <2>2
    <3>2. \A r \in 1 .. n : values[r] = Null => r \in 1 .. n - 1
      BY <2>2
    <3>3. MarksTo(values, n, upTo[n])
      BY <2>1, <3>1, <3>2 DEF MarksTo
    <3> QED
      BY <3>3
  <2>3. CASE values[n] = Null
    <3> DEFINE s == upTo[n - 1]
               t == upTo[n]
    <3>1. t = Append(s, SetNull(n - 1))
      BY <1>7, <2>3
    <3>2. s \in Seq(Steps)
      BY <2>1 DEF MarksTo
    <3> HIDE DEF s, t, Steps
    <3>3. /\ t \in Seq(Steps) /\ Len(t) = Len(s) + 1 /\ Len(s) \in Nat
          /\ \A i \in 1 .. Len(s) : t[i] = s[i]
          /\ t[Len(s) + 1] = SetNull(n - 1)
      BY <1>a, <3>1, <3>2, Appended
    <3>4. ASSUME NEW i \in 1 .. Len(t)
          PROVE  \E r \in 1 .. n : values[r] = Null /\ t[i] = SetNull(r - 1)
      <4>1. CASE i = Len(s) + 1
        BY <2>3, <3>3, <4>1
      <4>2. CASE i # Len(s) + 1
        <5>1. i \in 1 .. Len(s) /\ t[i] = s[i]
          BY <3>3, <4>2
        <5>2. PICK r \in 1 .. n - 1 : values[r] = Null /\ s[i] = SetNull(r - 1)
          BY <2>1, <5>1 DEF MarksTo, s
        <5> QED
          BY <5>1, <5>2
      <4> QED
        BY <4>1, <4>2
    <3>5. ASSUME NEW r \in 1 .. n, values[r] = Null
          PROVE  \E i \in 1 .. Len(t) : t[i] = SetNull(r - 1)
      <4>1. CASE r = n
        BY <3>3, <4>1
      <4>2. CASE r # n
        <5>1. r \in 1 .. n - 1
          BY <4>2
        <5>2. PICK i \in 1 .. Len(s) : s[i] = SetNull(r - 1)
          BY <2>1, <3>5, <5>1 DEF MarksTo, s
        <5> QED
          BY <3>3, <5>2
      <4> QED
        BY <4>1, <4>2
    <3>6. MarksTo(values, n, t)
      BY <3>3, <3>4, <3>5 DEF MarksTo, Steps
    <3> QED
      BY <3>6 DEF t
  <2> QED
    BY <2>2, <2>3
<1> HIDE DEF S
<1>10. N \in S
  <2> HIDE DEF N, More
  <2>1. 0 .. N \subseteq S
    BY <1>0, <1>8, <1>9, BoundedInduction
  <2> QED
    BY <1>0, <2>1
<1> QED
  BY <1>2, <1>10 DEF S

\* Where the last of the copies ends.
EndOf(copies) == IF copies = <<>> THEN 0 ELSE Last(copies).at + Len(Last(copies).values)

\* A copy ends where the next of them begins, or before.
End(script, i) == script[i].at + Len(script[i].values)
\* No copy ends past the bound.
Within(copies, bound) == \A i \in 1 .. Len(copies) : End(copies, i) <= bound
\* No copy begins before an earlier one has ended.
InOrder(copies) ==
  \A i, j \in 1 .. Len(copies) : i < j => End(copies, i) <= copies[j].at

\* The copies of the first n rows: one for each that is not NULL, at the place
\* where the row begins, each past the ones before it.
CopiesTo(F, values, offset, n, copies) ==
  /\ copies \in Seq({Copy(Child(0), at, floats) : at \in Nat, floats \in Seq(F)})
  /\ EndOf(copies) = offset[n]
  /\ \A i \in 1 .. Len(copies) : \E r \in 1 .. n :
       values[r] # Null /\ copies[i] = Copy(Child(0), offset[r - 1], values[r])
  /\ \A r \in 1 .. n : values[r] # Null =>
       \E i \in 1 .. Len(copies) : copies[i] = Copy(Child(0), offset[r - 1], values[r])
  /\ Within(copies, offset[n])
  /\ InOrder(copies)

\* The floats of every row that has any are copied to where the row begins.
LEMMA FloatsAreCopied ==
  ASSUME NEW F, NEW values \in Values(F), NEW offset, IsOffset(values, offset)
  PROVE  CopiesTo(F, values, offset, Len(values), FloatCopies(values))
<1> DEFINE N == Len(values)
           Steps == {Copy(Child(0), at, floats) : at \in Nat, floats \in Seq(F)}
           More(n, s) == IF values[n] = Null THEN s
                         ELSE Append(s, Copy(Child(0), EndOf(s), values[n]))
           step == [n \in 1 .. N |-> [s \in Seq(Steps) |-> More(n, s)]]
           Is(f) == f = [n \in 0 .. N |-> IF n = 0 THEN <<>> ELSE More(n, f[n - 1])]
           upTo == CHOOSE f : Is(f)
<1>0. N \in Nat
  BY DEF Values
<1>a. ASSUME NEW n \in 1 .. N, values[n] # Null, NEW at \in Nat
      PROVE  Copy(Child(0), at, values[n]) \in Steps
  BY <1>a, LengthType
<1>b. ASSUME NEW s \in Seq(Steps)
      PROVE  EndOf(s) \in Nat
  <2>1. CASE s = <<>>
    BY <2>1 DEF EndOf
  <2>2. CASE s # <<>>
    <3>1. s[Len(s)] \in Steps
      <4> HIDE DEF Steps
      <4> QED
        BY <2>2
    <3>2. PICK at \in Nat, floats \in Seq(F) : s[Len(s)] = Copy(Child(0), at, floats)
      BY <3>1
    <3>3. s[Len(s)].at = at /\ s[Len(s)].values = floats /\ Len(floats) \in Nat
      BY <3>2 DEF Copy
    <3> QED
      BY <2>2, <3>3 DEF EndOf, Last
  <2> QED
    BY <2>1, <2>2
<1>1. ASSUME NEW n \in 1 .. N, NEW s \in Seq(Steps)
      PROVE  More(n, s) \in Seq(Steps)
  <2> HIDE DEF Steps
  <2> QED
    BY <1>a, <1>b, Appended
<1>2. FloatCopies(values) = upTo[N]
  BY DEF FloatCopies, EndOf
<1> DEFINE S == {n \in 0 .. N : CopiesTo(F, values, offset, n, upTo[n])}
<1>3. /\ upTo[0] = <<>>
      /\ \A n \in 1 .. N : upTo[n] = More(n, upTo[n - 1])
  <2> HIDE DEF More
  <2>1. step \in [1 .. N -> [Seq(Steps) -> Seq(Steps)]] /\ <<>> \in Seq(Steps)
    <3> HIDE DEF Steps
    <3> QED
      BY <1>1
  <2>2. PICK f \in [0 .. N -> Seq(Steps)] : IsIteration(N, <<>>, step, f)
    <3> HIDE DEF step, N, Steps
    <3> QED
      BY <1>0, <2>1, IterationExists
  <2>3. f[0] = <<>> /\ \A n \in 1 .. N : f[n] = More(n, f[n - 1])
    <3> HIDE DEF Steps
    <3>1. ASSUME NEW n \in 1 .. N
          PROVE  step[n][f[n - 1]] = More(n, f[n - 1])
      <4>1. f[n - 1] \in Seq(Steps)
        OBVIOUS
      <4> QED
        BY <4>1
    <3> HIDE DEF step
    <3> QED
      BY <2>2, <3>1 DEF IsIteration
  <2>4. Is(f)
    <3>1. f = [n \in 0 .. N |-> f[n]]
      OBVIOUS
    <3> HIDE DEF N
    <3>2. \A n \in 0 .. N : f[n] = IF n = 0 THEN <<>> ELSE More(n, f[n - 1])
      BY <1>0, <2>3
    <3> QED
      BY <3>1, <3>2
  <2>5. Is(upTo)
    <3> HIDE DEF Is
    <3> QED
      BY <2>4
  <2> HIDE DEF upTo
  <2> QED
    BY <1>0, <2>5
<1> HIDE DEF upTo
<1>8. 0 \in S
  <2>1. CopiesTo(F, values, offset, 0, <<>>)
    BY DEF CopiesTo, EndOf, IsOffset, InOrder, Within
  <2> QED
    BY <1>0, <1>3, <2>1
<1>9. ASSUME NEW n \in 1 .. N, n - 1 \in S
      PROVE  n \in S
  <2> DEFINE s == upTo[n - 1]
             t == upTo[n]
  <2>1. CopiesTo(F, values, offset, n - 1, s)
    BY <1>9
  <2>2. offset[n] = offset[n - 1] + Length(values[n]) /\ offset[n - 1] \in Nat
    BY DEF IsOffset
  <2>3. CASE values[n] = Null
    <3>1. t = s /\ offset[n] = offset[n - 1]
      BY <1>3, <2>2, <2>3 DEF Length
    <3>2. \A r \in 1 .. n : values[r] # Null => r \in 1 .. n - 1
      BY <2>3
    <3> HIDE DEF s, t
    <3>3. CopiesTo(F, values, offset, n, s)
      <4>1. \A i \in 1 .. Len(s) : \E r \in 1 .. n - 1 :
              values[r] # Null /\ s[i] = Copy(Child(0), offset[r - 1], values[r])
        BY <2>1 DEF CopiesTo
      <4>2. \A i \in 1 .. Len(s) : \E r \in 1 .. n :
              values[r] # Null /\ s[i] = Copy(Child(0), offset[r - 1], values[r])
        BY <4>1
      <4>3. \A r \in 1 .. n : values[r] # Null =>
              \E i \in 1 .. Len(s) : s[i] = Copy(Child(0), offset[r - 1], values[r])
        BY <2>1, <3>2 DEF CopiesTo
      <4> QED
        BY <2>1, <3>1, <4>2, <4>3 DEF CopiesTo
    <3> QED
      BY <3>1, <3>3 DEF t
  <2>4. CASE values[n] # Null
    <3> DEFINE last == Copy(Child(0), offset[n - 1], values[n])
    <3>1. t = Append(s, last)
      BY <1>3, <2>1, <2>4 DEF CopiesTo
    <3>2. s \in Seq(Steps)
      BY <2>1 DEF CopiesTo
    <3>3. last \in Steps
      BY <1>a, <2>2, <2>4
    <3>4. /\ last.at = offset[n - 1] /\ last.values = values[n]
          /\ last.at + Len(last.values) = offset[n]
      BY <2>2, <2>4 DEF Copy, Length
    <3> HIDE DEF s, t, Steps, last
    <3>5. /\ t \in Seq(Steps) /\ Len(t) = Len(s) + 1 /\ Len(s) \in Nat
          /\ \A i \in 1 .. Len(s) : t[i] = s[i]
          /\ t[Len(s) + 1] = last
      BY <3>1, <3>2, <3>3, Appended
    <3>6. EndOf(t) = offset[n]
      BY <3>4, <3>5 DEF EndOf, Last
    <3>7. ASSUME NEW i \in 1 .. Len(t)
          PROVE  \E r \in 1 .. n :
                   values[r] # Null /\ t[i] = Copy(Child(0), offset[r - 1], values[r])
      <4>1. CASE i = Len(s) + 1
        BY <2>4, <3>5, <4>1 DEF last
      <4>2. CASE i # Len(s) + 1
        <5>1. i \in 1 .. Len(s) /\ t[i] = s[i]
          BY <3>5, <4>2
        <5>2. PICK r \in 1 .. n - 1 :
                values[r] # Null /\ s[i] = Copy(Child(0), offset[r - 1], values[r])
          BY <2>1, <5>1 DEF CopiesTo
        <5> QED
          BY <5>1, <5>2
      <4> QED
        BY <4>1, <4>2
    <3>8. ASSUME NEW r \in 1 .. n, values[r] # Null
          PROVE  \E i \in 1 .. Len(t) : t[i] = Copy(Child(0), offset[r - 1], values[r])
      <4>1. CASE r = n
        BY <3>5, <4>1 DEF last
      <4>2. CASE r # n
        <5>1. r \in 1 .. n - 1
          BY <4>2
        <5>2. PICK i \in 1 .. Len(s) : s[i] = Copy(Child(0), offset[r - 1], values[r])
          BY <2>1, <3>8, <5>1 DEF CopiesTo
        <5> QED
          BY <3>5, <5>2
      <4> QED
        BY <4>1, <4>2
    <3>9. ASSUME NEW i \in 1 .. Len(s)
          PROVE  t[i].at + Len(t[i].values) <= offset[n - 1] /\ t[i].at + Len(t[i].values) \in Nat
      <4>1. t[i] = s[i] /\ s[i] \in Steps
        BY <3>2, <3>5
      <4>2. PICK at \in Nat, floats \in Seq(F) : s[i] = Copy(Child(0), at, floats)
        BY <4>1 DEF Steps
      <4>3. s[i].at \in Nat /\ Len(s[i].values) \in Nat
        BY <4>2 DEF Copy
      <4>4. s[i].at + Len(s[i].values) <= offset[n - 1]
        BY <2>1 DEF CopiesTo, Within, End
      <4> QED
        BY <4>1, <4>3, <4>4
    <3>10. ASSUME NEW i \in 1 .. Len(t)
           PROVE  t[i].at + Len(t[i].values) <= offset[n]
      <4>1. offset[n - 1] <= offset[n] /\ offset[n] \in Nat
        BY <2>2, LengthType
      <4>2. CASE i = Len(s) + 1
        BY <3>4, <3>5, <4>1, <4>2
      <4>3. CASE i # Len(s) + 1
        <5>1. i \in 1 .. Len(s)
          BY <3>5, <4>3
        <5> QED
          BY <2>2, <3>9, <4>1, <5>1
      <4> QED
        BY <4>2, <4>3
    <3>11. ASSUME NEW i \in 1 .. Len(t), NEW j \in 1 .. Len(t), i < j
           PROVE  t[i].at + Len(t[i].values) <= t[j].at
      <4>1. i \in 1 .. Len(s)
        BY <3>5, <3>11
      <4>2. CASE j = Len(s) + 1
        BY <3>4, <3>5, <3>9, <4>1, <4>2
      <4>3. CASE j # Len(s) + 1
        <5>1. j \in 1 .. Len(s)
          BY <3>5, <4>3
        <5>2. s[i].at + Len(s[i].values) <= s[j].at
          BY <2>1, <3>11, <4>1, <5>1 DEF CopiesTo, InOrder, End
        <5> QED
          BY <3>5, <4>1, <5>1, <5>2
      <4> QED
        BY <4>2, <4>3
    <3>12. CopiesTo(F, values, offset, n, t)
      <4>1. t \in Seq({Copy(Child(0), at, floats) : at \in Nat, floats \in Seq(F)})
        BY <3>5 DEF Steps
      <4>2. InOrder(t)
        BY <3>11 DEF InOrder, End
      <4>3. Within(t, offset[n])
        BY <3>10 DEF Within, End
      <4> QED
        BY <3>6, <3>7, <3>8, <4>1, <4>2, <4>3 DEF CopiesTo
    <3> QED
      BY <3>12 DEF t
  <2> QED
    BY <2>3, <2>4
<1> HIDE DEF S
<1>10. N \in S
  <2> HIDE DEF N, More
  <2>1. 0 .. N \subseteq S
    BY <1>0, <1>8, <1>9, BoundedInduction
  <2> QED
    BY <1>0, <2>1
<1> QED
  BY <1>2, <1>10 DEF S

-----------------------------------------------------------------------------
(***************************************************************************)
(* What a script leaves in the vectors of a result.                        *)
(***************************************************************************)

\* A step is on one of the vectors, and what it says is of its kind.
IsStep(step, vectors) ==
  /\ step.on \in vectors
  /\ \/ step.op = "set_size" /\ step.size \in Nat
     \/ step.op \in {"get_child", "get_data", "set_null"}
     \/ step.op = "copy" /\ step.at \in Nat /\ Len(step.values) \in Nat

\* What a step of a script does to a vector.
Sizes(script, p, v) == script[p].op = "set_size" /\ script[p].on = v
Fetches(script, q, v) == script[q].op = "get_data" /\ script[q].on = v
Copies(script, i, v) == script[i].op = "copy" /\ script[i].on = v

\* A script a writer may follow: a vector is sized one way only; each copy is
\* into a vector sized before it, through a pointer fetched after that, and ends
\* inside the size; copies into one vector do not overlap and go up.
Sane(script, vectors) ==
  /\ Len(script) \in Nat /\ \E S : script \in Seq(S)
  /\ \A i \in 1 .. Len(script) : IsStep(script[i], vectors)
  /\ \A v \in vectors :
       /\ \A p, q \in 1 .. Len(script) :
            Sizes(script, p, v) /\ Sizes(script, q, v) => script[p].size = script[q].size
       /\ \A i \in 1 .. Len(script) : Copies(script, i, v) =>
            \E p, q \in 1 .. Len(script) :
              /\ p < q /\ q < i
              /\ Sizes(script, p, v) /\ Fetches(script, q, v)
              /\ End(script, i) <= script[p].size
       /\ \A i, j \in 1 .. Len(script) :
            i < j /\ Copies(script, i, v) /\ Copies(script, j, v) =>
              End(script, i) <= script[j].at

\* A vector nobody has written outside of.
IsVector(vector) ==
  /\ DOMAIN vector = {"size", "room", "block", "cells", "nulls", "pointer", "wild"}
  /\ vector.room \in Nat
  /\ DOMAIN vector.cells = 0 .. vector.room - 1
  /\ vector.wild = FALSE

\* What k steps of a script have left in a vector: the size, a pointer that is
\* not stale once it has been fetched after the sizing, the values copied and
\* the rows marked.
VectorAfter(script, k, v, vector) ==
  /\ IsVector(vector)
  /\ \A p \in 1 .. k : Sizes(script, p, v) =>
       vector.size = script[p].size /\ script[p].size <= vector.room
  /\ \A p, q \in 1 .. k : p < q /\ Sizes(script, p, v) /\ Fetches(script, q, v) =>
       vector.pointer = vector.block
  /\ \A i \in 1 .. k : Copies(script, i, v) =>
       \A x \in 1 .. Len(script[i].values) :
         vector.cells[script[i].at + x - 1] = script[i].values[x]
  /\ \A row : row \in vector.nulls <=>
       \E i \in 1 .. k : script[i].op = "set_null" /\ script[i].on = v /\ script[i].row = row

\* The same of all the vectors of a result.
After(script, k, vectors, result) ==
  /\ DOMAIN result = vectors
  /\ \A v \in vectors : VectorAfter(script, k, v, result[v])

\* A result as DuckDB hands it over is one no step has touched.
LEMMA WriterBegins ==
  ASSUME NEW vectors, NEW script, NEW result, DOMAIN result = vectors,
         \A v \in vectors : \E room \in Nat : result[v] = NewVector(room)
  PROVE  After(script, 0, vectors, result)
<1> SUFFICES ASSUME NEW v \in vectors
             PROVE  VectorAfter(script, 0, v, result[v])
  BY DEF After
<1>1. PICK room \in Nat : result[v] = NewVector(room)
  OBVIOUS
<1>2. IsVector(result[v]) /\ result[v].nulls = {}
  BY <1>1 DEF NewVector, IsVector
<1> HIDE <1>1
<1> QED
  BY <1>2 DEF VectorAfter

\* A position before the start of a copy is inside the room and not in the copy.
LEMMA BeforeIsBefore ==
  ASSUME NEW a \in Nat, NEW l \in Nat, NEW b \in Nat, NEW m \in Nat, NEW room \in Nat,
         a + l <= b, b + m - 1 < room, NEW x \in 1 .. l
  PROVE  a + x - 1 \in 0 .. room - 1 /\ a + x - 1 \notin b .. b + m - 1
OBVIOUS

\* A position in a copy that ends inside the room.
LEMMA InsideIsInside ==
  ASSUME NEW a \in Nat, NEW l \in Nat, NEW room \in Nat, a + l - 1 < room, NEW x \in 1 .. l
  PROVE  /\ a + x - 1 \in 0 .. room - 1 /\ a + x - 1 \in a .. a + l - 1
         /\ (a + x - 1) - a + 1 = x
OBVIOUS

\* A step of a sane script leaves what was written, writes what it says and
\* stays inside: resizing keeps the cells, and a pointer is never used stale.
LEMMA WriterGoesOn ==
  ASSUME NEW vectors, NEW script, Sane(script, vectors), NEW k \in 1 .. Len(script),
         NEW result, After(script, k - 1, vectors, result)
  PROVE  After(script, k, vectors, Effect(result, script[k]))
<1> DEFINE step == script[k]
           v == step.on
           old == result[v]
           next == Effect(result, step)
           new == next[v]
<1>0. Len(script) \in Nat /\ IsStep(step, vectors) /\ v \in vectors
  BY DEF Sane, IsStep
<1>1. /\ DOMAIN next = vectors
      /\ \A u \in vectors \ {v} : next[u] = result[u]
      /\ new = CASE step.op = "set_size" -> Resized(old, step.size)
                 [] step.op = "get_data" -> Fetched(old)
                 [] step.op = "copy"     -> Overwritten(old, step.at, step.values)
                 [] step.op = "set_null" -> [old EXCEPT !.nulls = old.nulls \cup {step.row}]
                 [] OTHER                -> old
  <2>1. DOMAIN result = vectors
    BY DEF After
  <2>2. next = [result EXCEPT ![v] =
                  CASE step.op = "set_size" -> Resized(old, step.size)
                    [] step.op = "get_data" -> Fetched(old)
                    [] step.op = "copy"     -> Overwritten(old, step.at, step.values)
                    [] step.op = "set_null" -> [old EXCEPT !.nulls = old.nulls \cup {step.row}]
                    [] OTHER                -> old]
    BY DEF Effect
  <2> HIDE DEF next, v, old, step
  <2> QED
    BY <1>0, <2>1, <2>2
<1>2. VectorAfter(script, k - 1, v, old) /\ IsVector(old)
  BY <1>0 DEF After, VectorAfter
<1>3. \A i \in 1 .. k : i = k \/ i \in 1 .. k - 1
  OBVIOUS
<1>s. 1 .. k \subseteq 1 .. Len(script) /\ 1 .. k - 1 \subseteq 1 .. Len(script)
  BY <1>0
<1>4. ASSUME NEW u \in vectors, u # v
      PROVE  VectorAfter(script, k, u, next[u])
  <2>1. VectorAfter(script, k - 1, u, result[u])
    BY DEF After
  <2>2. next[u] = result[u] /\ ~Sizes(script, k, u) /\ ~Fetches(script, k, u) /\ ~Copies(script, k, u)
        /\ script[k].on # u
    BY <1>1, <1>4 DEF Sizes, Fetches, Copies
  <2> HIDE DEF next, v
  <2> QED
    BY <1>3, <2>1, <2>2 DEF VectorAfter
<1> SUFFICES VectorAfter(script, k, v, new)
  BY <1>1, <1>4 DEF After
<1> HIDE DEF next
<1>5. CASE step.op = "set_size"
  <2>1. /\ Sizes(script, k, v) /\ ~Fetches(script, k, v) /\ ~Copies(script, k, v)
        /\ step.size \in Nat
    BY <1>0, <1>5 DEF Sizes, Fetches, Copies, IsStep
  <2>2. new = Resized(old, step.size)
    BY <1>1, <1>5
  <2>3. \A p \in 1 .. k - 1 : Sizes(script, p, v) => script[p].size = step.size
    BY <1>0, <1>s, <2>1 DEF Sane
  <2>4. IsVector(new) /\ new.size = step.size /\ new.room >= step.size /\ new.nulls = old.nulls
    <3>1. /\ DOMAIN old = {"size", "room", "block", "cells", "nulls", "pointer", "wild"}
          /\ old.room \in Nat /\ DOMAIN old.cells = 0 .. old.room - 1 /\ old.wild = FALSE
      BY <1>2 DEF IsVector
    <3>2. CASE step.size <= old.room
      <4>1. new = [old EXCEPT !.size = step.size]
        BY <2>2, <3>2 DEF Resized
      <4> HIDE DEF new, old, step
      <4> QED
        BY <3>1, <3>2, <4>1 DEF IsVector
    <3>3. CASE ~(step.size <= old.room)
      <4>1. new = [old EXCEPT !.size = step.size, !.room = step.size, !.block = @ + 1,
                     !.cells = [n \in 0 .. step.size - 1 |-> IF n < old.room THEN @[n] ELSE Garbage]]
        BY <2>2, <3>3 DEF Resized
      <4> HIDE DEF new, old, step
      <4>2. step.size >= step.size
        BY <2>1
      <4> QED
        BY <2>1, <3>1, <4>1, <4>2 DEF IsVector
    <3> QED
      BY <3>2, <3>3
  <2>5. \A p \in 1 .. k : Sizes(script, p, v) => new.size = script[p].size /\ script[p].size <= new.room
    BY <1>3, <2>1, <2>3, <2>4
  <2>6. CASE step.size <= old.room
    <3>1. new.pointer = old.pointer /\ new.block = old.block /\ new.cells = old.cells
      BY <1>2, <2>2, <2>6 DEF IsVector, Resized
    <3> HIDE DEF v, new, old
    <3>2. \A row : row \in new.nulls <=>
             \E i \in 1 .. k : script[i].op = "set_null" /\ script[i].on = v /\ script[i].row = row
      BY <1>2, <1>3, <1>5, <2>4 DEF VectorAfter
    <3> QED
      BY <1>2, <1>3, <2>1, <2>4, <2>5, <3>1, <3>2 DEF VectorAfter
  <2>7. CASE ~(step.size <= old.room)
    <3>1. ASSUME NEW p \in 1 .. k - 1, Sizes(script, p, v)
          PROVE  FALSE
      BY <1>2, <2>3, <2>7, <3>1 DEF VectorAfter
    <3>2. ASSUME NEW i \in 1 .. k - 1, Copies(script, i, v)
          PROVE  FALSE
      <4>1. PICK p \in 1 .. Len(script) : p < i /\ Sizes(script, p, v)
        BY <1>0, <1>s, <3>2 DEF Sane
      <4> QED
        BY <3>1, <4>1
    <3> HIDE DEF v, new, old
    <3>3. \A row : row \in new.nulls <=>
             \E i \in 1 .. k : script[i].op = "set_null" /\ script[i].on = v /\ script[i].row = row
      BY <1>2, <1>3, <1>5, <2>4 DEF VectorAfter
    <3>4. \A p, q \in 1 .. k : p < q => ~ (Sizes(script, p, v) /\ Fetches(script, q, v))
      BY <2>1, <3>1
    <3>5. \A i \in 1 .. k : ~Copies(script, i, v)
      BY <1>3, <2>1, <3>2
    <3> QED
      BY <2>4, <2>5, <3>3, <3>4, <3>5 DEF VectorAfter
  <2> QED
    BY <2>6, <2>7
<1>6. CASE step.op = "get_data"
  <2>1. ~Sizes(script, k, v) /\ ~Copies(script, k, v) /\ step.op # "set_null"
    BY <1>6 DEF Sizes, Copies
  <2>2. /\ IsVector(new) /\ new.nulls = old.nulls /\ new.pointer = new.block
        /\ new.room = old.room /\ new.cells = old.cells /\ new.size = old.size
    BY <1>1, <1>2, <1>6 DEF IsVector, Fetched
  <2> HIDE DEF v, new, old
  <2> QED
    BY <1>2, <1>3, <2>1, <2>2 DEF VectorAfter
<1>7. CASE step.op = "copy"
  <2> DEFINE last == step.at + Len(step.values) - 1
  <2>1. /\ ~Sizes(script, k, v) /\ ~Fetches(script, k, v) /\ step.op # "set_null"
        /\ Copies(script, k, v) /\ step.at \in Nat /\ Len(step.values) \in Nat
    BY <1>0, <1>7 DEF Sizes, Fetches, Copies, IsStep
  <2>2. old.pointer = old.block /\ last < old.room
    <3>1. PICK p \in 1 .. Len(script), q \in 1 .. Len(script) :
            /\ p < q /\ q < k
            /\ Sizes(script, p, v) /\ Fetches(script, q, v)
            /\ End(script, k) <= script[p].size
      BY <1>0, <2>1 DEF Sane
    <3>2. p \in 1 .. k - 1 /\ q \in 1 .. k - 1
      BY <3>1
    <3>3. old.pointer = old.block /\ script[p].size <= old.room
      BY <1>2, <3>1, <3>2 DEF VectorAfter
    <3>4. script[p].size \in Nat /\ old.room \in Nat
      BY <1>2, <3>1 DEF Sane, IsStep, Sizes, IsVector
    <3>5. step.at + Len(step.values) <= script[p].size
      BY <3>1 DEF End
    <3> HIDE DEF step, old
    <3> QED
      BY <2>1, <3>3, <3>4, <3>5
  <2>3. new = [old EXCEPT !.cells = [n \in DOMAIN old.cells |->
                 IF n \in step.at .. last THEN step.values[n - step.at + 1] ELSE old.cells[n]]]
    BY <1>1, <1>2, <1>7, <2>2 DEF Overwritten, IsVector
  <2>4. /\ IsVector(new) /\ new.nulls = old.nulls /\ new.pointer = old.pointer
        /\ new.block = old.block /\ new.room = old.room /\ new.size = old.size
        /\ \A n \in 0 .. old.room - 1 :
             new.cells[n] = IF n \in step.at .. last THEN step.values[n - step.at + 1]
                            ELSE old.cells[n]
    <3>1. /\ DOMAIN old = {"size", "room", "block", "cells", "nulls", "pointer", "wild"}
          /\ old.room \in Nat /\ DOMAIN old.cells = 0 .. old.room - 1 /\ old.wild = FALSE
      BY <1>2 DEF IsVector
    <3> HIDE DEF new, old, step, last
    <3>2. /\ DOMAIN new = DOMAIN old /\ new.room = old.room /\ new.wild = old.wild
          /\ new.nulls = old.nulls /\ new.pointer = old.pointer
          /\ new.block = old.block /\ new.size = old.size
          /\ new.cells = [n \in DOMAIN old.cells |->
               IF n \in step.at .. last THEN step.values[n - step.at + 1] ELSE old.cells[n]]
      BY <2>3, <3>1
    <3> QED
      BY <3>1, <3>2 DEF IsVector
  <2>5. ASSUME NEW i \in 1 .. k, Copies(script, i, v), NEW x \in 1 .. Len(script[i].values)
        PROVE  new.cells[script[i].at + x - 1] = script[i].values[x]
    <3>0. script[i].at \in Nat /\ Len(script[i].values) \in Nat
      BY <1>s, <2>5 DEF Sane, IsStep, Copies
    <3>1. CASE i = k
      <4>1. x \in 1 .. Len(step.values) /\ old.room \in Nat
        BY <1>2, <3>1 DEF IsVector
      <4>2. /\ step.at + x - 1 \in 0 .. old.room - 1 /\ step.at + x - 1 \in step.at .. last
            /\ (step.at + x - 1) - step.at + 1 = x
        <5> HIDE DEF step, old
        <5> QED
          BY <2>1, <2>2, <4>1, InsideIsInside
      <4> HIDE DEF last, new, old
      <4> QED
        BY <2>4, <3>1, <4>2
    <3>2. CASE i # k
      <4>1. i \in 1 .. k - 1 /\ i < k
        BY <3>2
      <4>2. script[i].at + Len(script[i].values) <= step.at
        BY <1>0, <1>s, <2>1, <2>5, <4>1 DEF Sane, End
      <4>3. old.cells[script[i].at + x - 1] = script[i].values[x]
        BY <1>2, <2>5, <4>1 DEF VectorAfter
      <4>4. script[i].at + x - 1 \in 0 .. old.room - 1 /\ script[i].at + x - 1 \notin step.at .. last
        <5>1. old.room \in Nat
          BY <1>2 DEF IsVector
        <5> HIDE DEF step, old
        <5> QED
          BY <2>1, <2>2, <3>0, <4>2, <5>1, BeforeIsBefore
      <4> HIDE DEF last, new, old
      <4> QED
        BY <2>4, <4>3, <4>4
    <3> QED
      BY <3>1, <3>2
  <2> HIDE DEF v, new, old
  <2>6. \A p \in 1 .. k : Sizes(script, p, v) => new.size = script[p].size /\ script[p].size <= new.room
    BY <1>2, <1>3, <2>1, <2>4 DEF VectorAfter
  <2>7. \A p, q \in 1 .. k : p < q /\ Sizes(script, p, v) /\ Fetches(script, q, v) =>
          new.pointer = new.block
    BY <2>2, <2>4
  <2>8. \A row : row \in new.nulls <=>
          \E i \in 1 .. k : script[i].op = "set_null" /\ script[i].on = v /\ script[i].row = row
    BY <1>2, <1>3, <2>1, <2>4 DEF VectorAfter
  <2> QED
    BY <2>4, <2>5, <2>6, <2>7, <2>8 DEF VectorAfter
<1>8. CASE step.op = "set_null"
  <2>1. ~Sizes(script, k, v) /\ ~Copies(script, k, v) /\ ~Fetches(script, k, v)
    BY <1>8 DEF Sizes, Copies, Fetches
  <2>2. /\ IsVector(new) /\ new.nulls = old.nulls \cup {step.row} /\ new.pointer = old.pointer
        /\ new.block = old.block /\ new.room = old.room /\ new.cells = old.cells
        /\ new.size = old.size
    BY <1>1, <1>2, <1>8 DEF IsVector
  <2>3. \A row : row \in new.nulls <=>
          \E i \in 1 .. k : script[i].op = "set_null" /\ script[i].on = v /\ script[i].row = row
    <3> HIDE DEF new, old
    <3>1. \A row : row \in new.nulls <=> row \in old.nulls \/ row = script[k].row
      BY <2>2
    <3>2. \A row : row \in old.nulls <=> \E i \in 1 .. k - 1 :
             script[i].op = "set_null" /\ script[i].on = v /\ script[i].row = row
      BY <1>2 DEF VectorAfter
    <3> QED
      BY <1>3, <1>8, <3>1, <3>2
  <2> HIDE DEF v, new, old
  <2> QED
    BY <1>2, <1>3, <2>1, <2>2, <2>3 DEF VectorAfter
<1>9. CASE step.op = "get_child"
  <2>1. ~Sizes(script, k, v) /\ ~Copies(script, k, v) /\ ~Fetches(script, k, v) /\ new = old
    BY <1>1, <1>9 DEF Sizes, Copies, Fetches
  <2> HIDE DEF v, new, old
  <2> QED
    BY <1>2, <1>3, <1>9, <2>1 DEF VectorAfter
<1> QED
  BY <1>0, <1>5, <1>6, <1>7, <1>8, <1>9 DEF IsStep

-----------------------------------------------------------------------------
(***************************************************************************)
(* The scripts that write one cell a row.                                  *)
(***************************************************************************)

\* One sequence and then another.
IsJoin(u, s, t) ==
  /\ Len(u) = Len(s) + Len(t) /\ Len(s) \in Nat /\ Len(t) \in Nat
  /\ \A i \in 1 .. Len(s) : u[i] = s[i]
  /\ \A i \in 1 .. Len(t) : u[Len(s) + i] = t[i]

\* What concatenation gives.
LEMMA Joined ==
  ASSUME NEW S, NEW s \in Seq(S), NEW t \in Seq(S)
  PROVE  s \o t \in Seq(S) /\ IsJoin(s \o t, s, t)
BY DEF IsJoin

\* Steps that are none but marks of NULL rows.
Marks(script, from, values) ==
  /\ \A i \in from + 1 .. Len(script) :
       \E r \in 1 .. Len(values) : values[r] = Null /\ script[i] = SetNull(r - 1)
  /\ \A r \in 1 .. Len(values) : values[r] = Null =>
       \E i \in from + 1 .. Len(script) : script[i] = SetNull(r - 1)

\* A script that ends by marking the rows that are NULL.
LEMMA MarksAppended ==
  ASSUME NEW values, Len(values) \in Nat, NEW S, NEW s \in Seq(S),
         NEW script, script = s \o SetNulls(values)
  PROVE  /\ \E T : script \in Seq(T)
         /\ Len(script) \in Nat /\ Len(s) \in Nat /\ Len(s) <= Len(script)
         /\ \A i \in 1 .. Len(s) : script[i] = s[i]
         /\ Marks(script, Len(s), values)
<1> DEFINE marks == SetNulls(values)
           T == S \cup {SetNull(row) : row \in Nat}
<1>1. MarksTo(values, Len(values), marks)
  BY NullsAreMarked
<1>2. s \in Seq(T) /\ marks \in Seq(T)
  <2>1. marks \in Seq({SetNull(row) : row \in Nat})
    BY <1>1 DEF MarksTo
  <2> HIDE DEF marks
  <2> QED
    BY <2>1
<1>0. script = s \o marks
  OBVIOUS
<1> HIDE DEF marks, T
<1>a. script \in Seq(T) /\ IsJoin(script, s, marks)
  BY <1>0, <1>2, Joined
<1>3. /\ Len(script) = Len(s) + Len(marks) /\ Len(s) \in Nat /\ Len(marks) \in Nat
      /\ \A i \in 1 .. Len(s) : script[i] = s[i]
      /\ \A i \in 1 .. Len(marks) : script[Len(s) + i] = marks[i]
  BY <1>a DEF IsJoin
<1>4. ASSUME NEW i \in Len(s) + 1 .. Len(script)
      PROVE  \E r \in 1 .. Len(values) : values[r] = Null /\ script[i] = SetNull(r - 1)
  <2>1. i - Len(s) \in 1 .. Len(marks) /\ Len(s) + (i - Len(s)) = i
    BY <1>3
  <2>2. script[i] = marks[i - Len(s)]
    BY <1>3, <2>1
  <2> QED
    BY <1>1, <2>1, <2>2 DEF MarksTo
<1>5. ASSUME NEW r \in 1 .. Len(values), values[r] = Null
      PROVE  \E i \in Len(s) + 1 .. Len(script) : script[i] = SetNull(r - 1)
  <2>1. PICK i \in 1 .. Len(marks) : marks[i] = SetNull(r - 1)
    BY <1>1, <1>5 DEF MarksTo
  <2>2. Len(s) + i \in Len(s) + 1 .. Len(script) /\ script[Len(s) + i] = SetNull(r - 1)
    BY <1>3, <2>1
  <2> QED
    BY <2>2
<1>6. Marks(script, Len(s), values)
  BY <1>4, <1>5 DEF Marks
<1> QED
  BY <1>3, <1>6, <1>a

\* What one vector is sized to, fetched and copied, and then marked.
LEMMA CellsThenMarks ==
  ASSUME NEW vectors, NEW v \in vectors, NEW values, NEW cells, Len(values) \in Nat,
         Len(cells) = Len(values), NEW script, \E S : script \in Seq(S),
         Len(script) \in Nat, 3 <= Len(script),
         script[1] = SetSize(v, Len(values)), script[2] = GetData(v),
         script[3] = Copy(v, 0, cells),
         Len(script) > 3 => Result \in vectors,
         Marks(script, 3, values)
  PROVE  Sane(script, vectors)
<1>1. ASSUME NEW i \in 4 .. Len(script)
      PROVE  script[i].op = "set_null" /\ script[i].on \in vectors
  <2>1. PICK r \in 1 .. Len(values) : script[i] = SetNull(r - 1)
    <3>1. 3 + 1 = 4
      OBVIOUS
    <3> QED
      BY <3>1 DEF Marks
  <2>2. Len(script) > 3
    BY <1>1
  <2> QED
    BY <2>1, <2>2 DEF SetNull
<1>2. \A i \in 1 .. Len(script) : i = 1 \/ i = 2 \/ i = 3 \/ i \in 4 .. Len(script)
  OBVIOUS
<1>3. /\ script[1].op = "set_size" /\ script[1].on = v /\ script[1].size = Len(values)
      /\ script[2].op = "get_data" /\ script[2].on = v
      /\ script[3].op = "copy" /\ script[3].on = v /\ script[3].at = 0 /\ script[3].values = cells
  BY DEF SetSize, GetData, Copy
<1>4. ASSUME NEW i \in 1 .. Len(script)
      PROVE  IsStep(script[i], vectors)
  BY <1>1, <1>2, <1>3 DEF IsStep
<1>5. ASSUME NEW u, NEW i \in 1 .. Len(script)
      PROVE  /\ Sizes(script, i, u) => i = 1
             /\ Copies(script, i, u) => i = 3 /\ u = v
  BY <1>1, <1>2, <1>3 DEF Sizes, Copies
<1>6. End(script, 3) = Len(values)
  BY <1>3 DEF End
<1>7. Sizes(script, 1, v) /\ Fetches(script, 2, v)
  BY <1>3 DEF Sizes, Fetches
<1>8. ASSUME NEW u \in vectors, NEW i \in 1 .. Len(script), Copies(script, i, u)
      PROVE  \E p, q \in 1 .. Len(script) :
               /\ p < q /\ q < i
               /\ Sizes(script, p, u) /\ Fetches(script, q, u)
               /\ End(script, i) <= script[p].size
  BY <1>3, <1>5, <1>6, <1>7, <1>8
<1>9. ASSUME NEW u \in vectors, NEW i \in 1 .. Len(script), NEW j \in 1 .. Len(script), i < j
      PROVE  ~ (Copies(script, i, u) /\ Copies(script, j, u))
  BY <1>5, <1>9
<1> QED
  BY <1>4, <1>5, <1>8, <1>9 DEF Sane

\* is_truncated: a boolean for every row, and the marks.
LEMMA BoolsAreSane ==
  ASSUME NEW vectors, Result \in vectors, NEW values, Len(values) \in Nat
  PROVE  LET script == WriteBools(values)
             cells == [n \in 1 .. Len(values) |-> IF values[n] = Null THEN FALSE ELSE values[n]]
         IN  /\ Sane(script, vectors)
             /\ 3 <= Len(script) /\ script[1].op = "set_size" /\ script[2].op = "get_data"
             /\ script[3] = Copy(Result, 0, cells)
             /\ Marks(script, 3, values)
<1> DEFINE script == WriteBools(values)
           cells == [n \in 1 .. Len(values) |-> IF values[n] = Null THEN FALSE ELSE values[n]]
           s == <<SetSize(Result, Len(values)), GetData(Result), Copy(Result, 0, cells)>>
           S == {SetSize(Result, Len(values)), GetData(Result), Copy(Result, 0, cells)}
<1>1. Len(cells) = Len(values)
  OBVIOUS
<1> HIDE DEF cells
<1>2. s \in Seq(S) /\ Len(s) = 3 /\ s[1] = SetSize(Result, Len(values))
      /\ s[2] = GetData(Result) /\ s[3] = Copy(Result, 0, cells)
  OBVIOUS
<1>3. script = s \o SetNulls(values)
  BY DEF WriteBools, cells
<1> HIDE DEF s, S, script
<1>4. /\ \E T : script \in Seq(T)
      /\ Len(script) \in Nat /\ Len(s) <= Len(script)
      /\ \A i \in 1 .. Len(s) : script[i] = s[i]
      /\ Marks(script, Len(s), values)
  <2>1. s \in Seq(S)
    BY <1>2
  <2>2. (\E T : script \in Seq(T)) /\ Marks(script, Len(s), values)
    BY <1>3, <2>1, MarksAppended
  <2>3. Len(script) \in Nat /\ Len(s) <= Len(script)
    BY <1>3, <2>1, MarksAppended
  <2>4. \A i \in 1 .. Len(s) : script[i] = s[i]
    BY <1>3, <2>1, MarksAppended
  <2> QED
    BY <2>2, <2>3, <2>4
<1>5. script[1] = s[1] /\ script[2] = s[2] /\ script[3] = s[3] /\ 3 <= Len(script)
  BY <1>2, <1>4
<1>6. Sane(script, vectors)
  BY <1>1, <1>2, <1>4, <1>5, CellsThenMarks
<1>7. script[1].op = "set_size" /\ script[2].op = "get_data"
  BY <1>2, <1>5 DEF SetSize, GetData
<1> QED
  BY <1>2, <1>4, <1>5, <1>6, <1>7 DEF script, cells

\* version, model_id, cache_clear and the fields of a STRUCT: a cell for each row.
LEMMA CellsAreSane ==
  ASSUME NEW vectors, NEW v \in vectors, NEW values, Len(values) \in Nat
  PROVE  LET script == WriteCells(v, values)
         IN  /\ Sane(script, vectors)
             /\ Len(script) = 3
             /\ script[1] = SetSize(v, Len(values)) /\ script[2] = GetData(v)
             /\ script[3] = Copy(v, 0, values)
<1> DEFINE script == WriteCells(v, values)
           noNulls == [n \in 1 .. Len(values) |-> IF Null = 0 THEN 1 ELSE 0]
           S == {SetSize(v, Len(values)), GetData(v), Copy(v, 0, values)}
<1>1. /\ script \in Seq(S) /\ Len(script) = 3
      /\ script[1] = SetSize(v, Len(values)) /\ script[2] = GetData(v)
      /\ script[3] = Copy(v, 0, values)
  BY DEF WriteCells
<1>2. \A n \in 1 .. Len(values) : noNulls[n] # Null
  OBVIOUS
<1>3. Len(noNulls) = Len(values)
  OBVIOUS
<1> HIDE DEF script, S, noNulls
<1>4. Marks(script, 3, noNulls)
  BY <1>1, <1>2, <1>3 DEF Marks
<1>5. /\ \E T : script \in Seq(T)
      /\ Len(script) \in Nat /\ 3 <= Len(script) /\ ~ (Len(script) > 3)
      /\ script[1] = SetSize(v, Len(noNulls)) /\ Len(noNulls) \in Nat
  BY <1>1, <1>3
<1>6. Sane(script, vectors)
  BY <1>1, <1>3, <1>4, <1>5, CellsThenMarks
<1> QED
  BY <1>1, <1>6 DEF script

-----------------------------------------------------------------------------
(***************************************************************************)
(* What DuckDB reads back of them.                                         *)
(***************************************************************************)

\* What the copies leave is read back, and the rows that are marked.
LEMMA CellsAreRead ==
  ASSUME NEW vectors, NEW v \in vectors, NEW script, NEW k \in Nat, NEW result,
         After(script, k, vectors, result),
         NEW i \in 1 .. k, NEW cells, script[i] = Copy(v, 0, cells)
  PROVE  \A n \in 1 .. Len(cells) : result[v].cells[n - 1] = cells[n]
<1>1. Copies(script, i, v) /\ script[i].values = cells /\ script[i].at = 0
  BY DEF Copy, Copies
<1>2. ASSUME NEW n \in 1 .. Len(script[i].values)
      PROVE  result[v].cells[script[i].at + n - 1] = script[i].values[n]
  BY <1>1 DEF After, VectorAfter
<1>3. ASSUME NEW n \in 1 .. Len(cells)
      PROVE  result[v].cells[0 + n - 1] = cells[n]
  BY <1>1, <1>2
<1>4. Len(cells) \in Int => \A n \in 1 .. Len(cells) : 0 + n - 1 = n - 1
  OBVIOUS
<1>5. \A n \in 1 .. Len(cells) : 0 + n - 1 = n - 1
  OBVIOUS
<1> QED
  BY <1>3, <1>5

\* No step so far marks a row.
NoMarks(script, to) == \A i \in 1 .. to : script[i].op # "set_null"

\* After the script the rows marked are those that are NULL.
LEMMA NullsAreRead ==
  ASSUME NEW vectors, Result \in vectors, NEW script, NEW result,
         After(script, Len(script), vectors, result), Len(script) \in Nat,
         NEW values, Len(values) \in Nat, NEW from \in Nat, Marks(script, from, values),
         NoMarks(script, from)
  PROVE  \A n \in 1 .. Len(values) : n - 1 \in result[Result].nulls <=> values[n] = Null
<1> SUFFICES ASSUME NEW n \in 1 .. Len(values)
             PROVE  n - 1 \in result[Result].nulls <=> values[n] = Null
  OBVIOUS
<1>1. \A row : row \in result[Result].nulls <=>
        \E i \in 1 .. Len(script) :
          script[i].op = "set_null" /\ script[i].on = Result /\ script[i].row = row
  BY DEF After, VectorAfter
<1>2. ASSUME n - 1 \in result[Result].nulls
      PROVE  values[n] = Null
  <2>1. PICK i \in 1 .. Len(script) : script[i].op = "set_null" /\ script[i].row = n - 1
    BY <1>1, <1>2
  <2>2. i \in from + 1 .. Len(script)
    BY <2>1 DEF NoMarks
  <2>3. PICK r \in 1 .. Len(values) : values[r] = Null /\ script[i] = SetNull(r - 1)
    BY <2>2 DEF Marks
  <2>4. r - 1 = n - 1
    BY <2>1, <2>3 DEF SetNull
  <2>5. r = n
    BY <2>4
  <2> QED
    BY <2>3, <2>5
<1>3. ASSUME values[n] = Null
      PROVE  n - 1 \in result[Result].nulls
  <2>1. PICK i \in from + 1 .. Len(script) : script[i] = SetNull(n - 1)
    BY <1>3 DEF Marks
  <2>2. /\ i \in 1 .. Len(script)
        /\ script[i].op = "set_null" /\ script[i].on = Result /\ script[i].row = n - 1
    BY <2>1 DEF SetNull
  <2> QED
    BY <1>1, <2>2
<1> QED
  BY <1>2, <1>3

\* is_truncated
LEMMA BoolsAreRead ==
  ASSUME NEW vectors, Result \in vectors, NEW values, Len(values) \in Nat, NEW result,
         After(WriteBools(values), Len(WriteBools(values)), vectors, result),
         NEW row \in 0 .. Len(values) - 1
  PROVE  ReadCell(result, row) = values[row + 1]
<1> DEFINE script == WriteBools(values)
           cells == [n \in 1 .. Len(values) |-> IF values[n] = Null THEN FALSE ELSE values[n]]
<1>1. /\ Sane(script, vectors)
      /\ 3 <= Len(script) /\ script[1].op = "set_size" /\ script[2].op = "get_data"
      /\ script[3] = Copy(Result, 0, cells)
      /\ Marks(script, 3, values)
  BY BoolsAreSane
<1>2. Len(cells) = Len(values) /\ row + 1 \in 1 .. Len(values) /\ (row + 1) - 1 = row
  OBVIOUS
<1>3. cells[row + 1] = IF values[row + 1] = Null THEN FALSE ELSE values[row + 1]
  BY <1>2
<1> HIDE DEF script, cells
<1>4. Len(script) \in Nat /\ 3 \in 1 .. Len(script)
  BY <1>1 DEF Sane
<1>5. After(script, Len(script), vectors, result)
  BY DEF script
<1>6. result[Result].cells[(row + 1) - 1] = cells[row + 1]
  BY <1>1, <1>2, <1>4, <1>5, CellsAreRead
<1>7. NoMarks(script, 3)
  <2>1. script[3].op = "copy"
    BY <1>1 DEF Copy
  <2> QED
    BY <1>1, <2>1 DEF NoMarks
<1>8. row \in result[Result].nulls <=> values[row + 1] = Null
  <2>1. (row + 1) - 1 \in result[Result].nulls <=> values[row + 1] = Null
    BY <1>1, <1>2, <1>4, <1>5, <1>7, NullsAreRead
  <2> QED
    BY <1>2, <2>1
<1> QED
  BY <1>2, <1>3, <1>6, <1>8 DEF ReadCell

\* version, model_id and cache_clear
LEMMA CellsAreReadBack ==
  ASSUME NEW vectors, Result \in vectors, NEW values, Len(values) \in Nat, NEW result,
         After(WriteCells(Result, values), Len(WriteCells(Result, values)), vectors, result),
         NEW row \in 0 .. Len(values) - 1
  PROVE  ReadCell(result, row) = values[row + 1]
<1> DEFINE script == WriteCells(Result, values)
<1>1. /\ Sane(script, vectors)
      /\ Len(script) = 3
      /\ script[1] = SetSize(Result, Len(values)) /\ script[2] = GetData(Result)
      /\ script[3] = Copy(Result, 0, values)
  BY CellsAreSane
<1>2. row + 1 \in 1 .. Len(values) /\ (row + 1) - 1 = row
  OBVIOUS
<1> HIDE DEF script
<1>3. After(script, 3, vectors, result)
  BY <1>1 DEF script
<1>4. result[Result].cells[(row + 1) - 1] = values[row + 1]
  BY <1>1, <1>2, <1>3, CellsAreRead
<1>5. \A i \in 1 .. 3 : script[i].op # "set_null"
  BY <1>1 DEF SetSize, GetData, Copy
<1>6. row \notin result[Result].nulls
  BY <1>3, <1>5 DEF After, VectorAfter
<1> QED
  BY <1>2, <1>4, <1>6 DEF ReadCell

-----------------------------------------------------------------------------
(***************************************************************************)
(* The script of write_float_lists.                                        *)
(***************************************************************************)

\* No row begins before an earlier one.
LEMMA OffsetsGrow ==
  ASSUME NEW F, NEW values \in Values(F), NEW offset, IsOffset(values, offset),
         NEW n \in 0 .. Len(values)
  PROVE  \A m \in 0 .. n : offset[m] <= offset[n]
<1> DEFINE N == Len(values)
           S == {k \in 0 .. N : \A m \in 0 .. k : offset[m] <= offset[k]}
<1>0. N \in Nat /\ \A m \in 0 .. N : offset[m] \in Nat
  BY DEF Values, IsOffset
<1>1. 0 \in S
  BY <1>0
<1>2. ASSUME NEW k \in 1 .. N, k - 1 \in S
      PROVE  k \in S
  <2>1. offset[k] = offset[k - 1] + Length(values[k]) /\ Length(values[k]) \in Nat
    BY LengthType DEF IsOffset
  <2>2. offset[k - 1] <= offset[k]
    BY <1>0, <2>1
  <2>3. ASSUME NEW m \in 0 .. k
        PROVE  offset[m] <= offset[k]
    <3>1. CASE m = k
      BY <1>0, <3>1
    <3>2. CASE m # k
      <4>1. m \in 0 .. k - 1
        BY <3>2
      <4>2. offset[m] <= offset[k - 1]
        BY <1>2, <4>1
      <4> QED
        BY <1>0, <2>2, <4>1, <4>2
    <3> QED
      BY <3>1, <3>2
  <2> QED
    BY <2>3
<1> HIDE DEF S
<1>3. 0 .. N \subseteq S
  BY <1>0, <1>1, <1>2, BoundedInduction
<1> QED
  BY <1>3 DEF S

\* The child is sized to where the last row ends.
LEMMA TotalIsLastOffset ==
  ASSUME NEW F, NEW values \in Values(F), NEW offset, IsOffset(values, offset),
         ListEntries(values) =
           [n \in 1 .. Len(values) |-> [offset |-> offset[n - 1], length |-> Length(values[n])]]
  PROVE  Total(values) = offset[Len(values)] /\ Len(ListEntries(values)) = Len(values)
<1> DEFINE N == Len(values)
           entries == ListEntries(values)
<1>0. N \in Nat
  BY DEF Values
<1>1. Len(entries) = N
  BY <1>0
<1>2. CASE N = 0
  <2>1. entries = <<>>
    BY <1>2
  <2> QED
    BY <1>1, <1>2, <2>1 DEF Total, IsOffset
<1>3. CASE N # 0
  <2>0. N \in 1 .. N
    BY <1>0, <1>3
  <2>1. N \in 1 .. N /\ entries # <<>>
    <3>1. N \in DOMAIN entries /\ N \notin DOMAIN <<>>
      BY <1>3, <2>0
    <3> QED
      BY <2>0, <3>1
  <2>2. entries[N] = [offset |-> offset[N - 1], length |-> Length(values[N])]
    BY <2>1
  <2>3. offset[N] = offset[N - 1] + Length(values[N])
    BY <2>1 DEF IsOffset
  <2> HIDE DEF entries
  <2>4. Total(values) = entries[N].offset + entries[N].length
    BY <1>1, <2>1 DEF Total, entries
  <2> QED
    BY <1>1, <2>2, <2>3, <2>4 DEF entries
<1> QED
  BY <1>2, <1>3

\* Where the steps of write_float_lists are: the child is sized at 3 and fetched
\* at 4, its copies are up to 3 + b, the entries at 5 + b, and the marks follow.
ListScript(script, values, offset, b) ==
  /\ Len(script) \in Nat /\ b \in Nat /\ 5 + b <= Len(script)
  /\ \E S : script \in Seq(S)
  /\ script[1] = SetSize(Result, Len(values))
  /\ script[2] = GetChild(Child(0))
  /\ script[3] = SetSize(Child(0), offset[Len(values)])
  /\ b > 0 => script[4] = GetData(Child(0))
  /\ \A i \in 5 .. 3 + b : \E r \in 1 .. Len(values) :
       values[r] # Null /\ script[i] = Copy(Child(0), offset[r - 1], values[r])
  /\ \A i, j \in 5 .. 3 + b : i < j => End(script, i) <= script[j].at
  /\ offset[Len(values)] > 0 => \A r \in 1 .. Len(values) : values[r] # Null =>
       \E i \in 5 .. 3 + b : script[i] = Copy(Child(0), offset[r - 1], values[r])
  /\ script[4 + b] = GetData(Result)
  /\ script[5 + b] = Copy(Result, 0, ListEntries(values))
  /\ Marks(script, 5 + b, values)

\* What write_float_lists does, step by step, for some number b of steps of the child.
LEMMA ListSteps ==
  ASSUME NEW F, NEW values \in Values(F), NEW offset, IsOffset(values, offset),
         ListEntries(values) =
           [n \in 1 .. Len(values) |-> [offset |-> offset[n - 1], length |-> Length(values[n])]]
  PROVE  \E b : ListScript(WriteFloatLists(values), values, offset, b)
<1> DEFINE N == Len(values)
           entries == ListEntries(values)
           total == offset[N]
           copies == FloatCopies(values)
           script == WriteFloatLists(values)
           C == {Copy(Child(0), at, floats) : at \in Nat, floats \in Seq(F)}
           S == C \cup {SetSize(Result, N), GetChild(Child(0)), SetSize(Child(0), total),
                        GetData(Child(0)), GetData(Result), Copy(Result, 0, entries)}
           first == <<SetSize(Result, N), GetChild(Child(0)), SetSize(Child(0), total)>>
           child == IF total > 0 THEN <<GetData(Child(0))>> \o copies ELSE <<>>
           list == <<GetData(Result), Copy(Result, 0, entries)>>
           b == Len(child)
<1>0. N \in Nat /\ total \in Nat /\ Total(values) = total
  BY TotalIsLastOffset DEF Values, IsOffset
<1>1. CopiesTo(F, values, offset, N, copies)
  BY FloatsAreCopied
<1>2. copies \in Seq(C)
  BY <1>1 DEF CopiesTo
<1>3. copies \in Seq(S)
  <2> HIDE DEF copies, C
  <2> QED
    BY <1>2
<1>4. script = ((first \o child) \o list) \o SetNulls(values)
  BY <1>0 DEF WriteFloatLists
<1>5. /\ first \in Seq(S) /\ Len(first) = 3 /\ first[1] = SetSize(Result, N)
      /\ first[2] = GetChild(Child(0)) /\ first[3] = SetSize(Child(0), total)
  <2> HIDE DEF C, copies, entries, N, total
  <2> QED
    OBVIOUS
<1>6. /\ list \in Seq(S) /\ Len(list) = 2 /\ list[1] = GetData(Result)
      /\ list[2] = Copy(Result, 0, entries)
  <2> HIDE DEF C, copies, entries, N, total
  <2> QED
    OBVIOUS
<1>7. /\ child \in Seq(S) /\ b \in Nat
      /\ total > 0 => /\ b = 1 + Len(copies) /\ Len(copies) \in Nat
                      /\ child[1] = GetData(Child(0))
                      /\ \A i \in 1 .. Len(copies) : child[1 + i] = copies[i]
      /\ ~ (total > 0) => b = 0
  <2> DEFINE data == <<GetData(Child(0))>>
  <2>1. data \in Seq(S) /\ Len(data) = 1 /\ data[1] = GetData(Child(0))
    <3> HIDE DEF C, copies, entries, N, total
    <3> QED
      OBVIOUS
  <2> HIDE DEF data, S, copies, total
  <2>a. data \o copies \in Seq(S) /\ IsJoin(data \o copies, data, copies)
    BY <1>3, <2>1, Joined
  <2>2. /\ data \o copies \in Seq(S)
        /\ Len(data \o copies) = 1 + Len(copies) /\ Len(copies) \in Nat
        /\ (data \o copies)[1] = GetData(Child(0))
        /\ \A i \in 1 .. Len(copies) : (data \o copies)[1 + i] = copies[i]
    BY <2>1, <2>a DEF IsJoin
  <2>3. child = IF total > 0 THEN data \o copies ELSE <<>>
    BY DEF data
  <2> HIDE DEF child
  <2>4. <<>> \in Seq(S) /\ Len(<<>>) = 0
    OBVIOUS
  <2> QED
    BY <2>2, <2>3, <2>4
<1> HIDE DEF first, child, list, S, C, copies, entries, script, total, N
<1> DEFINE s1 == first \o child
           s2 == s1 \o list
<1>8. s1 \in Seq(S) /\ IsJoin(s1, first, child)
  BY <1>5, <1>7, Joined
<1>9. s2 \in Seq(S) /\ IsJoin(s2, s1, list)
  <2> HIDE DEF s1
  <2> QED
    BY <1>6, <1>8, Joined
<1> HIDE DEF s1, s2
<1>10. script = s2 \o SetNulls(values)
  BY <1>4 DEF s1, s2
<1>11. (\E T : script \in Seq(T)) /\ Marks(script, Len(s2), values)
  BY <1>0, <1>9, <1>10, MarksAppended DEF N
<1>b. Len(s1) = 3 + b /\ Len(s2) = 5 + b
  BY <1>5, <1>6, <1>7, <1>8, <1>9 DEF IsJoin
<1>12. Len(script) \in Nat /\ Len(s2) <= Len(script)
  BY <1>0, <1>9, <1>10, MarksAppended DEF N
<1>13. \A i \in 1 .. Len(s2) : script[i] = s2[i]
  BY <1>0, <1>9, <1>10, MarksAppended DEF N
<1>c. \A i \in 1 .. 3 + b : script[i] = s1[i]
  <2>1. \A i \in 1 .. 3 + b : i \in 1 .. Len(s1) /\ i \in 1 .. Len(s2)
    BY <1>7, <1>b
  <2> QED
    BY <1>9, <1>13, <2>1 DEF IsJoin
<1>d. script[1] = first[1] /\ script[2] = first[2] /\ script[3] = first[3]
  <2>1. /\ 1 \in 1 .. Len(first) /\ 2 \in 1 .. Len(first) /\ 3 \in 1 .. Len(first)
        /\ 1 \in 1 .. 3 + b /\ 2 \in 1 .. 3 + b /\ 3 \in 1 .. 3 + b
    BY <1>5, <1>7
  <2> QED
    BY <1>8, <1>c, <2>1 DEF IsJoin
<1>e. \A i \in 1 .. b : script[3 + i] = child[i]
  <2>1. \A i \in 1 .. b : 3 + i \in 1 .. 3 + b /\ s1[3 + i] = child[i]
    BY <1>5, <1>7, <1>8 DEF IsJoin
  <2> QED
    BY <1>c, <2>1
<1>14. script[4 + b] = list[1] /\ script[5 + b] = list[2]
  <2>1. /\ 1 \in 1 .. Len(list) /\ 2 \in 1 .. Len(list)
        /\ Len(s1) + 1 = 4 + b /\ Len(s1) + 2 = 5 + b
        /\ 4 + b \in 1 .. Len(s2) /\ 5 + b \in 1 .. Len(s2)
    BY <1>6, <1>7, <1>b
  <2>2. s2[Len(s1) + 1] = list[1] /\ s2[Len(s1) + 2] = list[2]
    BY <1>9, <2>1 DEF IsJoin
  <2> QED
    BY <1>13, <2>1, <2>2
<1> DEFINE c == IF total > 0 THEN Len(copies) ELSE 0
<1>15. /\ c \in Nat /\ b = IF total > 0 THEN 1 + c ELSE 0
       /\ total > 0 => script[4] = GetData(Child(0))
  <2>1. total > 0 => script[3 + 1] = child[1]
    BY <1>7, <1>e
  <2> QED
    BY <1>7, <2>1
<1>16. ASSUME NEW i \in 5 .. 3 + b
       PROVE  total > 0 /\ i - 4 \in 1 .. Len(copies) /\ script[i] = copies[i - 4]
  <2>1. total > 0 /\ i - 4 \in 1 .. Len(copies) /\ i - 3 \in 1 .. b
    BY <1>7, <1>16
  <2>2. script[3 + (i - 3)] = child[i - 3] /\ child[1 + (i - 4)] = copies[i - 4]
    BY <1>7, <1>e, <2>1
  <2>3. 3 + (i - 3) = i /\ 1 + (i - 4) = i - 3
    OBVIOUS
  <2> QED
    BY <2>1, <2>2, <2>3
<1>17. ASSUME NEW i \in 5 .. 3 + b
       PROVE  \E r \in 1 .. N : values[r] # Null /\ script[i] = Copy(Child(0), offset[r - 1], values[r])
  <2>1. PICK m \in 1 .. Len(copies) : script[i] = copies[m]
    BY <1>16
  <2> HIDE DEF b
  <2> QED
    BY <1>1, <2>1 DEF CopiesTo
<1>18. ASSUME NEW i \in 5 .. 3 + b, NEW j \in 5 .. 3 + b, i < j
       PROVE  End(script, i) <= script[j].at
  <2>1. /\ i - 4 \in 1 .. Len(copies) /\ script[i] = copies[i - 4]
        /\ j - 4 \in 1 .. Len(copies) /\ script[j] = copies[j - 4] /\ i - 4 < j - 4
    BY <1>16, <1>18
  <2>2. End(copies, i - 4) <= copies[j - 4].at
    <3>1. InOrder(copies)
      BY <1>1 DEF CopiesTo
    <3> HIDE DEF b
    <3> QED
      BY <2>1, <3>1 DEF InOrder
  <2> QED
    BY <2>1, <2>2 DEF End
<1>19. ASSUME total > 0, NEW r \in 1 .. N, values[r] # Null
       PROVE  \E i \in 5 .. 3 + b : script[i] = Copy(Child(0), offset[r - 1], values[r])
  <2>1. PICK j \in 1 .. Len(copies) : copies[j] = Copy(Child(0), offset[r - 1], values[r])
    BY <1>1, <1>19 DEF CopiesTo
  <2>2. j + 4 \in 5 .. 3 + b /\ (j + 4) - 4 = j
    BY <1>7, <1>19
  <2>3. script[j + 4] = copies[j]
    BY <1>16, <2>2
  <2> QED
    BY <2>1, <2>2, <2>3
<1>20. /\ script[1] = SetSize(Result, N) /\ script[2] = GetChild(Child(0))
       /\ script[3] = SetSize(Child(0), total)
       /\ script[4 + b] = GetData(Result) /\ script[5 + b] = Copy(Result, 0, entries)
  BY <1>5, <1>6, <1>14, <1>d
<1>21. b \in Nat /\ 5 + b <= Len(script) /\ (b > 0 => total > 0)
       /\ Marks(script, 5 + b, values)
  BY <1>7, <1>11, <1>12, <1>b
<1> HIDE DEF b, c
<1>22. ListScript(script, values, offset, b)
  BY <1>11, <1>12, <1>15, <1>17, <1>18, <1>19, <1>20, <1>21 DEF ListScript, N, total, entries
<1> QED
  BY <1>22 DEF script

-----------------------------------------------------------------------------
(***************************************************************************)
(* It is sane, and DuckDB reads the floats of every row.                   *)
(***************************************************************************)

\* A result's own vector is none of its children.
LEMMA ChildIsNotResult ==
  ASSUME NEW m, NEW n
  PROVE  Child(m) # Result /\ (Child(m) = Child(n) => m = n)
<1>1. Child(m)[1] = "child" /\ Result[1] = "result" /\ Child(m)[2] = m /\ Child(n)[2] = n
  BY DEF Child, Result
<1> QED
  BY <1>1

\* A copy of a row's floats is of its length and ends where the next row begins.
LEMMA CopyEnds ==
  ASSUME NEW F, NEW values \in Values(F), NEW offset, IsOffset(values, offset),
         NEW r \in 1 .. Len(values), values[r] # Null,
         NEW script, NEW i, script[i] = Copy(Child(0), offset[r - 1], values[r])
  PROVE  /\ script[i].op = "copy" /\ script[i].on = Child(0)
         /\ script[i].at = offset[r - 1] /\ script[i].values = values[r]
         /\ script[i].at \in Nat /\ Len(script[i].values) \in Nat
         /\ End(script, i) = offset[r] /\ offset[r] <= offset[Len(values)]
<1>1. /\ script[i].op = "copy" /\ script[i].on = Child(0)
      /\ script[i].at = offset[r - 1] /\ script[i].values = values[r]
  BY DEF Copy
<1>2. /\ Length(values[r]) = Len(values[r]) /\ Len(values[r]) \in Nat
  BY LengthType
<1>3. /\ offset[r - 1] \in Nat /\ offset[r] = offset[r - 1] + Length(values[r])
      /\ Len(values) \in Nat
  <2>1. Len(values) \in Nat
    BY DEF Values
  <2>2. r - 1 \in 0 .. Len(values)
    BY <2>1
  <2> QED
    BY <2>1, <2>2 DEF IsOffset
<1>4. offset[r] <= offset[Len(values)]
  BY <1>3, OffsetsGrow
<1> QED
  BY <1>1, <1>2, <1>3, <1>4 DEF End

\* embed: the writer of float lists follows a sane script.
LEMMA ListsAreSane ==
  ASSUME NEW F, NEW values \in Values(F), NEW offset, IsOffset(values, offset),
         Len(ListEntries(values)) = Len(values),
         NEW vectors, Result \in vectors, Child(0) \in vectors,
         NEW script, NEW b, ListScript(script, values, offset, b)
  PROVE  Sane(script, vectors)
<1> DEFINE N == Len(values)
           total == offset[N]
           Floats == 5 .. 3 + b
<1>0. /\ N \in Nat /\ total \in Nat /\ b \in Nat /\ Len(script) \in Nat /\ 5 + b <= Len(script)
      /\ Child(0) # Result
  BY ChildIsNotResult DEF ListScript, Values, IsOffset
<1>1. \A i \in 1 .. Len(script) :
        \/ i = 1 \/ i = 2 \/ i = 3 \/ (i = 4 /\ b > 0) \/ i \in Floats
        \/ i = 4 + b \/ i = 5 + b \/ i \in 6 + b .. Len(script)
  BY <1>0
<1>2. /\ script[1].op = "set_size" /\ script[1].on = Result /\ script[1].size = N
      /\ script[2].op = "get_child" /\ script[2].on = Child(0)
      /\ script[3].op = "set_size" /\ script[3].on = Child(0) /\ script[3].size = total
      /\ b > 0 => script[4].op = "get_data" /\ script[4].on = Child(0)
      /\ script[4 + b].op = "get_data" /\ script[4 + b].on = Result
      /\ script[5 + b].op = "copy" /\ script[5 + b].on = Result /\ script[5 + b].at = 0
      /\ script[5 + b].values = ListEntries(values)
  BY DEF ListScript, SetSize, GetChild, GetData, Copy
<1>3. ASSUME NEW i \in Floats
      PROVE  /\ script[i].op = "copy" /\ script[i].on = Child(0)
             /\ script[i].at \in Nat /\ Len(script[i].values) \in Nat
             /\ End(script, i) <= total /\ b > 0
  <2>1. PICK r \in 1 .. N : values[r] # Null /\ script[i] = Copy(Child(0), offset[r - 1], values[r])
    BY DEF ListScript
  <2>2. /\ script[i].op = "copy" /\ script[i].on = Child(0)
        /\ script[i].at \in Nat /\ Len(script[i].values) \in Nat
        /\ End(script, i) = offset[r] /\ offset[r] <= offset[Len(values)]
    BY <2>1, CopyEnds
  <2> QED
    BY <1>0, <2>2
<1>4. ASSUME NEW i \in 6 + b .. Len(script)
      PROVE  script[i].op = "set_null" /\ script[i].on = Result
  <2>1. i \in (5 + b) + 1 .. Len(script)
    BY <1>0
  <2>2. PICK r \in 1 .. N : script[i] = SetNull(r - 1)
    BY <2>1 DEF ListScript, Marks
  <2> QED
    BY <2>2 DEF SetNull
<1> HIDE DEF Floats, N, total
<1>5. ASSUME NEW i \in 1 .. Len(script)
      PROVE  IsStep(script[i], vectors)
  <2>1. CASE i \in Floats
    BY <1>0, <1>3, <2>1 DEF IsStep
  <2>2. CASE i \in 6 + b .. Len(script)
    BY <1>0, <1>4, <2>2 DEF IsStep
  <2>3. CASE i = 1 \/ i = 3
    BY <1>0, <1>2, <2>3 DEF IsStep
  <2>4. CASE i = 2 \/ (i = 4 /\ b > 0) \/ i = 4 + b
    BY <1>2, <2>4 DEF IsStep
  <2>5. CASE i = 5 + b
    <3>1. /\ script[i].op = "copy" /\ script[i].on = Result /\ script[i].at = 0
          /\ Len(script[i].values) = N
      BY <1>2, <2>5 DEF N
    <3> QED
      BY <1>0, <3>1 DEF IsStep
  <2> QED
    BY <1>1, <2>1, <2>2, <2>3, <2>4, <2>5
<1>6. ASSUME NEW v, NEW i \in 1 .. Len(script)
      PROVE  /\ Sizes(script, i, v) => (i = 1 /\ v = Result) \/ (i = 3 /\ v = Child(0))
             /\ Copies(script, i, v) => \/ i \in Floats /\ v = Child(0)
                                        \/ i = 5 + b /\ v = Result
  <2>1. CASE i \in Floats
    BY <1>3, <2>1 DEF Sizes, Copies
  <2>2. CASE i \in 6 + b .. Len(script)
    BY <1>4, <2>2 DEF Sizes, Copies
  <2>3. CASE i = 1 \/ i = 2 \/ i = 3 \/ (i = 4 /\ b > 0) \/ i = 4 + b \/ i = 5 + b
    BY <1>2, <2>3 DEF Sizes, Copies
  <2> QED
    BY <1>1, <2>1, <2>2, <2>3
<1>7. ASSUME NEW v \in vectors, NEW p \in 1 .. Len(script), NEW q \in 1 .. Len(script),
             Sizes(script, p, v), Sizes(script, q, v)
      PROVE  script[p].size = script[q].size
  BY <1>0, <1>6, <1>7
<1>8. ASSUME NEW v \in vectors, NEW i \in 1 .. Len(script), Copies(script, i, v)
      PROVE  \E p, q \in 1 .. Len(script) :
               /\ p < q /\ q < i
               /\ Sizes(script, p, v) /\ Fetches(script, q, v)
               /\ End(script, i) <= script[p].size
  <2>1. CASE i \in Floats /\ v = Child(0)
    <3>1. /\ 3 < 4 /\ 4 < i /\ 3 \in 1 .. Len(script) /\ 4 \in 1 .. Len(script)
      BY <1>0, <2>1 DEF Floats
    <3>2. Sizes(script, 3, v) /\ Fetches(script, 4, v) /\ End(script, i) <= script[3].size
      BY <1>2, <1>3, <2>1 DEF Sizes, Fetches
    <3> QED
      BY <3>1, <3>2
  <2>2. CASE i = 5 + b /\ v = Result
    <3>1. /\ 1 < 4 + b /\ 4 + b < i /\ 1 \in 1 .. Len(script) /\ 4 + b \in 1 .. Len(script)
      BY <1>0, <2>2
    <3>2. Sizes(script, 1, v) /\ Fetches(script, 4 + b, v)
      BY <1>2, <2>2 DEF Sizes, Fetches
    <3>3. End(script, i) <= script[1].size
      BY <1>0, <1>2, <2>2 DEF End, N
    <3> QED
      BY <3>1, <3>2, <3>3
  <2> QED
    BY <1>6, <1>8, <2>1, <2>2
<1>9. ASSUME NEW v \in vectors, NEW i \in 1 .. Len(script), NEW j \in 1 .. Len(script),
             i < j, Copies(script, i, v), Copies(script, j, v)
      PROVE  End(script, i) <= script[j].at
  <2>1. i \in Floats /\ j \in Floats
    BY <1>0, <1>6, <1>9
  <2> QED
    BY <1>9, <2>1 DEF ListScript, Floats
<1>10. \E S : script \in Seq(S)
  BY DEF ListScript
<1> QED
  BY <1>0, <1>5, <1>7, <1>8, <1>9, <1>10 DEF Sane

\* embed: DuckDB reads back the vector of every row, NULL where it is NULL, and
\* an entry inside the child in every row.
LEMMA ListsAreRead ==
  ASSUME NEW F, NEW values \in Values(F), NEW offset, IsOffset(values, offset),
         ListEntries(values) =
           [n \in 1 .. Len(values) |-> [offset |-> offset[n - 1], length |-> Length(values[n])]],
         NEW vectors, Result \in vectors, Child(0) \in vectors,
         NEW script, NEW b, ListScript(script, values, offset, b),
         NEW result, After(script, Len(script), vectors, result),
         NEW row \in 0 .. Len(values) - 1
  PROVE  /\ ReadList(result, row) = values[row + 1]
         /\ LET entry == result[Result].cells[row]
            IN  entry.offset + entry.length <= result[Child(0)].size
<1> DEFINE N == Len(values)
           r == row + 1
           total == offset[N]
           entry == result[Result].cells[row]
<1>0. /\ N \in Nat /\ total \in Nat /\ b \in Nat /\ Len(script) \in Nat /\ 5 + b <= Len(script)
      /\ r \in 1 .. N /\ r - 1 = row /\ offset[row] \in Nat
  <2>1. N \in Nat /\ b \in Nat /\ Len(script) \in Nat /\ 5 + b <= Len(script)
    BY DEF ListScript, Values
  <2>2. r \in 1 .. N /\ r - 1 = row /\ row \in 0 .. N /\ N \in 0 .. N
    BY <2>1
  <2> QED
    BY <2>1, <2>2 DEF IsOffset
<1>1. entry = [offset |-> offset[row], length |-> Length(values[r])]
  <2>1. script[5 + b] = Copy(Result, 0, ListEntries(values)) /\ 5 + b \in 1 .. Len(script)
    BY <1>0 DEF ListScript
  <2>2. Len(ListEntries(values)) = N
    BY TotalIsLastOffset
  <2>3. result[Result].cells[r - 1] = ListEntries(values)[r]
    <3> DEFINE entries == ListEntries(values)
               k == Len(script)
    <3>1. k \in Nat /\ After(script, k, vectors, result) /\ 5 + b \in 1 .. k
      BY <1>0, <2>1
    <3>2. script[5 + b] = Copy(Result, 0, entries) /\ r \in 1 .. Len(entries)
      BY <1>0, <2>1, <2>2
    <3> HIDE DEF entries, k, r
    <3>3. result[Result].cells[r - 1] = entries[r]
      BY <3>1, <3>2, CellsAreRead
    <3> QED
      BY <3>3 DEF entries
  <2>4. ListEntries(values)[r] = [offset |-> offset[r - 1], length |-> Length(values[r])]
    BY <1>0
  <2> QED
    BY <1>0, <2>3, <2>4
<1>2. row \in result[Result].nulls <=> values[r] = Null
  <2>1. \A i \in 1 .. 5 + b :
          \/ i = 1 \/ i = 2 \/ i = 3 \/ (i = 4 /\ b > 0) \/ i \in 5 .. 3 + b
          \/ i = 4 + b \/ i = 5 + b
    BY <1>0
  <2>2. ASSUME NEW i \in 5 .. 3 + b
        PROVE  script[i].op # "set_null"
    BY CopyEnds DEF ListScript
  <2>3. NoMarks(script, 5 + b)
    <3>1. /\ script[1].op # "set_null" /\ script[2].op # "set_null"
          /\ script[3].op # "set_null" /\ (b > 0 => script[4].op # "set_null")
          /\ script[4 + b].op # "set_null" /\ script[5 + b].op # "set_null"
      <4>1. /\ script[1] = SetSize(Result, N) /\ script[2] = GetChild(Child(0))
            /\ script[3] = SetSize(Child(0), total) /\ (b > 0 => script[4] = GetData(Child(0)))
            /\ script[4 + b] = GetData(Result)
            /\ script[5 + b] = Copy(Result, 0, ListEntries(values))
        BY DEF ListScript
      <4> QED
        BY <4>1 DEF SetSize, GetChild, GetData, Copy
    <3> QED
      BY <2>1, <2>2, <3>1 DEF NoMarks
  <2>4. Marks(script, 5 + b, values)
    BY DEF ListScript
  <2>5. \A n \in 1 .. Len(values) : n - 1 \in result[Result].nulls <=> values[n] = Null
    <3> DEFINE from == 5 + b
    <3>1. /\ from \in Nat /\ Marks(script, from, values) /\ NoMarks(script, from)
          /\ Len(script) \in Nat /\ Len(values) \in Nat
      BY <1>0, <2>3, <2>4
    <3> HIDE DEF from
    <3> QED
      BY <3>1, NullsAreRead
  <2> QED
    BY <1>0, <2>5
<1>3. Length(values[r]) \in Nat /\ offset[r] = offset[row] + Length(values[r])
  BY <1>0, LengthType DEF IsOffset
<1>4. offset[r] <= total
  <2>1. N \in 0 .. Len(values) /\ r \in 0 .. N
    BY <1>0
  <2>2. \A m \in 0 .. N : offset[m] <= offset[N]
    BY <2>1, OffsetsGrow
  <2> QED
    BY <2>1, <2>2
<1>5. result[Child(0)].size = total
  <2>1. script[3] = SetSize(Child(0), total) /\ 3 \in 1 .. Len(script)
    BY <1>0 DEF ListScript
  <2>2. Sizes(script, 3, Child(0)) /\ script[3].size = total
    BY <2>1 DEF Sizes, SetSize
  <2> QED
    BY <2>1, <2>2 DEF After, VectorAfter
<1>6. entry.offset + entry.length <= result[Child(0)].size
  BY <1>1, <1>3, <1>4, <1>5
<1>7. ReadList(result, row) = values[r]
  <2>1. CASE values[r] = Null
    BY <1>2, <2>1 DEF ReadList
  <2>2. CASE values[r] # Null
    <3>1. values[r] \in Seq(F) /\ Length(values[r]) = Len(values[r])
      BY <1>0, <2>2, LengthType
    <3>2. ASSUME NEW x \in 1 .. Len(values[r])
          PROVE  result[Child(0)].cells[offset[row] + x - 1] = values[r][x]
      <4>1. total > 0
        BY <1>0, <1>3, <1>4, <3>1
      <4>2. PICK i \in 5 .. 3 + b : script[i] = Copy(Child(0), offset[r - 1], values[r])
        BY <1>0, <2>2, <4>1 DEF ListScript
      <4>3. /\ i \in 1 .. Len(script) /\ Copies(script, i, Child(0))
            /\ script[i].at = offset[row] /\ script[i].values = values[r]
        <5>1. i \in 1 .. Len(script) /\ offset[r - 1] = offset[row]
          BY <1>0
        <5>2. /\ script[i].op = "copy" /\ script[i].on = Child(0)
              /\ script[i].at = offset[r - 1] /\ script[i].values = values[r]
          BY <4>2 DEF Copy
        <5> QED
          BY <5>1, <5>2 DEF Copies
      <4>4. VectorAfter(script, Len(script), Child(0), result[Child(0)])
        BY DEF After
      <4>5. \A y \in 1 .. Len(script[i].values) :
              result[Child(0)].cells[script[i].at + y - 1] = script[i].values[y]
        BY <4>3, <4>4 DEF VectorAfter
      <4> QED
        BY <4>3, <4>5
    <3>3. values[r] = [x \in 1 .. Len(values[r]) |-> values[r][x]]
      BY <3>1
    <3>4. ReadList(result, row) =
            [x \in 1 .. Len(values[r]) |-> result[Child(0)].cells[offset[row] + x - 1]]
      BY <1>1, <1>2, <2>2, <3>1 DEF ReadList
    <3> QED
      BY <3>2, <3>3, <3>4
  <2> QED
    BY <2>1, <2>2
<1> QED
  BY <1>6, <1>7

-----------------------------------------------------------------------------
(***************************************************************************)
(* The script that writes the fields of a STRUCT.                          *)
(***************************************************************************)

\* One value in every row.
Repeated(value, rows) == [row \in 1 .. rows |-> value]

\* The five steps of a field, after the step at.
FieldAt(script, at, v, value, rows) ==
  /\ script[at + 1] = SetSize(Result, rows)
  /\ script[at + 2] = GetChild(v)
  /\ script[at + 3] = SetSize(v, rows)
  /\ script[at + 4] = GetData(v)
  /\ script[at + 5] = Copy(v, 0, Repeated(value, rows))

\* The steps of a field.
FieldSteps(v, value, rows) ==
  {SetSize(Result, rows), GetChild(v), SetSize(v, rows), GetData(v),
   Copy(v, 0, Repeated(value, rows))}

\* What is written for one field.
OneField(v, value, rows) ==
  <<SetSize(Result, rows), GetChild(v)>> \o WriteCells(v, [row \in 1 .. rows |-> value])

\* They are five.
LEMMA OneFieldIsFive ==
  ASSUME NEW v, NEW value, NEW rows \in Nat
  PROVE  /\ OneField(v, value, rows) \in Seq(FieldSteps(v, value, rows))
         /\ Len(OneField(v, value, rows)) = 5
         /\ FieldAt(OneField(v, value, rows), 0, v, value, rows)
<1> DEFINE s == <<SetSize(Result, rows), GetChild(v)>>
           values == Repeated(value, rows)
           t == <<SetSize(v, rows), GetData(v), Copy(v, 0, values)>>
           S == FieldSteps(v, value, rows)
           u == OneField(v, value, rows)
<1>1. Len(values) = rows
  BY DEF Repeated
<1>2. u = s \o t
  BY <1>1 DEF OneField, WriteCells, Repeated
<1> HIDE DEF values, u
<1>3. /\ s \in Seq(S) /\ Len(s) = 2 /\ s[1] = SetSize(Result, rows) /\ s[2] = GetChild(v)
  BY DEF FieldSteps
<1>4. /\ t \in Seq(S) /\ Len(t) = 3 /\ t[1] = SetSize(v, rows) /\ t[2] = GetData(v)
      /\ t[3] = Copy(v, 0, values)
  BY DEF FieldSteps, values
<1> HIDE DEF s, t, S
<1>5. u \in Seq(S) /\ IsJoin(u, s, t)
  BY <1>2, <1>3, <1>4, Joined
<1>6. Len(u) = 5 /\ u[1] = s[1] /\ u[2] = s[2]
  BY <1>3, <1>4, <1>5 DEF IsJoin
<1>7. u[2 + 1] = t[1] /\ u[2 + 2] = t[2] /\ u[2 + 3] = t[3]
  BY <1>3, <1>4, <1>5 DEF IsJoin
<1>8. u[3] = t[1] /\ u[4] = t[2] /\ u[5] = t[3]
  BY <1>7
<1>9. FieldAt(u, 0, v, value, rows)
  BY <1>3, <1>4, <1>6, <1>8 DEF FieldAt, values
<1> QED
  BY <1>5, <1>6, <1>9 DEF u, S

\* u is s with the steps of one more field.
WithField(S, u, s, v, value, rows) ==
  /\ u \in Seq(S) /\ Len(u) = Len(s) + 5 /\ Len(s) \in Nat
  /\ \A i \in 1 .. Len(s) : u[i] = s[i]
  /\ FieldAt(u, Len(s), v, value, rows)

\* A field appended leaves those before it where they were.
LEMMA FieldAppended ==
  ASSUME NEW S, NEW s \in Seq(S), NEW v, NEW value, NEW rows \in Nat,
         FieldSteps(v, value, rows) \subseteq S, NEW u, u = s \o OneField(v, value, rows)
  PROVE  WithField(S, u, s, v, value, rows)
<1> DEFINE field == OneField(v, value, rows)
<1>1. field \in Seq(S) /\ Len(field) = 5 /\ FieldAt(field, 0, v, value, rows)
  <2>1. field \in Seq(FieldSteps(v, value, rows))
    BY OneFieldIsFive
  <2> HIDE DEF field
  <2>2. field \in Seq(S)
    BY <2>1
  <2> QED
    BY <2>2, OneFieldIsFive DEF field
<1> HIDE DEF field
<1>2. u \in Seq(S) /\ IsJoin(u, s, field)
  BY <1>1, Joined DEF field
<1>3. /\ u[Len(s) + 1] = field[1] /\ u[Len(s) + 2] = field[2] /\ u[Len(s) + 3] = field[3]
      /\ u[Len(s) + 4] = field[4] /\ u[Len(s) + 5] = field[5]
  BY <1>1, <1>2 DEF IsJoin
<1>4. /\ field[0 + 1] = field[1] /\ field[0 + 2] = field[2] /\ field[0 + 3] = field[3]
      /\ field[0 + 4] = field[4] /\ field[0 + 5] = field[5]
  OBVIOUS
<1>5. FieldAt(u, Len(s), v, value, rows)
  BY <1>1, <1>3, <1>4 DEF FieldAt
<1>6. Len(u) = Len(s) + 5 /\ Len(s) \in Nat
  BY <1>1, <1>2 DEF IsJoin
<1>7. \A i \in 1 .. Len(s) : u[i] = s[i]
  BY <1>2 DEF IsJoin
<1> QED
  BY <1>2, <1>5, <1>6, <1>7 DEF WithField

\* The first n fields have been written, five steps for each.
FieldsTo(script, writes, n, rows) ==
  /\ Len(script) = 5 * n
  /\ \A m \in 1 .. n :
       FieldAt(script, 5 * (m - 1), Child(writes[m][1]), writes[m][2], rows)

\* The fields are written one after the other.
LEMMA FieldsAreWritten ==
  ASSUME NEW writes, Len(writes) \in Nat, NEW rows \in Nat
  PROVE  /\ FieldsTo(WriteFields(writes, rows), writes, Len(writes), rows)
         /\ \E S : WriteFields(writes, rows) \in Seq(S)
<1> DEFINE N == Len(writes)
           Field(n) == OneField(Child(writes[n][1]), writes[n][2], rows)
           Steps == UNION {FieldSteps(Child(writes[n][1]), writes[n][2], rows) : n \in 1 .. N}
           More(n, s) == s \o Field(n)
           step == [n \in 1 .. N |-> [s \in Seq(Steps) |-> More(n, s)]]
           Is(f) == f = [n \in 0 .. N |-> IF n = 0 THEN <<>> ELSE More(n, f[n - 1])]
           upTo == CHOOSE f : Is(f)
           S == {n \in 0 .. N : upTo[n] \in Seq(Steps) /\ FieldsTo(upTo[n], writes, n, rows)}
<1>0. N \in Nat
  OBVIOUS
<1>a. \A n \in 1 .. N : FieldSteps(Child(writes[n][1]), writes[n][2], rows) \subseteq Steps
  OBVIOUS
<1>1. ASSUME NEW n \in 1 .. N, NEW s \in Seq(Steps)
      PROVE  More(n, s) \in Seq(Steps)
  <2> DEFINE v == Child(writes[n][1])
             value == writes[n][2]
  <2>1. FieldSteps(v, value, rows) \subseteq Steps
    BY <1>a
  <2>2. More(n, s) = s \o OneField(v, value, rows)
    OBVIOUS
  <2> HIDE DEF Steps, More, v, value
  <2>3. WithField(Steps, More(n, s), s, v, value, rows)
    BY <2>1, <2>2, FieldAppended
  <2> QED
    BY <2>3 DEF WithField
<1>2. WriteFields(writes, rows) = upTo[N]
  BY DEF WriteFields, OneField
<1>3. /\ upTo[0] = <<>>
      /\ \A n \in 1 .. N : upTo[n] = More(n, upTo[n - 1])
  <2> HIDE DEF More
  <2>1. step \in [1 .. N -> [Seq(Steps) -> Seq(Steps)]] /\ <<>> \in Seq(Steps)
    <3> HIDE DEF Steps
    <3> QED
      BY <1>1
  <2>2. PICK f \in [0 .. N -> Seq(Steps)] : IsIteration(N, <<>>, step, f)
    <3> HIDE DEF step, N, Steps
    <3> QED
      BY <1>0, <2>1, IterationExists
  <2>3. f[0] = <<>> /\ \A n \in 1 .. N : f[n] = More(n, f[n - 1])
    <3> HIDE DEF Steps
    <3>1. ASSUME NEW n \in 1 .. N
          PROVE  step[n][f[n - 1]] = More(n, f[n - 1])
      <4>1. f[n - 1] \in Seq(Steps)
        OBVIOUS
      <4> QED
        BY <4>1
    <3> HIDE DEF step
    <3> QED
      BY <2>2, <3>1 DEF IsIteration
  <2>4. Is(f)
    <3>1. f = [n \in 0 .. N |-> f[n]]
      OBVIOUS
    <3> HIDE DEF N
    <3>2. \A n \in 0 .. N : f[n] = IF n = 0 THEN <<>> ELSE More(n, f[n - 1])
      BY <1>0, <2>3
    <3> QED
      BY <3>1, <3>2
  <2>5. Is(upTo)
    <3> HIDE DEF Is
    <3> QED
      BY <2>4
  <2> HIDE DEF upTo
  <2> QED
    BY <1>0, <2>5
<1> HIDE DEF upTo
<1>4. 0 \in S
  <2>1. <<>> \in Seq(Steps) /\ FieldsTo(<<>>, writes, 0, rows)
    BY DEF FieldsTo
  <2> HIDE DEF Steps, More
  <2>2. upTo[0] = <<>>
    BY <1>3
  <2>3. upTo[0] \in Seq(Steps) /\ FieldsTo(upTo[0], writes, 0, rows)
    BY <2>1, <2>2
  <2> QED
    BY <1>0, <2>3
<1>5. ASSUME NEW n \in 1 .. N, n - 1 \in S
      PROVE  n \in S
  <2> DEFINE s == upTo[n - 1]
             u == upTo[n]
             v == Child(writes[n][1])
             value == writes[n][2]
  <2>1. s \in Seq(Steps) /\ FieldsTo(s, writes, n - 1, rows)
    BY <1>5
  <2>2. u = s \o OneField(v, value, rows)
    BY <1>3
  <2>3. FieldSteps(v, value, rows) \subseteq Steps
    BY <1>a
  <2> HIDE DEF s, u, v, value, Steps
  <2>a. s \in Seq(Steps)
    BY <2>1
  <2>b. WithField(Steps, u, s, v, value, rows)
    BY <2>2, <2>3, <2>a, FieldAppended
  <2>c. u \in Seq(Steps)
    BY <2>b DEF WithField
  <2>4. Len(u) = Len(s) + 5 /\ Len(s) \in Nat
    BY <2>b DEF WithField
  <2>5. \A i \in 1 .. Len(s) : u[i] = s[i]
    BY <2>b DEF WithField
  <2>6. FieldAt(u, Len(s), v, value, rows)
    BY <2>b DEF WithField
  <2>7. Len(s) = 5 * (n - 1) /\ Len(u) = 5 * n
    BY <2>1, <2>4 DEF FieldsTo
  <2>8. ASSUME NEW m \in 1 .. n
        PROVE  FieldAt(u, 5 * (m - 1), Child(writes[m][1]), writes[m][2], rows)
    <3>1. CASE m = n
      BY <2>6, <2>7, <3>1 DEF v, value
    <3>2. CASE m # n
      <4>1. FieldAt(s, 5 * (m - 1), Child(writes[m][1]), writes[m][2], rows)
        BY <2>1, <3>2 DEF FieldsTo
      <4> DEFINE at == 5 * (m - 1)
      <4>2. /\ at + 1 \in 1 .. Len(s) /\ at + 2 \in 1 .. Len(s) /\ at + 3 \in 1 .. Len(s)
            /\ at + 4 \in 1 .. Len(s) /\ at + 5 \in 1 .. Len(s)
        BY <2>7, <3>2
      <4> HIDE DEF at
      <4>3. /\ u[at + 1] = s[at + 1] /\ u[at + 2] = s[at + 2] /\ u[at + 3] = s[at + 3]
            /\ u[at + 4] = s[at + 4] /\ u[at + 5] = s[at + 5]
        BY <2>5, <4>2
      <4>4. FieldAt(s, at, Child(writes[m][1]), writes[m][2], rows)
        BY <4>1 DEF at
      <4>5. FieldAt(u, at, Child(writes[m][1]), writes[m][2], rows)
        BY <4>3, <4>4 DEF FieldAt
      <4> QED
        BY <4>5 DEF at
    <3> QED
      BY <3>1, <3>2
  <2>9. FieldsTo(u, writes, n, rows)
    BY <2>7, <2>8 DEF FieldsTo
  <2> QED
    BY <2>9, <2>c DEF u
<1> HIDE DEF S
<1>6. N \in S
  <2> HIDE DEF N, More
  <2>1. 0 .. N \subseteq S
    BY <1>0, <1>4, <1>5, BoundedInduction
  <2> QED
    BY <1>0, <2>1
<1> HIDE DEF Steps
<1> QED
  BY <1>2, <1>6 DEF S

-----------------------------------------------------------------------------
(***************************************************************************)
(* It is sane, and DuckDB reads each field in every row.                   *)
(***************************************************************************)

\* The steps of the m-th field.
IsField(i, m) ==
  LET at == 5 * (m - 1)
  IN  i = at + 1 \/ i = at + 2 \/ i = at + 3 \/ i = at + 4 \/ i = at + 5

\* There are no others.
LEMMA EveryStepIsOfAField ==
  ASSUME NEW n \in Nat, NEW i \in 1 .. 5 * n
  PROVE  \E m \in 1 .. n : IsField(i, m)
<1> DEFINE m == (i - 1) \div 5 + 1
           r == (i - 1) % 5
<1>1. i - 1 = 5 * (m - 1) + r /\ r \in 0 .. 4 /\ m \in Int
  OBVIOUS
<1> HIDE DEF m, r
<1>2. m \in 1 .. n
  BY <1>1
<1>3. IsField(i, m)
  BY <1>1 DEF IsField
<1> QED
  BY <1>2, <1>3

\* No field is written twice.
Distinct(writes) ==
  \A m, n \in 1 .. Len(writes) : writes[m][1] = writes[n][1] => m = n

\* models and cache_stats: the writer of a STRUCT follows a sane script.
LEMMA FieldsAreSane ==
  ASSUME NEW writes, Len(writes) \in Nat, NEW rows \in Nat, Distinct(writes),
         NEW vectors, Result \in vectors,
         \A m \in 1 .. Len(writes) : Child(writes[m][1]) \in vectors
  PROVE  Sane(WriteFields(writes, rows), vectors)
<1> DEFINE script == WriteFields(writes, rows)
           N == Len(writes)
           At(m) == 5 * (m - 1)
           V(m) == Child(writes[m][1])
<1>0. N \in Nat
  OBVIOUS
<1>1. FieldsTo(script, writes, N, rows) /\ \E S : script \in Seq(S)
  BY FieldsAreWritten
<1> HIDE DEF script
<1>2. Len(script) = 5 * N /\ Len(script) \in Nat
  BY <1>1 DEF FieldsTo
<1>3. ASSUME NEW m \in 1 .. N
      PROVE  /\ At(m) \in Nat /\ At(m) + 5 <= Len(script)
             /\ V(m) # Result /\ V(m) \in vectors
             /\ script[At(m) + 1].op = "set_size" /\ script[At(m) + 1].on = Result
             /\ script[At(m) + 1].size = rows
             /\ script[At(m) + 2].op = "get_child" /\ script[At(m) + 2].on = V(m)
             /\ script[At(m) + 3].op = "set_size" /\ script[At(m) + 3].on = V(m)
             /\ script[At(m) + 3].size = rows
             /\ script[At(m) + 4].op = "get_data" /\ script[At(m) + 4].on = V(m)
             /\ script[At(m) + 5].op = "copy" /\ script[At(m) + 5].on = V(m)
             /\ script[At(m) + 5].at = 0 /\ Len(script[At(m) + 5].values) = rows
  <2>1. FieldAt(script, At(m), V(m), writes[m][2], rows)
    BY <1>1 DEF FieldsTo
  <2>2. At(m) \in Nat /\ At(m) + 5 <= Len(script)
    BY <1>0, <1>2
  <2>3. V(m) # Result /\ V(m) \in vectors
    BY ChildIsNotResult
  <2>4. Len(Repeated(writes[m][2], rows)) = rows
    BY DEF Repeated
  <2> HIDE DEF At, V
  <2> QED
    BY <2>1, <2>2, <2>3, <2>4 DEF FieldAt, SetSize, GetChild, GetData, Copy
<1>4. ASSUME NEW i \in 1 .. Len(script)
      PROVE  \E m \in 1 .. N :
               i = At(m) + 1 \/ i = At(m) + 2 \/ i = At(m) + 3 \/ i = At(m) + 4 \/ i = At(m) + 5
  <2>1. PICK m \in 1 .. N : IsField(i, m)
    BY <1>0, <1>2, EveryStepIsOfAField
  <2> QED
    BY <2>1 DEF IsField
<1>5. \A m, n \in 1 .. N : V(m) = V(n) => m = n
  BY ChildIsNotResult DEF Distinct
<1> HIDE DEF At, V
<1>6. ASSUME NEW i \in 1 .. Len(script)
      PROVE  IsStep(script[i], vectors)
  <2>1. PICK m \in 1 .. N :
          i = At(m) + 1 \/ i = At(m) + 2 \/ i = At(m) + 3 \/ i = At(m) + 4 \/ i = At(m) + 5
    BY <1>4
  <2>2. CASE i = At(m) + 1 \/ i = At(m) + 3
    BY <1>3, <2>2 DEF IsStep
  <2>3. CASE i = At(m) + 2 \/ i = At(m) + 4
    BY <1>3, <2>3 DEF IsStep
  <2>4. CASE i = At(m) + 5
    <3>1. /\ script[i].op = "copy" /\ script[i].on = V(m) /\ V(m) \in vectors
          /\ script[i].at = 0 /\ Len(script[i].values) = rows
      BY <1>3, <2>4
    <3> QED
      BY <3>1 DEF IsStep
  <2> QED
    BY <2>1, <2>2, <2>3, <2>4
<1>7. ASSUME NEW v, NEW i \in 1 .. Len(script), Sizes(script, i, v)
      PROVE  script[i].size = rows
  <2>1. PICK m \in 1 .. N :
          i = At(m) + 1 \/ i = At(m) + 2 \/ i = At(m) + 3 \/ i = At(m) + 4 \/ i = At(m) + 5
    BY <1>4
  <2> QED
    BY <1>3, <1>7, <2>1 DEF Sizes
<1>8. ASSUME NEW v, NEW i \in 1 .. Len(script), Copies(script, i, v)
      PROVE  \E m \in 1 .. N : v = V(m) /\ i = At(m) + 5
  <2>1. PICK m \in 1 .. N :
          i = At(m) + 1 \/ i = At(m) + 2 \/ i = At(m) + 3 \/ i = At(m) + 4 \/ i = At(m) + 5
    BY <1>4
  <2>2. i = At(m) + 5 /\ v = V(m)
    BY <1>3, <1>8, <2>1 DEF Copies
  <2> QED
    BY <2>2
<1>9. ASSUME NEW v \in vectors, NEW i \in 1 .. Len(script), Copies(script, i, v)
      PROVE  \E p, q \in 1 .. Len(script) :
               /\ p < q /\ q < i
               /\ Sizes(script, p, v) /\ Fetches(script, q, v)
               /\ End(script, i) <= script[p].size
  <2>1. PICK m \in 1 .. N : v = V(m) /\ i = At(m) + 5
    BY <1>8, <1>9
  <2> DEFINE p == At(m) + 3
             q == At(m) + 4
  <2>2. p \in 1 .. Len(script) /\ q \in 1 .. Len(script) /\ p < q /\ q < i
    BY <1>2, <1>3, <2>1
  <2>3. Sizes(script, p, v) /\ Fetches(script, q, v)
    BY <1>3, <2>1 DEF Sizes, Fetches
  <2>4. End(script, i) <= script[p].size
    <3>1. script[i].at = 0 /\ Len(script[i].values) = rows /\ script[p].size = rows
      BY <1>3, <2>1
    <3> HIDE DEF p
    <3> QED
      BY <3>1 DEF End
  <2> HIDE DEF p, q
  <2> QED
    BY <2>2, <2>3, <2>4
<1>10. ASSUME NEW v \in vectors, NEW i \in 1 .. Len(script), NEW j \in 1 .. Len(script), i < j
       PROVE  ~ (Copies(script, i, v) /\ Copies(script, j, v))
  <2> SUFFICES ASSUME Copies(script, i, v), Copies(script, j, v)
               PROVE  FALSE
    OBVIOUS
  <2>1. PICK m \in 1 .. N : v = V(m) /\ i = At(m) + 5
    BY <1>8
  <2>2. PICK n \in 1 .. N : v = V(n) /\ j = At(n) + 5
    BY <1>8
  <2>3. m = n
    BY <1>5, <2>1, <2>2
  <2> QED
    BY <1>10, <2>1, <2>2, <2>3
<1>11. Sane(script, vectors)
  BY <1>1, <1>2, <1>6, <1>7, <1>9, <1>10 DEF Sane
<1> QED
  BY <1>11 DEF script

\* models and cache_stats: DuckDB reads the value of the field in every row.
LEMMA FieldsAreRead ==
  ASSUME NEW writes, Len(writes) \in Nat, NEW rows \in Nat,
         NEW vectors, \A m \in 1 .. Len(writes) : Child(writes[m][1]) \in vectors,
         NEW result,
         After(WriteFields(writes, rows), Len(WriteFields(writes, rows)), vectors, result),
         NEW m \in 1 .. Len(writes), NEW row \in 0 .. rows - 1
  PROVE  result[Child(writes[m][1])].cells[row] = writes[m][2]
<1> DEFINE script == WriteFields(writes, rows)
           k == Len(script)
           i == 5 * (m - 1) + 5
           v == Child(writes[m][1])
           cells == Repeated(writes[m][2], rows)
<1>1. FieldsTo(script, writes, Len(writes), rows)
  BY FieldsAreWritten
<1>2. script[i] = Copy(v, 0, cells) /\ i \in 1 .. k /\ k \in Nat
  <2> HIDE DEF script
  <2>1. k = 5 * Len(writes)
    BY <1>1 DEF FieldsTo
  <2>2. i \in 1 .. k /\ k \in Nat
    BY <2>1
  <2>3. FieldAt(script, 5 * (m - 1), v, writes[m][2], rows)
    BY <1>1 DEF FieldsTo
  <2> QED
    BY <2>2, <2>3 DEF FieldAt
<1>3. /\ Len(cells) = rows /\ row + 1 \in 1 .. rows /\ (row + 1) - 1 = row
      /\ cells[row + 1] = writes[m][2]
  BY DEF Repeated
<1>4. After(script, k, vectors, result) /\ v \in vectors
  OBVIOUS
<1> HIDE DEF k, script, i, cells, v
<1>5. result[v].cells[(row + 1) - 1] = cells[row + 1]
  <2>1. \A n \in 1 .. Len(cells) : result[v].cells[n - 1] = cells[n]
    BY <1>2, <1>4, CellsAreRead
  <2> QED
    BY <1>3, <2>1
<1> QED
  BY <1>3, <1>5 DEF v

=============================================================================

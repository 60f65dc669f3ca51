------------------------ MODULE CapacitySearchProofs ------------------------
(***************************************************************************)
(* What the search returns, for every budget, every block size and every   *)
(* behaviour of the allocator.                                             *)
(*                                                                         *)
(* The invariant is the bracket: low fits and high + 1 does not.  It       *)
(* survives because the memo only grows, so a cost once measured stays     *)
(* what it was.  That the answer is the largest number whose cost is       *)
(* inside the budget needs the cost to grow with the number, and so a fact *)
(* about next_power_of_two for every argument: the recursion is shown to   *)
(* have a value, and to grow, by an induction on the naturals.             *)
(***************************************************************************)
EXTENDS CapacitySearch, WellFoundedInduction, TLAPS

\* Dividing and multiplying back overshoots by less than one divisor.
LEMMA DivisionBound ==
  ASSUME NEW a \in Nat, NEW b \in Nat, b >= 1
  PROVE  /\ a \div b \in Nat
         /\ (a \div b + 1) * b > a
  OBVIOUS

\* The middle of a range of two or more numbers is above its lower end.
LEMMA MiddleInside ==
  ASSUME low \in Nat, high \in Nat, low < high
  PROVE  Middle \in Nat /\ low < Middle /\ Middle <= high
  BY DEF Middle

\* Asking keeps every answer the memo has, and leaves one for the size asked;
\* a new answer has the type, and covers the class where that can be asked.
LEMMA AskGrows ==
  ASSUME NEW m, m \in [DOMAIN m -> [class : Int, reported : Int]],
         Covered(m),
         NEW size, NEW m2 \in Ask(m, size)
  PROVE  /\ m2 \in [DOMAIN m2 -> [class : Int, reported : Int]]
         /\ DOMAIN m \subseteq DOMAIN m2 /\ size \in DOMAIN m2
         /\ \A s \in DOMAIN m : m2[s] = m[s]
         /\ Covered(m2)
<1>1. CASE size \in DOMAIN m
  BY <1>1 DEF Ask
<1>2. CASE size \notin DOMAIN m
  <2>1. PICK p \in Probes(size) :
          m2 = [s \in DOMAIN m \cup {size} |-> IF s = size THEN p ELSE m[s]]
    BY <1>2 DEF Ask
  <2>2. /\ p \in [class : Int, reported : Int]
        /\ CanAsk => p.class <= p.reported
        /\ size = VectorRequest => size <= p.reported
    BY SizesAssumption DEF Probes, Blocks
  <2> QED
    BY <1>2, <2>1, <2>2 DEF Covered
<1> QED
  BY <1>1, <1>2

\* Evaluating bytes_for(n) measures n and forgets nothing.
LEMMA MeasureGrows ==
  ASSUME TypeOK, ProbesCover, NEW n, Measure(n)
  PROVE  /\ memo' \in [DOMAIN memo' -> [class : Int, reported : Int]]
         /\ DOMAIN memo \subseteq DOMAIN memo'
         /\ {ArrayRequest(n), VectorRequest} \subseteq DOMAIN memo'
         /\ \A s \in DOMAIN memo : memo'[s] = memo[s]
         /\ ProbesCover'
<1>1. PICK m \in Ask(memo, ArrayRequest(n)) : memo' \in Ask(m, VectorRequest)
  BY DEF Measure
<1>2. /\ m \in [DOMAIN m -> [class : Int, reported : Int]]
      /\ DOMAIN memo \subseteq DOMAIN m /\ ArrayRequest(n) \in DOMAIN m
      /\ \A s \in DOMAIN memo : m[s] = memo[s]
      /\ Covered(m)
  BY <1>1, AskGrows DEF TypeOK, ProbesCover
<1>3. /\ memo' \in [DOMAIN memo' -> [class : Int, reported : Int]]
      /\ DOMAIN m \subseteq DOMAIN memo' /\ VectorRequest \in DOMAIN memo'
      /\ \A s \in DOMAIN m : memo'[s] = m[s]
      /\ Covered(memo')
  BY <1>1, <1>2, AskGrows
<1> QED
  BY <1>2, <1>3 DEF ProbesCover

\* A cost that has been measured is the same in a memo that has grown.
LEMMA CostStable ==
  ASSUME NEW m1, NEW m2, \A s \in DOMAIN m1 : m2[s] = m1[s],
         NEW n, {ArrayRequest(n), VectorRequest} \subseteq DOMAIN m1
  PROVE  BytesFor(m2, n) = BytesFor(m1, n)
  BY DEF BytesFor, AllocationBytes

\* A measured cost is a number, so it is inside the budget or above it.
LEMMA CostType ==
  ASSUME NEW m, m \in [DOMAIN m -> [class : Int, reported : Int]],
         NEW n \in Nat, {ArrayRequest(n), VectorRequest} \subseteq DOMAIN m
  PROVE  BytesFor(m, n) \in Int /\ AllocationBytes(m, VectorRequest) \in Int
  BY DEF BytesFor, AllocationBytes

-----------------------------------------------------------------------------
\* The search starts from the whole bracket.
LEMMA SearchInit == Init => SearchInv
  BY SizesAssumption
     DEF Init, SearchInv, TypeOK, ProbesCover, Covered, Unstarted, Bracketed, AnswerIsMaximal

\* After the first measurement either nothing fits, or 1 does and more than the
\* budget buys of bare vectors cannot.
LEMMA FirstStep == SearchInv /\ (TooSmall \/ Bounds) => SearchInv'
<1> SUFFICES ASSUME SearchInv, TooSmall \/ Bounds
             PROVE  SearchInv'
  OBVIOUS
<1>1. /\ TypeOK /\ ProbesCover /\ Unstarted
      /\ pc = "start" /\ low = 0 /\ Measure(1) /\ budget' = budget
  BY DEF SearchInv, Unstarted, TooSmall, Bounds
<1>2. /\ memo' \in [DOMAIN memo' -> [class : Int, reported : Int]]
      /\ {ArrayRequest(1), VectorRequest} \subseteq DOMAIN memo'
      /\ ProbesCover'
  BY <1>1, MeasureGrows
<1>3. CASE TooSmall
  <2>1. pc' = "done" /\ low' = 0 /\ high' = high /\ BytesFor(memo', 1) > budget'
    BY <1>1, <1>3 DEF TooSmall
  <2>2. TypeOK'
    BY <1>1, <1>2, <2>1 DEF TypeOK
  <2>3. AnswerIsMaximal'
    BY <1>2, <2>1 DEF AnswerIsMaximal, Measured
  <2> QED
    BY <1>2, <2>1, <2>2, <2>3 DEF SearchInv, Unstarted, Bracketed
<1>4. CASE Bounds
  <2> DEFINE each == AtLeast1(AllocationBytes(memo', VectorRequest))
             most == budget \div each
  <2>1. /\ pc' = "search" /\ low' = 1 /\ high' = AtLeast1(most)
        /\ BytesFor(memo', 1) <= budget'
    BY <1>1, <1>4 DEF Bounds
  <2>2. BytesFor(memo', 1) \in Int /\ AllocationBytes(memo', VectorRequest) \in Int
    BY <1>2, CostType
  <2>3. each \in Nat /\ each >= 1 /\ budget \in Nat
    BY <1>1, <2>2 DEF AtLeast1, TypeOK
  <2>4. most \in Nat /\ (most + 1) * each > budget
    BY <2>3, DivisionBound
  <2>5. high' \in Nat /\ high' >= 1 /\ high' >= most
    BY <2>1, <2>4 DEF AtLeast1
  <2>6. TypeOK'
    BY <1>1, <1>2, <2>1, <2>5 DEF TypeOK
  <2>7. Fits(1)'
    BY <1>2, <2>1 DEF Fits, Measured
  <2>8. NoRoomFor(high + 1)'
    <3>1. each = AllocationBytes(memo', VectorRequest)
      BY <1>2, <2>2, SizesAssumption
         DEF AtLeast1, ProbesCover, Covered, AllocationBytes
    <3>2. ASSUME NEW a \in Nat, NEW b \in Nat, NEW c \in Nat, b >= a
          PROVE  (b + 1) * c >= (a + 1) * c
      BY <3>2
    <3>3. (high' + 1) * each >= (most + 1) * each
      BY <2>3, <2>4, <2>5, <3>2
    <3>4. (high' + 1) * each > budget'
      <4>1. (high' + 1) * each \in Nat /\ (most + 1) * each \in Nat
        BY <2>3, <2>4, <2>5
      <4> DEFINE x == (high' + 1) * each
                 y == (most + 1) * each
      <4>2. x \in Nat /\ y \in Nat /\ x >= y /\ y > budget /\ budget \in Nat
        BY <2>3, <2>4, <3>3, <4>1
      <4>3. x > budget
        <5> HIDE DEF x, y
        <5> QED
          BY <4>2
      <4> QED
        BY <1>1, <4>3
    <3> QED
      BY <3>1, <3>4 DEF NoRoomFor
  <2>9. Fits(low)'
    BY <2>1, <2>7 DEF Fits, Measured
  <2> QED
    BY <1>2, <2>1, <2>5, <2>6, <2>8, <2>9
       DEF SearchInv, Unstarted, Bracketed, AnswerIsMaximal
<1> QED
  BY <1>3, <1>4

\* Halving keeps the bracket: the middle has been measured, and the bound it
\* does not replace keeps the cost it had.
LEMMA HalveStep == SearchInv /\ Halve => SearchInv'
<1> SUFFICES ASSUME SearchInv, Halve
             PROVE  SearchInv'
  OBVIOUS
<1>1. /\ TypeOK /\ ProbesCover /\ Fits(low) /\ NoRoomFor(high + 1)
      /\ pc = "search" /\ pc' = "search" /\ low >= 1 /\ low < high
      /\ Measure(Middle) /\ budget' = budget
  BY DEF SearchInv, Bracketed, Halve
<1>2. Middle \in Nat /\ low < Middle /\ Middle <= high
  BY <1>1, MiddleInside DEF TypeOK
<1>3. /\ memo' \in [DOMAIN memo' -> [class : Int, reported : Int]]
      /\ DOMAIN memo \subseteq DOMAIN memo'
      /\ {ArrayRequest(Middle), VectorRequest} \subseteq DOMAIN memo'
      /\ \A s \in DOMAIN memo : memo'[s] = memo[s]
      /\ ProbesCover'
  BY <1>1, MeasureGrows
<1>4. BytesFor(memo', Middle) \in Int
  BY <1>2, <1>3, CostType
<1>5. ASSUME NEW n, Fits(n)
      PROVE  {ArrayRequest(n), VectorRequest} \subseteq DOMAIN memo'
             /\ BytesFor(memo', n) <= budget
  BY <1>3, <1>5, CostStable DEF Fits, Measured
<1>6. VectorRequest \in DOMAIN memo
  BY <1>1 DEF Fits, Measured
<1>7. AllocationBytes(memo', VectorRequest) = AllocationBytes(memo, VectorRequest)
  BY <1>3, <1>6 DEF AllocationBytes
<1>8. ASSUME NEW n, NoRoomFor(n)
      PROVE  \/ /\ {ArrayRequest(n), VectorRequest} \subseteq DOMAIN memo'
                /\ BytesFor(memo', n) > budget
             \/ n * AllocationBytes(memo', VectorRequest) > budget
  BY <1>3, <1>7, <1>8, CostStable DEF NoRoomFor, Measured
<1>9. CASE BytesFor(memo', Middle) <= budget
  <2>1. low' = Middle /\ high' = high
    BY <1>9 DEF Halve
  <2>2. Fits(low)'
    BY <1>1, <1>3, <1>9, <2>1 DEF Fits, Measured
  <2>3. NoRoomFor(high + 1)'
    BY <1>1, <1>8, <2>1 DEF NoRoomFor, Measured
  <2>4. TypeOK'
    BY <1>1, <1>2, <1>3, <2>1 DEF TypeOK
  <2> QED
    BY <1>1, <1>2, <1>3, <2>1, <2>2, <2>3, <2>4
       DEF SearchInv, TypeOK, Unstarted, Bracketed, AnswerIsMaximal
<1>10. CASE ~ (BytesFor(memo', Middle) <= budget)
  <2>1. low' = low /\ high' = Middle - 1
    BY <1>10 DEF Halve
  <2>2. high' \in Nat /\ high' + 1 = Middle /\ low <= high'
    BY <1>1, <1>2, <2>1 DEF TypeOK
  <2>3. BytesFor(memo', Middle) > budget
    BY <1>1, <1>4, <1>10 DEF TypeOK
  <2>4. NoRoomFor(high + 1)'
    BY <1>1, <1>3, <2>2, <2>3 DEF NoRoomFor, Measured
  <2>5. Fits(low)'
    BY <1>1, <1>5, <2>1 DEF Fits, Measured
  <2>6. TypeOK'
    BY <1>1, <1>3, <2>1, <2>2 DEF TypeOK
  <2> QED
    BY <1>1, <1>3, <2>1, <2>2, <2>4, <2>5, <2>6
       DEF SearchInv, Unstarted, Bracketed, AnswerIsMaximal
<1> QED
  BY <1>9, <1>10

\* Each step keeps the bracket.
LEMMA SearchStep == SearchInv /\ [Next]_vars => SearchInv'
<1> SUFFICES ASSUME SearchInv, [Next]_vars
             PROVE  SearchInv'
  OBVIOUS
<1>1. CASE TooSmall \/ Bounds
  BY <1>1, FirstStep
<1>2. CASE Halve
  BY <1>2, HalveStep
<1>3. CASE Found
  <2>1. /\ pc = "search" /\ low >= high /\ pc' = "done"
        /\ memo' = memo /\ budget' = budget /\ low' = low /\ high' = high
    BY <1>3 DEF Found
  <2>2. /\ TypeOK /\ ProbesCover
        /\ low >= 1 /\ low = high /\ Fits(low) /\ NoRoomFor(low + 1)
    BY <2>1 DEF SearchInv, Bracketed, TypeOK
  <2>3. AnswerIsMaximal'
    BY <2>1, <2>2 DEF AnswerIsMaximal, Fits, NoRoomFor, Measured
  <2> QED
    BY <2>1, <2>2, <2>3 DEF SearchInv, TypeOK, ProbesCover, Covered, Unstarted, Bracketed
<1>4. CASE UNCHANGED vars
  BY <1>4
     DEF vars, SearchInv, TypeOK, ProbesCover, Covered, Unstarted, Bracketed,
         AnswerIsMaximal, Measured, Fits, NoRoomFor
<1> QED
  BY <1>1, <1>2, <1>3, <1>4 DEF Next, Done

\* What is reported is at least what is occupied, so an answer that fits as
\* measured fits as occupied.
LEMMA CoveredAnswerFits == SearchInv => NeverBreachesBudget
<1> SUFFICES ASSUME SearchInv, CanAsk, pc = "done", low >= 1
             PROVE  memo[ArrayRequest(low)].class + low * memo[VectorRequest].class
                      <= budget
  BY DEF NeverBreachesBudget
<1>1. TypeOK /\ ProbesCover /\ Fits(low)
  BY DEF SearchInv, AnswerIsMaximal, TypeOK
<1> DEFINE array == memo[ArrayRequest(low)]
           vector == memo[VectorRequest]
<1>2. /\ array \in [class : Int, reported : Int]
      /\ vector \in [class : Int, reported : Int]
      /\ array.class <= array.reported /\ vector.class <= vector.reported
      /\ array.reported + low * vector.reported <= budget
      /\ low \in Nat /\ budget \in Nat
  BY <1>1 DEF TypeOK, ProbesCover, Covered, Fits, Measured, BytesFor, AllocationBytes
<1>3. /\ array.class \in Int /\ array.reported \in Int
      /\ vector.class \in Int /\ vector.reported \in Int
  BY <1>2
<1>4. ASSUME NEW n \in Nat, NEW a \in Int, NEW b \in Int, a <= b
      PROVE  n * a <= n * b
  BY <1>4
<1>5. low * vector.class <= low * vector.reported
  BY <1>2, <1>3, <1>4
<1>6. ASSUME NEW a \in Int, NEW b \in Int, NEW c \in Int, NEW d \in Int,
             a <= b, c <= d, b + d <= budget
      PROVE  a + c <= budget
  BY <1>2, <1>6
<1>7. low * vector.class \in Int /\ low * vector.reported \in Int
  BY <1>2, <1>3
<1> QED
  BY <1>2, <1>3, <1>5, <1>6, <1>7

-----------------------------------------------------------------------------
(***************************************************************************)
(* The cost grows with the number of entries.                              *)
(***************************************************************************)

\* A set of naturals that is not empty has a least element: what an induction
\* on the naturals comes to.
LEMMA LeastElement ==
  ASSUME NEW S \in SUBSET Nat, S # {}
  PROVE  \E n \in S : \A m \in S : n <= m
<1>1. \E n \in S : \A m \in S : ~ (<<m, n>> \in OpToRel(<, Nat))
  BY NatLessThanWellFounded, WFMin
<1>2. ASSUME NEW n \in Nat, NEW m \in Nat, ~ (<<m, n>> \in OpToRel(<, Nat))
      PROVE  n <= m
  BY <1>2 DEF OpToRel
<1> QED
  BY <1>1, <1>2

Half(n) == (n + 1) \div 2

\* The recursion goes to a smaller number.
LEMMA HalfBelow ==
  ASSUME NEW n \in Nat, n > 1
  PROVE  Half(n) \in Nat /\ Half(n) < n
  BY DEF Half

\* g is what NextPowerOfTwo is to be, from 0 to n.
DoublesTo(n, g) ==
  /\ g \in [0 .. n -> Nat]
  /\ \A m \in 0 .. n : g[m] = IF m <= 1 THEN 1 ELSE 2 * g[Half(m)]

\* There is at most one such function, wherever two of them are defined.
LEMMA DoublesOnce ==
  ASSUME NEW n \in Nat, NEW k \in Nat, NEW g, NEW h, DoublesTo(n, g), DoublesTo(k, h),
         NEW m \in 0 .. n, m <= k
  PROVE  g[m] = h[m]
<1> DEFINE S == {i \in Nat : i <= n /\ i <= k /\ g[i] # h[i]}
<1> SUFFICES ASSUME S # {}
             PROVE  FALSE
  OBVIOUS
<1>1. PICK i \in S : \A j \in S : i <= j
  BY LeastElement
<1>2. /\ g[i] = IF i <= 1 THEN 1 ELSE 2 * g[Half(i)]
      /\ h[i] = IF i <= 1 THEN 1 ELSE 2 * h[Half(i)]
  BY DEF DoublesTo
<1>3. i > 1
  BY <1>2
<1>4. Half(i) \in Nat /\ Half(i) < i
  BY <1>3, HalfBelow
<1>5. Half(i) \notin S
  BY <1>1, <1>4
<1> QED
  BY <1>2, <1>3, <1>4, <1>5

\* There is one up to any number: one more value from those before it.
LEMMA DoublesExist ==
  ASSUME NEW n \in Nat
  PROVE  \E g : DoublesTo(n, g)
<1> DEFINE S == {i \in Nat : ~ \E g : DoublesTo(i, g)}
<1> SUFFICES ASSUME S # {}
             PROVE  FALSE
  OBVIOUS
<1>1. PICK i \in S : \A j \in S : i <= j
  BY LeastElement
<1>2. CASE i = 0
  <2> DEFINE g == [m \in 0 .. 0 |-> 1]
  <2>1. DoublesTo(0, g)
    BY DEF DoublesTo
  <2> QED
    BY <1>2, <2>1
<1>3. CASE i # 0
  <2>1. i - 1 \in Nat /\ i - 1 \notin S
    BY <1>1, <1>3
  <2>2. PICK h : DoublesTo(i - 1, h)
    BY <2>1
  <2> DEFINE last == IF i <= 1 THEN 1 ELSE 2 * h[Half(i)]
             g == [m \in 0 .. i |-> IF m = i THEN last ELSE h[m]]
  <2>3. ASSUME NEW m \in 0 .. i
        PROVE  g[m] \in Nat /\ g[m] = IF m <= 1 THEN 1 ELSE 2 * g[Half(m)]
    <3>1. m > 1 => Half(m) \in 0 .. i - 1 /\ Half(m) # i
      BY HalfBelow
    <3>2. m > 1 => g[Half(m)] = h[Half(m)] /\ h[Half(m)] \in Nat
      BY <2>2, <3>1 DEF DoublesTo
    <3>3. CASE m = i
      BY <3>2, <3>3
    <3>4. CASE m # i
      <4>1. m \in 0 .. i - 1
        BY <3>4
      <4>2. h[m] \in Nat /\ h[m] = IF m <= 1 THEN 1 ELSE 2 * h[Half(m)]
        BY <2>2, <4>1 DEF DoublesTo
      <4> QED
        BY <3>2, <3>4, <4>2
    <3> QED
      BY <3>3, <3>4
  <2>4. DoublesTo(i, g)
    BY <2>3 DEF DoublesTo
  <2> QED
    BY <2>4
<1> QED
  BY <1>2, <1>3

\* The recursion ends, so the function satisfies the equation it is defined by.
LEMMA NextPowerOfTwoDef ==
  /\ NextPowerOfTwo \in [Nat -> Nat]
  /\ \A n \in Nat :
       NextPowerOfTwo[n] = IF n <= 1 THEN 1 ELSE 2 * NextPowerOfTwo[(n + 1) \div 2]
<1> DEFINE upTo(n) == CHOOSE g : DoublesTo(n, g)
           f == [n \in Nat |-> upTo(n)[n]]
<1>1. ASSUME NEW n \in Nat
      PROVE  DoublesTo(n, upTo(n))
  BY DoublesExist
<1>2. ASSUME NEW n \in Nat
      PROVE  f[n] \in Nat /\ f[n] = IF n <= 1 THEN 1 ELSE 2 * f[(n + 1) \div 2]
  <2>1. upTo(n)[n] \in Nat /\ upTo(n)[n] = IF n <= 1 THEN 1 ELSE 2 * upTo(n)[Half(n)]
    <3> HIDE DEF upTo
    <3> QED
      BY <1>1 DEF DoublesTo
  <2>2. ASSUME n > 1
        PROVE  upTo(Half(n))[Half(n)] = upTo(n)[Half(n)]
    <3>1. Half(n) \in Nat /\ Half(n) < n
      BY <2>2, HalfBelow
    <3>2. DoublesTo(Half(n), upTo(Half(n))) /\ DoublesTo(n, upTo(n))
      BY <1>1, <3>1
    <3>3. Half(n) \in 0 .. Half(n) /\ Half(n) <= n
      BY <3>1
    <3> HIDE DEF upTo
    <3> QED
      BY <3>1, <3>2, <3>3, DoublesOnce
  <2>3. n > 1 => Half(n) \in Nat
    BY HalfBelow
  <2> HIDE DEF upTo
  <2> QED
    BY <2>1, <2>2, <2>3 DEF Half
<1> HIDE DEF upTo
<1> DEFINE Doubles(g) ==
      g = [n \in Nat |-> IF n <= 1 THEN 1 ELSE 2 * g[(n + 1) \div 2]]
<1>3. Doubles(f)
  <2>1. f = [n \in Nat |-> f[n]]
    OBVIOUS
  <2> HIDE DEF f
  <2> QED
    BY <1>2, <2>1
<1>4. NextPowerOfTwo = CHOOSE g : Doubles(g)
  BY DEF NextPowerOfTwo
<1>5. Doubles(NextPowerOfTwo)
  <2> HIDE DEF Doubles, f
  <2> QED
    BY <1>3, <1>4
<1>6. ASSUME NEW n \in Nat
      PROVE  NextPowerOfTwo[n] = IF n <= 1 THEN 1 ELSE 2 * NextPowerOfTwo[(n + 1) \div 2]
  BY <1>5
<1>7. NextPowerOfTwo \in [Nat -> Nat]
  <2> DEFINE S == {n \in Nat : NextPowerOfTwo[n] \notin Nat}
  <2>1. ASSUME S # {}
        PROVE  FALSE
    <3>1. PICK i \in S : \A j \in S : i <= j
      BY <2>1, LeastElement
    <3>2. i > 1
      BY <1>6
    <3>3. Half(i) \in Nat /\ Half(i) < i
      BY <3>2, HalfBelow
    <3>4. NextPowerOfTwo[Half(i)] \in Nat
      BY <3>1, <3>3
    <3> QED
      BY <1>6, <3>2, <3>4 DEF Half
  <2>2. NextPowerOfTwo = [n \in Nat |-> NextPowerOfTwo[n]]
    BY <1>5
  <2> QED
    BY <2>1, <2>2
<1> QED
  BY <1>6, <1>7

\* A larger number has no smaller power of two.
LEMMA NextPowerOfTwoGrows ==
  ASSUME NEW n \in Nat, NEW m \in Nat, n <= m
  PROVE  1 <= NextPowerOfTwo[n] /\ NextPowerOfTwo[n] <= NextPowerOfTwo[m]
<1> DEFINE Falls(i) == \E j \in Nat :
             j <= i /\ ~ (1 <= NextPowerOfTwo[j] /\ NextPowerOfTwo[j] <= NextPowerOfTwo[i])
           S == {i \in Nat : Falls(i)}
<1> SUFFICES ASSUME S # {}
             PROVE  FALSE
  OBVIOUS
<1>1. PICK i \in S : \A k \in S : i <= k
  BY LeastElement
<1>2. PICK j \in Nat :
        j <= i /\ ~ (1 <= NextPowerOfTwo[j] /\ NextPowerOfTwo[j] <= NextPowerOfTwo[i])
  OBVIOUS
<1> HIDE DEF S
<1>3. /\ NextPowerOfTwo[i] = IF i <= 1 THEN 1 ELSE 2 * NextPowerOfTwo[Half(i)]
      /\ NextPowerOfTwo[j] = IF j <= 1 THEN 1 ELSE 2 * NextPowerOfTwo[Half(j)]
  BY NextPowerOfTwoDef DEF Half, S
<1>4. CASE i <= 1
  BY <1>2, <1>3, <1>4 DEF S
<1>5. CASE i > 1
  <2>1. Half(i) \in Nat /\ Half(i) < i
    BY <1>5, HalfBelow DEF S
  <2>2. ~ Falls(Half(i))
    BY <1>1, <2>1 DEF S
  <2>3. NextPowerOfTwo[Half(i)] \in Nat /\ 1 <= NextPowerOfTwo[Half(i)]
    BY <2>1, <2>2, NextPowerOfTwoDef
  <2>4. CASE j <= 1
    BY <1>2, <1>3, <1>5, <2>3, <2>4
  <2>5. CASE j > 1
    <3>1. Half(j) \in Nat /\ Half(j) <= Half(i)
      BY <1>2, <2>5 DEF Half, S
    <3>2. /\ NextPowerOfTwo[Half(j)] \in Nat /\ 1 <= NextPowerOfTwo[Half(j)]
          /\ NextPowerOfTwo[Half(j)] <= NextPowerOfTwo[Half(i)]
      BY <2>2, <3>1, NextPowerOfTwoDef
    <3> QED
      BY <1>2, <1>3, <1>5, <2>3, <2>5, <3>2 DEF S
  <2> QED
    BY <2>4, <2>5
<1> QED
  BY <1>4, <1>5 DEF S

\* More entries never need fewer buckets, across the three cases as well.
LEMMA BucketsGrow ==
  ASSUME NEW n \in Nat, NEW m \in Nat, n <= m
  PROVE  BucketsFor(n) \in Nat /\ BucketsFor(n) <= BucketsFor(m)
<1> DEFINE power(k) == NextPowerOfTwo[(k * 8) \div 7]
<1>1. NextPowerOfTwo[9] >= 8
  <2>1. /\ NextPowerOfTwo[9] = 2 * NextPowerOfTwo[5]
        /\ NextPowerOfTwo[5] = 2 * NextPowerOfTwo[3]
        /\ NextPowerOfTwo[3] = 2 * NextPowerOfTwo[2]
        /\ NextPowerOfTwo[2] = 2 * NextPowerOfTwo[1]
        /\ NextPowerOfTwo[1] = 1
    BY NextPowerOfTwoDef
  <2> QED
    BY <2>1
<1>2. ASSUME NEW k \in Nat
      PROVE  (k * 8) \div 7 \in Nat /\ power(k) \in Nat
  BY NextPowerOfTwoDef
<1>3. ASSUME NEW k \in Nat, k >= 8
      PROVE  power(k) >= 8
  <2>1. 9 <= (k * 8) \div 7
    BY <1>3
  <2>2. NextPowerOfTwo[9] <= power(k)
    BY <1>2, <2>1, NextPowerOfTwoGrows
  <2>3. NextPowerOfTwo[9] \in Nat
    BY NextPowerOfTwoDef
  <2> QED
    BY <1>1, <1>2, <2>2, <2>3
<1>4. (n * 8) \div 7 <= (m * 8) \div 7
  OBVIOUS
<1>5. power(n) <= power(m)
  BY <1>2, <1>4, NextPowerOfTwoGrows
<1>6. ASSUME NEW k \in Nat
      PROVE  BucketsFor(k) = IF k < 4 THEN 4 ELSE IF k < 8 THEN 8 ELSE power(k)
  BY DEF BucketsFor
<1> HIDE DEF power
<1> QED
  BY <1>2, <1>3, <1>5, <1>6

\* The bytes asked for grow with the entries.
LEMMA RequestGrows ==
  ASSUME NEW n \in Nat, NEW m \in Nat, n <= m
  PROVE  /\ RequestedBytes(n) \in Nat /\ RequestedBytes(m) \in Nat
         /\ RequestedBytes(n) <= RequestedBytes(m)
         /\ n * VectorRequest <= RequestedBytes(n)
<1>1. ASSUME NEW a \in Nat, NEW b \in Nat, NEW c \in Nat, a <= b
      PROVE  a * c \in Nat /\ b * c \in Nat /\ a * c <= b * c
  BY <1>1
<1> DEFINE x == BucketsFor(n) * BucketBytes
           y == BucketsFor(m) * BucketBytes
           v == n * VectorRequest
           w == m * VectorRequest
<1>2. BucketsFor(n) \in Nat /\ BucketsFor(m) \in Nat /\ BucketsFor(n) <= BucketsFor(m)
  BY BucketsGrow
<1>3. x \in Nat /\ y \in Nat /\ x <= y
  BY <1>1, <1>2, SizesAssumption
<1>4. v \in Nat /\ w \in Nat /\ v <= w
  BY <1>1, SizesAssumption
<1>5. RequestedBytes(n) = x + ControlBytes + v /\ RequestedBytes(m) = y + ControlBytes + w
  BY DEF RequestedBytes, ArrayRequest
<1>6. ControlBytes \in Nat
  BY SizesAssumption
<1> HIDE DEF x, y, v, w
<1>7. v <= x + ControlBytes + v
  BY <1>3, <1>4, <1>6
<1> QED
  BY <1>3, <1>4, <1>5, <1>6, <1>7 DEF v

\* An allocator that adds nothing makes the cost the one asked for, which grows:
\* all that is above the answer costs too much, and all below it fits.
LEMMA QuietAnswer == SearchInv => QuietAnswerIsLargest
<1> SUFFICES ASSUME SearchInv, pc = "done", \A s \in DOMAIN memo : memo[s].reported = s,
                    NEW n \in 1 .. budget \div VectorRequest
             PROVE  n <= low <=> RequestedBytes(n) <= budget
  BY DEF QuietAnswerIsLargest
<1>1. AnswerIsMaximal /\ low \in Nat /\ budget \in Nat /\ n \in Nat /\ n >= 1
  <2>1. budget \div VectorRequest \in Int
    BY SizesAssumption DEF SearchInv, TypeOK
  <2> QED
    BY <2>1 DEF SearchInv, TypeOK
<1>2. ASSUME NEW k \in Nat, Measured(k)
      PROVE  BytesFor(memo, k) = RequestedBytes(k)
  BY <1>2 DEF Measured, BytesFor, AllocationBytes, RequestedBytes
<1>3. \A k \in Nat : RequestedBytes(k) \in Nat
  BY RequestGrows
<1>4. RequestedBytes(low + 1) > budget
  <2>1. CASE low = 0
    BY <1>1, <1>2, <2>1 DEF AnswerIsMaximal
  <2>2. CASE low # 0
    <3>1. Measured(low) /\ NoRoomFor(low + 1)
      BY <1>1, <2>2 DEF AnswerIsMaximal, Fits
    <3>2. AllocationBytes(memo, VectorRequest) = VectorRequest
      BY <3>1 DEF Measured, AllocationBytes
    <3>3. CASE Measured(low + 1) /\ BytesFor(memo, low + 1) > budget
      BY <1>1, <1>2, <3>3
    <3>4. CASE (low + 1) * AllocationBytes(memo, VectorRequest) > budget
      <4> DEFINE v == (low + 1) * VectorRequest
      <4>1. v > budget /\ v <= RequestedBytes(low + 1)
        BY <1>1, <3>2, <3>4, RequestGrows
      <4>2. v \in Int
        BY <1>1, SizesAssumption
      <4> HIDE DEF v
      <4> QED
        BY <1>1, <1>3, <4>1, <4>2
    <3> QED
      BY <3>1, <3>3, <3>4 DEF NoRoomFor
  <2> QED
    BY <2>1, <2>2
<1>5. ASSUME n <= low
      PROVE  RequestedBytes(n) <= budget
  <2>1. Fits(low)
    BY <1>1, <1>5 DEF AnswerIsMaximal
  <2>2. RequestedBytes(low) <= budget /\ RequestedBytes(n) <= RequestedBytes(low)
    BY <1>1, <1>2, <1>5, <2>1, RequestGrows DEF Fits
  <2> QED
    BY <1>1, <1>3, <2>2
<1>6. ASSUME ~ (n <= low)
      PROVE  RequestedBytes(n) > budget
  <2>1. low + 1 <= n /\ low + 1 \in Nat
    BY <1>1, <1>6
  <2>2. RequestedBytes(low + 1) <= RequestedBytes(n)
    BY <1>1, <2>1, RequestGrows
  <2> QED
    BY <1>1, <1>3, <1>4, <2>1, <2>2
<1>7. RequestedBytes(n) \in Nat
  BY <1>1, <1>3
<1> QED
  BY <1>1, <1>5, <1>6, <1>7

-----------------------------------------------------------------------------
\* The bracket holds throughout the search.
THEOREM SearchInvariant == Spec => []SearchInv
  BY SearchInit, SearchStep, PTL DEF Spec

\* Whatever the allocator reports, the answer fits the budget and one more
\* vector does not (capacity_for_budget, cache.rs:253-283).
THEOREM SearchFindsMaximal == Spec => []AnswerIsMaximal
<1>1. SearchInv => AnswerIsMaximal
  BY DEF SearchInv
<1> QED
  BY <1>1, SearchInvariant, PTL

\* A cache of the size found never occupies more than its budget
\* (measure_allocation, cache.rs:136-139).
THEOREM BudgetIsKept == Spec => []NeverBreachesBudget
  BY CoveredAnswerFits, SearchInvariant, PTL

\* Where the allocator hands out what it is asked for, the search finds the
\* largest number of vectors inside the budget (capacity_for_budget,
\* cache.rs:253-283), although the array grows by powers of two.
THEOREM QuietSearchFindsLargest == Spec => []QuietAnswerIsLargest
  BY QuietAnswer, SearchInvariant, PTL

=============================================================================

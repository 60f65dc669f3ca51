--------------------------- MODULE CapacitySearch ---------------------------
(***************************************************************************)
(* How the cache's capacity is found (capacity_for_budget and what it      *)
(* calls, crates/subtoken-core/src/cache.rs): a binary search over a cost  *)
(* that is measured, not computed.  Each distinct block size is probed     *)
(* once, by allocating a block and asking the allocator how large it       *)
(* really is; the answers are kept in a memo, so the cost the search       *)
(* compares does not move under it.                                        *)
(*                                                                         *)
(* The allocator is external.  A size has a class, at least the size       *)
(* itself; a probe reports the class, or more when it is served from a     *)
(* recycled block.  Where the platform cannot be asked (CanAsk is FALSE)   *)
(* the probe reports the size itself.  An allocation that fails, which     *)
(* also reports the size itself, is left out.  The search runs once, under *)
(* the OnceLock of the cache, so no other thread takes part.  Nothing the  *)
(* loop computes overflows: it costs at most budget / per_vector entries.  *)
(***************************************************************************)
EXTENDS Integers

CONSTANTS
  Budgets,              \* the budgets to search for
  BucketBytes,          \* bytes of one bucket, control byte included
  ControlBytes,         \* control bytes beyond one per bucket
  VectorRequest,        \* bytes asked for one vector: two counts and the floats
  CanAsk,               \* whether the platform can say how large a block is
  MaxRounding,          \* bound: how far a size class lies above a size
  MaxRecycled           \* bound: how far a recycled block lies above its class

ASSUME SizesAssumption ==
  /\ Budgets \subseteq Nat
  /\ BucketBytes \in Nat
  /\ ControlBytes \in Nat
  /\ VectorRequest \in Nat \ {0}
  /\ CanAsk \in BOOLEAN
  /\ MaxRounding \in Nat
  /\ MaxRecycled \in Nat

VARIABLES
  memo,                 \* PROBED: size -> what its probe reported, and its class
  budget,               \* budget_bytes
  pc,
  low, high             \* the bounds of the search; low is the answer when it ends

vars == <<memo, budget, pc, low, high>>

-----------------------------------------------------------------------------
(***************************************************************************)
(* The cost of a number of entries.                                        *)
(***************************************************************************)

\* usize::next_power_of_two
NextPowerOfTwo[n \in Nat] ==
  IF n <= 1 THEN 1 ELSE 2 * NextPowerOfTwo[(n + 1) \div 2]

\* Buckets hashbrown ends up with: seven eighths of them cover the entries.
BucketsFor(n) ==
  CASE n < 4             -> 4
    [] n >= 4 /\ n < 8   -> 8
    [] OTHER             -> NextPowerOfTwo[(n * 8) \div 7]

ArrayRequest(n) == BucketsFor(n) * BucketBytes + ControlBytes

\* What a probe can find: the class of the size and the block it was served.
Blocks(size) ==
  [class : size .. size + MaxRounding,
   reported : size .. size + MaxRounding + MaxRecycled]

\* Mutant: the size itself taken for what the allocator hands out.
ProbesOfRequest(size) == {p \in Blocks(size) : p.reported = size}

Probes(size) ==
  {p \in Blocks(size) : IF CanAsk THEN p.reported >= p.class ELSE p.reported = size}

\* allocation_bytes: the memos it can leave, one per answer of a fresh probe.
\* (Its early return for a size of 0 is never taken: every request is positive.)
Ask(m, size) ==
  IF size \in DOMAIN m
  THEN {m}
  ELSE {[s \in DOMAIN m \cup {size} |-> IF s = size THEN p ELSE m[s]] : p \in Probes(size)}

AllocationBytes(m, size) == m[size].reported

BytesFor(m, n) ==
  AllocationBytes(m, ArrayRequest(n)) + n * AllocationBytes(m, VectorRequest)

\* Evaluating bytes_for(n): the array is probed first, then the vector.
Measure(n) ==
  \E m \in Ask(memo, ArrayRequest(n)) : memo' \in Ask(m, VectorRequest)

-----------------------------------------------------------------------------
Init ==
  /\ memo = [s \in {} |-> s]
  /\ budget \in Budgets
  /\ pc = "start"
  /\ low = 0
  /\ high = 0

\* Not even one vector fits: the cache is off.
TooSmall ==
  /\ pc = "start"
  /\ Measure(1)
  /\ BytesFor(memo', 1) > budget
  /\ pc' = "done"
  /\ UNCHANGED <<budget, low, high>>

AtLeast1(n) == IF n < 1 THEN 1 ELSE n

\* Mutant: the bound taken from a constant cost per entry.
BoundsPerEntry ==
  /\ pc = "start"
  /\ Measure(1)
  /\ BytesFor(memo', 1) <= budget
  /\ low' = 1
  /\ high' = AtLeast1(budget \div BytesFor(memo', 1))
  /\ pc' = "search"
  /\ UNCHANGED budget

\* The bounds: ignoring the map cannot fit fewer vectors than including it.
\* Evaluating bytes_for(1) has probed the vector already.
Bounds ==
  /\ pc = "start"
  /\ Measure(1)
  /\ BytesFor(memo', 1) <= budget
  /\ low' = 1
  /\ high' = AtLeast1(budget \div AtLeast1(AllocationBytes(memo', VectorRequest)))
  /\ pc' = "search"
  /\ UNCHANGED budget

\* Mutant: the middle rounded down.
MiddleDown == low + (high - low) \div 2

Middle == low + (high - low + 1) \div 2

\* Mutant: one number of entries too many is ruled out.
HalveTooFar ==
  /\ pc = "search"
  /\ low < high
  /\ Measure(Middle)
  /\ IF BytesFor(memo', Middle) <= budget
     THEN low' = Middle /\ UNCHANGED high
     ELSE high' = Middle - 2 /\ UNCHANGED low
  /\ UNCHANGED <<budget, pc>>

Halve ==
  /\ pc = "search"
  /\ low < high
  /\ Measure(Middle)
  /\ IF BytesFor(memo', Middle) <= budget
     THEN low' = Middle /\ UNCHANGED high
     ELSE high' = Middle - 1 /\ UNCHANGED low
  /\ UNCHANGED <<budget, pc>>

Found ==
  /\ pc = "search"
  /\ low >= high
  /\ pc' = "done"
  /\ UNCHANGED <<memo, budget, low, high>>

Done == pc = "done" /\ UNCHANGED vars

Next == TooSmall \/ Bounds \/ Halve \/ Found \/ Done

Spec == Init /\ [][Next]_vars

\* The search is straight-line code of one thread: it keeps running.
FairSpec == Spec /\ WF_vars(TooSmall \/ Bounds \/ Halve \/ Found)

-----------------------------------------------------------------------------
(***************************************************************************)
(* Properties.                                                             *)
(***************************************************************************)
TypeOK ==
  /\ memo \in [DOMAIN memo -> [class : Int, reported : Int]]
  /\ budget \in Nat
  /\ pc \in {"start", "search", "done"}
  /\ low \in Nat
  /\ high \in Nat

Measured(n) == {ArrayRequest(n), VectorRequest} \subseteq DOMAIN memo

Fits(n) == Measured(n) /\ BytesFor(memo, n) <= budget

\* One more vector has been measured not to fit, or cannot fit by itself.
NoRoomFor(n) ==
  \/ Measured(n) /\ BytesFor(memo, n) > budget
  \/ n * AllocationBytes(memo, VectorRequest) > budget

\* The answer stays inside the budget as measured and one more vector would
\* not; it is 0 exactly when one vector does not fit (cache.rs:253-264).  This
\* holds whatever the allocator reports, although its answers need not grow
\* with the size.
AnswerIsMaximal ==
  pc = "done" =>
    \/ low = 0 /\ Measured(1) /\ BytesFor(memo, 1) > budget
    \/ low >= 1 /\ Fits(low) /\ NoRoomFor(low + 1)

\* When the allocator has handed out what it was asked for, the answer is the
\* largest number of vectors whose cost is inside the budget (cache.rs:253).
RequestedBytes(n) == ArrayRequest(n) + n * VectorRequest

QuietAnswerIsLargest ==
  pc = "done" /\ (\A s \in DOMAIN memo : memo[s].reported = s) =>
    \A n \in 1 .. budget \div VectorRequest :
      n <= low <=> RequestedBytes(n) <= budget

\* "A stale or unlucky answer costs a slightly smaller cache and can never
\* breach the budget" (cache.rs:136-139): what the blocks of a full cache
\* really occupy is inside it, wherever the platform can be asked.
NeverBreachesBudget ==
  CanAsk /\ pc = "done" /\ low >= 1 =>
    memo[ArrayRequest(low)].class + low * memo[VectorRequest].class <= budget

-----------------------------------------------------------------------------
(***************************************************************************)
(* The loop invariant.                                                     *)
(***************************************************************************)

\* No probe reports less than the class, where the platform can be asked, and a
\* vector is never reported smaller than it is.
Covered(m) ==
  \A s \in DOMAIN m :
    /\ CanAsk => m[s].class <= m[s].reported
    /\ s = VectorRequest => s <= m[s].reported

ProbesCover == Covered(memo)

\* low fits and one more than high does not.
Bracketed ==
  pc = "search" => low >= 1 /\ low <= high /\ Fits(low) /\ NoRoomFor(high + 1)

\* Nothing has been admitted before the first measurement.
Unstarted == pc = "start" => low = 0

SearchInv ==
  TypeOK /\ ProbesCover /\ Unstarted /\ Bracketed /\ AnswerIsMaximal

\* The search ends.
Terminates == <>(pc = "done")

=============================================================================

------------------------- MODULE MutationSweepProofs -------------------------
(***************************************************************************)
(* What scripts/mutation_check.py leaves behind and what its verdicts rest *)
(* on, for every table of mutations.                                       *)
(*                                                                         *)
(* Each property needs to know where in the sweep the tree and the         *)
(* artifact are mutated: SweepInv says so for every program point.         *)
(***************************************************************************)
EXTENDS MutationSweep, TLAPS

Running == {"apply", "check", "measure", "restore first", "restore"}

\* Where the script is.
Place ==
  /\ pc \in {"start", "exit"} \cup Running
  /\ current \in Index
  /\ tree \subseteq Index
  /\ gitFailed \in BOOLEAN
  /\ pc = "start" => current = 1
  /\ pc # "exit" => exit = None

\* The mutation under measurement, and no other, is in the tree while it is
\* measured, as long as git works.
TreeFollows ==
  gitFailed \/
    /\ pc \in {"start", "apply"} => tree = {}
    /\ pc \in {"check", "measure", "restore first"} => tree = {current}
    /\ pc = "restore" => tree \subseteq {current}
    /\ pc = "restore" /\ outcome[1] \in {"KILLED", "SURVIVED"} => tree = {current}
    /\ exit \in {"0", "1", "2", "raised and restored"} => tree = {}

\* The artifact is clean or gone between two mutations, and that of the tree
\* where a check that needs it is made.
ArtifactFollows ==
  /\ pc \in {"start", "apply", "check"} => artifact \in {NoArtifact, BuiltFrom({})}
  /\ pc = "measure" => artifact = BuiltFrom(tree)
  /\ pc = "restore" /\ outcome[1] \in {"KILLED", "SURVIVED"} /\ NeedsBuild(current) =>
       artifact = BuiltFrom(tree)
  /\ exit \in {"0", "1", "2", "raised and restored"} =>
       \/ artifact \in {NoArtifact, BuiltFrom({})}
       \/ artifact = orphan /\ exit \in {"2", "raised and restored"}

\* An orphan is left by a build that ends the sweep, and by no other.  What ends
\* it may be an exception, raised while make runs or while it is restored.
OrphanEndsSweep ==
  orphan # NoArtifact =>
    \/ pc = "restore first" /\ outcome[1] = "BROKEN"
    \/ pc = "restore" /\ outcome[1] \in {"BROKEN", "RAISED"}
    \/ exit \in {"2", "raised and restored", "raised"}

\* A broken outcome is there wherever the except clause runs.
OutcomeFollows ==
  /\ pc = "restore first" => outcome[1] = "BROKEN"
  /\ pc = "restore" => outcome[1] \in {"BROKEN", "RAISED", "KILLED", "SURVIVED"}
  /\ pc = "restore" /\ outcome[1] = "KILLED" /\ Mutations[current].kind # "script" =>
       outcome[2]

\* Every mutation before the current one has its verdict, and a kill ran a test,
\* but for that of a script.
KillRanTest(v) ==
  v.says = "KILLED" /\ Mutations[v.mutation].kind # "script" => v.executed

VerdictsFollow ==
  /\ \A v \in verdicts : KillRanTest(v)
  /\ pc \in Running => \A m \in 1 .. current - 1 : \E v \in verdicts : v.mutation = m
  /\ exit = "0" =>
       /\ \A v \in verdicts : v.says = "KILLED"
       /\ \A m \in Index : \E v \in verdicts : v.mutation = m

SweepInv ==
  /\ Place
  /\ TreeFollows
  /\ ArtifactFollows
  /\ OrphanEndsSweep
  /\ OutcomeFollows
  /\ VerdictsFollow
  /\ VerdictsAreOfOneMutation

-----------------------------------------------------------------------------
\* A verdict of KILLED was reached on a test that ran, when cargo or the SQL runner
\* reached it.
LEMMA KillsExecuted ==
  ASSUME NEW kind \in {"rust", "script", "sql"}, NEW run \in Outcomes(kind)
  PROVE  /\ run = <<run[1], run[2]>>
         /\ run[1] \in {"BROKEN", "KILLED", "SURVIVED"}
         /\ run[1] = "KILLED" /\ kind # "script" => run[2]
<1>1. CASE kind = "rust"
  <2>1. PICK r \in CargoRuns : run = <<RustVerdict(r), r.executed>>
    BY <1>1 DEF Outcomes
  <2> QED
    BY <2>1 DEF CargoRuns, RustVerdict
<1>2. CASE kind = "script"
  <2>1. PICK r \in ScriptRuns : run = <<ScriptVerdict(r), r.executed>>
    BY <1>2 DEF Outcomes
  <2> QED
    BY <1>2, <2>1 DEF ScriptRuns, ScriptVerdict
<1>3. CASE kind = "sql"
  <2>1. PICK r \in SqlRuns : run = <<SqlVerdict(r), r.executed>>
    BY <1>3 DEF Outcomes
  <2> QED
    BY <2>1 DEF SqlRuns, SqlVerdict
<1> QED
  BY <1>1, <1>2, <1>3

LEMMA TableFacts ==
  /\ Len(Mutations) \in Nat /\ 1 \in Index
  /\ \A m \in Index : Mutations[m].kind \in {"rust", "script", "sql"}
  /\ \A m \in Index : m \in InFile(m)
<1> DEFINE Entry == [file : STRING, kind : {"rust", "script", "sql"}, builds : BOOLEAN]
<1>1. Mutations \in Seq(Entry) /\ Mutations # <<>>
  BY TableAssumption
<1> HIDE DEF Entry
<1>2. Len(Mutations) \in Nat /\ Len(Mutations) > 0
  BY <1>1
<1>3. \A m \in Index : Mutations[m] \in Entry
  BY <1>1, <1>2 DEF Index
<1>4. \A m \in Index : Mutations[m].kind \in {"rust", "script", "sql"}
  BY <1>3 DEF Entry
<1>5. \A m \in Index : m \in InFile(m)
  BY DEF InFile
<1> QED
  BY <1>2, <1>4, <1>5 DEF Index

LEMMA Bounds ==
  /\ Len(Mutations) \in Nat
  /\ \A m \in Index : m \in Nat /\ 1 <= m /\ m <= Len(Mutations)
  /\ \A m \in Nat : 1 <= m /\ m <= Len(Mutations) => m \in Index
  BY TableFacts DEF Index

LEMMA SweepInit == Init => SweepInv
  BY TableFacts DEF Init, SweepInv, Place, TreeFollows, ArtifactFollows,
     OrphanEndsSweep, OutcomeFollows, VerdictsFollow, VerdictsAreOfOneMutation,
     None, NoArtifact, BuiltFrom, Running

\* What git makes of the tree of a sweep that works on one mutation.
LEMMA CheckoutCleans ==
  ASSUME Checkout, current \in Index, gitFailed \in BOOLEAN, tree \subseteq Index,
         gitFailed \/ tree \subseteq {current}
  PROVE  /\ gitFailed' \in BOOLEAN
         /\ tree' \subseteq tree
         /\ gitFailed => gitFailed'
         /\ gitFailed' \/ tree' = {}
<1>1. CASE tree' = tree \ InFile(current) /\ gitFailed' = gitFailed
  BY <1>1, TableFacts
<1>2. CASE gitFailed' = TRUE /\ tree' = tree
  BY <1>2
<1> QED
  BY <1>1, <1>2 DEF Checkout

LEMMA SweepStep == SweepInv /\ [Next]_vars => SweepInv'
<1> SUFFICES ASSUME SweepInv, [Next]_vars
             PROVE  SweepInv'
  OBVIOUS
<1> USE TableFacts DEF SweepInv, None, NoArtifact, BuiltFrom, Running, Exit
<1>1. CASE Begin
  <2>1. Place'
    BY <1>1 DEF Begin, Place
  <2>3. TreeFollows'
    BY <1>1 DEF Begin, TreeFollows, Place
  <2>4. ArtifactFollows'
    BY <1>1 DEF Begin, ArtifactFollows, Place, OrphanEndsSweep, OutcomeFollows
  <2>5. OrphanEndsSweep'
    BY <1>1 DEF Begin, OrphanEndsSweep, Place
  <2>6. OutcomeFollows'
    BY <1>1 DEF Begin, OutcomeFollows, Place
  <2>7. VerdictsFollow'
    <3>1. current' = 1 /\ 1 .. current' - 1 = {}
      BY <1>1 DEF Begin, Place
    <3>2. verdicts' = verdicts /\ exit' # "0"
      BY <1>1 DEF Begin, Place
    <3> QED
      BY <3>1, <3>2 DEF VerdictsFollow
  <2>8. VerdictsAreOfOneMutation'
    BY <1>1 DEF Begin, VerdictsAreOfOneMutation, Place, TreeFollows, ArtifactFollows, OutcomeFollows
  <2> QED
    BY <2>1, <2>3, <2>4, <2>5, <2>6, <2>7, <2>8
<1>2. CASE Apply
  <2>1. Place'
    BY <1>2 DEF Apply, Place
  <2>3. TreeFollows'
    BY <1>2 DEF Apply, TreeFollows, Place
  <2>4. ArtifactFollows'
    BY <1>2 DEF Apply, ArtifactFollows, Place, OrphanEndsSweep, OutcomeFollows
  <2>5. OrphanEndsSweep'
    BY <1>2 DEF Apply, OrphanEndsSweep, Place
  <2>6. OutcomeFollows'
    BY <1>2 DEF Apply, OutcomeFollows, Place
  <2>7. VerdictsFollow'
    BY <1>2 DEF Apply, VerdictsFollow, Place, OutcomeFollows
  <2>8. VerdictsAreOfOneMutation'
    BY <1>2 DEF Apply, VerdictsAreOfOneMutation, Place, TreeFollows, ArtifactFollows, OutcomeFollows
  <2> QED
    BY <2>1, <2>3, <2>4, <2>5, <2>6, <2>7, <2>8
<1>3. CASE Build
  <2>0. \/ pc' = "measure" /\ outcome' = outcome /\ orphan' = orphan
        \/ pc' = "restore first" /\ outcome'[1] = "BROKEN"
    <3>1. CASE outcome' = <<"BROKEN", FALSE>> /\ pc' = "restore first"
      BY <3>1
    <3> QED
      BY <1>3, <3>1 DEF Build
  <2>1. Place'
    BY <1>3 DEF Build, Place
  <2>3. TreeFollows'
    BY <1>3 DEF Build, TreeFollows, Place
  <2>4. ArtifactFollows'
    BY <1>3 DEF Build, ArtifactFollows, Place, OrphanEndsSweep, OutcomeFollows
  <2>5. OrphanEndsSweep'
    BY <1>3, <2>0 DEF Build, OrphanEndsSweep, Place
  <2>6. OutcomeFollows'
    BY <1>3, <2>0 DEF Build, OutcomeFollows, Place
  <2>7. VerdictsFollow'
    BY <1>3 DEF Build, VerdictsFollow, Place, OutcomeFollows
  <2>8. VerdictsAreOfOneMutation'
    BY <1>3 DEF Build, VerdictsAreOfOneMutation, Place, TreeFollows, ArtifactFollows, OutcomeFollows
  <2> QED
    BY <2>1, <2>3, <2>4, <2>5, <2>6, <2>7, <2>8
<1>4. CASE Measure
  <2>1. Place'
    BY <1>4, KillsExecuted DEF Measure, Place
  <2>3. TreeFollows'
    BY <1>4, KillsExecuted DEF Measure, TreeFollows, Place
  <2>4. ArtifactFollows'
    BY <1>4, KillsExecuted DEF Measure, ArtifactFollows, Place, OrphanEndsSweep, OutcomeFollows
  <2>5. OrphanEndsSweep'
    BY <1>4, KillsExecuted DEF Measure, OrphanEndsSweep, Place
  <2>6. OutcomeFollows'
    <3>1. outcome'[1] \in {"BROKEN", "KILLED", "SURVIVED"} /\ (outcome'[1] = "KILLED" /\ Mutations[current].kind # "script" => outcome'[2])
      <4>1. CASE outcome' = <<"BROKEN", FALSE>>
        BY <4>1
      <4>2. CASE outcome' \in Outcomes(Mutations[current].kind)
        BY <4>2, KillsExecuted DEF Place
      <4> QED
        BY <1>4, <4>1, <4>2 DEF Measure
    <3> QED
      BY <1>4, <3>1 DEF Measure, OutcomeFollows, Place
  <2>7. VerdictsFollow'
    BY <1>4, KillsExecuted DEF Measure, VerdictsFollow, Place, OutcomeFollows
  <2>8. VerdictsAreOfOneMutation'
    BY <1>4, KillsExecuted DEF Measure, VerdictsAreOfOneMutation, Place, TreeFollows, ArtifactFollows, OutcomeFollows
  <2> QED
    BY <2>1, <2>3, <2>4, <2>5, <2>6, <2>7, <2>8
<1>5. CASE RestoreFirst
  <2>1. Place'
    BY <1>5, CheckoutCleans DEF RestoreFirst, Place, TreeFollows
  <2>3. TreeFollows'
    <3>1. gitFailed \/ tree \subseteq {current}
      BY <1>5 DEF RestoreFirst, TreeFollows
    <3>2. tree' \subseteq tree /\ (gitFailed => gitFailed') /\ (gitFailed' \/ tree' = {})
      BY <1>5, <3>1, CheckoutCleans DEF RestoreFirst, Place
    <3>3. pc' = "restore" /\ outcome'[1] = "BROKEN" /\ exit' = None
      BY <1>5 DEF RestoreFirst, OutcomeFollows, Place
    <3> QED
      BY <3>2, <3>3 DEF TreeFollows
  <2>4. ArtifactFollows'
    BY <1>5, CheckoutCleans DEF RestoreFirst, ArtifactFollows, Place, OrphanEndsSweep, OutcomeFollows, TreeFollows
  <2>5. OrphanEndsSweep'
    BY <1>5, CheckoutCleans DEF RestoreFirst, OrphanEndsSweep, Place, TreeFollows
  <2>6. OutcomeFollows'
    BY <1>5, CheckoutCleans DEF RestoreFirst, OutcomeFollows, Place, TreeFollows
  <2>7. VerdictsFollow'
    BY <1>5, CheckoutCleans DEF RestoreFirst, VerdictsFollow, Place, OutcomeFollows, TreeFollows
  <2>8. VerdictsAreOfOneMutation'
    BY <1>5, CheckoutCleans DEF RestoreFirst, VerdictsAreOfOneMutation, Place, TreeFollows, ArtifactFollows, OutcomeFollows, RestsOnItsMutation
  <2> QED
    BY <2>1, <2>3, <2>4, <2>5, <2>6, <2>7, <2>8
<1>6. CASE Restore
  <2>1. pc = "restore" /\ artifact' = NoArtifact /\ orphan' = orphan /\ outcome' = outcome
    BY <1>6 DEF Restore
  <2>0. current \in Nat /\ 1 <= current /\ current <= Len(Mutations) /\ Len(Mutations) \in Nat
    BY Bounds DEF Place
  <2>2. gitFailed \/ tree \subseteq {current}
    BY <2>1 DEF TreeFollows
  <2>3. /\ gitFailed' \in BOOLEAN
        /\ tree' \subseteq tree
        /\ gitFailed => gitFailed'
        /\ gitFailed' \/ tree' = {}
    BY <1>6, <2>1, <2>2, CheckoutCleans DEF Restore, Place
  <2>4. CASE outcome[1] \in {"BROKEN", "RAISED"}
    <3>1. /\ pc' = "exit" /\ current' = current /\ verdicts' = verdicts
          /\ exit' = IF outcome[1] = "BROKEN" THEN "2" ELSE "raised and restored"
      BY <1>6, <2>4 DEF Restore, Conclude
    <3>2. Place' /\ ArtifactFollows' /\ OutcomeFollows'
      BY <2>1, <2>3, <3>1 DEF Place, ArtifactFollows, OutcomeFollows
    <3>3. TreeFollows'
      BY <2>3, <3>1 DEF TreeFollows
    <3>4. OrphanEndsSweep'
      BY <2>1, <3>1 DEF OrphanEndsSweep, Place
    <3>5. VerdictsFollow' /\ VerdictsAreOfOneMutation'
      BY <2>3, <3>1 DEF VerdictsFollow, VerdictsAreOfOneMutation
    <3> QED
      BY <3>2, <3>3, <3>4, <3>5
  <2>5. CASE outcome[1] \in {"KILLED", "SURVIVED"}
    <3> DEFINE verdict == [mutation |-> current, says |-> outcome[1], executed |-> outcome[2],
                           tree |-> tree, artifact |-> artifact]
    <3>1. verdicts' = verdicts \cup {verdict}
      BY <1>6, <2>5 DEF Restore, Conclude
    <3>2. \/ /\ current < Len(Mutations) /\ pc' = "apply"
             /\ current' = current + 1 /\ exit' = exit
          \/ /\ ~(current < Len(Mutations)) /\ pc' = "exit" /\ current' = current
             /\ exit' = IF \A v \in verdicts' : v.says = "KILLED" THEN "0" ELSE "1"
      BY <1>6, <2>5 DEF Restore, Conclude
    <3>3. Place' /\ ArtifactFollows' /\ OutcomeFollows'
      <4>1. current' \in Index
        <5>1. current' = current \/ (current < Len(Mutations) /\ current' = current + 1)
          BY <3>2
        <5>2. current' \in Nat /\ 1 <= current' /\ current' <= Len(Mutations)
          BY <2>0, <5>1
        <5> QED
          BY <5>2, Bounds
      <4> HIDE TableFacts
      <4> QED
        BY <2>1, <2>3, <3>2, <4>1 DEF Place, ArtifactFollows, OutcomeFollows
    <3>4. TreeFollows'
      BY <2>3, <3>2 DEF TreeFollows
    <3>5. OrphanEndsSweep'
      BY <2>1, <2>5, <3>2 DEF OrphanEndsSweep, Place
    <3>6. VerdictsFollow'
      <4>1. \A v \in verdicts' : KillRanTest(v)
        BY <2>1, <3>1 DEF VerdictsFollow, OutcomeFollows, KillRanTest
      <4>2. \A m \in 1 .. current : \E v \in verdicts' : v.mutation = m
        <5>1. \A m \in 1 .. current - 1 : \E v \in verdicts : v.mutation = m
          BY <2>1 DEF VerdictsFollow
        <5>2. verdict \in verdicts' /\ verdict.mutation = current
          BY <3>1
        <5>3. verdicts \subseteq verdicts'
          BY <3>1
        <5> HIDE DEF verdict
        <5> QED
          BY <2>0, <5>1, <5>2, <5>3
      <4> HIDE DEF verdict
      <4>3. CASE current < Len(Mutations) /\ pc' = "apply"
                 /\ current' = current + 1 /\ exit' = exit
        BY <2>1, <4>1, <4>2, <4>3 DEF VerdictsFollow, Place, Index
      <4>4. CASE ~(current < Len(Mutations)) /\ pc' = "exit" /\ current' = current
                 /\ exit' = IF \A v \in verdicts' : v.says = "KILLED" THEN "0" ELSE "1"
        <5>0. current >= Len(Mutations)
          <6>1. ~(current < Len(Mutations))
            BY <4>4
          <6> QED
            BY <2>0, <6>1
        <5>1. \A m \in Index : m \in 1 .. current
          BY <2>0, <5>0, Bounds
        <5> QED
          BY <4>1, <4>2, <4>4, <5>1 DEF VerdictsFollow
      <4> QED
        BY <3>2, <4>3, <4>4
    <3>7. VerdictsAreOfOneMutation'
      <4>1. gitFailed \/ RestsOnItsMutation(verdict)
        BY <2>1, <2>5 DEF TreeFollows, ArtifactFollows, RestsOnItsMutation
      <4> HIDE DEF verdict
      <4> QED
        BY <2>3, <3>1, <4>1 DEF VerdictsAreOfOneMutation
    <3> QED
      BY <3>3, <3>4, <3>5, <3>6, <3>7
  <2> QED
    BY <2>1, <2>4, <2>5 DEF OutcomeFollows
<1>7. CASE Raise
  <2>1. CASE /\ pc \in {"check", "measure"} /\ pc' = "restore" /\ outcome' = <<"RAISED", FALSE>>
             /\ UNCHANGED <<current, tree, stale, artifact, verdicts, exit, gitFailed>>
    <3>1. outcome'[1] = "RAISED"
      BY <2>1
    <3> QED
      BY <2>1, <3>1 DEF Place, TreeFollows, ArtifactFollows, OrphanEndsSweep,
         OutcomeFollows, VerdictsFollow, VerdictsAreOfOneMutation
  <2>2. CASE pc = "apply" /\ tree' \in {tree, tree \cup {current}} /\ pc' = "exit"
             /\ exit' = "raised"
             /\ UNCHANGED <<current, work, stale, orphan, artifact, outcome, verdicts, gitFailed>>
    BY <2>2 DEF Place, TreeFollows, ArtifactFollows, OrphanEndsSweep,
       OutcomeFollows, VerdictsFollow, VerdictsAreOfOneMutation
  <2>3. ASSUME pc \in {"restore first", "restore"},
               UNCHANGED <<tree, work, gitFailed>> \/ Checkout
        PROVE  /\ gitFailed' \in BOOLEAN /\ tree' \subseteq tree
               /\ gitFailed => gitFailed'
    <3>1. gitFailed \/ tree \subseteq {current}
      BY <2>3 DEF TreeFollows
    <3>2. CASE UNCHANGED <<tree, work, gitFailed>>
      BY <3>2 DEF Place
    <3>3. CASE Checkout
      BY <3>1, <3>3, CheckoutCleans DEF Place
    <3> QED
      BY <2>3, <3>2, <3>3
  <2>4. CASE /\ pc = "restore first" /\ pc' = "restore" /\ outcome' = <<"RAISED", FALSE>>
             /\ UNCHANGED <<tree, work, gitFailed>> \/ Checkout
             /\ UNCHANGED <<current, stale, orphan, artifact, verdicts, exit>>
    <3>1. outcome'[1] = "RAISED"
      BY <2>4
    <3>2. /\ gitFailed' \in BOOLEAN /\ tree' \subseteq tree
          /\ gitFailed => gitFailed'
      BY <2>3, <2>4
    <3> QED
      BY <2>4, <3>1, <3>2 DEF Place, TreeFollows, ArtifactFollows, OrphanEndsSweep,
         OutcomeFollows, VerdictsFollow, VerdictsAreOfOneMutation
  <2>5. CASE /\ pc = "restore" /\ pc' = "exit" /\ exit' = "raised"
             /\ UNCHANGED <<tree, work, gitFailed>> \/ Checkout
             /\ UNCHANGED <<current, stale, orphan, artifact, outcome, verdicts>>
    <3>1. /\ gitFailed' \in BOOLEAN /\ tree' \subseteq tree
          /\ gitFailed => gitFailed'
      BY <2>3, <2>5
    <3> QED
      BY <2>5, <3>1 DEF Place, TreeFollows, ArtifactFollows, OrphanEndsSweep,
         OutcomeFollows, VerdictsFollow, VerdictsAreOfOneMutation
  <2> QED
    BY <1>7, <2>1, <2>2, <2>4, <2>5 DEF Raise
<1>8. CASE OrphanWrites
  <2>1. Place'
    BY <1>8 DEF OrphanWrites, Place
  <2>3. TreeFollows'
    BY <1>8 DEF OrphanWrites, TreeFollows, Place
  <2>4. ArtifactFollows'
    BY <1>8 DEF OrphanWrites, ArtifactFollows, Place, OrphanEndsSweep, OutcomeFollows
  <2>5. OrphanEndsSweep'
    BY <1>8 DEF OrphanWrites, OrphanEndsSweep, Place
  <2>6. OutcomeFollows'
    BY <1>8 DEF OrphanWrites, OutcomeFollows, Place
  <2>7. VerdictsFollow'
    BY <1>8 DEF OrphanWrites, VerdictsFollow, Place, OutcomeFollows
  <2>8. VerdictsAreOfOneMutation'
    BY <1>8 DEF OrphanWrites, VerdictsAreOfOneMutation, Place, TreeFollows, ArtifactFollows, OutcomeFollows
  <2> QED
    BY <2>1, <2>3, <2>4, <2>5, <2>6, <2>7, <2>8
<1>9. CASE UNCHANGED vars
  BY <1>9 DEF vars, Place, TreeFollows, ArtifactFollows,
     OrphanEndsSweep, OutcomeFollows, VerdictsFollow, VerdictsAreOfOneMutation
<1> QED
  BY <1>1, <1>2, <1>3, <1>4, <1>5, <1>6, <1>7, <1>8, <1>9 DEF Next, Finished

\* The invariant holds at every point of every sweep.
THEOREM SweepFollows == Spec => []SweepInv
  BY SweepInit, SweepStep, PTL DEF Spec

\* No sweep that ends of itself leaves a mutation in the tree while git works,
\* nor in the artifact but for the orphan of a build that was timed out.
THEOREM LeavesNothingMutated == Spec => []NothingMutatedIsLeft
<1>1. SweepInv => NothingMutatedIsLeft
  BY DEF SweepInv, TreeFollows, ArtifactFollows, NothingMutatedIsLeft
<1> QED
  BY <1>1, SweepFollows, PTL

\* While git works, each verdict was reached on its own mutation alone.
THEOREM OneMutationAVerdict == Spec => []VerdictsAreOfOneMutation
<1>1. SweepInv => VerdictsAreOfOneMutation
  BY DEF SweepInv
<1> QED
  BY <1>1, SweepFollows, PTL

\* A returned 0 means that every mutation of the table was killed, each alone in
\* the tree and the artifact while git checkout works, and that a test ran and
\* went red for each of a Rust or an SQL mutation (main, mutation_check.py:1610-1641).
THEOREM ZeroIsEarned == Spec => []ZeroMeansAllKilled
<1>1. SweepInv => ZeroMeansAllKilled
  BY DEF SweepInv, VerdictsFollow, VerdictsAreOfOneMutation, KillRanTest, ZeroMeansAllKilled
<1> QED
  BY <1>1, SweepFollows, PTL

=============================================================================

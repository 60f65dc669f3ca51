---------------------------- MODULE MutationSweep ----------------------------
(***************************************************************************)
(* scripts/mutation_check.py: break the code on purpose, require the named *)
(* test to redden, and put the code back.  The sweep works on the tree the *)
(* developer works in, so what matters is what it leaves behind whichever  *)
(* way it ends, and that each verdict is about the one mutation it names.  *)
(*                                                                         *)
(* git, cargo and make are external, and the checks are programs of their  *)
(* own: each run of one has any outcome its kind of command has.  From the *)
(* first mutation on an exception that nobody catches may be raised at any *)
(* step.  All of MUTATIONS is selected: --only sweeps a shorter table.     *)
(* Nobody edits the tree while the sweep runs.  The verdicts are kept with *)
(* the tree they were reached on, which the script does not know.          *)
(***************************************************************************)
EXTENDS Integers, Sequences, FiniteSets

CONSTANTS
  Mutations             \* MUTATIONS: [file, kind, builds], in order

\* main returns 2 on an empty selection, before the sweep.
ASSUME TableAssumption ==
  /\ Mutations \in Seq([file : STRING, kind : {"rust", "script", "sql"}, builds : BOOLEAN])
  /\ Mutations # <<>>

None == "none"

\* ARTIFACT is absent, or a build of a tree with some mutations applied.
NoArtifact == {}
BuiltFrom(mutations) == {mutations}

Index == 1 .. Len(Mutations)
InFile(m) == {other \in Index : Mutations[other].file = Mutations[m].file}

VARIABLES
  pc,
  current,              \* the mutation being measured
  tree,                 \* the mutations applied to the working tree
  work,                 \* the developer's uncommitted work
  stale,                \* the mutations whose anchor the code has moved from
  artifact,             \* ARTIFACT, and the mutations it was built with
  orphan,               \* what a build that outlived its make writes to ARTIFACT
  outcome,              \* how the check of the current mutation came out
  gitFailed,            \* whether a checkout has failed, which nobody reads
  verdicts,             \* KILLED and SURVIVED lines, and what they rest on
  exit                  \* how the script ended

vars == <<pc, current, tree, work, stale, orphan, artifact, outcome, gitFailed, verdicts, exit>>

Init ==
  /\ pc = "start"
  /\ current = 1
  /\ tree = {}
  /\ work \in {None, "uncommitted"}
  /\ stale \in {{}} \cup {{m} : m \in Index}
  /\ artifact \in {NoArtifact, BuiltFrom({})}
  /\ orphan = NoArtifact
  /\ outcome = <<None, FALSE>>
  /\ gitFailed = FALSE
  /\ verdicts = {}
  /\ exit = None

Exit(status) == pc' = "exit" /\ exit' = status

-----------------------------------------------------------------------------
(***************************************************************************)
(* What comes back from the commands, and what the script makes of it.     *)
(***************************************************************************)

\* A cargo test: whether a test executed, whether "error" is in the output,
\* whether cargo returned 0 and whether a FAILED line was printed.  A tree
\* that does not compile says error and executes nothing; a filter that
\* matches nothing executes nothing, and says error only in the name of a
\* dependency that was compiled on the way ("Compiling thiserror").
CargoRuns ==
  {[executed |-> TRUE,  error |-> FALSE, ok |-> TRUE,  red |-> FALSE],
   [executed |-> TRUE,  error |-> TRUE,  ok |-> FALSE, red |-> TRUE],
   [executed |-> FALSE, error |-> TRUE,  ok |-> FALSE, red |-> FALSE],
   [executed |-> FALSE, error |-> FALSE, ok |-> TRUE,  red |-> FALSE],
   [executed |-> FALSE, error |-> TRUE,  ok |-> TRUE,  red |-> FALSE]}

\* Mutant: any cargo test that did not return 0 is a kill.
RustVerdictByStatus(run) == IF run.ok THEN "SURVIVED" ELSE "KILLED"

\* rust_test_failed
RustVerdict(run) ==
  IF ~run.executed /\ ~run.error THEN "BROKEN"
  ELSE IF ~run.ok /\ run.red THEN "KILLED" ELSE "SURVIVED"

\* A check written as a script: whether it printed anything, whether it made its
\* check, and whether it returned 0.  One that cannot make it says so and does
\* not return 0: no duckdb, no artifact, a catalog that cannot be read, no
\* PyYAML.  One that prints nothing was killed.
ScriptRuns ==
  {[printed |-> TRUE,  executed |-> TRUE,  ok |-> TRUE],
   [printed |-> TRUE,  executed |-> TRUE,  ok |-> FALSE],
   [printed |-> TRUE,  executed |-> FALSE, ok |-> FALSE],
   [printed |-> FALSE, executed |-> FALSE, ok |-> FALSE]}

\* script_check_failed, once the artifact it needs is built
ScriptVerdict(run) ==
  IF ~run.printed THEN "BROKEN" ELSE IF run.ok THEN "SURVIVED" ELSE "KILLED"

\* run_sql_tests.py --only: its status, and whether it printed a PASS or a
\* FAIL line.  It executes a file exactly when it prints one of the two; any
\* other end (no duckdb, no artifact, no matching file) has status 2.
SqlRuns ==
  {[status |-> 0, pass |-> TRUE,  fail |-> FALSE, executed |-> TRUE],
   [status |-> 1, pass |-> FALSE, fail |-> TRUE,  executed |-> TRUE],
   [status |-> 2, pass |-> FALSE, fail |-> FALSE, executed |-> FALSE],
   [status |-> 1, pass |-> FALSE, fail |-> FALSE, executed |-> FALSE]}

\* Mutant: any status of the SQL runner but 0 is a kill.
SqlVerdictByStatus(run) == IF run.status = 0 THEN "SURVIVED" ELSE "KILLED"

\* sql_test_failed, once the artifact is built
SqlVerdict(run) ==
  IF run.status = 2 \/ ~(run.pass \/ run.fail) THEN "BROKEN"
  ELSE IF run.status = 1 /\ run.fail THEN "KILLED" ELSE "SURVIVED"

NeedsBuild(m) == Mutations[m].kind = "sql" \/ Mutations[m].builds

\* The verdict on a run, and whether a test executed in it.
Outcomes(kind) ==
  CASE kind = "rust"   -> {<<RustVerdict(run), run.executed>> : run \in CargoRuns}
    [] kind = "script" -> {<<ScriptVerdict(run), run.executed>> : run \in ScriptRuns}
    [] kind = "sql"    -> {<<SqlVerdict(run), run.executed>> : run \in SqlRuns}

-----------------------------------------------------------------------------
(***************************************************************************)
(* main.                                                                   *)
(***************************************************************************)

\* tree_is_clean reads what git status printed and not whether it failed, when
\* it prints nothing.
ReadsAsClean(failed) == failed \/ work = None

\* tree_is_clean and check_anchors, before anything is touched.
Begin ==
  /\ pc = "start"
  /\ \E failed \in BOOLEAN :
       \/ /\ ~ReadsAsClean(failed) \/ stale # {}
          /\ Exit("2")
       \/ /\ ReadsAsClean(failed)
          /\ stale = {}
          /\ pc' = "apply"
          /\ UNCHANGED exit
  /\ UNCHANGED <<current, tree, work, stale, orphan, artifact, outcome, verdicts, gitFailed>>

\* apply writes the file.  A mutation left behind in it may have taken the
\* anchor with it, and so may a checkout that took uncommitted work: then the
\* script ends where it stands.
Apply ==
  /\ pc = "apply"
  /\ \/ /\ tree' = tree \cup {current}
        /\ pc' = "check"
        /\ UNCHANGED exit
     \/ /\ tree \cap InFile(current) # {} \/ work = "lost"
        /\ Exit("SystemExit")
        /\ UNCHANGED tree
  /\ UNCHANGED <<current, work, stale, orphan, artifact, outcome, verdicts, gitFailed>>

\* Mutant: make is asked for the artifact only when there is none.
BuildIfAbsent ==
  /\ pc = "check"
  /\ NeedsBuild(current)
  /\ \/ /\ artifact' = IF artifact = NoArtifact THEN BuiltFrom(tree) ELSE artifact
        /\ pc' = "measure"
        /\ UNCHANGED outcome
     \/ /\ pc' = "restore first"
        /\ outcome' = <<"BROKEN", FALSE>>
        /\ UNCHANGED artifact
  /\ UNCHANGED <<current, tree, work, stale, orphan, verdicts, exit, gitFailed>>

\* make extension.  A tree that does not build, or not in time, is broken.  The
\* timeout kills make and not its children: if it falls in the last command of
\* the recipe, which writes ARTIFACT, that command goes on.
Build ==
  /\ pc = "check"
  /\ NeedsBuild(current)
  /\ \/ /\ artifact' = BuiltFrom(tree)
        /\ pc' = "measure"
        /\ UNCHANGED <<outcome, orphan>>
     \/ /\ pc' = "restore first"
        /\ outcome' = <<"BROKEN", FALSE>>
        /\ orphan' \in {NoArtifact, BuiltFrom(tree)}
        /\ UNCHANGED artifact
  /\ UNCHANGED <<current, tree, work, stale, verdicts, exit, gitFailed>>

\* The orphan ends its write, at any time, whatever has become of the sweep.
OrphanWrites ==
  /\ orphan # NoArtifact
  /\ artifact # orphan
  /\ artifact' = orphan
  /\ UNCHANGED <<pc, current, tree, work, stale, orphan, outcome, gitFailed, verdicts, exit>>

\* The check itself, with any outcome of its kind, or no verdict in time.
Measure ==
  /\ \/ pc = "measure"
     \/ pc = "check" /\ ~NeedsBuild(current)
  /\ outcome' \in Outcomes(Mutations[current].kind) \cup {<<"BROKEN", FALSE>>}
  /\ pc' = IF outcome'[1] = "BROKEN" THEN "restore first" ELSE "restore"
  /\ UNCHANGED <<current, tree, work, stale, orphan, artifact, verdicts, exit, gitFailed>>

\* git checkout -- file, whose status nobody reads: it may fail (a held
\* index.lock).  It takes with it uncommitted work, when that is in the file.
Checkout ==
  \/ /\ tree' = tree \ InFile(current)
     /\ work' \in IF work = None THEN {None} ELSE {work, "lost"}
     /\ UNCHANGED gitFailed
  \/ /\ gitFailed' = TRUE
     /\ UNCHANGED <<tree, work>>

\* A broken run is restored in the except clause, before the finally clause
\* restores it again.
RestoreFirst ==
  /\ pc = "restore first"
  /\ Checkout
  /\ artifact' = NoArtifact
  /\ pc' = "restore"
  /\ UNCHANGED <<current, stale, orphan, outcome, verdicts, exit>>

\* The lines after the finally clause: a verdict is printed, and the next
\* mutation taken up; a broken run ends the sweep, and an exception passes on.
Conclude ==
  \/ /\ outcome[1] = "BROKEN"
     /\ Exit("2")
     /\ UNCHANGED <<current, verdicts>>
  \/ /\ outcome[1] = "RAISED"
     /\ Exit("raised and restored")
     /\ UNCHANGED <<current, verdicts>>
  \/ /\ outcome[1] \in {"KILLED", "SURVIVED"}
     /\ verdicts' = verdicts \cup
          {[mutation |-> current, says |-> outcome[1], executed |-> outcome[2],
            tree |-> tree, artifact |-> artifact]}
     /\ IF current < Len(Mutations)
        THEN pc' = "apply" /\ current' = current + 1 /\ UNCHANGED exit
        ELSE /\ Exit(IF \A v \in verdicts' : v.says = "KILLED" THEN "0" ELSE "1")
             /\ UNCHANGED current

\* Mutant: the code is put back and the artifact is not.
RestoreCodeOnly ==
  /\ pc = "restore"
  /\ Checkout
  /\ Conclude
  /\ UNCHANGED <<stale, orphan, artifact, outcome>>

\* The finally clause.
Restore ==
  /\ pc = "restore"
  /\ Checkout
  /\ artifact' = NoArtifact
  /\ Conclude
  /\ UNCHANGED <<stale, orphan, outcome>>

\* An exception nobody catches: KeyboardInterrupt, a command that is not
\* installed, a git checkout that hangs until its timeout.  In a check and in the
\* except clause the finally clause runs; in apply and in the finally clause
\* itself nothing does, and the exception falls before or after the work it cuts
\* short.  An interrupt that reaches the script and not its process group leaves
\* the commands of a make as a timeout does.
Raise ==
  \/ /\ pc \in {"check", "measure"}
     /\ pc' = "restore"
     /\ outcome' = <<"RAISED", FALSE>>
     /\ \/ UNCHANGED orphan
        \/ pc = "check" /\ NeedsBuild(current) /\ orphan' = BuiltFrom(tree)
     /\ UNCHANGED <<current, tree, work, stale, artifact, verdicts, exit, gitFailed>>
  \/ /\ pc = "apply"
     /\ tree' \in {tree, tree \cup {current}}
     /\ Exit("raised")
     /\ UNCHANGED <<current, work, stale, orphan, artifact, outcome, verdicts, gitFailed>>
  \/ /\ pc = "restore first"
     /\ pc' = "restore"
     /\ outcome' = <<"RAISED", FALSE>>
     /\ UNCHANGED <<tree, work, gitFailed>> \/ Checkout
     /\ UNCHANGED <<current, stale, orphan, artifact, verdicts, exit>>
  \/ /\ pc = "restore"
     /\ Exit("raised")
     /\ UNCHANGED <<tree, work, gitFailed>> \/ Checkout
     /\ UNCHANGED <<current, stale, orphan, artifact, outcome, verdicts>>

Finished == pc = "exit" /\ UNCHANGED vars

Next ==
  \/ Begin \/ Apply \/ Build \/ Measure
  \/ RestoreFirst \/ Restore
  \/ Raise
  \/ OrphanWrites
  \/ Finished

Spec == Init /\ [][Next]_vars

-----------------------------------------------------------------------------
(***************************************************************************)
(* Properties.                                                             *)
(***************************************************************************)

\* However a sweep ends of itself, and when an exception is raised while a check
\* runs or while a broken one is first restored, no mutation is left in the tree
\* as long as git checkout works, and no artifact built from one answers to the
\* branch's name (mutation_check.py:42-48) whether it does or not, but for one:
\* that of a build which outlived its make, and after that the sweep has ended.
NothingMutatedIsLeft ==
  exit \in {"0", "1", "2", "raised and restored"} =>
    /\ gitFailed \/ tree = {}
    /\ \/ artifact \in {NoArtifact, BuiltFrom({})}
       \/ artifact = orphan /\ exit \in {"2", "raised and restored"}

\* Each verdict is about one mutation: the tree held it and no other, and so
\* did the artifact it was measured on.
RestsOnItsMutation(v) ==
  /\ v.tree = {v.mutation}
  /\ NeedsBuild(v.mutation) => v.artifact = BuiltFrom({v.mutation})

\* As long as git works, whatever order checks fail, hang or fail to build in.
VerdictsAreOfOneMutation == gitFailed \/ \A v \in verdicts : RestsOnItsMutation(v)

\* "This applies each mutation below to a source file, runs the one test that
\* should notice ... Then it restores the file from git"
\* (mutation_check.py:5-8), with nothing said of a git that fails.
RestoredBeforeTheNext == \A v \in verdicts : RestsOnItsMutation(v)

\* A sweep that returns 0 has killed every mutation, each alone in the tree and
\* the artifact while git checkout works, and of a Rust or an SQL mutation a test
\* ran and went red.  Of a script it may only have heard that there is no check.
ZeroMeansAllKilled ==
  exit = "0" =>
    \A m \in Index :
      \E v \in verdicts :
        /\ v.mutation = m /\ v.says = "KILLED"
        /\ gitFailed \/ RestsOnItsMutation(v)
        /\ Mutations[m].kind # "script" => v.executed

\* "The command under a mutation executed no test at all.  This is neither a
\* kill nor a survival, and counting it as either is how a mutation harness comes
\* to report a clean sweep having checked nothing" (mutation_check.py:1478-1481).
CleanSweepMeansExecuted == exit = "0" => \A v \in verdicts : v.executed

=============================================================================

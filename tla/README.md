# A verification of subtoken

subtoken is a DuckDB extension written in Rust. It turns text into vectors with
a static model compiled into the binary, and keeps the vectors in a cache that
every worker thread of the session shares. This directory holds TLA+ models of
that program, the TLC configurations that check them and the TLAPS proofs about
them. Paths are relative to the repository; `core` is
`crates/subtoken-core/src`, `duckdb` is `crates/subtoken-duckdb/src`.

## 1. Inventory

| component | source | state | operations | who calls it |
|---|---|---|---|---|
| embedding cache | `core/cache.rs` `EmbeddingCache` | map from key to vector, capacity, three counters | `get`, `recheck`, `insert`, `is_full`, `note_uncached`, `clear`, `stats` | the engine, under one mutex |
| engine (single flight) | `core/lib.rs` | `CACHE`, `IN_FLIGHT` with its condition variable, `ENCODED` | `embed`, `embed_uncached`, `stats`, `clear_cache` | the SQL functions, on DuckDB's worker threads |
| capacity search | `core/cache.rs` `capacity_for_budget` | `PROBED`, the memo of measured block sizes | `allocation_bytes`, `bytes_for`, `capacity_for_budget` | the first use of the cache |
| model and truncation | `core/model.rs` | `BUNDLED`, loaded once | `embed`, `is_truncated`, `model_key`, `conform` | the engine and the SQL functions |
| registration and entry point | `duckdb/capi.rs`, `duckdb/lib.rs` | API handles, boxed callbacks | `register`, `register_all`, `subtoken_init_c_api_v2`, `drop_exec` | DuckDB's loader |
| API table | `crates/subtoken-duckdb-sys/src/lib.rs` | `TABLE`, set once | `init`, `api` | the entry point and every call |
| SQL functions and vector I/O | `duckdb/lib.rs`, `duckdb/capi.rs` | none beyond a call | the seven bodies, `varchar_arg`, `write_float_lists`, ... | DuckDB's executor, through `exec_trampoline` |
| mutation sweep | `scripts/mutation_check.py` | the working tree, the packaged artifact | `apply`, the three kinds of check, `restore`, `main` | a developer |
| other checks | `scripts/`, `test/sql`, `Makefile`, CI | none | build-time checks | CI |

How they meet:

* DuckDB runs a query on several worker threads and calls `exec_trampoline`
  once per chunk on each. The trampoline finds the function's body in the box
  the registration left with DuckDB, and turns an `Err` or a panic into
  DuckDB's error. `subtoken_embed` calls `core::embed` for each row.
* `core::embed` looks in the cache under its mutex; on a miss it takes the
  *flight* of the key (`Flight::begin`, sleeping while another thread has it),
  looks again, encodes with no lock held, stores under the mutex, and gives
  the flight back in `Drop`. When the cache is full it encodes without a
  flight and without storing.
* The cache is created on first use with the capacity the search finds.
* `subtoken_is_truncated` does not touch the cache: it repeats the cuts the
  encoder makes with a tokenizer of its own.

What is hard here, and where (`PROJECT.json`, "hazards", has every one at its
line): three pieces of shared state with three kinds of protection and no lock
over two of them; one condition variable for every key; a decision (`is_full`)
taken in one critical section and used in another; a clear in two steps; a
count taken back by `recheck` after a clear may have zeroed it; a cost measured
from a noisy allocator and searched by bisection; a box whose owner changes
three times during a sequence of calls that can each fail; a reconstruction of
somebody else's private behaviour; two values built on first use, one inside
the initialiser of the other; a result written in steps, through pointers that
a later call makes stale; a script that edits the tree it runs in, and the
builds it kills.

What makes each component correct:

| component | correct means |
|---|---|
| cache and engine | each row gets the vector of its own text; concurrent rows of one text share one encode; the bound is a ceiling; the counters account for every row and encode; no call is stranded; a failed encode leaves nothing behind |
| capacity search | it ends; its answer fits the budget, and one more would not; what the allocator really hands out is inside the budget |
| truncation | the answer is about the vector `embed` returns, in both directions |
| SQL functions | a call that does not report an error has answered every row of its chunk, whatever form the argument came in; nothing is written outside the result; a query that failed keeps the rows it paid for; the cache is sized for the model whoever asks first |
| registration | what DuckDB may call is alive; nothing is left behind on any road; a silent load is a whole one |
| mutation sweep | each verdict is about one mutation, and a kill is a test that ran and went red; nothing mutated is left |

## 2. Modules

| module | models | uses |
|---|---|---|
| `EmbeddingCache` | `EmbeddingCache`, one operator a method | |
| `SingleFlight` | the engine | extends `EmbeddingCache`, instantiates `FillOnceStore` |
| `FillOnceStore` | what the engine promises: rows answered atomically from a memo that never evicts | |
| `FirstUse` | `BUNDLED` and `CACHE`, built on first use | |
| `VectorIO` | `Call` and `Child`: how an argument is read and a result written | |
| `ChunkCall` | the trampoline and the seven bodies on DuckDB's workers | extends `FirstUse`, `VectorIO`, instantiates `FillOnceStore` |
| `CapacitySearch` | `capacity_for_budget` and what it calls | |
| `ExtensionLoad` | entry point, registration, API table | |
| `Truncation` | `Truncation` and the upstream cuts | |
| `MutationSweep` | `scripts/mutation_check.py` | |
| `SingleFlightProofs` | safety of the engine, and its refinement of the store | extends `SingleFlight` |
| `AccountingProofs` | its counters | extends `SingleFlightProofs` |
| `VectorIOProofs` | the argument that is read, the scripts of the writers | extends `VectorIO` |
| `ChunkCallProofs` | the calls | extends `ChunkCall`, `VectorIOProofs` |
| `CapacitySearchProofs`, `TruncationProofs`, `ExtensionLoadProofs`, `MutationSweepProofs` | theorems on the module so named | extend it |
| `MC...` | instances of the above for TLC | |

Two compositions carry the system: the engine over the cache, and the SQL
functions over the engine. The second uses the abstract store for the engine,
and `EngineImplementsStore` is why it may.

In each module a definition whose comment begins with "Mutant:" is a plausible
wrong version of the one after it. It is no part of the specification; it is
there to show that the properties would notice.

### EmbeddingCache and SingleFlight

`EmbeddingCache` has the four fields (`entries`, `hits`, `misses`, `uncached`)
and one operator for each method, or two where a method has two results
(`GetHit`, `GetMiss`). The mutex is in `SingleFlight`: every operator is
used inside one step.

`SingleFlight` gives each thread a program counter, and one step is one
critical section or one atomic operation of `core/lib.rs`:

| step | code |
|---|---|
| `LookupHit`, `LookupFull`, `LookupMiss` | the first critical section of `embed` |
| `BeginWait`, `BeginFlight`, `SpuriousWake` | `Flight::begin`, its `while` loop and its wait |
| `RecheckFound`, `RecheckAbsent` | the second look |
| `EncodeInFlight`, `EncodeAlone` | `encode`; it counts a finished run, or fails |
| `InsertVector` | the store |
| `Release`, `NotifyAll` | the two halves of `Flight::drop` |
| `Stats` | `stats`, which reads the counters and then `ENCODED` |
| `Clear` | `clear_cache`, which stores 0 and then clears |

The encoder is a function from texts to vectors or `Failure`: it has no state,
and returning `Err` and panicking leave `embed` by the same road, because the
flight is given back by `Drop` and both mutexes forgive poisoning. Assumed: the
digest in `cache_key` has no collisions, and the model is loaded.

`FillOnceStore` is the abstract specification. A row is asked, and answered in
one step: from the store, by an encode that is admitted, by one that is
declined because the store is full, or with a failure. `ImplementsStore` maps
each row to the step where its answer is settled.

### FirstUse, VectorIO and ChunkCall

`FirstUse` is the two `OnceLock`s. One thread runs an initialiser while the
others that want the value are blocked; a panic leaves the cell empty and the
next thread tries again. `CACHE`'s initialiser wants the model's width, so it
may load the model inside itself, or block on a thread that is loading it. How
a load ends (a model, an error, a panic) is a property of the assets in the
binary: it is chosen once and every load ends so.

`VectorIO` has the two sides of a chunk. DuckDB's side is external: an argument
has physical entries and a form, and SQL's row n is entry n, entry 0 or the
selected one; a result vector has room, and making it larger moves it, so that
a pointer fetched before is stale. The code's side is `VarcharArg` (view,
flatten, selection, the words of the validity mask) and the writers, each a
sequence of calls and copies whose steps `Effect` carries out. A string is its
text, and its bytes, their arena and the lossy decoding are left out.

`ChunkCall` gives each worker one call at a time:

| step | code |
|---|---|
| `CallFunction` | DuckDB calls `exec_trampoline` with a chunk |
| `Enter`, `ReadArgument` | the user data and `Call::new`; `varchar_arg` |
| `NullRow`, `TruncatedRow`, `AskRow`, `AnswerRow` | the loops of `embed` and `is_truncated`, row by row |
| `ModelBody`, `StatsBody`, `ClearBody` | `version`, `model_id`, `models`; `cache_stats`; `cache_clear` |
| `Initialise`, `InitialiserPanics`, `ModelUnavailable` | a first use inside any of these |
| `StartWriting`, `WriteStep` | the writers, a call or a copy a step |
| `Return`, `Report` | the end of the trampoline, silent or through the slot |

Every call into DuckDB may fail, whatever has been written before it. A panic
takes the road of an `Err`, as `guard` has it. The calls that report are taken
as present and DuckDB's slot as there. `cleared` marks the calls that a
`cache_clear` overlapped; the code has no such mark and no step reads it.

### CapacitySearch

`memo` is `PROBED`, and each entry also keeps the size class, which the code
never sees. A probe answers with the class or more (a recycled block), and with
the size itself where the platform cannot be asked. `Bounds`, `Halve` and
`Found` are the code before, in and after the loop. A probe whose allocation
fails is left out.

### ExtensionLoad

`Script(f)` is the sequence of v2 calls one registration makes; a step is one
call that succeeds (`CallSucceeds`), fails (`CallFails`) or is missing from the
table (`EntryMissing`, where `v2!` leaves the enclosing function before the
call). `Destroy` ends a registration on both roads, `Report` writes the slot,
and `DropRegistered` is DuckDB letting go of a function later. `box[f]` says
who answers for the boxed callback, and `owners[f]` what in DuckDB refers to
it. Dropping an `OwnedType` is put off to the end of the registration when a
call fails; nobody can look in between. The trampoline is a property: whatever
DuckDB still refers to must not have been freed.

### Truncation

`Tokenise` is a constant operator, any function from texts to ids. `Truncates`
is the code, `EncodeCapped` what `model2vec_rs` pools and `EncodeWhole` what it
pools without a cap, the oracle of the crate's own tests. `MCTruncation` gives
it a WordPiece tokenizer: longest piece first, continuations spelt apart, a
whole word unknown when a part of it is.

### MutationSweep

`tree` is the set of mutations in the working tree, `artifact` the packaged
extension and what it was built from. `RustVerdict`, `ScriptVerdict` and
`SqlVerdict` are the three check functions, over the outcomes their commands
can have; a script has made its check, or said that it could not and returned
2, or printed nothing. `ReadsAsClean` is `tree_is_clean`, which takes a `git
status` that failed for a clean tree, so a sweep may start over uncommitted
`work`. `Restore` is the `finally` clause; a broken run is restored twice, as in
the code. `Raise` is an exception nobody catches (an interrupt, a command that
is not installed, a checkout that hangs): while a check runs and in the `except`
clause the `finally` clause follows; in `apply` and in the `finally` clause
itself nothing does. A verdict is kept with the tree and artifact it was reached
on.

A timeout kills `make` and not what `make` was running, and so does an interrupt
that reaches the script alone. When that is the recipe's last command, which
writes the artifact, it goes on: `orphan` is what it will have written, and
`OrphanWrites` is the moment it does. Either ends the sweep, so that moment
falls between its restores or after the end.

## 3. What is checked

| run | properties | distinct states |
|---|---|---|
| `single_flight_race` | `RowsAccounted`, `EncodesAccounted`, `FittedColumnIsHeld`, `ReportsCoherent` | 88,958 |
| `single_flight_safety` | `TypeOK`, `OneFlightPerKey`, `EncodesOnlyAbsentKeys`, `CapacityBound`, `EachRowOwnVector`, `TurnedAwayOnlyWhenFull`, `ImplementsStore` | 1,385,031 |
| `single_flight_live` | `SleepersAreWoken`, `EveryCallReturns` | 94,181 |
| `encoded_after_clear` | `EncodedIsOnePerDistinctValue` (violated) | |
| `chunk_call` | `TypeOK`, `ResultIsAnswer`, `WritesStayInside`, `EarlierRowsAreKept`, `CapacityIsForTheModel`, `InitialisersAreInCalls`, `EveryCallReturns` | 184,671 |
| `capacity_search` | `AnswerIsMaximal`, `NeverBreachesBudget`, `QuietAnswerIsLargest`, `Terminates` | 59,265 |
| `extension_load` | `BoxOutlivesItsFunction`, `NothingLeftBehind`, `SilenceMeansWholeSurface` | 3,311 |
| `truncation` | `NotTruncatedMeansWholeVector`, `LosslessIsNotTruncated`, `MarkedAnswerIsExact` | 97,656 |
| `truncation_fewer_ids` | `TruncatedMeansFewerIds` (violated) | |
| `mutation_sweep` | `NothingMutatedIsLeft`, `VerdictsAreOfOneMutation`, `ZeroMeansAllKilled` | 30,791 |
| `sweep_clean_unchecked` | `CleanSweepMeansExecuted` (violated) | |
| `sweep_git_fails` | `RestoredBeforeTheNext` (violated) | |

**Bounds.** `MaxRows` and `MaxOthers` bound the calls of a behaviour, not the
steps of a call.

* `single_flight_race`: three threads, two texts, room for one, five rows and
  one report: a key with a holder, a waiter and a late-comer, the last free
  place contended, a repeat after the column settled, and a report read in two
  halves around any of it.
* `single_flight_safety`: three texts, one of which always fails, three rows
  and two other calls (`embed_uncached` or `clear_cache`): a clear may fall at
  every point of every race, twice. The refinement is checked on the same
  states, so without symmetry.
* `single_flight_live`: four threads, so that a wake-up for one key reaches
  sleepers of the other, and one text that fails.
* `chunk_call`: two workers and two calls of any of the seven functions, each on
  one of six columns of two rows: flat, constant (also a constant NULL), through
  a selection, compressed; with NULLs, with a text whose encode fails after one
  that succeeds, and with entries in two words of the mask (words of two bits).
  The child of a LIST has room for one float and a vector has two, so sizing
  moves it; the store has room for one text. The model loads, is refused, or
  panics. A second call is the query run again, or the clear, or the first use
  racing the first. Two workers are enough for these: what more of them do to
  each other they do in the engine, where there are three and four.
* `capacity_search`: budgets 0 to 45 of a scaled cache (3-byte vectors, 1-byte
  buckets) cross three doublings of the bucket array. The noise (`MaxRounding`,
  `MaxRecycled`) reaches the cost of a whole vector, so measured costs need not
  grow with the size. The behaviours in which nothing was rounded are those
  `QuietAnswerIsLargest` speaks of.
* `extension_load`: the seven functions as registered, with the whole table and
  with each table that lacks one entry a registration calls, except
  `set_user_data` (see section 5).
* `truncation`: every text of up to seven of five characters (two letters, a
  marker, a blank, a symbol in no piece), with caps of six characters and two
  ids: each cut bites alone and with the other, falls inside a word, or takes
  nothing.
* `mutation_sweep`: four mutations, one of each kind and two in each file, so
  that a mutation left behind can take the next one's anchor with it; the
  orphan may come of any build.

**Fairness.** `EveryCallReturns` assumes `WF_vars(Proceed(t))` for each
thread: a thread inside a call that can step does, because the operating system
schedules it and the encoder returns. Calls are not fair (a query may end) and
neither are spurious wake-ups. `BeginFlight` is the only step a thread may find
disabled again and again, while another holds its key. Weak fairness is enough
because the calls are bounded: an endless stream of callers of one key could
starve a waiter with any fairness of the scheduler, as with any condition
variable, and the claim is not made for it. `EveryCallReturns` of
`chunk_call` assumes the same of `Proceed(t)` of each worker: a worker inside a
call is scheduled, and when an initialiser is over the operating system lets
one of those blocked on it run. That no initialiser waits for one that waits
for it is part of what the property finds. `Terminates` assumes the single
thread of the search keeps running.

## 4. What is proved

For every value of the constants allowed by the assumptions in the modules:

| theorem | module | states |
|---|---|---|
| `Safety` | `SingleFlightProofs` | `SafetyInv`, the inductive invariant |
| `TypeCorrect`, `FlightExclusion`, `OneEncodeForConcurrentRows`, `NeverOverCapacity`, `RowsGetTheirOwnVectors`, `RefusalsMeanFull` | `SingleFlightProofs` | the six invariants of `single_flight_safety`, by name |
| `SleepersAreNotForgotten` | `SingleFlightProofs` | `SleepersAreWoken`, what of `EveryCallReturns` every state shows |
| `EngineImplementsStore` | `SingleFlightProofs` | `ImplementsStore`: the engine implements `FillOnceStore` |
| `RowsAreAccounted`, `EncodesAreAccounted`, `AFittedColumnIsHeld`, `ReportsAreCoherent` | `AccountingProofs` | the four invariants of `single_flight_race` |
| `ArgumentIsLogical` | `VectorIOProofs` | `varchar_arg` returns what SQL says each row holds, for every form and mask |
| `CallTypeCorrect`, `FailedCallsKeepTheirRows`, `CapacityIsTheModels` | `ChunkCallProofs` | `TypeOK`, `EarlierRowsAreKept`, `CapacityIsForTheModel` |
| `RepliesFollow` | `ChunkCallProofs` | `ReplyInv`, what each call has read, has to write and has written |
| `SilentCallsAnswer`, `WritersStayInside` | `ChunkCallProofs` | `ResultIsAnswer`, `WritesStayInside` |
| `NoInitialiserIsLeft` | `ChunkCallProofs` | `InitialisersAreInCalls`, the same of the first uses |
| `SearchInvariant` | `CapacitySearchProofs` | `SearchInv`, the loop invariant |
| `SearchFindsMaximal`, `BudgetIsKept`, `QuietSearchFindsLargest` | `CapacitySearchProofs` | `AnswerIsMaximal`, `NeverBreachesBudget`, `QuietAnswerIsLargest` |
| `LoadFollows` | `ExtensionLoadProofs` | `LoadInv`, what a load holds at each of its points |
| `CallbacksOutliveFunctions`, `SilentLoadIsWhole`, `LoadLeavesNothing` | `ExtensionLoadProofs` | `BoxOutlivesItsFunction`, `SilenceMeansWholeSurface`, `NothingLeftBehind` |
| `NoMissedTruncation`, `NoFalseAlarm` | `TruncationProofs` | `NotTruncatedMeansWholeVector`, `LosslessIsNotTruncated` |
| `MarkedTextsAreExact` | `TruncationProofs` | `MarkedAnswerIsExact`, for a tokenizer with `MarkerHasId` |
| `SweepFollows` | `MutationSweepProofs` | `SweepInv`, what tree and artifact hold at each point of a sweep |
| `LeavesNothingMutated`, `OneMutationAVerdict`, `ZeroIsEarned` | `MutationSweepProofs` | the three invariants of `mutation_sweep` |

**The engine.** `OneFlightPerKey` is inductive with the types. The others are
not inductive alone. That a key being encoded is absent (`EncodesOnlyAbsentKeys`)
needs `OneFlightPerKey`: between a holder's recheck and its insert only a thread
that holds the same key could store it, and there is none. The types need
`InsertsVectors`, that a failed encode has left before the insert; the bound
needs the fullness test inside `insert`, and not the one in `embed`. `SafetyInv`
is their conjunction, and each step is proved for each part it can disturb.
Assumed: `EncoderAssumption`, `FailureAssumption`, `OperationsAssumption` and
the assumption on the capacity, all properties of the code's types.

**The sleepers.** A thread goes to sleep in the critical section in which it
saw its key in flight, and by `OneFlightPerKey` that key has a holder. A key
leaves `IN_FLIGHT` in `Release` only, and who releases is then on its way to
`NotifyAll`, which wakes every sleeper whatever its key. Between the two a
sleeper may wait for a key nobody holds; the pending `NotifyAll` is what the
invariant says instead. Notifying after a success only, as a release outside
`Drop` would, breaks it.

**The refinement.** Each step of the engine is a step of the store or leaves it
alone. The call asks; a hit of either look, the look that finds the cache full,
a failed encode and the insert (which admits, or finds the cache filled
meanwhile) answer; missing, waiting, waking and releasing are stutters. Texts
and keys correspond one to one, so the store is as large as the cache
(`StoreSize`). `SafetyInv` supplies what the store demands of a step and the
code does not test there: the insert adds a key that is absent, with the vector
of its own text. Assumed: the same as above.

**The counters.** They are not inductive either: a counter says how many, and
the steps need to know who. Each step is reduced to what it adds to each counter
and to the number of threads at four points (about to look, counted as a miss,
encoding unstored, storing), and the sums are then arithmetic (`Tally`). Two
facts a count does not have are carried beside them: there are at least as many
misses as threads that have been counted as one and not yet answered, so the
saturating subtraction of `recheck` is exact while nobody clears; and nothing
encoded is lost between the encode and the cache. They hold for behaviours
without `clear_cache` and `embed_uncached`, as the properties state. The sets of
threads counted are finite because each was reached by steps, whatever `Threads`.

**The calls.** `CallInv` follows each call by its point. `OnceOK` is the part on
first use: a worker that is past the row's first uses has the model and a
capacity of its width, which no initialiser takes back. `InitialisersAreInCalls`
rests on one more fact (`InitialiserInv`): `CACHE` is unset while its initialiser
runs. Then a call that runs an initialiser takes no other step until it is over
(`OthersRunNone`), and one that ends, by a value or by a panic, empties its seat.
A worker blocked on a `OnceLock` therefore waits for one that is inside a call.
For the rows kept, what a call has embedded is held or was declined at a full
store, and the store only grows until somebody clears. `ArgumentIsLogical` is an
operator's and needs no behaviour: the position a selection gives is the one
whose bit and bytes are read, and a bit is found in word `n \div WordBits` at
`n % WordBits`.

**The replies.** `ReplyInv` is of each call alone. While rows are left, the
values are the answers to the first of them; once the body is done, to all of
them; and while a writer runs, some first `k` steps of its script are done and
the result is `After` them. `VectorIOProofs` has what that means of any script
that is sane (`Sane`: a vector is sized to one size only, a copy goes to a
vector sized to hold it and fetched after that, and each copy begins where the
earlier ones have ended): the cells copied are there, the rows marked are those,
and nothing was written elsewhere. `WriterGoesOn` is its step: sizing keeps the
cells and a fetched pointer is not used after the block moved. Each writer is
then shown to follow a sane script that ends with what DuckDB reads back
(`ListsAreSane` and `ListsAreRead` for the float lists, and so for booleans,
cells and fields).
Their loops are recursive functions over the rows, and the facts about them
(offsets add up the lengths before them, a row is marked when it is NULL) are
by induction on the number of rows. A failed step leaves no result to be wrong.

Assumed of the calls: `WordBitsAssumption`, `DimAssumption`,
`AssetsAssumption`, `ThreadAssumption`, `TextAssumption`, `CapacityAssumption`,
`FunctionsAssumption`; for the replies also `RoomAssumption`, that the child of
a LIST starts with room for some number of floats; `ChunksAssumption`, that a
column is one DuckDB may pass (each row's entry is among the physical ones);
and `EncoderAssumption`, that a vector has the width of the model, which
`conform` sees to.

**The load.** `ScriptShape` says where in a script of any length the calls that
matter stand: `create` first, `set_user_data` third from the end,
`register_function` last, and each of them nowhere else. `LoadInv` then knows
at each position who answers for the box and which types are held. Assumed:
`SurfaceAssumption`. `LoadLeavesNothing` also assumes `TakesBoxes`, that no
table lacks `set_user_data`, and does not hold without it (section 5).

**The sweep.** While git works, the tree holds the mutation being measured and
nothing else, and the artifact measured was built from that tree; between two
mutations the tree holds none and the artifact is clean or gone. An orphan ends
the sweep (`OrphanEndsSweep`), so no verdict rests on what it writes. An
exception in the first restore still meets the second. A Rust or SQL kill is
reached on a test that ran (`KillRanTest`); a script's is not, which is where
`ZeroMeansAllKilled` stops and the code falls short of its comment (section 5).
Assumed: `TableAssumption`, that the table is not empty and each mutation has a
file and a kind.

**The search.** `SearchInv` says that `low` has been measured to fit, that one
more than `high` has been measured not to or cannot by the vectors alone, and
that no probe reports less than the class. The cost is not monotone in the
number of entries, so the argument is not that of a binary search in an ordered
list: it uses only that the two ends were measured and that the memo keeps the
answers (`AskGrows`, `CostStable`). `QuietSearchFindsLargest` is where
the order does matter: when nothing was rounded the cost is the one asked for,
and it grows with the entries, because a larger number has no smaller power of
two above it (`NextPowerOfTwoGrows`, by strong induction on the halving) and the
three cases of the bucket count meet in order (`BucketsGrow`). Assumed: `SizesAssumption`.

**Truncation.** The answer compares the ids `embed` pools with those of the
whole text, whatever the tokenizer; the only step that needs an argument is the
shortcut that skips the second tokenisation when the cut kept the length
(`SameLengthSameText`). `MarkedTextsAreExact` needs something of the tokenizer,
and states it as its hypothesis: `MarkerHasId(id)`, that a text ending in the
marker has the marker's id once, at the end, and a text without it not at all.
A cut of any size then takes that id, and a mean in which it had a share is not
the mean of what is left. The WordPiece tokenizer of the run has it
(`MarkerAssumption` of `MCTruncation`, which TLC evaluates over every text).
Assumed: `CutsAssumption`.

Every invariant a passing run checks is a theorem, and so is the refinement. Only
model-checked: liveness (`EveryCallReturns` twice, `Terminates`), which is out
of the prover's reach, and the properties of the four runs that refute one. What
single states show of them is proved: `SleepersAreWoken`,
`InitialisersAreInCalls`, and for the search that the middle is above `low` and
not above `high`, so that each pass leaves fewer candidates (`MiddleInside`). The
library's induction theorems take an operator, which the provers cannot
instantiate; where an induction is needed (the recursive functions of
`NextPowerOfTwo`, `ListEntries`, `FloatCopies`, `SetNulls`, `WriteFields`) it is
on the least element of the set of numbers that would refute it
(`LeastElement`), and the function is first shown to exist
(`IterationExists`, `DoublesExist`), since a recursive definition in TLA+ is a
choice.

## 5. Where the code and its words disagree

* `encoded_after_clear`. `clear_cache` zeroes `ENCODED` and then clears the
  cache; an `embed` that overlaps it counts its run and stores its vector on
  different sides. README.md says that with `uncached` 0 `encoded` is one per
  distinct value; after such a clear it is not, until the next one.
* `truncation_fewer_ids`. The docs of `truncates` and `core::is_truncated` say
  `embed` "pooled fewer ids". The code answers whether the ids differ, and a
  character cut inside a word leaves other ids: as many, or more when the whole
  word is unknown and the part kept is not. The code's answer is the useful one.
* `sweep_clean_unchecked`. `script_check_failed` takes any status but 0 for a
  kill as long as something was printed. A script that cannot make its check
  prints why and returns 2 (`scripts/check_documented_surface.py:503-508` without
  duckdb or an extension, `scripts/check_quality_claims.py:975-980` without
  PyYAML), so the sweep prints KILLED, and may return 0, for a mutation nothing
  looked at; the comment of `RanNothing` is about that.
* `sweep_git_fails`. `restore` ignores the status of `git checkout`. When it
  fails the mutation stays and the next one is measured on top of it.

Five smaller ones have no run. `embed` never reaching `insert`'s full branch
(`core/cache.rs:367-370`) is not so when two threads see the last free place;
the branch is what `NeverOverCapacity` rests on. `v2!` inside the `if let
Err` of `set_user_data` (`duckdb/capi.rs:335`) leaves the function when the
table lacks the entry, past the line that frees the box: eight bytes leak, on a
table DuckDB v2.0.0 does not hand out. `scripts/mutation_check.py:42-49` has
the packaged artifact deleted after every mutation so that none is left behind
for the next: the orphan of a build killed in its last command writes it after
that, which is why `NothingMutatedIsLeft` makes an exception of one. A Rust
mutation that does not compile executes no test, but its output contains
"error", so `rust_test_failed` (line 1504) does not raise `RanNothing` and the
sweep prints SURVIVED; building `thiserror` is enough to hide a filter that
matches nothing in the same way. And `tree_is_clean` (lines 1430-1431) does not
look at the status of `git status`: one that fails reads as clean, and `git
checkout` may then take the uncommitted work that lines 20-21 say it will not.

## 6. What is not modelled

* The parse of the assets, `model_key`, `conform` and `hex`: pure functions of
  constant bytes, unit-tested. Their outcome (a model, an error, a panic) is
  an input of `FirstUse`, and a width `conform` refuses is a failed encode.
* The bytes of a string, its arena and the lossy decoding.
* Two loads racing for `TABLE`: the same DuckDB hands both the same table.
* The engine under `ChunkCall` step by step: it is the abstract store there.
  The counters `misses`, `encoded` and `capacity` of `cache_stats` are not in
  that store, and are those of `SingleFlight`.
* `check_assertions_can_fail.py`, which works on copies of the scripts by
  parsing their text; the byte formats the artifact scripts read; the wording
  the document checks compare; the check scripts but for how a run of one ends;
  the SQL test runner but for its exit statuses.
* Edits made to the tree while a sweep runs.
* Generated bindings (three quarters of the crates' lines), vendored headers,
  the published model, build recipes, CI.

`PROJECT.json` gives the reason for each.

## 7. Order of the work

The modules were written most important behaviour first, and each can be read
alone in that order: the cache and the engine, the abstract store, the search,
the registration, truncation, the sweep, then first use, the vectors and the
calls over all of them. What could be added beyond the list of section 6:
`ChunkCall` with the detailed engine in place of the store, which is a larger
state space for behaviour the refinement already covers.

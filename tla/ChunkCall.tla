------------------------------ MODULE ChunkCall ------------------------------
(***************************************************************************)
(* DuckDB's workers calling the registered functions, a chunk of rows at a *)
(* time: exec_trampoline and Call::new (crates/subtoken-duckdb/src/capi.rs)*)
(* and the seven bodies (lib.rs), over the engine and what it builds on    *)
(* first use.                                                              *)
(*                                                                         *)
(* The engine is the abstract store, which SingleFlight is checked to      *)
(* implement: a row is asked and then answered in one step.  Of the        *)
(* counters the store has the hits and the rows declined; the others and   *)
(* the capacity are left out of cache_stats here.                          *)
(*                                                                         *)
(* The chunk is a worker's own, so reading it is one step; writing the     *)
(* result is a step for each call and copy.  Every call into DuckDB may    *)
(* fail.  A panic leaves by the road of an Err: guard turns the one into   *)
(* the other.  The entries that report an error are taken as present, and  *)
(* DuckDB's slot as there.                                                 *)
(***************************************************************************)
EXTENDS FirstUse, VectorIO

CONSTANTS
  Threads,              \* DuckDB worker threads
  Texts,                \* the distinct strings rows hold
  Encoder,              \* Encoder[x]: the vector of x, or Failure
  Failure,              \* an encode that returned Err or panicked
  None,                 \* no text asked, or no answer
  Capacity,             \* the capacity computed from the model's width
  TruncatedTexts,       \* the texts is_truncated says yes to
  Functions,            \* which functions the queries call
  Chunks,               \* the argument vectors the executor may pass
  ChildRoom,            \* the room a LIST result's child starts with
  MaxCalls              \* bound: calls in a behaviour

AllFunctions == {"embed", "is_truncated", "version", "model_id", "models",
                 "cache_stats", "cache_clear"}

ASSUME FunctionsAssumption == Functions \subseteq AllFunctions
ASSUME ThreadAssumption == NoThread \notin Threads
ASSUME TextAssumption == None \notin Texts /\ Null \notin Texts
ASSUME CapacityAssumption == Capacity \in Nat
ASSUME RoomAssumption == ChildRoom \in Nat
ASSUME ChunksAssumption == \A chunk \in Chunks : IsColumn(chunk)

\* A vector has the width of the model: conform sees to it.
ASSUME EncoderAssumption ==
  \A x \in Texts : Encoder[x] # Failure =>
    Encoder[x] = [n \in 1 .. Dim |-> Encoder[x][n]]

VARIABLES
  store, asked, answer, hits, declined,     \* the engine
  call,                 \* call[t]: the call t makes, or made last
  calls                 \* calls made

storeVars == <<store, asked, answer, hits, declined>>
vars == <<onceVars, storeVars, call, calls>>

Engine == INSTANCE FillOnceStore

\* The vectors of a result: its own, a LIST's floats, a STRUCT's fields.
ResultVectors(function) ==
  {Result} \cup CASE function = "embed"       -> {Child(0)}
                  [] function = "models"      -> {Child(n) : n \in 0 .. 7}
                  [] function = "cache_stats" -> {Child(n) : n \in 0 .. 2}
                  [] OTHER                    -> {}

\* A result as DuckDB hands it over: room for every row, no NULLs.
FreshResult(function, rows) ==
  [v \in ResultVectors(function) |->
     NewVector(IF function = "embed" /\ v # Result THEN ChildRoom ELSE rows)]

NoCall ==
  [pc |-> "idle", function |-> "none", chunk |-> [rows |-> 0], cells |-> <<>>,
   values |-> <<>>, steps |-> <<>>, result |-> <<>>, slot |-> "empty", cleared |-> FALSE]

Init ==
  /\ OnceInit
  /\ Engine!Init
  /\ call = [t \in Threads |-> NoCall]
  /\ calls = 0

At(t, pc) == call[t].pc = pc
Running(t, functions) == call[t].function \in functions

\* A step of the call of t: where it goes, with the fields that change.
Goto(t, pc) == call' = [call EXCEPT ![t].pc = pc]
GotoWith(t, pc, field, value) ==
  call' = [call EXCEPT ![t] = [[@ EXCEPT !.pc = pc] EXCEPT ![field] = value]]

TakesText == {"embed", "is_truncated"}
AsksForModel == {"version", "model_id", "models"}
AsksForCache == {"cache_stats", "cache_clear"}

\* MODEL_FIELDS, each field holding its own name.
ModelFields ==
  <<"model", "backend", "revision", "width", "input_limit", "licence", "tier", "key">>

\* Mutant: the numbers are written where the text before them ends.
ModelWritesInOrder ==
  <<<<0, "model">>, <<1, "backend">>, <<2, "revision">>, <<3, "licence">>,
    <<4, "tier">>, <<5, "key">>, <<6, "width">>, <<7, "input_limit">>>>

\* The fields models writes and their values, the text before the numbers.
ModelWrites ==
  <<<<0, "model">>, <<1, "backend">>, <<2, "revision">>, <<5, "licence">>,
    <<6, "tier">>, <<7, "key">>, <<3, "width">>, <<4, "input_limit">>>>

-----------------------------------------------------------------------------
(***************************************************************************)
(* The call and its argument.                                              *)
(***************************************************************************)

\* DuckDB calls exec_trampoline on an idle worker.
CallFunction(t, function, chunk) ==
  /\ At(t, "idle") \/ At(t, "returned")
  /\ function \in Functions
  /\ calls < MaxCalls
  /\ calls' = calls + 1
  /\ call' = [call EXCEPT ![t] =
       [NoCall EXCEPT
          !.pc = "enter", !.function = function,
          !.chunk = IF function \in TakesText THEN chunk ELSE [rows |-> chunk.rows],
          !.result = FreshResult(function, chunk.rows)]]
  /\ UNCHANGED <<onceVars, storeVars>>

\* Err, or a panic that guard caught, on the road back to the trampoline.  What
\* has been written goes with the chunk.
Fail(t) ==
  call' = [call EXCEPT ![t].pc = "report", ![t].steps = <<>>, ![t].result = <<>>]

\* Get the user data, which is there, and build the Call, which refuses a
\* result vector that is not FLAT.
Enter(t) ==
  /\ At(t, "enter")
  /\ \/ Goto(t, IF Running(t, TakesText) THEN "argument" ELSE "body")
     \/ Fail(t)
  /\ UNCHANGED <<onceVars, storeVars, calls>>

ReadArgument(t) ==
  /\ At(t, "argument")
  /\ \/ GotoWith(t, "rows", "cells", VarcharArg(call[t].chunk))
     \/ Fail(t)
  /\ UNCHANGED <<onceVars, storeVars, calls>>

-----------------------------------------------------------------------------
(***************************************************************************)
(* The rows of embed and is_truncated, in order.  A NULL row asks nobody.  *)
(***************************************************************************)
Row(t) == Len(call[t].values)
Cell(t) == call[t].cells[Row(t)]
RowsLeft(t) == At(t, "rows") /\ Row(t) < call[t].chunk.rows
TextNext(t) == RowsLeft(t) /\ Cell(t) # Null

AppendRow(t, value) ==
  GotoWith(t, "rows", "values", Append(call[t].values, value))

NullRow(t) ==
  /\ RowsLeft(t)
  /\ Cell(t) = Null
  /\ AppendRow(t, Null)
  /\ UNCHANGED <<onceVars, storeVars, calls>>

TruncatedRow(t) ==
  /\ TextNext(t)
  /\ Running(t, {"is_truncated"})
  /\ bundled = "model"
  /\ AppendRow(t, Cell(t) \in TruncatedTexts)
  /\ UNCHANGED <<onceVars, storeVars, calls>>

\* Mutant: the first cell of the chunk is embedded for every row.
AskFirstRow(t) ==
  /\ TextNext(t)
  /\ Running(t, {"embed"})
  /\ bundled = "model"
  /\ width # 0
  /\ Engine!Ask(t, call[t].cells[0])
  /\ Goto(t, "asked")
  /\ UNCHANGED <<onceVars, calls>>

\* Mutant: the body calls embed_uncached.
AskUncached(t) ==
  /\ TextNext(t)
  /\ Running(t, {"embed"})
  /\ bundled = "model"
  /\ width # 0
  /\ Engine!AnswerUncached(t, Cell(t))
  /\ \/ answer'[t] # Failure /\ AppendRow(t, answer'[t])
     \/ answer'[t] = Failure /\ Fail(t)
  /\ UNCHANGED <<onceVars, calls>>

\* core::embed, which has the model and the cache in hand.
AskRow(t) ==
  /\ TextNext(t)
  /\ Running(t, {"embed"})
  /\ bundled = "model"
  /\ width # 0
  /\ Engine!Ask(t, Cell(t))
  /\ Goto(t, "asked")
  /\ UNCHANGED <<onceVars, calls>>

EngineAnswers(t) ==
  \/ Engine!AnswerFromStore(t) \/ Engine!AnswerAndAdmit(t)
  \/ Engine!AnswerDeclined(t) \/ Engine!AnswerFailed(t)

\* A failed encode fails the whole call; the rows before it stay embedded.
AnswerRow(t) ==
  /\ At(t, "asked")
  /\ EngineAnswers(t)
  /\ \/ answer'[t] # Failure /\ AppendRow(t, answer'[t])
     \/ answer'[t] = Failure /\ Fail(t)
  /\ UNCHANGED <<onceVars, calls>>

-----------------------------------------------------------------------------
(***************************************************************************)
(* The bodies that take no text.  What they read, they read once, and      *)
(* write into every row.                                                   *)
(***************************************************************************)
Constant(t, value) == [n \in 1 .. call[t].chunk.rows |-> value]

\* version, which never fails, model_id and models.
ModelBody(t) ==
  /\ At(t, "body")
  /\ Running(t, AsksForModel)
  /\ bundled # "unset"
  /\ IF bundled = "error" /\ ~Running(t, {"version"})
     THEN Fail(t)
     ELSE GotoWith(t, "done", "values",
            IF Running(t, {"models"})
            THEN ModelWrites
            ELSE Constant(t, <<call[t].function, bundled>>))
  /\ UNCHANGED <<onceVars, storeVars, calls>>

StatsBody(t) ==
  /\ At(t, "body")
  /\ Running(t, {"cache_stats"})
  /\ width # 0
  /\ GotoWith(t, "done", "values",
       <<<<0, hits>>, <<1, declined>>, <<2, Cardinality(DOMAIN store)>>>>)
  /\ UNCHANGED <<onceVars, storeVars, calls>>

\* cleared marks the other calls in progress; the code keeps no such mark.
ClearBody(t) ==
  /\ At(t, "body")
  /\ Running(t, {"cache_clear"})
  /\ width # 0
  /\ Engine!ClearAll
  /\ call' = [u \in Threads |->
       IF u = t
       THEN [call[u] EXCEPT !.pc = "done",
                            !.values = Constant(t, Cardinality(DOMAIN store))]
       ELSE [call[u] EXCEPT !.cleared = TRUE]]
  /\ UNCHANGED <<onceVars, calls>>

-----------------------------------------------------------------------------
(***************************************************************************)
(* First use.  A thread waits for the model, or loads it, at a row with    *)
(* text, in a body that reads it, or inside CACHE's initialiser; for the   *)
(* cache where the engine is called and in the two bodies that read it.    *)
(***************************************************************************)
WantsModel(t) ==
  \/ TextNext(t)
  \/ At(t, "body") /\ Running(t, AsksForModel)
  \/ sizer = t

WantsCache(t) ==
  \/ TextNext(t) /\ Running(t, {"embed"}) /\ bundled = "model"
  \/ At(t, "body") /\ Running(t, AsksForCache)

Initialise(t) ==
  /\ \/ WantsModel(t) /\ StartLoad(t)
     \/ WantsCache(t) /\ StartSizing(t)
     \/ EndLoad(t)
     \/ EndSizing(t)
  /\ UNCHANGED <<storeVars, call, calls>>

InitialiserPanics(t) ==
  /\ PanicInLoad(t)
  /\ Fail(t)
  /\ UNCHANGED <<storeVars, calls>>

\* bundled()? in a row.
ModelUnavailable(t) ==
  /\ TextNext(t)
  /\ bundled = "error"
  /\ Fail(t)
  /\ UNCHANGED <<onceVars, storeVars, calls>>

-----------------------------------------------------------------------------
(***************************************************************************)
(* The result.                                                             *)
(***************************************************************************)
Steps(t) ==
  LET values == call[t].values
  IN  CASE Running(t, {"embed"})                 -> WriteFloatLists(values)
        [] Running(t, {"is_truncated"})          -> WriteBools(values)
        [] Running(t, {"models", "cache_stats"}) -> WriteFields(values, call[t].chunk.rows)
        [] OTHER                                 -> WriteCells(Result, values)

\* The body has a value for every row (check_len) and begins to write.
StartWriting(t) ==
  /\ \/ At(t, "done")
     \/ At(t, "rows") /\ Row(t) = call[t].chunk.rows
  /\ GotoWith(t, "write", "steps", Steps(t))
  /\ UNCHANGED <<onceVars, storeVars, calls>>

\* The next step of the writer, which may fail.
WriteStep(t) ==
  /\ At(t, "write")
  /\ call[t].steps # <<>>
  /\ \/ call' = [call EXCEPT ![t].result = Effect(@, Head(call[t].steps)),
                              ![t].steps = Tail(@)]
     \/ Fail(t)
  /\ UNCHANGED <<onceVars, storeVars, calls>>

Return(t) ==
  /\ At(t, "write")
  /\ call[t].steps = <<>>
  /\ Goto(t, "returned")
  /\ UNCHANGED <<onceVars, storeVars, calls>>

\* Mutant: the error is dropped.
ReportNothing(t) ==
  /\ At(t, "report")
  /\ Goto(t, "returned")
  /\ UNCHANGED <<onceVars, storeVars, calls>>

\* The trampoline writes the error into DuckDB's slot.
Report(t) ==
  /\ At(t, "report")
  /\ GotoWith(t, "returned", "slot", "error")
  /\ UNCHANGED <<onceVars, storeVars, calls>>

-----------------------------------------------------------------------------
\* What t does on its own inside a call.
Proceed(t) ==
  \/ Enter(t) \/ ReadArgument(t)
  \/ NullRow(t) \/ TruncatedRow(t) \/ AskRow(t) \/ AnswerRow(t)
  \/ ModelBody(t) \/ StatsBody(t) \/ ClearBody(t)
  \/ Initialise(t) \/ InitialiserPanics(t) \/ ModelUnavailable(t)
  \/ StartWriting(t) \/ WriteStep(t) \/ Return(t) \/ Report(t)

\* Every call has returned and the bound allows no further one.
Finished ==
  /\ calls >= MaxCalls
  /\ \A t \in Threads : At(t, "idle") \/ At(t, "returned")
  /\ UNCHANGED vars

Next ==
  \/ \E t \in Threads, function \in Functions, chunk \in Chunks :
       CallFunction(t, function, chunk)
  \/ \E t \in Threads : Proceed(t)
  \/ Finished

Spec == Init /\ [][Next]_vars

\* A worker inside a call is scheduled again, and the operating system lets one
\* of the threads blocked on an initialiser run when it is over.
FairSpec == Spec /\ \A t \in Threads : WF_vars(Proceed(t))

-----------------------------------------------------------------------------
(***************************************************************************)
(* Properties.                                                             *)
(***************************************************************************)
PCs == {"idle", "enter", "argument", "rows", "asked", "body", "done", "write", "report", "returned"}

\* The type of the state that the calls share, and where each call may be: one
\* that is asked waits for the text of its next row, and no other waits.
TypeOK ==
  /\ assets \in AssetChoices
  /\ bundled \in {"unset", "model", "error"}
  /\ loader \in Threads \cup {NoThread}
  /\ sizer \in Threads \cup {NoThread}
  /\ width \in {0, 1, Dim}
  /\ DOMAIN store \subseteq Texts
  /\ \A t \in Threads :
       /\ call[t].pc \in PCs
       /\ call[t].slot \in {"empty", "error"}
       /\ call[t].cleared \in BOOLEAN
       /\ asked[t] = IF At(t, "asked") THEN Cell(t) ELSE None

Silent(t) == At(t, "returned") /\ call[t].slot = "empty"

\* What SQL asked of the row, from the argument DuckDB passed.
Answer(t, row) ==
  LET text == Logical(call[t].chunk, row)
      OfText(value) == IF text = Null THEN Null ELSE value
  IN  CASE Running(t, {"embed"})        -> OfText(Encoder[text])
        [] Running(t, {"is_truncated"}) -> OfText(text \in TruncatedTexts)
        [] Running(t, {"models"})       -> ModelFields
        [] Running(t, {"cache_stats"})  -> [n \in 1 .. 3 |-> call[t].values[n][2]]
        [] OTHER                        -> call[t].values[row + 1]

\* What DuckDB finds in the row.
Found(t, row) ==
  CASE Running(t, {"embed"})       -> ReadList(call[t].result, row)
    [] Running(t, {"models"})      -> ReadFields(call[t].result, row, Len(ModelFields))
    [] Running(t, {"cache_stats"}) -> ReadFields(call[t].result, row, 3)
    [] OTHER                       -> ReadCell(call[t].result, row)

\* A call that leaves the slot empty has answered every row: DuckDB reads back
\* the vector of the text SQL says the row holds, NULL for NULL and for nothing
\* else, whatever form the column came in, whoever embedded the text and
\* whatever failed beside it.  A writer that stopped half way is never silent.
ResultIsAnswer ==
  \A t \in Threads : Silent(t) =>
    /\ call[t].result # <<>>
    /\ \A row \in Rows(call[t].chunk) : Found(t, row) = Answer(t, row)

\* No writer writes through a pointer that sizing has made stale, or past the
\* room it asked for ("the child is sized before its data pointer is fetched,
\* because reserving can move the data", capi.rs:542-544), even in a call that
\* then fails; and a reader that ignores validity finds a well-formed entry in
\* a NULL row too (capi.rs:776-778).
WritesStayInside ==
  \A t \in Threads :
    /\ \A v \in DOMAIN call[t].result : ~call[t].result[v].wild
    /\ Silent(t) /\ Running(t, {"embed"}) =>
         \A row \in Rows(call[t].chunk) :
           LET entry == call[t].result[Result].cells[row]
           IN  entry.offset + entry.length <= call[t].result[Child(0)].size

\* A query that fails keeps what it paid for: until somebody clears, the rows a
\* call embedded before it failed or returned are held, or the store is full,
\* so the query run again encodes none of them (lib.rs:139-149 of the functions
\* over "repeating a call for the same text ... does not re-embed", core
\* lib.rs:16-17).
EarlierRowsAreKept ==
  \A t \in Threads : Running(t, {"embed"}) /\ ~call[t].cleared =>
    \A n \in 1 .. Len(call[t].values) :
      call[t].cells[n - 1] # Null =>
        \/ call[t].cells[n - 1] \in DOMAIN store
        \/ Cardinality(DOMAIN store) >= Capacity

\* Whoever asks first, and for whatever, the capacity is the one of the model's
\* width wherever a vector is or can be stored: a session that begins with
\* cache_stats does not size its cache for vectors of width 1, unless there is
\* no model and so no vector ever.
CapacityIsForTheModel ==
  /\ \A t \in Threads : At(t, "asked") => width = Dim
  /\ DOMAIN store # {} => width = Dim
  /\ width \notin {0, Dim} => bundled = "error"

\* No initialiser is left behind (OnceLock, bundled and cache): who runs one is
\* inside a call that still needs its value, whatever the load did, so those
\* blocked on it wait for a worker that goes on.  This is what of
\* EveryCallReturns every single state shows.
InitialisersAreInCalls ==
  \A t \in Threads :
    /\ loader = t => WantsModel(t)
    /\ sizer = t => WantsCache(t)

\* Every call returns: no thread is left blocked on an initialiser, though one
\* initialiser asks for the other's value and either may panic.
EveryCallReturns ==
  \A t \in Threads : ~At(t, "returned") /\ ~At(t, "idle") ~> At(t, "returned")

=============================================================================

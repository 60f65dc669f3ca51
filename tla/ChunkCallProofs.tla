--------------------------- MODULE ChunkCallProofs ---------------------------
(***************************************************************************)
(* The calls of DuckDB's workers, for every set of threads, texts, columns *)
(* and functions: the types, the capacity, what a failed call leaves       *)
(* behind, and that a call which reports no error has written the right    *)
(* answer for every row, inside the vectors DuckDB gave it.                *)
(*                                                                         *)
(* Two inductive invariants.  CallInv is of what the calls share: every    *)
(* step but four (CallFunction, AskRow, AnswerRow, ClearBody) leaves the   *)
(* engine alone and moves one call on by at most a value.  ReplyInv is of  *)
(* each call by itself, up to the result it writes step by step; of the    *)
(* engine it needs that an answer is the vector of the text asked for.     *)
(* What the steps of a writer do to a result is in VectorIOProofs.         *)
(***************************************************************************)
EXTENDS ChunkCall, VectorIOProofs, FiniteSetTheorems, TLAPS

-----------------------------------------------------------------------------
(***************************************************************************)
(* First use.  Once CACHE has a capacity the load is over, and the         *)
(* capacity is that of how it ended; nothing is asked for or stored before *)
(* there is a model and a capacity.                                        *)
(***************************************************************************)
Fields == {"pc", "function", "chunk", "cells", "values", "steps", "result", "slot", "cleared"}

\* call is a record for each thread.
Shape == DOMAIN call = Threads /\ \A t \in Threads : DOMAIN call[t] = Fields

OnceOK ==
  /\ assets \in AssetChoices
  /\ bundled \in {"unset", "model", "error"}
  /\ loader \in Threads \cup {NoThread}
  /\ sizer \in Threads \cup {NoThread}
  /\ loader # NoThread => bundled = "unset"
  /\ width # 0 => bundled # "unset" /\ width = IF bundled = "model" THEN Dim ELSE 1

Ready == bundled = "model" /\ width # 0

\* A step of an initialiser, a panic included, keeps the two statics in order.
LEMMA OnceStep ==
  ASSUME OnceOK, NEW t \in Threads,
         \/ StartLoad(t) \/ EndLoad(t) \/ PanicInLoad(t) \/ StartSizing(t) \/ EndSizing(t)
         \/ UNCHANGED onceVars
  PROVE  OnceOK' /\ (Ready => Ready')
<1>1. CASE StartLoad(t) \/ StartSizing(t) \/ PanicInLoad(t) \/ UNCHANGED onceVars
  BY <1>1, ThreadAssumption DEF StartLoad, StartSizing, PanicInLoad, onceVars, OnceOK, Ready
<1>2. CASE EndLoad(t)
  <2>1. bundled = "unset" /\ width = 0
    BY <1>2, ThreadAssumption DEF EndLoad, OnceOK
  <2>2. bundled' \in {"model", "error"}
    BY <1>2, AssetsAssumption DEF EndLoad, OnceOK
  <2> QED
    BY <1>2, <2>1, <2>2 DEF EndLoad, OnceOK, Ready
<1>3. CASE EndSizing(t)
  BY <1>3, DimAssumption DEF EndSizing, OnceOK, Ready
<1> QED
  BY <1>1, <1>2, <1>3

-----------------------------------------------------------------------------
(***************************************************************************)
(* The calls.                                                              *)
(***************************************************************************)
Answers == {Null} \cup {Encoder[x] : x \in Texts}

Full == Cardinality(DOMAIN store) >= Capacity

\* The rows a call has embedded are held, or the store is full.
KeptBy(t) ==
  Running(t, {"embed"}) /\ ~call[t].cleared =>
    \A n \in 1 .. Len(call[t].values) :
      call[t].cells[n - 1] # Null => call[t].cells[n - 1] \in DOMAIN store \/ Full

CallOK(t) ==
  /\ call[t].pc \in PCs
  /\ call[t].slot \in {"empty", "error"}
  /\ call[t].cleared \in BOOLEAN
  /\ At(t, "enter") \/ At(t, "argument") => call[t].values = <<>>
  /\ Running(t, {"embed"}) => call[t].values \in Seq(Answers)
  /\ At(t, "asked") => Running(t, {"embed"})
  /\ asked[t] = IF At(t, "asked") THEN Cell(t) ELSE None
  /\ KeptBy(t)

StoreOK ==
  /\ DOMAIN asked = Threads /\ DOMAIN answer = Threads
  /\ DOMAIN store \subseteq Texts /\ IsFiniteSet(DOMAIN store)
  /\ \A x \in DOMAIN store : store[x] = Encoder[x]
  /\ (\E t \in Threads : At(t, "asked")) \/ DOMAIN store # {} => Ready

CallInv == Shape /\ OnceOK /\ StoreOK /\ \A t \in Threads : CallOK(t)

\* No call has begun and the store is empty.
LEMMA CallInit == Init => CallInv
<1> SUFFICES ASSUME Init
             PROVE  CallInv
  OBVIOUS
<1>1. DOMAIN store = {} /\ IsFiniteSet(DOMAIN store)
  BY FS_EmptySet DEF Init, Engine!Init
<1>2. \A t \in Threads : call[t] = NoCall /\ asked[t] = None
  BY DEF Init, Engine!Init
<1>3. Shape
  BY <1>2 DEF Shape, Init, NoCall, Fields
<1>4. OnceOK
  BY DEF Init, OnceInit, OnceOK
<1>5. StoreOK
  BY <1>1, <1>2 DEF Init, Engine!Init, StoreOK, At, NoCall
<1>6. ASSUME NEW t \in Threads
      PROVE  CallOK(t)
  <2>1. /\ call[t].pc = "idle" /\ call[t].function = "none" /\ call[t].values = <<>>
        /\ call[t].slot = "empty" /\ call[t].cleared = FALSE
    BY <1>2 DEF NoCall
  <2> QED
    BY <1>2, <2>1 DEF CallOK, KeptBy, At, Running, PCs
<1> QED
  BY <1>3, <1>4, <1>5, <1>6 DEF CallInv

\* Another call is what it was.
Same(u) == call'[u] = call[u] /\ asked'[u] = asked[u]

\* The store has what it had, and is full if it was.
Grows ==
  /\ DOMAIN store \subseteq DOMAIN store'
  /\ Full => Full'

\* A call that nobody moved is right after a step in which the store grew.
LEMMA SameIsOK ==
  ASSUME NEW u \in Threads, CallOK(u), Same(u), Grows
  PROVE  CallOK(u)'
  BY DEF CallOK, KeptBy, Same, Grows, At, Running, Cell, Row

\* The steps that leave the engine alone: a call goes on to another point, with
\* what it has, or with a cell read, or past a row that is NULL, or, where the
\* function takes no text, with whatever it writes.
Onward(t) ==
  /\ UNCHANGED storeVars
  /\ ~At(t, "asked")
  /\ DOMAIN call' = Threads /\ DOMAIN call'[t] = Fields
  /\ \A u \in Threads \ {t} : call'[u] = call[u]
  /\ call'[t].pc \in PCs \ {"asked", "enter"}
  /\ call'[t].pc = "argument" => At(t, "enter")
  /\ call'[t].slot \in {"empty", "error"}
  /\ call'[t].function = call[t].function /\ call'[t].cleared = call[t].cleared

KeepsCells(t) == call'[t].values = call[t].values /\ call'[t].cells = call[t].cells

OnwardWith(t) ==
  \/ KeepsCells(t)
  \/ At(t, "argument") /\ call'[t].values = call[t].values /\ call'[t].pc = "rows"
  \/ /\ call[t].cells[Row(t)] = Null /\ call'[t].pc = "rows"
     /\ call'[t].values = Append(call[t].values, Null)
     /\ call'[t].cells = call[t].cells
  \/ ~Running(t, {"embed"}) /\ call'[t].pc # "argument"

\* A step onward leaves embed's values answers, and the rows before it kept.
LEMMA OnwardKeeps ==
  ASSUME CallInv, NEW t \in Threads, Onward(t), OnwardWith(t)
  PROVE  /\ Running(t, {"embed"}) => call'[t].values \in Seq(Answers)
         /\ call'[t].pc = "argument" => call'[t].values = <<>>
         /\ KeptBy(t)'
<1>0. CallOK(t) /\ (Full <=> Full') /\ store' = store /\ (Running(t, {"embed"}) <=> Running(t, {"embed"})')
  BY DEF CallInv, Onward, storeVars, Full, Running
<1>1. CASE KeepsCells(t)
  BY <1>0, <1>1 DEF KeepsCells, Onward, CallOK, KeptBy
<1>2. CASE At(t, "argument") /\ call'[t].values = call[t].values /\ call'[t].pc = "rows"
  <2>1. call'[t].values = <<>> /\ Len(<<>>) = 0
    BY <1>0, <1>2 DEF CallOK
  <2> QED
    BY <1>0, <1>2, <2>1 DEF CallOK, KeptBy
<1>3. CASE /\ call[t].cells[Row(t)] = Null /\ call'[t].pc = "rows"
           /\ call'[t].values = Append(call[t].values, Null)
           /\ call'[t].cells = call[t].cells
  <2> SUFFICES ASSUME Running(t, {"embed"})
               PROVE  call'[t].values \in Seq(Answers) /\ KeptBy(t)'
    BY <1>0, <1>3 DEF KeptBy
  <2>1. call[t].values \in Seq(Answers) /\ Null \in Answers
    BY <1>0 DEF CallOK, Answers
  <2>2. call'[t].values \in Seq(Answers) /\ Len(call'[t].values) = Row(t) + 1 /\ Row(t) \in Nat
    BY <1>3, <2>1 DEF Row
  <2>3. ASSUME ~call[t].cleared, NEW n \in 1 .. Len(call'[t].values),
               call[t].cells[n - 1] # Null
        PROVE  call[t].cells[n - 1] \in DOMAIN store \/ Full
    <3>1. n # Row(t) + 1
      BY <1>3, <2>2, <2>3
    <3>2. n \in 1 .. Len(call[t].values)
      BY <2>2, <3>1 DEF Row
    <3> QED
      BY <1>0, <2>3, <3>2 DEF CallOK, KeptBy
  <2> QED
    BY <1>0, <1>3, <2>2, <2>3 DEF KeptBy, Onward
<1>4. CASE ~Running(t, {"embed"}) /\ call'[t].pc # "argument"
  BY <1>0, <1>4 DEF KeptBy
<1> QED
  BY <1>1, <1>2, <1>3, <1>4 DEF OnwardWith

\* Nor does it disturb the other calls or the store.
LEMMA OnwardIsOK ==
  ASSUME CallInv, NEW t \in Threads, Onward(t), OnwardWith(t), Ready => Ready'
  PROVE  Shape' /\ StoreOK' /\ \A u \in Threads : CallOK(u)'
<1>0. Grows
  BY DEF storeVars, Grows, Full, Onward
<1>1. CallOK(t)'
  <2>1. asked'[t] = None /\ ~At(t, "asked")' /\ ~At(t, "enter")'
    BY DEF CallInv, CallOK, Onward, storeVars, At
  <2> QED
    BY <2>1, OnwardKeeps DEF CallInv, CallOK, Onward, At, Running
<1>2. ASSUME NEW u \in Threads, u # t
      PROVE  CallOK(u)'
  BY <1>0, <1>2, SameIsOK DEF CallInv, Same, storeVars, Onward
<1>3. Shape'
  BY DEF CallInv, Shape, Onward
<1>4. StoreOK'
  <2>1. \A u \in Threads : At(u, "asked")' => At(u, "asked")
    BY DEF At, Onward
  <2> QED
    BY <2>1 DEF CallInv, StoreOK, storeVars, Onward
<1> QED
  BY <1>1, <1>2, <1>3, <1>4

\* The steps of a call that neither ask the engine nor clear it.
LEMMA OnwardSteps ==
  ASSUME CallInv, NEW t \in Threads,
         \/ Enter(t) \/ ReadArgument(t) \/ NullRow(t) \/ TruncatedRow(t)
         \/ ModelBody(t) \/ StatsBody(t)
         \/ InitialiserPanics(t) /\ ~At(t, "asked")
         \/ ModelUnavailable(t)
         \/ StartWriting(t) \/ WriteStep(t) \/ Return(t) \/ Report(t)
  PROVE  Onward(t) /\ OnwardWith(t)
<1>0. /\ DOMAIN call = Threads /\ DOMAIN call[t] = Fields /\ CallOK(t)
  BY DEF CallInv, Shape
<1> USE <1>0 DEF Onward, OnwardWith, KeepsCells, Fields, CallOK, PCs, At
<1>1. ASSUME UNCHANGED storeVars, ~At(t, "asked"), Fail(t)
      PROVE  Onward(t) /\ OnwardWith(t)
  BY <1>1 DEF Fail
<1>2. ASSUME UNCHANGED storeVars, ~At(t, "asked"), NEW pc \in PCs \ {"asked", "enter"},
             Goto(t, pc), pc = "argument" => At(t, "enter")
      PROVE  Onward(t) /\ OnwardWith(t)
  BY <1>2 DEF Goto
<1>3. CASE Enter(t)
  BY <1>1, <1>2, <1>3 DEF Enter
<1>4. CASE ReadArgument(t)
  <2>1. CASE GotoWith(t, "rows", "cells", VarcharArg(call[t].chunk))
    BY <1>4, <2>1 DEF ReadArgument, GotoWith
  <2> QED
    BY <1>1, <1>4, <2>1 DEF ReadArgument
<1>5. CASE NullRow(t)
  BY <1>5 DEF NullRow, RowsLeft, AppendRow, GotoWith, Cell
<1>6. CASE TruncatedRow(t)
  BY <1>6 DEF TruncatedRow, TextNext, RowsLeft, AppendRow, GotoWith, Running
<1>7. CASE ModelBody(t)
  <2>1. ~Running(t, {"embed"}) /\ At(t, "body") /\ UNCHANGED storeVars
    BY <1>7 DEF ModelBody, Running, AsksForModel
  <2>2. ASSUME NEW v, GotoWith(t, "done", "values", v)
        PROVE  Onward(t) /\ OnwardWith(t)
    BY <2>1, <2>2 DEF GotoWith
  <2> QED
    BY <1>1, <1>7, <2>1, <2>2 DEF ModelBody
<1>8. CASE StatsBody(t)
  <2>1. ~Running(t, {"embed"}) /\ At(t, "body") /\ UNCHANGED storeVars
    BY <1>8 DEF StatsBody, Running
  <2>2. \E v : GotoWith(t, "done", "values", v)
    BY <1>8 DEF StatsBody
  <2> QED
    BY <2>1, <2>2 DEF GotoWith
<1>9. CASE InitialiserPanics(t) /\ ~At(t, "asked")
  BY <1>1, <1>9 DEF InitialiserPanics
<1>10. CASE ModelUnavailable(t)
  BY <1>1, <1>10 DEF ModelUnavailable, TextNext, RowsLeft
<1>11. CASE StartWriting(t)
  <2>1. \E steps : GotoWith(t, "write", "steps", steps)
    BY <1>11 DEF StartWriting
  <2> QED
    BY <1>11, <2>1 DEF StartWriting, GotoWith
<1>12. CASE WriteStep(t)
  <2>1. CASE \E result, steps : call' = [call EXCEPT ![t].result = result, ![t].steps = steps]
    BY <1>12, <2>1 DEF WriteStep
  <2> QED
    BY <1>1, <1>12, <2>1 DEF WriteStep
<1>13. CASE Return(t)
  BY <1>2, <1>13 DEF Return
<1>14. CASE Report(t)
  BY <1>14 DEF Report, GotoWith
<1> QED
  BY <1>3, <1>4, <1>5, <1>6, <1>7, <1>8, <1>9, <1>10, <1>11, <1>12, <1>13, <1>14

-----------------------------------------------------------------------------
(***************************************************************************)
(* The steps that begin a call, ask the engine, are answered, and clear.   *)
(***************************************************************************)
LEMMA BeginsOK ==
  ASSUME CallInv, NEW t \in Threads, NEW function \in Functions, NEW chunk,
         CallFunction(t, function, chunk)
  PROVE  CallInv'
<1>0. DOMAIN call = Threads /\ CallOK(t) /\ UNCHANGED storeVars /\ UNCHANGED onceVars
  BY DEF CallInv, Shape, CallFunction
<1>1. \A u \in Threads \ {t} : call'[u] = call[u]
  BY <1>0 DEF CallFunction
<1>2. /\ DOMAIN call' = Threads /\ DOMAIN call'[t] = Fields
      /\ call'[t].pc = "enter" /\ call'[t].values = <<>> /\ call'[t].slot = "empty"
      /\ call'[t].cleared = FALSE
  BY <1>0 DEF CallFunction, NoCall, Fields
<1>3. asked[t] = None
  BY <1>0 DEF CallFunction, CallOK, At
<1>4. CallOK(t)'
  <2>1. asked'[t] = None /\ ~At(t, "asked")'
    BY <1>0, <1>2, <1>3 DEF At, storeVars
  <2>2. <<>> \in Seq(Answers) /\ Len(<<>>) = 0
    OBVIOUS
  <2>3. KeptBy(t)'
    BY <1>2, <2>2 DEF KeptBy
  <2> QED
    BY <1>2, <2>1, <2>2, <2>3 DEF CallOK, PCs
<1>5. ASSUME NEW u \in Threads, u # t
      PROVE  CallOK(u)'
  BY <1>0, <1>1, <1>5, SameIsOK DEF CallInv, Same, storeVars, Grows, Full
<1>6. \A u \in Threads : At(u, "asked")' => At(u, "asked")
  BY <1>1, <1>2 DEF At
<1>7. StoreOK' /\ OnceOK'
  BY <1>0, <1>6 DEF CallInv, StoreOK, OnceOK, storeVars, onceVars, Ready
<1> QED
  BY <1>0, <1>1, <1>2, <1>4, <1>5, <1>7 DEF CallInv, Shape

\* The cardinality the store's module speaks of is the one here.
LEMMA StoreSizes == \A S : Engine!Cardinality(S) = Cardinality(S)
  BY DEF Engine!Cardinality, Cardinality

\* Asking: the call waits for the text of its next row.
LEMMA AskOK ==
  ASSUME CallInv, NEW t \in Threads, AskRow(t)
  PROVE  CallInv'
<1>0. /\ DOMAIN call = Threads /\ DOMAIN call[t] = Fields /\ CallOK(t)
      /\ UNCHANGED <<store, onceVars>> /\ DOMAIN asked = Threads /\ DOMAIN answer = Threads
      /\ Ready
  BY DEF CallInv, Shape, StoreOK, AskRow, Engine!Ask, Ready
<1>1. /\ \A u \in Threads \ {t} : call'[u] = call[u]
      /\ DOMAIN call' = Threads /\ DOMAIN call'[t] = Fields
      /\ call'[t].pc = "asked"
      /\ call'[t].function = call[t].function /\ call'[t].cleared = call[t].cleared
      /\ call'[t].slot = call[t].slot
      /\ call'[t].values = call[t].values /\ call'[t].cells = call[t].cells
  BY <1>0 DEF AskRow, Goto, Fields
<1>2. /\ asked' = [asked EXCEPT ![t] = Cell(t)] /\ answer' = [answer EXCEPT ![t] = None]
      /\ Running(t, {"embed"})
  BY DEF AskRow, Engine!Ask
<1>3. asked'[t] = Cell(t)' /\ Grows
  BY <1>0, <1>1, <1>2 DEF Cell, Row, Grows, Full
<1>4. CallOK(t)'
  BY <1>0, <1>1, <1>2, <1>3 DEF CallOK, KeptBy, At, Running, PCs, Full
<1>5. ASSUME NEW u \in Threads, u # t
      PROVE  CallOK(u)'
  BY <1>0, <1>1, <1>2, <1>3, <1>5, SameIsOK DEF CallInv, Same
<1>6. StoreOK' /\ OnceOK'
  BY <1>0, <1>2 DEF CallInv, StoreOK, OnceOK, onceVars, Ready
<1> QED
  BY <1>0, <1>1, <1>4, <1>5, <1>6 DEF CallInv, Shape

\* An answer that is a vector is the vector of the text asked for, and the text
\* is held by then unless the store is full.
LEMMA EngineStep ==
  ASSUME StoreOK, NEW t \in Threads, EngineAnswers(t)
  PROVE  /\ asked' = [asked EXCEPT ![t] = None]
         /\ DOMAIN asked' = Threads /\ DOMAIN answer' = Threads
         /\ answer'[t] # Failure =>
              /\ answer'[t] = Encoder[asked[t]]
              /\ asked[t] \in DOMAIN store' \/ Full'
         /\ asked[t] \in Texts
         /\ Grows
         /\ DOMAIN store' \subseteq Texts /\ IsFiniteSet(DOMAIN store')
         /\ \A x \in DOMAIN store' : store'[x] = Encoder[x]
         /\ DOMAIN store # {} => DOMAIN store' # {}
<1> USE DEF StoreOK, Engine!Answer, Grows, Full, Engine!Missing
<1>1. CASE Engine!AnswerFromStore(t)
  BY <1>1 DEF Engine!AnswerFromStore
<1>2. CASE Engine!AnswerAndAdmit(t)
  <2>1. /\ DOMAIN store' = DOMAIN store \cup {asked[t]} /\ asked[t] \in Texts
        /\ \A x \in DOMAIN store' : store'[x] = Encoder[x]
        /\ asked[t] \notin DOMAIN store
    BY <1>2 DEF Engine!AnswerAndAdmit
  <2>2. IsFiniteSet(DOMAIN store') /\ Cardinality(DOMAIN store') = Cardinality(DOMAIN store) + 1
        /\ Cardinality(DOMAIN store) \in Nat
    BY <2>1, FS_AddElement, FS_CardinalityType
  <2>3. Full => Full'
    BY <2>2, CapacityAssumption
  <2>4. answer'[t] = Encoder[asked[t]] /\ asked' = [asked EXCEPT ![t] = None]
        /\ DOMAIN answer' = Threads
    BY <1>2 DEF Engine!AnswerAndAdmit
  <2> QED
    BY <2>1, <2>2, <2>3, <2>4
<1>3. CASE Engine!AnswerDeclined(t)
  <2>1. Full
    BY <1>3, StoreSizes DEF Engine!AnswerDeclined
  <2> QED
    BY <1>3, <2>1 DEF Engine!AnswerDeclined
<1>4. CASE Engine!AnswerFailed(t)
  BY <1>4 DEF Engine!AnswerFailed
<1> QED
  BY <1>1, <1>2, <1>3, <1>4 DEF EngineAnswers

\* Being answered: the row joins those the call has embedded.
LEMMA AnswerOK ==
  ASSUME CallInv, NEW t \in Threads, AnswerRow(t)
  PROVE  CallInv'
<1>0. /\ DOMAIN call = Threads /\ DOMAIN call[t] = Fields /\ CallOK(t)
      /\ UNCHANGED onceVars /\ EngineAnswers(t) /\ StoreOK /\ Ready
      /\ At(t, "asked") /\ Running(t, {"embed"}) /\ asked[t] = Cell(t)
  BY DEF CallInv, Shape, StoreOK, AnswerRow, CallOK
<1>1. /\ \A u \in Threads \ {t} : call'[u] = call[u]
      /\ DOMAIN call' = Threads /\ DOMAIN call'[t] = Fields
      /\ call'[t].function = call[t].function /\ call'[t].cleared = call[t].cleared
      /\ call'[t].slot = call[t].slot /\ call'[t].cells = call[t].cells
      /\ call'[t].pc \in {"rows", "report"}
      /\ \/ call'[t].values = call[t].values
         \/ call'[t].values = Append(call[t].values, answer'[t]) /\ answer'[t] # Failure
  <2>1. CASE AppendRow(t, answer'[t]) /\ answer'[t] # Failure
    BY <1>0, <2>1 DEF AppendRow, GotoWith, Fields
  <2>2. CASE Fail(t)
    BY <1>0, <2>2 DEF Fail, Fields
  <2> QED
    BY <2>1, <2>2 DEF AnswerRow
<1>2. asked'[t] = None /\ Grows
  BY <1>0, EngineStep DEF StoreOK
<1>3. call'[t].values \in Seq(Answers) /\ KeptBy(t)'
  <2>1. CASE call'[t].values = call[t].values
    BY <1>0, <1>1, <1>2, <2>1 DEF CallOK, KeptBy, Grows, Running
  <2>2. CASE call'[t].values = Append(call[t].values, answer'[t]) /\ answer'[t] # Failure
    <3>1. answer'[t] = Encoder[asked[t]] /\ asked[t] \in Texts
          /\ (asked[t] \in DOMAIN store' \/ Full')
      BY <1>0, <2>2, EngineStep
    <3>2. answer'[t] \in Answers /\ call[t].values \in Seq(Answers)
      BY <1>0, <3>1 DEF Answers, CallOK
    <3>3. /\ call'[t].values \in Seq(Answers)
          /\ Len(call'[t].values) = Row(t) + 1 /\ Row(t) \in Nat
      BY <2>2, <3>2 DEF Row
    <3>4. ASSUME ~call[t].cleared, NEW n \in 1 .. Len(call'[t].values),
                 call[t].cells[n - 1] # Null
          PROVE  call[t].cells[n - 1] \in DOMAIN store' \/ Full'
      <4>1. CASE n = Row(t) + 1
        <5>1. call[t].cells[n - 1] = asked[t]
          BY <1>0, <3>3, <4>1 DEF Cell
        <5> QED
          BY <3>1, <5>1
      <4>2. CASE n # Row(t) + 1
        <5>1. n \in 1 .. Len(call[t].values)
          BY <3>3, <4>2 DEF Row
        <5> QED
          BY <1>0, <1>2, <3>4, <5>1 DEF CallOK, KeptBy, Grows
      <4> QED
        BY <4>1, <4>2
    <3> QED
      BY <1>1, <3>3, <3>4 DEF KeptBy
  <2> QED
    BY <1>1, <2>1, <2>2
<1>4. CallOK(t)'
  <2>1. ~At(t, "asked")' /\ ~At(t, "enter")' /\ ~At(t, "argument")' /\ call'[t].pc \in PCs
    BY <1>1 DEF At, PCs
  <2> QED
    BY <1>0, <1>1, <1>2, <1>3, <2>1 DEF CallOK
<1>5. ASSUME NEW u \in Threads, u # t
      PROVE  CallOK(u)'
  <2>1. asked'[u] = asked[u]
    BY <1>0, <1>5, EngineStep DEF StoreOK
  <2> QED
    BY <1>1, <1>2, <1>5, <2>1, SameIsOK DEF CallInv, Same
<1>6. StoreOK' /\ OnceOK'
  <2>1. Ready'
    BY <1>0 DEF Ready, onceVars
  <2>2. StoreOK'
    BY <1>0, <2>1, EngineStep DEF StoreOK
  <2> QED
    BY <1>0, <2>2 DEF CallInv, OnceOK, onceVars
<1> QED
  BY <1>0, <1>1, <1>4, <1>5, <1>6 DEF CallInv, Shape

\* Clearing: the other calls in progress are marked.
LEMMA ClearOK ==
  ASSUME CallInv, NEW t \in Threads, ClearBody(t)
  PROVE  CallInv'
<1>0. /\ DOMAIN call = Threads /\ \A u \in Threads : DOMAIN call[u] = Fields
      /\ UNCHANGED <<onceVars, asked, answer>> /\ DOMAIN store' = {}
  BY DEF CallInv, Shape, ClearBody, Engine!ClearAll
<1>1. /\ DOMAIN call' = Threads /\ DOMAIN call'[t] = Fields
      /\ call'[t].pc = "done" /\ call'[t].function = "cache_clear"
      /\ call'[t].slot = call[t].slot /\ call'[t].cleared = call[t].cleared
      /\ call[t].pc = "body"
  BY <1>0 DEF ClearBody, Fields, Running, At
<1>2. ASSUME NEW u \in Threads, u # t
      PROVE  /\ DOMAIN call'[u] = Fields /\ call'[u].cleared = TRUE
             /\ call'[u].pc = call[u].pc /\ call'[u].function = call[u].function
             /\ call'[u].values = call[u].values /\ call'[u].cells = call[u].cells
             /\ call'[u].slot = call[u].slot
  BY <1>0, <1>2 DEF ClearBody, Fields
<1>3. CallOK(t)'
  BY <1>0, <1>1 DEF CallInv, CallOK, KeptBy, At, Running, PCs
<1>4. ASSUME NEW u \in Threads, u # t
      PROVE  CallOK(u)'
  <2>1. CallOK(u) /\ asked'[u] = asked[u]
    BY <1>0 DEF CallInv
  <2>2. Cell(u)' = Cell(u) /\ (At(u, "asked")' <=> At(u, "asked"))
    BY <1>2, <1>4 DEF Cell, Row, At
  <2>3. KeptBy(u)'
    BY <1>2, <1>4 DEF KeptBy
  <2> QED
    BY <1>2, <1>4, <2>1, <2>2, <2>3 DEF CallOK, At, Running
<1>5. \A u \in Threads : At(u, "asked")' => At(u, "asked")
  BY <1>1, <1>2 DEF At
<1>6. StoreOK' /\ OnceOK'
  BY <1>0, <1>5, FS_EmptySet DEF CallInv, StoreOK, OnceOK, onceVars, Ready
<1>7. Shape'
  BY <1>1, <1>2 DEF Shape
<1> QED
  BY <1>3, <1>4, <1>6, <1>7 DEF CallInv

-----------------------------------------------------------------------------
\* A step of an initialiser leaves every call as it is.
LEMMA EngineUntouched ==
  ASSUME CallInv, UNCHANGED <<storeVars, call>>, OnceOK', Ready => Ready'
  PROVE  CallInv'
<1>1. \A u \in Threads : CallOK(u)'
  BY SameIsOK DEF CallInv, Same, storeVars, Grows, Full
<1>2. Shape' /\ StoreOK'
  BY DEF CallInv, Shape, StoreOK, storeVars, At
<1> QED
  BY <1>1, <1>2 DEF CallInv

\* Each step keeps CallInv.
LEMMA CallStep == CallInv /\ [Next]_vars => CallInv'
<1> SUFFICES ASSUME CallInv, [Next]_vars
             PROVE  CallInv'
  OBVIOUS
<1>1. ASSUME NEW t \in Threads, NEW function \in Functions, NEW chunk \in Chunks,
             CallFunction(t, function, chunk)
      PROVE  CallInv'
  BY <1>1, BeginsOK
<1>2. ASSUME NEW t \in Threads, AskRow(t) \/ AnswerRow(t) \/ ClearBody(t)
      PROVE  CallInv'
  BY <1>2, AskOK, AnswerOK, ClearOK
<1>3. ASSUME NEW t \in Threads,
             \/ Enter(t) \/ ReadArgument(t) \/ NullRow(t) \/ TruncatedRow(t)
             \/ ModelBody(t) \/ StatsBody(t) \/ ModelUnavailable(t)
             \/ StartWriting(t) \/ WriteStep(t) \/ Return(t) \/ Report(t)
      PROVE  CallInv'
  <2>1. Onward(t) /\ OnwardWith(t)
    BY <1>3, OnwardSteps
  <2>2. UNCHANGED onceVars
    BY <1>3 DEF Enter, ReadArgument, NullRow, TruncatedRow, ModelBody, StatsBody,
                ModelUnavailable, StartWriting, WriteStep, Return, Report
  <2>3. OnceOK' /\ (Ready => Ready')
    BY <2>2, OnceStep DEF CallInv
  <2> QED
    BY <2>1, <2>3, OnwardIsOK DEF CallInv
<1>4. ASSUME NEW t \in Threads, InitialiserPanics(t)
      PROVE  CallInv'
  <2>1. OnceOK' /\ (Ready => Ready')
    BY <1>4, OnceStep DEF CallInv, InitialiserPanics
  <2>2. ~At(t, "asked")
    BY <1>4, ThreadAssumption
    DEF InitialiserPanics, PanicInLoad, CallInv, OnceOK, StoreOK, Ready
  <2>3. Onward(t) /\ OnwardWith(t)
    BY <1>4, <2>2, OnwardSteps
  <2> QED
    BY <2>1, <2>3, OnwardIsOK DEF CallInv
<1>5. ASSUME NEW t \in Threads, Initialise(t)
      PROVE  CallInv'
  <2>1. OnceOK' /\ (Ready => Ready')
    BY <1>5, OnceStep DEF CallInv, Initialise
  <2>2. UNCHANGED <<storeVars, call, calls>>
    BY <1>5 DEF Initialise
  <2> QED
    BY <2>1, <2>2, EngineUntouched
<1>6. CASE UNCHANGED vars
  <2>1. OnceOK' /\ (Ready => Ready')
    BY <1>6 DEF vars, CallInv, OnceOK, onceVars, Ready
  <2> QED
    BY <1>6, <2>1, EngineUntouched DEF vars
<1> QED
  BY <1>1, <1>2, <1>3, <1>4, <1>5, <1>6 DEF Next, Proceed, Finished

\* What the calls of the workers keep true in every reachable state.
LEMMA CallsFollow == Spec => []CallInv
  BY CallInit, CallStep, PTL DEF Spec

\* Every variable the calls share keeps its type, and a thread the engine holds
\* waits for the text of its next row.
THEOREM CallTypeCorrect == Spec => []TypeOK
<1>1. CallInv => TypeOK
  BY DEF CallInv, OnceOK, StoreOK, CallOK, TypeOK
<1> QED
  BY <1>1, CallsFollow, PTL

\* A query that failed on a row keeps the rows before it: they are held, or the
\* store is full, until somebody clears.
THEOREM FailedCallsKeepTheirRows == Spec => []EarlierRowsAreKept
<1>1. CallInv => EarlierRowsAreKept
  BY DEF CallInv, CallOK, KeptBy, Full, EarlierRowsAreKept
<1> QED
  BY <1>1, CallsFollow, PTL

\* Whoever initialises CACHE and BUNDLED, in whatever order and after however
\* many panics, the capacity is the one of the model's width wherever a vector
\* is asked for or held.
THEOREM CapacityIsTheModels == Spec => []CapacityIsForTheModel
<1>1. CallInv => CapacityIsForTheModel
  BY DEF CallInv, OnceOK, StoreOK, Ready, CapacityIsForTheModel
<1> QED
  BY <1>1, CallsFollow, PTL

-----------------------------------------------------------------------------
(***************************************************************************)
(* The replies.  At every point of a call, what it has read is what SQL says*)
(* of the argument, what it has to write is what was asked, and the result *)
(* is as the steps done so far leave it.                                   *)
(***************************************************************************)

\* The floats of the vectors.
Floats == {Encoder[x][n] : x \in {y \in Texts : Encoder[y] # Failure}, n \in 1 .. Dim}

\* What a body may append for a row.
RowValues(function) ==
  {Null} \cup (IF function = "embed" THEN Seq(Floats) ELSE BOOLEAN)

\* The call is of one of the functions, on a column if it takes one.
ChunkOK(t) ==
  /\ call[t].function \in AllFunctions
  /\ call[t].chunk.rows \in Nat
  /\ Running(t, TakesText) => IsColumn(call[t].chunk)

\* The values are those of the first rows.
FirstRows(t) ==
  /\ call[t].values \in Seq(RowValues(call[t].function))
  /\ Row(t) <= call[t].chunk.rows
  /\ \A n \in 1 .. Row(t) : call[t].values[n] = Answer(t, n - 1)

\* The cells are what SQL says, and the values the answers to the first of them.
ReadSoFar(t) ==
  /\ Running(t, TakesText)
  /\ \A row \in Rows(call[t].chunk) : call[t].cells[row] = Logical(call[t].chunk, row)
  /\ FirstRows(t)

\* The body has what it writes.
HasValues(t) ==
  /\ Running(t, TakesText) => FirstRows(t) /\ Row(t) = call[t].chunk.rows
  /\ Running(t, {"models"}) => call[t].values = ModelWrites
  /\ Running(t, {"cache_stats"}) =>
       \E a, b, c : call[t].values = <<<<0, a>>, <<1, b>>, <<2, c>>>>
  /\ Running(t, {"version", "model_id", "cache_clear"}) => Row(t) = call[t].chunk.rows

\* The result is as the first k steps of its writer leave it.
WrittenTo(t, k) ==
  After(Steps(t), k, ResultVectors(call[t].function), call[t].result)

\* k steps are done and the others are still to do.
WriterAt(t, k) ==
  /\ \E S : call[t].steps \in Seq(S)
  /\ Len(call[t].steps) = Len(Steps(t)) - k
  /\ \A i \in 1 .. Len(call[t].steps) : call[t].steps[i] = Steps(t)[k + i]
  /\ WrittenTo(t, k)

ReplyOK(t) ==
  /\ call[t].pc \in {"enter", "argument", "rows", "asked", "body", "done"} =>
       /\ ChunkOK(t)
       /\ call[t].result = FreshResult(call[t].function, call[t].chunk.rows)
  /\ At(t, "argument") => Running(t, TakesText)
  /\ At(t, "body") => ~Running(t, TakesText)
  /\ At(t, "rows") \/ At(t, "asked") => ReadSoFar(t)
  /\ At(t, "asked") => Row(t) < call[t].chunk.rows
  /\ At(t, "done") => HasValues(t)
  /\ At(t, "write") => ChunkOK(t) /\ HasValues(t) /\ \E k \in 0 .. Len(Steps(t)) : WriterAt(t, k)
  /\ At(t, "idle") \/ At(t, "report") => call[t].result = <<>>
  /\ At(t, "returned") =>
       \/ call[t].result = <<>> /\ call[t].slot = "error"
       \/ ChunkOK(t) /\ HasValues(t) /\ WrittenTo(t, Len(Steps(t)))

ReplyInv == \A t \in Threads : ReplyOK(t)

\* Another call is what it was, but for the mark of a clear.
Unmoved(u) ==
  /\ call'[u].pc = call[u].pc /\ call'[u].function = call[u].function
  /\ call'[u].chunk = call[u].chunk /\ call'[u].cells = call[u].cells
  /\ call'[u].values = call[u].values /\ call'[u].steps = call[u].steps
  /\ call'[u].result = call[u].result /\ call'[u].slot = call[u].slot

\* What its reply is then, it was before.
LEMMA UnmovedIsOK ==
  ASSUME NEW u \in Threads, ReplyOK(u), Unmoved(u)
  PROVE  ReplyOK(u)'
<1>1. \A functions : Running(u, functions)' <=> Running(u, functions)
  BY DEF Unmoved, Running
<1>2. \A pc : At(u, pc)' <=> At(u, pc)
  BY DEF Unmoved, At
<1>3. Row(u)' = Row(u) /\ Steps(u)' = Steps(u)
  BY <1>1 DEF Unmoved, Row, Steps
<1>4. \A row : Answer(u, row)' = Answer(u, row)
  BY <1>1 DEF Unmoved, Answer
<1>5. ChunkOK(u)' <=> ChunkOK(u)
  BY <1>1 DEF Unmoved, ChunkOK
<1>6. FirstRows(u)' <=> FirstRows(u)
  BY <1>3, <1>4 DEF Unmoved, FirstRows
<1>7. ReadSoFar(u)' <=> ReadSoFar(u)
  BY <1>1, <1>6 DEF Unmoved, ReadSoFar
<1>8. HasValues(u)' <=> HasValues(u)
  BY <1>1, <1>3, <1>6 DEF Unmoved, HasValues
<1>9. \A k : (WrittenTo(u, k)' <=> WrittenTo(u, k)) /\ (WriterAt(u, k)' <=> WriterAt(u, k))
  BY <1>3 DEF Unmoved, WrittenTo, WriterAt
<1> QED
  BY <1>1, <1>2, <1>3, <1>5, <1>7, <1>8, <1>9 DEF Unmoved, ReplyOK

\* Before the first step of any call there is nothing to be right.
LEMMA ReplyInit == Init => ReplyInv
<1> SUFFICES ASSUME Init, NEW t \in Threads
             PROVE  ReplyOK(t)
  BY DEF ReplyInv
<1>1. call[t].pc = "idle" /\ call[t].result = <<>>
  BY DEF Init, NoCall
<1> QED
  BY <1>1 DEF ReplyOK, At

\* The steps that do not write a value or a result keep all there is.
LEMMA FailIsOK ==
  ASSUME Shape, NEW t \in Threads, Fail(t)
  PROVE  ReplyOK(t)'
<1>1. call'[t].pc = "report" /\ call'[t].result = <<>>
  BY DEF Shape, Fail, Fields
<1> QED
  BY <1>1 DEF ReplyOK, At

\* DuckDB calls on a column, with a result of its own making.
LEMMA CallFunctionIsOK ==
  ASSUME Shape, NEW t \in Threads, NEW function \in Functions, NEW chunk \in Chunks,
         CallFunction(t, function, chunk)
  PROVE  ReplyOK(t)'
<1>1. /\ call'[t].pc = "enter" /\ call'[t].function = function
      /\ call'[t].chunk = IF function \in TakesText THEN chunk ELSE [rows |-> chunk.rows]
      /\ call'[t].result = FreshResult(function, chunk.rows)
  BY DEF Shape, CallFunction, NoCall
<1>2. IsColumn(chunk) /\ chunk.rows \in Nat /\ function \in AllFunctions
  BY ChunksAssumption, FunctionsAssumption DEF IsColumn
<1>3. call'[t].chunk.rows = chunk.rows
  BY <1>1
<1>4. ChunkOK(t)'
  BY <1>1, <1>2, <1>3 DEF ChunkOK, Running
<1> QED
  BY <1>1, <1>3, <1>4 DEF ReplyOK, At

\* The call is built, or refused.
LEMMA EnterIsOK ==
  ASSUME Shape, NEW t \in Threads, ReplyOK(t), Enter(t)
  PROVE  ReplyOK(t)'
<1>1. CASE Fail(t)
  BY <1>1, FailIsOK
<1>2. CASE Goto(t, IF Running(t, TakesText) THEN "argument" ELSE "body")
  <2>1. /\ call'[t].pc = IF Running(t, TakesText) THEN "argument" ELSE "body"
        /\ call'[t].function = call[t].function /\ call'[t].chunk = call[t].chunk
        /\ call'[t].result = call[t].result
    BY <1>2 DEF Shape, Goto, Fields
  <2>2. ChunkOK(t) /\ call[t].result = FreshResult(call[t].function, call[t].chunk.rows)
    BY DEF Enter, ReplyOK, At
  <2>3. ChunkOK(t)' /\ (Running(t, TakesText)' <=> Running(t, TakesText))
    BY <2>1, <2>2 DEF ChunkOK, Running
  <2> QED
    BY <2>1, <2>2, <2>3 DEF ReplyOK, At
<1> QED
  BY <1>1, <1>2 DEF Enter

\* The cells of the argument are what SQL says of its rows.
LEMMA ReadArgumentIsOK ==
  ASSUME Shape, NEW t \in Threads, CallOK(t), ReplyOK(t), ReadArgument(t)
  PROVE  ReplyOK(t)'
<1>1. CASE Fail(t)
  BY <1>1, FailIsOK
<1>2. CASE GotoWith(t, "rows", "cells", VarcharArg(call[t].chunk))
  <2>1. /\ call'[t].pc = "rows" /\ call'[t].cells = VarcharArg(call[t].chunk)
        /\ call'[t].function = call[t].function /\ call'[t].chunk = call[t].chunk
        /\ call'[t].result = call[t].result /\ call'[t].values = call[t].values
    BY <1>2 DEF Shape, GotoWith, Fields
  <2>2. /\ ChunkOK(t) /\ call[t].result = FreshResult(call[t].function, call[t].chunk.rows)
        /\ Running(t, TakesText)
    BY DEF ReadArgument, ReplyOK, At
  <2>3. ChunkOK(t)' /\ Running(t, TakesText)' /\ IsColumn(call[t].chunk) /\ call[t].chunk.rows \in Nat
    BY <2>1, <2>2 DEF ChunkOK, Running
  <2>4. \A row \in Rows(call[t].chunk) : call'[t].cells[row] = Logical(call[t].chunk, row)
    BY <2>1, <2>3, ArgumentIsLogical
  <2>5. call[t].values = <<>>
    BY DEF ReadArgument, CallOK
  <2>6. FirstRows(t)'
    BY <2>1, <2>3, <2>5 DEF FirstRows, Row
  <2> QED
    BY <2>1, <2>2, <2>3, <2>4, <2>6 DEF ReplyOK, ReadSoFar, At
<1> QED
  BY <1>1, <1>2 DEF ReadArgument

-----------------------------------------------------------------------------
\* A row is answered: the value is what SQL asked of it.
LEMMA AppendIsOK ==
  ASSUME Shape, NEW t \in Threads, ReplyOK(t), At(t, "rows") \/ At(t, "asked"),
         Row(t) < call[t].chunk.rows,
         NEW value \in RowValues(call[t].function), value = Answer(t, Row(t)),
         AppendRow(t, value)
  PROVE  ReplyOK(t)'
<1>1. /\ call'[t].pc = "rows" /\ call'[t].values = Append(call[t].values, value)
      /\ call'[t].function = call[t].function /\ call'[t].chunk = call[t].chunk
      /\ call'[t].result = call[t].result /\ call'[t].cells = call[t].cells
  BY DEF Shape, AppendRow, GotoWith, Fields
<1>2. /\ ChunkOK(t) /\ call[t].result = FreshResult(call[t].function, call[t].chunk.rows)
      /\ ReadSoFar(t)
  BY DEF ReplyOK, At
<1>3. ChunkOK(t)' /\ call[t].chunk.rows \in Nat /\ Running(t, TakesText) /\ Running(t, TakesText)'
  BY <1>1, <1>2 DEF ChunkOK, ReadSoFar, Running
<1>4. \A row : Answer(t, row)' = Answer(t, row)
  BY <1>1, <1>3 DEF Answer, Running, TakesText
<1>5. FirstRows(t)'
  <2> DEFINE S == RowValues(call[t].function)
  <2>1. /\ call[t].values \in Seq(S) /\ \A n \in 1 .. Row(t) : call[t].values[n] = Answer(t, n - 1)
    BY <1>2 DEF ReadSoFar, FirstRows
  <2> HIDE DEF S
  <2>2. /\ Append(call[t].values, value) \in Seq(S)
        /\ Row(t)' = Row(t) + 1 /\ Row(t) \in Nat
        /\ \A n \in 1 .. Row(t) : call'[t].values[n] = call[t].values[n]
        /\ call'[t].values[Row(t) + 1] = value
    BY <1>1, <2>1, Appended DEF Row, S
  <2>3. Row(t)' <= call[t].chunk.rows
    BY <1>3, <2>2
  <2>4. ASSUME NEW n \in 1 .. Row(t)'
        PROVE  call'[t].values[n] = Answer(t, n - 1)
    <3>1. CASE n = Row(t) + 1
      BY <2>2, <3>1
    <3>2. CASE n # Row(t) + 1
      <4>1. n \in 1 .. Row(t)
        BY <2>2, <3>2
      <4> QED
        BY <2>1, <2>2, <4>1
    <3> QED
      BY <3>1, <3>2
  <2> QED
    BY <1>1, <1>4, <2>2, <2>3, <2>4 DEF FirstRows, S
<1>6. ReadSoFar(t)'
  BY <1>1, <1>2, <1>3, <1>5 DEF ReadSoFar
<1> QED
  BY <1>1, <1>2, <1>3, <1>6 DEF ReplyOK, At

\* A row with a text, and what Answer says of it.
LEMMA TheNextRow ==
  ASSUME NEW t \in Threads, ReplyOK(t), At(t, "rows") \/ At(t, "asked"),
         Row(t) < call[t].chunk.rows
  PROVE  /\ Cell(t) = Logical(call[t].chunk, Row(t))
         /\ Cell(t) = Null => Answer(t, Row(t)) = Null
         /\ Cell(t) # Null /\ Running(t, {"embed"}) => Answer(t, Row(t)) = Encoder[Cell(t)]
         /\ Cell(t) # Null /\ Running(t, {"is_truncated"}) =>
              Answer(t, Row(t)) = (Cell(t) \in TruncatedTexts)
<1>1. ReadSoFar(t) /\ ChunkOK(t)
  BY DEF ReplyOK, At
<1>2. Row(t) \in Rows(call[t].chunk)
  <2>1. call[t].chunk.rows \in Nat /\ Row(t) \in Nat
    BY <1>1 DEF ChunkOK, ReadSoFar, FirstRows, Row
  <2> QED
    BY <2>1 DEF Rows
<1>3. Cell(t) = Logical(call[t].chunk, Row(t))
  BY <1>1, <1>2 DEF ReadSoFar, Cell
<1>4. Running(t, {"embed"}) \/ Running(t, {"is_truncated"})
  BY <1>1 DEF ReadSoFar, Running, TakesText
<1> HIDE <1>1
<1> QED
  BY <1>3, <1>4 DEF Answer, Running

\* A row that asks nobody: NULL, or is_truncated's.
LEMMA RowsAreOK ==
  ASSUME Shape, NEW t \in Threads, ReplyOK(t), NullRow(t) \/ TruncatedRow(t)
  PROVE  ReplyOK(t)'
<1>1. At(t, "rows") /\ Row(t) < call[t].chunk.rows
  BY DEF NullRow, TruncatedRow, TextNext, RowsLeft
<1>2. CASE NullRow(t)
  <2>1. Cell(t) = Null /\ AppendRow(t, Null) /\ Null \in RowValues(call[t].function)
    BY <1>2 DEF NullRow, RowValues
  <2>2. Answer(t, Row(t)) = Null
    BY <1>1, <2>1, TheNextRow
  <2> QED
    BY <1>1, <2>1, <2>2, AppendIsOK
<1>3. CASE TruncatedRow(t)
  <2> DEFINE value == Cell(t) \in TruncatedTexts
  <2>1. Cell(t) # Null /\ Running(t, {"is_truncated"}) /\ AppendRow(t, value)
    BY <1>3 DEF TruncatedRow, TextNext
  <2>2. value \in RowValues(call[t].function)
    <3>1. RowValues(call[t].function) = {Null} \cup BOOLEAN
      BY <2>1 DEF RowValues, Running
    <3>2. CASE Cell(t) \in TruncatedTexts
      <4>1. value = TRUE
        BY <3>2
      <4> HIDE DEF value
      <4> QED
        BY <3>1, <4>1
    <3>3. CASE Cell(t) \notin TruncatedTexts
      <4>1. value = FALSE
        BY <3>3
      <4> HIDE DEF value
      <4> QED
        BY <3>1, <4>1
    <3> QED
      BY <3>2, <3>3
  <2>3. Answer(t, Row(t)) = value
    BY <1>1, <2>1, TheNextRow
  <2> HIDE DEF value
  <2> QED
    BY <1>1, <2>1, <2>2, <2>3, AppendIsOK
<1> QED
  BY <1>2, <1>3

\* Asking changes nothing of the reply.
LEMMA AskRowIsOK ==
  ASSUME Shape, NEW t \in Threads, ReplyOK(t), AskRow(t)
  PROVE  ReplyOK(t)'
<1>1. At(t, "rows") /\ Row(t) < call[t].chunk.rows
  BY DEF AskRow, TextNext, RowsLeft
<1>2. /\ call'[t].pc = "asked" /\ call'[t].values = call[t].values
      /\ call'[t].function = call[t].function /\ call'[t].chunk = call[t].chunk
      /\ call'[t].result = call[t].result /\ call'[t].cells = call[t].cells
  BY DEF Shape, AskRow, Goto, Fields
<1>3. /\ ChunkOK(t) /\ call[t].result = FreshResult(call[t].function, call[t].chunk.rows)
      /\ ReadSoFar(t)
  BY <1>1 DEF ReplyOK, At
<1>4. ChunkOK(t)' /\ Running(t, TakesText) /\ Running(t, TakesText)' /\ Row(t)' = Row(t)
  BY <1>2, <1>3 DEF ChunkOK, ReadSoFar, Running, Row
<1>5. \A row : Answer(t, row)' = Answer(t, row)
  BY <1>2, <1>4 DEF Answer, Running, TakesText
<1>6. ReadSoFar(t)'
  BY <1>2, <1>3, <1>4, <1>5 DEF ReadSoFar, FirstRows
<1> QED
  BY <1>1, <1>2, <1>3, <1>4, <1>6 DEF ReplyOK, At

\* The engine's answer is the vector of the text asked for, of the model's width.
LEMMA AnswerRowIsOK ==
  ASSUME Shape, StoreOK, NEW t \in Threads, CallOK(t), ReplyOK(t), AnswerRow(t)
  PROVE  ReplyOK(t)'
<1>1. CASE Fail(t)
  BY <1>1, FailIsOK
<1>2. CASE answer'[t] # Failure /\ AppendRow(t, answer'[t])
  <2>1. At(t, "asked") /\ Running(t, {"embed"}) /\ asked[t] = Cell(t) /\ EngineAnswers(t)
        /\ Row(t) < call[t].chunk.rows
    BY DEF AnswerRow, CallOK, ReplyOK
  <2>2. answer'[t] = Encoder[Cell(t)] /\ Cell(t) \in Texts
    BY <1>2, <2>1, EngineStep
  <2>3. Cell(t) # Null
    BY <2>2, TextAssumption
  <2>4. Answer(t, Row(t)) = answer'[t]
    BY <2>1, <2>2, <2>3, TheNextRow
  <2>5. answer'[t] \in Seq(Floats)
    <3>1. Encoder[Cell(t)] = [n \in 1 .. Dim |-> Encoder[Cell(t)][n]]
      BY <1>2, <2>2, EncoderAssumption
    <3>2. \A n \in 1 .. Dim : Encoder[Cell(t)][n] \in Floats
      BY <1>2, <2>2 DEF Floats
    <3>3. [n \in 1 .. Dim |-> Encoder[Cell(t)][n]] \in Seq(Floats)
      BY <3>2, DimAssumption
    <3> QED
      BY <2>2, <3>1, <3>3
  <2>6. answer'[t] \in RowValues(call[t].function)
    BY <2>1, <2>5 DEF RowValues, Running
  <2> QED
    BY <1>2, <2>1, <2>4, <2>6, AppendIsOK
<1> QED
  BY <1>1, <1>2 DEF AnswerRow

-----------------------------------------------------------------------------
(***************************************************************************)
(* What the writers of the seven functions do.                             *)
(***************************************************************************)

\* The fields of models: eight, each its own, in whatever order they are written.
LEMMA ModelFieldsAreWritten ==
  /\ Len(ModelWrites) = 8 /\ Len(ModelFields) = 8
  /\ \A m \in 1 .. 8 : ModelWrites[m][1] \in 0 .. 7
  /\ Distinct(ModelWrites)
  /\ \A n \in 1 .. 8 : \E m \in 1 .. 8 : ModelWrites[m] = <<n - 1, ModelFields[n]>>
<1>1. Len(ModelWrites) = 8 /\ Len(ModelFields) = 8
  BY DEF ModelWrites, ModelFields
<1>2. /\ ModelWrites[1][1] = 0 /\ ModelWrites[2][1] = 1 /\ ModelWrites[3][1] = 2
      /\ ModelWrites[4][1] = 5 /\ ModelWrites[5][1] = 6 /\ ModelWrites[6][1] = 7
      /\ ModelWrites[7][1] = 3 /\ ModelWrites[8][1] = 4
  BY DEF ModelWrites
<1>3. \A m \in 1 .. 8 : m = 1 \/ m = 2 \/ m = 3 \/ m = 4 \/ m = 5 \/ m = 6 \/ m = 7 \/ m = 8
  OBVIOUS
<1>4. \A m \in 1 .. 8 : ModelWrites[m][1] \in 0 .. 7
  BY <1>2, <1>3
<1>5. Distinct(ModelWrites)
  BY <1>1, <1>2, <1>3 DEF Distinct
<1>6. ASSUME NEW n \in 1 .. 8
      PROVE  \E m \in 1 .. 8 : ModelWrites[m] = <<n - 1, ModelFields[n]>>
  <2>1. CASE n \in {1, 2, 3}
    <3>1. ModelWrites[n] = <<n - 1, ModelFields[n]>>
      BY <2>1 DEF ModelWrites, ModelFields
    <3> QED
      BY <3>1
  <2>2. CASE n \in {4, 5}
    <3>1. ModelWrites[n + 3] = <<n - 1, ModelFields[n]>> /\ n + 3 \in 1 .. 8
      BY <2>2 DEF ModelWrites, ModelFields
    <3> QED
      BY <3>1
  <2>3. CASE n \in {6, 7, 8}
    <3>1. ModelWrites[n - 2] = <<n - 1, ModelFields[n]>> /\ n - 2 \in 1 .. 8
      BY <2>3 DEF ModelWrites, ModelFields
    <3> QED
      BY <3>1
  <2> QED
    BY <1>3, <2>1, <2>2, <2>3
<1> QED
  BY <1>1, <1>4, <1>5, <1>6

\* The fields of cache_stats.
LEMMA StatsFieldsAreWritten ==
  ASSUME NEW writes, NEW a, NEW b, NEW c, writes = <<<<0, a>>, <<1, b>>, <<2, c>>>>
  PROVE  /\ Len(writes) = 3 /\ Distinct(writes)
         /\ \A m \in 1 .. 3 : writes[m] = <<m - 1, writes[m][2]>>
<1>1. /\ Len(writes) = 3
      /\ writes[1] = <<0, a>> /\ writes[2] = <<1, b>> /\ writes[3] = <<2, c>>
  OBVIOUS
<1>2. \A m \in 1 .. 3 : m = 1 \/ m = 2 \/ m = 3
  OBVIOUS
<1>3. \A m \in 1 .. 3 : writes[m] = <<m - 1, writes[m][2]>>
  BY <1>1, <1>2
<1>4. Distinct(writes)
  BY <1>1, <1>2 DEF Distinct
<1> QED
  BY <1>1, <1>3, <1>4

\* One of the functions.
LEMMA WhichFunction ==
  ASSUME NEW t \in Threads, ChunkOK(t)
  PROVE  \/ Running(t, {"embed"}) \/ Running(t, {"is_truncated"}) \/ Running(t, {"models"})
         \/ Running(t, {"cache_stats"}) \/ Running(t, {"version", "model_id", "cache_clear"})
BY DEF ChunkOK, AllFunctions, Running

\* The vectors of the results.
LEMMA VectorsOfResults ==
  ASSUME NEW function
  PROVE  /\ Result \in ResultVectors(function)
         /\ function = "embed" => Child(0) \in ResultVectors(function)
         /\ function = "models" => \A n \in 0 .. 7 : Child(n) \in ResultVectors(function)
         /\ function = "cache_stats" => \A n \in 0 .. 2 : Child(n) \in ResultVectors(function)
<1>1. ASSUME function = "embed"
      PROVE  ResultVectors(function) = {Result} \cup {Child(0)}
  BY <1>1 DEF ResultVectors
<1>2. ASSUME function = "models"
      PROVE  ResultVectors(function) = {Result} \cup {Child(n) : n \in 0 .. 7}
  BY <1>2 DEF ResultVectors
<1>3. ASSUME function = "cache_stats"
      PROVE  ResultVectors(function) = {Result} \cup {Child(n) : n \in 0 .. 2}
  BY <1>3 DEF ResultVectors
<1>4. Result \in ResultVectors(function)
  BY DEF ResultVectors
<1> QED
  BY <1>1, <1>2, <1>3, <1>4

\* What write_float_lists does with the values of embed.
LEMMA EmbedSteps ==
  ASSUME NEW t \in Threads, HasValues(t), Running(t, {"embed"})
  PROVE  /\ Steps(t) = WriteFloatLists(call[t].values)
         /\ call[t].values \in Values(Floats)
         /\ \E offset, b :
              /\ IsOffset(call[t].values, offset)
              /\ ListEntries(call[t].values) =
                   [n \in 1 .. Len(call[t].values) |->
                      [offset |-> offset[n - 1], length |-> Length(call[t].values[n])]]
              /\ ListScript(WriteFloatLists(call[t].values), call[t].values, offset, b)
<1> DEFINE values == call[t].values
<1>1. Steps(t) = WriteFloatLists(values)
  BY DEF Steps, Running
<1>2. values \in Values(Floats)
  BY DEF HasValues, FirstRows, RowValues, Values, Running, TakesText
<1> HIDE DEF values
<1>3. PICK offset : /\ IsOffset(values, offset)
                    /\ ListEntries(values) =
                         [n \in 1 .. Len(values) |->
                            [offset |-> offset[n - 1], length |-> Length(values[n])]]
  BY <1>2, EntriesAtOffsets
<1>4. PICK b : ListScript(WriteFloatLists(values), values, offset, b)
  BY <1>2, <1>3, ListSteps
<1>5. \E o, c :
        /\ IsOffset(values, o)
        /\ ListEntries(values) =
             [n \in 1 .. Len(values) |-> [offset |-> o[n - 1], length |-> Length(values[n])]]
        /\ ListScript(WriteFloatLists(values), values, o, c)
  BY <1>3, <1>4
<1> QED
  BY <1>1, <1>2, <1>5 DEF values

\* Every writer of every body follows a sane script.
LEMMA StepsAreSane ==
  ASSUME NEW t \in Threads, ChunkOK(t), HasValues(t)
  PROVE  Sane(Steps(t), ResultVectors(call[t].function))
<1> DEFINE values == call[t].values
           vectors == ResultVectors(call[t].function)
           rows == call[t].chunk.rows
<1>0. rows \in Nat /\ Result \in vectors
  BY VectorsOfResults DEF ChunkOK
<1>1. CASE Running(t, {"embed"})
  <2>1. Child(0) \in vectors
    BY <1>1, VectorsOfResults DEF Running
  <2>2. Steps(t) = WriteFloatLists(values) /\ values \in Values(Floats)
    BY <1>1, EmbedSteps
  <2> HIDE DEF vectors
  <2>3. PICK offset, b :
          /\ IsOffset(values, offset)
          /\ ListEntries(values) =
               [n \in 1 .. Len(values) |-> [offset |-> offset[n - 1], length |-> Length(values[n])]]
          /\ ListScript(WriteFloatLists(values), values, offset, b)
    BY <1>1, EmbedSteps
  <2> HIDE DEF values
  <2>4. Len(ListEntries(values)) = Len(values)
    BY <2>2, <2>3, TotalIsLastOffset
  <2>5. Sane(WriteFloatLists(values), vectors)
    BY <1>0, <2>1, <2>2, <2>3, <2>4, ListsAreSane
  <2> QED
    BY <2>2, <2>5 DEF vectors
<1>2. CASE Running(t, {"is_truncated"})
  <2>1. Steps(t) = WriteBools(values) /\ Len(values) \in Nat
    BY <1>0, <1>2 DEF Steps, HasValues, Row, Running, TakesText
  <2> HIDE DEF values, vectors
  <2>2. Sane(WriteBools(values), vectors)
    BY <1>0, <2>1, BoolsAreSane
  <2> QED
    BY <2>1, <2>2 DEF vectors
<1>3. CASE Running(t, {"models"})
  <2>1. Steps(t) = WriteFields(values, rows) /\ values = ModelWrites
    BY <1>3 DEF Steps, HasValues, Running
  <2>2. \A n \in 0 .. 7 : Child(n) \in vectors
    BY <1>3, VectorsOfResults DEF Running
  <2> HIDE DEF values, vectors, rows
  <2>3. Len(values) = 8 /\ Distinct(values) /\ \A m \in 1 .. 8 : values[m][1] \in 0 .. 7
    BY <2>1, ModelFieldsAreWritten
  <2>4. \A m \in 1 .. Len(values) : Child(values[m][1]) \in vectors
    BY <2>2, <2>3
  <2>5. Sane(WriteFields(values, rows), vectors)
    BY <1>0, <2>3, <2>4, FieldsAreSane
  <2> QED
    BY <2>1, <2>5 DEF vectors
<1>4. CASE Running(t, {"cache_stats"})
  <2>1. Steps(t) = WriteFields(values, rows)
    BY <1>4 DEF Steps, Running
  <2>2. \A n \in 0 .. 2 : Child(n) \in vectors
    BY <1>4, VectorsOfResults DEF Running
  <2>3. \E a, b, c : values = <<<<0, a>>, <<1, b>>, <<2, c>>>>
    BY <1>4 DEF HasValues
  <2> HIDE DEF values, vectors, rows
  <2>4. /\ Len(values) = 3 /\ Distinct(values)
        /\ \A m \in 1 .. 3 : values[m] = <<m - 1, values[m][2]>>
    BY <2>3, StatsFieldsAreWritten
  <2>5. \A m \in 1 .. 3 : Child(values[m][1]) \in vectors
    <3> SUFFICES ASSUME NEW m \in 1 .. 3
                 PROVE  Child(values[m][1]) \in vectors
      OBVIOUS
    <3>1. values[m][1] = m - 1 /\ m - 1 \in 0 .. 2
      BY <2>4
    <3> QED
      BY <2>2, <3>1
  <2>6. Sane(WriteFields(values, rows), vectors)
    BY <1>0, <2>4, <2>5, FieldsAreSane
  <2> QED
    BY <2>1, <2>6 DEF vectors
<1>5. CASE Running(t, {"version", "model_id", "cache_clear"})
  <2>1. Steps(t) = WriteCells(Result, values) /\ Len(values) \in Nat
    BY <1>0, <1>5 DEF Steps, HasValues, Row, Running
  <2> HIDE DEF values, vectors
  <2>2. Sane(WriteCells(Result, values), vectors)
    BY <1>0, <2>1, CellsAreSane
  <2> QED
    BY <2>1, <2>2 DEF vectors
<1> QED
  BY <1>1, <1>2, <1>3, <1>4, <1>5, WhichFunction

-----------------------------------------------------------------------------
(***************************************************************************)
(* The bodies, and the steps of the writers.                               *)
(***************************************************************************)

\* A body that takes no text has what it writes.
LEMMA BodyIsOK ==
  ASSUME Shape, NEW t \in Threads, ReplyOK(t),
         ModelBody(t) \/ StatsBody(t) \/ ClearBody(t)
  PROVE  ReplyOK(t)'
<1>1. CASE Fail(t)
  BY <1>1, FailIsOK
<1>2. ASSUME ~Fail(t)
      PROVE  ReplyOK(t)'
  <2>1. At(t, "body")
    BY DEF ModelBody, StatsBody, ClearBody
  <2>2. /\ ChunkOK(t) /\ call[t].result = FreshResult(call[t].function, call[t].chunk.rows)
        /\ ~Running(t, TakesText)
    BY <2>1 DEF ReplyOK, At
  <2>3. /\ call'[t].pc = "done" /\ call'[t].function = call[t].function
        /\ call'[t].chunk = call[t].chunk /\ call'[t].result = call[t].result
        /\ \/ Running(t, {"models"}) /\ call'[t].values = ModelWrites
           \/ ~Running(t, {"models"}) /\ ~Running(t, {"cache_stats"})
              /\ \E v : call'[t].values = Constant(t, v)
           \/ Running(t, {"cache_stats"})
              /\ \E a, b, c : call'[t].values = <<<<0, a>>, <<1, b>>, <<2, c>>>>
    <3>1. CASE ModelBody(t)
      <4>1. /\ Running(t, AsksForModel)
            /\ GotoWith(t, "done", "values",
                 IF Running(t, {"models"})
                 THEN ModelWrites
                 ELSE Constant(t, <<call[t].function, bundled>>))
        BY <1>2, <3>1 DEF ModelBody
      <4>2. /\ call'[t].pc = "done" /\ call'[t].function = call[t].function
            /\ call'[t].chunk = call[t].chunk /\ call'[t].result = call[t].result
            /\ call'[t].values = IF Running(t, {"models"})
                                 THEN ModelWrites
                                 ELSE Constant(t, <<call[t].function, bundled>>)
        BY <4>1 DEF Shape, GotoWith, Fields
      <4>3. ~Running(t, {"cache_stats"})
        BY <4>1 DEF Running, AsksForModel
      <4> QED
        BY <4>2, <4>3
    <3>2. CASE StatsBody(t)
      <4>1. /\ Running(t, {"cache_stats"})
            /\ GotoWith(t, "done", "values",
                 <<<<0, hits>>, <<1, declined>>, <<2, Cardinality(DOMAIN store)>>>>)
        BY <3>2 DEF StatsBody
      <4>2. /\ call'[t].pc = "done" /\ call'[t].function = call[t].function
            /\ call'[t].chunk = call[t].chunk /\ call'[t].result = call[t].result
            /\ call'[t].values =
                 <<<<0, hits>>, <<1, declined>>, <<2, Cardinality(DOMAIN store)>>>>
        BY <4>1 DEF Shape, GotoWith, Fields
      <4> QED
        BY <4>1, <4>2
    <3>3. CASE ClearBody(t)
      <4>1. /\ call'[t].pc = "done" /\ call'[t].function = call[t].function
            /\ call'[t].chunk = call[t].chunk /\ call'[t].result = call[t].result
            /\ call'[t].values = Constant(t, Cardinality(DOMAIN store))
        BY <3>3 DEF Shape, ClearBody, Fields
      <4>2. ~Running(t, {"cache_stats"}) /\ ~Running(t, {"models"})
        BY <3>3 DEF ClearBody, Running
      <4> QED
        BY <4>1, <4>2
    <3> QED
      BY <3>1, <3>2, <3>3
  <2>4. \A functions : Running(t, functions)' <=> Running(t, functions)
    BY <2>3 DEF Running
  <2>5. ChunkOK(t)' /\ ~Running(t, TakesText)'
    BY <2>2, <2>3, <2>4 DEF ChunkOK
  <2>6. ASSUME NEW v, call'[t].values = Constant(t, v)
        PROVE  Row(t)' = call[t].chunk.rows
    <3>1. call[t].chunk.rows \in Nat
      BY <2>2 DEF ChunkOK
    <3>2. Constant(t, v) \in Seq({v}) /\ DOMAIN Constant(t, v) = 1 .. call[t].chunk.rows
      BY <3>1 DEF Constant
    <3>3. Len(Constant(t, v)) \in Nat /\ 1 .. Len(Constant(t, v)) = 1 .. call[t].chunk.rows
      BY <3>2
    <3>4. Len(Constant(t, v)) = call[t].chunk.rows
      BY <3>1, <3>3
    <3> QED
      BY <2>6, <3>4 DEF Row
  <2>7. HasValues(t)'
    <3>1. ~Running(t, TakesText)' /\ (Running(t, {"models"}) => call'[t].values = ModelWrites)
      BY <2>3, <2>5 DEF Running
    <3>2. Running(t, {"cache_stats"}) =>
            \E a, b, c : call'[t].values = <<<<0, a>>, <<1, b>>, <<2, c>>>>
      BY <2>3 DEF Running
    <3>3. Running(t, {"version", "model_id", "cache_clear"}) => Row(t)' = call[t].chunk.rows
      BY <2>3, <2>6 DEF Running
    <3> QED
      BY <2>3, <2>4, <3>1, <3>2, <3>3 DEF HasValues
  <2> QED
    BY <2>2, <2>3, <2>5, <2>7 DEF ReplyOK, At
<1> QED
  BY <1>1, <1>2

\* What a call keeps while it writes.
LEMMA WhileWriting ==
  ASSUME NEW t \in Threads,
         call'[t].function = call[t].function, call'[t].chunk = call[t].chunk,
         call'[t].values = call[t].values
  PROVE  /\ ChunkOK(t)' <=> ChunkOK(t)
         /\ HasValues(t)' <=> HasValues(t)
         /\ Steps(t)' = Steps(t)
<1>1. \A functions : Running(t, functions)' <=> Running(t, functions)
  BY DEF Running
<1>2. Row(t)' = Row(t) /\ Steps(t)' = Steps(t)
  BY <1>1 DEF Row, Steps
<1>3. \A row : Answer(t, row)' = Answer(t, row)
  BY <1>1 DEF Answer
<1>4. ChunkOK(t)' <=> ChunkOK(t)
  BY <1>1 DEF ChunkOK
<1>5. FirstRows(t)' <=> FirstRows(t)
  BY <1>2, <1>3 DEF FirstRows
<1>6. HasValues(t)' <=> HasValues(t)
  BY <1>1, <1>2, <1>5 DEF HasValues
<1> QED
  BY <1>2, <1>4, <1>6

\* A writer begins on the result DuckDB handed over.
LEMMA StartWritingIsOK ==
  ASSUME Shape, NEW t \in Threads, ReplyOK(t), StartWriting(t)
  PROVE  ReplyOK(t)'
<1>1. /\ call'[t].pc = "write" /\ call'[t].steps = Steps(t)
      /\ call'[t].function = call[t].function /\ call'[t].chunk = call[t].chunk
      /\ call'[t].values = call[t].values /\ call'[t].result = call[t].result
  BY DEF Shape, StartWriting, GotoWith, Fields
<1>2. /\ ChunkOK(t) /\ call[t].result = FreshResult(call[t].function, call[t].chunk.rows)
  BY DEF StartWriting, ReplyOK, At
<1>3. HasValues(t)
  <2>1. CASE At(t, "done")
    BY <2>1 DEF ReplyOK
  <2>2. CASE At(t, "rows") /\ Row(t) = call[t].chunk.rows
    <3>1. ReadSoFar(t)
      BY <2>2 DEF ReplyOK
    <3> QED
      BY <2>2, <3>1 DEF ReadSoFar, HasValues, Running, TakesText
  <2> QED
    BY <2>1, <2>2 DEF StartWriting
<1>4. ChunkOK(t)' /\ HasValues(t)' /\ Steps(t)' = Steps(t)
  BY <1>1, <1>2, <1>3, WhileWriting
<1>5. After(Steps(t), 0, ResultVectors(call[t].function), call[t].result)
  <2> DEFINE vectors == ResultVectors(call[t].function)
  <2>1. DOMAIN call[t].result = vectors
    BY <1>2 DEF FreshResult
  <2>2. \A v \in vectors : \E room \in Nat : call[t].result[v] = NewVector(room)
    <3> SUFFICES ASSUME NEW v \in vectors
                 PROVE  \E room \in Nat : call[t].result[v] = NewVector(room)
      OBVIOUS
    <3> DEFINE room == IF call[t].function = "embed" /\ v # Result
                       THEN ChildRoom ELSE call[t].chunk.rows
    <3>1. room \in Nat
      BY <1>2, RoomAssumption DEF ChunkOK
    <3>2. call[t].result[v] = NewVector(room)
      BY <1>2 DEF FreshResult
    <3> QED
      BY <3>1, <3>2
  <2> HIDE DEF vectors
  <2>3. After(Steps(t), 0, vectors, call[t].result)
    BY <2>1, <2>2, WriterBegins
  <2> QED
    BY <2>3 DEF vectors
<1>6. Len(Steps(t)) \in Nat /\ \E S : Steps(t) \in Seq(S)
  BY <1>2, <1>3, StepsAreSane DEF Sane
<1>7. WriterAt(t, 0)'
  BY <1>1, <1>4, <1>5, <1>6 DEF WriterAt, WrittenTo
<1>8. \E k \in 0 .. Len(Steps(t)') : WriterAt(t, k)'
  BY <1>4, <1>6, <1>7
<1> QED
  BY <1>1, <1>4, <1>8 DEF ReplyOK, At

\* What is left of a sequence.
LEMMA HeadAndTail ==
  ASSUME NEW S, NEW s \in Seq(S), s # <<>>
  PROVE  /\ Head(s) = s[1] /\ Len(s) \in Nat /\ Len(s) > 0
         /\ Tail(s) \in Seq(S) /\ Len(Tail(s)) = Len(s) - 1
         /\ \A i \in 1 .. Len(s) - 1 : Tail(s)[i] = s[i + 1]
OBVIOUS

\* Another step of the writer.
LEMMA WriteStepIsOK ==
  ASSUME Shape, NEW t \in Threads, ReplyOK(t), WriteStep(t)
  PROVE  ReplyOK(t)'
<1>1. CASE Fail(t)
  BY <1>1, FailIsOK
<1>2. CASE call' = [call EXCEPT ![t].result = Effect(call[t].result, Head(call[t].steps)),
                                ![t].steps = Tail(call[t].steps)]
  <2> DEFINE script == Steps(t)
             vectors == ResultVectors(call[t].function)
             steps == call[t].steps
  <2>1. /\ call'[t].pc = "write" /\ call'[t].steps = Tail(steps)
        /\ call'[t].result = Effect(call[t].result, Head(steps))
        /\ call'[t].function = call[t].function /\ call'[t].chunk = call[t].chunk
        /\ call'[t].values = call[t].values
    BY <1>2 DEF Shape, WriteStep, At, Fields
  <2>2. /\ ChunkOK(t) /\ HasValues(t)
        /\ \E k \in 0 .. Len(script) : WriterAt(t, k)
    BY DEF WriteStep, ReplyOK, At
  <2>3. ChunkOK(t)' /\ HasValues(t)' /\ Steps(t)' = script
    BY <2>1, <2>2, WhileWriting
  <2>4. Sane(script, vectors) /\ Len(script) \in Nat
    BY <2>2, StepsAreSane DEF Sane
  <2>5. PICK k \in 0 .. Len(script) : WriterAt(t, k)
    BY <2>2
  <2>6. PICK S : steps \in Seq(S)
    BY <2>5 DEF WriterAt
  <2>7. steps # <<>>
    BY DEF WriteStep
  <2>8. /\ Len(steps) = Len(script) - k
        /\ \A i \in 1 .. Len(steps) : steps[i] = script[k + i]
        /\ After(script, k, vectors, call[t].result)
    BY <2>5 DEF WriterAt, WrittenTo
  <2> HIDE DEF steps, script, vectors
  <2>9. /\ Head(steps) = steps[1] /\ Len(steps) \in Nat /\ Len(steps) > 0
        /\ Tail(steps) \in Seq(S) /\ Len(Tail(steps)) = Len(steps) - 1
        /\ \A i \in 1 .. Len(steps) - 1 : Tail(steps)[i] = steps[i + 1]
    BY <2>6, <2>7, HeadAndTail
  <2>10. k + 1 \in 1 .. Len(script) /\ Head(steps) = script[k + 1] /\ (k + 1) - 1 = k
    BY <2>4, <2>8, <2>9
  <2>11. After(script, k + 1, vectors, Effect(call[t].result, Head(steps)))
    <3> DEFINE next == k + 1
    <3>1. next \in 1 .. Len(script) /\ Head(steps) = script[next]
      BY <2>10
    <3>2. After(script, next - 1, vectors, call[t].result)
      BY <2>8, <2>10
    <3> HIDE DEF next
    <3>3. After(script, next, vectors, Effect(call[t].result, script[next]))
      BY <2>4, <3>1, <3>2, WriterGoesOn
    <3> QED
      BY <3>1, <3>3 DEF next
  <2>12. /\ Len(Tail(steps)) = Len(script) - (k + 1)
         /\ \A i \in 1 .. Len(Tail(steps)) : Tail(steps)[i] = script[(k + 1) + i]
    BY <2>4, <2>8, <2>9
  <2>13. WriterAt(t, k + 1)'
    BY <2>1, <2>3, <2>9, <2>11, <2>12 DEF WriterAt, WrittenTo, vectors
  <2>14. \E n \in 0 .. Len(Steps(t)') : WriterAt(t, n)'
    BY <2>3, <2>4, <2>10, <2>13
  <2> QED
    BY <2>1, <2>3, <2>14 DEF ReplyOK, At
<1> QED
  BY <1>1, <1>2 DEF WriteStep

\* The writer has nothing left to do, or the error is in the slot.
LEMMA ReturnIsOK ==
  ASSUME Shape, NEW t \in Threads, ReplyOK(t), Return(t) \/ Report(t)
  PROVE  ReplyOK(t)'
<1>1. CASE Return(t)
  <2>1. /\ call'[t].pc = "returned" /\ call'[t].values = call[t].values
        /\ call'[t].function = call[t].function /\ call'[t].chunk = call[t].chunk
        /\ call'[t].result = call[t].result
    BY <1>1 DEF Shape, Return, Goto, Fields
  <2>2. /\ ChunkOK(t) /\ HasValues(t)
        /\ \E k \in 0 .. Len(Steps(t)) : WriterAt(t, k)
    BY <1>1 DEF Return, ReplyOK, At
  <2>3. ChunkOK(t)' /\ HasValues(t)' /\ Steps(t)' = Steps(t)
    BY <2>1, <2>2, WhileWriting
  <2>4. PICK k \in 0 .. Len(Steps(t)) : WriterAt(t, k)
    BY <2>2
  <2>5. Len(call[t].steps) = 0
    BY <1>1 DEF Return
  <2>6. Len(Steps(t)) \in Nat
    BY <2>2, StepsAreSane DEF Sane
  <2>7. k = Len(Steps(t))
    <3>1. Len(call[t].steps) = Len(Steps(t)) - k
      BY <2>4 DEF WriterAt
    <3> QED
      BY <2>5, <2>6, <3>1
  <2>8. WrittenTo(t, Len(Steps(t)))'
    BY <2>1, <2>3, <2>4, <2>7 DEF WriterAt, WrittenTo
  <2> QED
    BY <2>1, <2>3, <2>8 DEF ReplyOK, At
<1>2. CASE Report(t)
  <2>1. /\ call'[t].pc = "returned" /\ call'[t].slot = "error"
        /\ call'[t].result = call[t].result /\ call[t].result = <<>>
    BY <1>2 DEF Shape, Report, GotoWith, Fields, ReplyOK, At
  <2> QED
    BY <2>1 DEF ReplyOK, At
<1> QED
  BY <1>1, <1>2

-----------------------------------------------------------------------------
(***************************************************************************)
(* Every step, and what the calls return.                                  *)
(***************************************************************************)

\* A step keeps the reply of every call right.
LEMMA ReplyStep == CallInv /\ ReplyInv /\ [Next]_vars => ReplyInv'
<1> SUFFICES ASSUME CallInv, ReplyInv, [Next]_vars
             PROVE  ReplyInv'
  OBVIOUS
<1>0. Shape /\ StoreOK /\ \A t \in Threads : CallOK(t) /\ ReplyOK(t)
  BY DEF CallInv, ReplyInv
<1>1. ASSUME NEW t \in Threads, ReplyOK(t)', \A u \in Threads \ {t} : Unmoved(u)
      PROVE  ReplyInv'
  BY <1>0, <1>1, UnmovedIsOK DEF ReplyInv
<1>2. ASSUME NEW t \in Threads, \A u \in Threads \ {t} : call'[u] = call[u]
      PROVE  \A u \in Threads \ {t} : Unmoved(u)
  BY <1>2 DEF Unmoved
<1>3. ASSUME NEW t \in Threads, NEW function \in Functions, NEW chunk \in Chunks,
             CallFunction(t, function, chunk)
      PROVE  ReplyInv'
  <2>1. \A u \in Threads \ {t} : call'[u] = call[u]
    BY <1>0, <1>3 DEF Shape, CallFunction
  <2> QED
    BY <1>0, <1>1, <1>2, <1>3, <2>1, CallFunctionIsOK
<1>4. ASSUME NEW t \in Threads, ClearBody(t)
      PROVE  ReplyInv'
  <2>1. \A u \in Threads \ {t} : Unmoved(u)
    BY <1>0, <1>4 DEF Shape, Fields, ClearBody, Unmoved
  <2> QED
    BY <1>0, <1>1, <1>4, <2>1, BodyIsOK
<1>5. ASSUME NEW t \in Threads,
             \/ Enter(t) \/ ReadArgument(t) \/ NullRow(t) \/ TruncatedRow(t)
             \/ ModelBody(t) \/ StatsBody(t) \/ ModelUnavailable(t)
             \/ StartWriting(t) \/ WriteStep(t) \/ Return(t) \/ Report(t)
             \/ InitialiserPanics(t) /\ ~At(t, "asked")
      PROVE  ReplyInv'
  <2>1. \A u \in Threads \ {t} : call'[u] = call[u]
    BY <1>5, OnwardSteps DEF Onward
  <2>2. ReplyOK(t)'
    <3>1. CASE ModelUnavailable(t) \/ InitialiserPanics(t)
      BY <1>0, <3>1, FailIsOK DEF ModelUnavailable, InitialiserPanics
    <3> QED
      BY <1>0, <1>5, <3>1, EnterIsOK, ReadArgumentIsOK, RowsAreOK, BodyIsOK,
         StartWritingIsOK, WriteStepIsOK, ReturnIsOK
  <2> QED
    BY <1>1, <1>2, <2>1, <2>2
<1>6. ASSUME NEW t \in Threads, AskRow(t)
      PROVE  ReplyInv'
  <2>1. \A u \in Threads \ {t} : call'[u] = call[u]
    BY <1>0, <1>6 DEF Shape, AskRow, Goto
  <2> QED
    BY <1>0, <1>1, <1>2, <1>6, <2>1, AskRowIsOK
<1>7. ASSUME NEW t \in Threads, AnswerRow(t)
      PROVE  ReplyInv'
  <2>1. \A u \in Threads \ {t} : call'[u] = call[u]
    BY <1>0, <1>7 DEF Shape, AnswerRow, AppendRow, GotoWith, Fail
  <2> QED
    BY <1>0, <1>1, <1>2, <1>7, <2>1, AnswerRowIsOK
<1>8. ASSUME NEW t \in Threads, InitialiserPanics(t)
      PROVE  ReplyInv'
  <2>1. ~At(t, "asked")
    BY <1>8, ThreadAssumption
    DEF InitialiserPanics, PanicInLoad, CallInv, OnceOK, StoreOK, Ready
  <2> QED
    BY <1>5, <1>8, <2>1
<1>9. ASSUME UNCHANGED call
      PROVE  ReplyInv'
  BY <1>0, <1>9, UnmovedIsOK DEF ReplyInv, Unmoved
<1> QED
  BY <1>3, <1>4, <1>5, <1>6, <1>7, <1>8, <1>9
  DEF Next, Proceed, Initialise, Finished, vars

\* The inductive invariant of the replies, over that of the calls.
THEOREM RepliesFollow == Spec => [](CallInv /\ ReplyInv)
<1>1. Init => CallInv /\ ReplyInv
  BY CallInit, ReplyInit
<1>2. CallInv /\ ReplyInv /\ [Next]_vars => (CallInv /\ ReplyInv)'
  BY CallStep, ReplyStep
<1> QED
  BY <1>1, <1>2, PTL DEF Spec

\* A call that leaves the slot empty has the answer in every row.
LEMMA SilentIsAnswered ==
  ASSUME NEW t \in Threads, ReplyOK(t), Silent(t), NEW row \in Rows(call[t].chunk)
  PROVE  Found(t, row) = Answer(t, row)
<1> DEFINE values == call[t].values
           vectors == ResultVectors(call[t].function)
           rows == call[t].chunk.rows
           result == call[t].result
<1>1. /\ ChunkOK(t) /\ HasValues(t)
      /\ After(Steps(t), Len(Steps(t)), vectors, result)
  BY DEF ReplyOK, Silent, WrittenTo
<1>2. rows \in Nat /\ row \in 0 .. rows - 1 /\ Result \in vectors
  BY <1>1, VectorsOfResults DEF ChunkOK, Rows
<1>3. CASE Running(t, {"embed"})
  <2>1. /\ FirstRows(t) /\ Len(values) = rows
    BY <1>1, <1>3 DEF HasValues, Running, TakesText, Row
  <2>2. values[row + 1] = Answer(t, row)
    <3>1. row + 1 \in 1 .. Len(values) /\ (row + 1) - 1 = row
      BY <1>2, <2>1
    <3> QED
      BY <2>1, <3>1 DEF FirstRows, Row
  <2>3. Child(0) \in vectors
    BY <1>3, VectorsOfResults DEF Running
  <2>4. Steps(t) = WriteFloatLists(values) /\ values \in Values(Floats)
    BY <1>1, <1>3, EmbedSteps
  <2>5. PICK offset, b :
          /\ IsOffset(values, offset)
          /\ ListEntries(values) =
               [n \in 1 .. Len(values) |-> [offset |-> offset[n - 1], length |-> Length(values[n])]]
          /\ ListScript(WriteFloatLists(values), values, offset, b)
    BY <1>1, <1>3, EmbedSteps
  <2>6. Found(t, row) = ReadList(result, row)
    BY <1>3 DEF Found, Running
  <2> HIDE DEF values, vectors, result, rows
  <2>7. ReadList(result, row) = values[row + 1]
    BY <1>1, <1>2, <2>1, <2>3, <2>4, <2>5, ListsAreRead
  <2> QED
    BY <2>2, <2>6, <2>7
<1>4. CASE Running(t, {"is_truncated"})
  <2>1. FirstRows(t) /\ Len(values) = rows
    BY <1>1, <1>4 DEF HasValues, Running, TakesText, Row
  <2>2. values[row + 1] = Answer(t, row)
    <3>1. row + 1 \in 1 .. Len(values) /\ (row + 1) - 1 = row
      BY <1>2, <2>1
    <3> QED
      BY <2>1, <3>1 DEF FirstRows, Row
  <2>3. Steps(t) = WriteBools(values)
    BY <1>4 DEF Steps, Running
  <2>4. Found(t, row) = ReadCell(result, row)
    BY <1>4 DEF Found, Running
  <2> HIDE DEF values, vectors, result, rows
  <2>5. ReadCell(result, row) = values[row + 1]
    BY <1>1, <1>2, <2>1, <2>3, BoolsAreRead
  <2> QED
    BY <2>2, <2>4, <2>5
<1>5. CASE Running(t, {"models"})
  <2>1. Steps(t) = WriteFields(values, rows) /\ values = ModelWrites
    BY <1>1, <1>5 DEF Steps, HasValues, Running
  <2>2. Found(t, row) = ReadFields(result, row, 8) /\ Answer(t, row) = ModelFields
    BY <1>5, ModelFieldsAreWritten DEF Found, Answer, Running
  <2>3. \A n \in 0 .. 7 : Child(n) \in vectors
    BY <1>5, VectorsOfResults DEF Running
  <2> HIDE DEF values, vectors, result, rows
  <2>4. Len(values) = 8 /\ \A m \in 1 .. 8 : values[m][1] \in 0 .. 7
    BY <2>1, ModelFieldsAreWritten
  <2>5. \A m \in 1 .. Len(values) : Child(values[m][1]) \in vectors
    BY <2>3, <2>4
  <2>6. \A m \in 1 .. 8 : result[Child(values[m][1])].cells[row] = values[m][2]
    <3>1. After(WriteFields(values, rows), Len(WriteFields(values, rows)), vectors, result)
      BY <1>1, <2>1
    <3>2. ASSUME NEW m \in 1 .. Len(values)
          PROVE  result[Child(values[m][1])].cells[row] = values[m][2]
      <4>1. Len(values) \in Nat /\ rows \in Nat /\ row \in 0 .. rows - 1
        BY <1>2, <2>4
      <4> QED
        BY <2>5, <3>1, <4>1, FieldsAreRead
    <3> QED
      BY <2>4, <3>2
  <2>7. ASSUME NEW n \in 1 .. 8
        PROVE  result[Child(n - 1)].cells[row] = ModelFields[n]
    <3>1. PICK m \in 1 .. 8 : values[m] = <<n - 1, ModelFields[n]>>
      BY <2>1, ModelFieldsAreWritten
    <3>2. values[m][1] = n - 1 /\ values[m][2] = ModelFields[n]
      BY <3>1
    <3> QED
      BY <2>6, <3>2
  <2>8. ReadFields(result, row, 8) = [n \in 1 .. 8 |-> ModelFields[n]]
    BY <2>7 DEF ReadFields
  <2>9. ModelFields = [n \in 1 .. 8 |-> ModelFields[n]]
    BY DEF ModelFields
  <2> QED
    BY <2>2, <2>8, <2>9
<1>6. CASE Running(t, {"cache_stats"})
  <2>1. Steps(t) = WriteFields(values, rows)
    BY <1>6 DEF Steps, Running
  <2>2. Found(t, row) = ReadFields(result, row, 3)
        /\ Answer(t, row) = [n \in 1 .. 3 |-> values[n][2]]
    BY <1>6 DEF Found, Answer, Running
  <2>3. \A n \in 0 .. 2 : Child(n) \in vectors
    BY <1>6, VectorsOfResults DEF Running
  <2>4. \E a, b, c : values = <<<<0, a>>, <<1, b>>, <<2, c>>>>
    BY <1>1, <1>6 DEF HasValues
  <2> HIDE DEF values, vectors, result, rows
  <2>5. Len(values) = 3 /\ \A m \in 1 .. 3 : values[m] = <<m - 1, values[m][2]>>
    BY <2>4, StatsFieldsAreWritten
  <2>6. \A m \in 1 .. 3 : values[m][1] = m - 1 /\ m - 1 \in 0 .. 2
    <3> SUFFICES ASSUME NEW m \in 1 .. 3
                 PROVE  values[m][1] = m - 1 /\ m - 1 \in 0 .. 2
      OBVIOUS
    <3>1. values[m] = <<m - 1, values[m][2]>>
      BY <2>5
    <3> QED
      BY <3>1
  <2>7. \A m \in 1 .. Len(values) : Child(values[m][1]) \in vectors
    BY <2>3, <2>5, <2>6
  <2>8. \A m \in 1 .. 3 : result[Child(values[m][1])].cells[row] = values[m][2]
    <3>1. After(WriteFields(values, rows), Len(WriteFields(values, rows)), vectors, result)
      BY <1>1, <2>1
    <3>2. ASSUME NEW m \in 1 .. Len(values)
          PROVE  result[Child(values[m][1])].cells[row] = values[m][2]
      <4>1. Len(values) \in Nat /\ rows \in Nat /\ row \in 0 .. rows - 1
        BY <1>2, <2>5
      <4> QED
        BY <2>7, <3>1, <4>1, FieldsAreRead
    <3> QED
      BY <2>5, <3>2
  <2>9. \A m \in 1 .. 3 : result[Child(m - 1)].cells[row] = values[m][2]
    BY <2>6, <2>8
  <2>10. ReadFields(result, row, 3) = [n \in 1 .. 3 |-> values[n][2]]
    BY <2>9 DEF ReadFields
  <2> QED
    BY <2>2, <2>10
<1>7. CASE Running(t, {"version", "model_id", "cache_clear"})
  <2>1. Steps(t) = WriteCells(Result, values) /\ Len(values) = rows
    BY <1>1, <1>7 DEF Steps, HasValues, Row, Running
  <2>2. Found(t, row) = ReadCell(result, row) /\ Answer(t, row) = values[row + 1]
    BY <1>7 DEF Found, Answer, Running
  <2> HIDE DEF values, vectors, result, rows
  <2>3. ReadCell(result, row) = values[row + 1]
    BY <1>1, <1>2, <2>1, CellsAreReadBack
  <2> QED
    BY <2>2, <2>3
<1> QED
  BY <1>1, <1>3, <1>4, <1>5, <1>6, <1>7, WhichFunction

\* The entries of embed lie in the child.
LEMMA EntriesAreInside ==
  ASSUME NEW t \in Threads, ReplyOK(t), Silent(t), Running(t, {"embed"}),
         NEW row \in Rows(call[t].chunk)
  PROVE  LET entry == call[t].result[Result].cells[row]
         IN  entry.offset + entry.length <= call[t].result[Child(0)].size
<1> DEFINE values == call[t].values
           vectors == ResultVectors(call[t].function)
           result == call[t].result
<1>1. /\ ChunkOK(t) /\ HasValues(t)
      /\ After(Steps(t), Len(Steps(t)), vectors, result)
  BY DEF ReplyOK, Silent, WrittenTo
<1>2. Len(values) = call[t].chunk.rows /\ row \in 0 .. call[t].chunk.rows - 1
  BY <1>1 DEF HasValues, Running, TakesText, Row, Rows
<1>3. Result \in vectors /\ Child(0) \in vectors
  BY VectorsOfResults DEF Running
<1>4. Steps(t) = WriteFloatLists(values) /\ values \in Values(Floats)
  BY <1>1, EmbedSteps
<1>5. PICK offset, b :
        /\ IsOffset(values, offset)
        /\ ListEntries(values) =
             [n \in 1 .. Len(values) |-> [offset |-> offset[n - 1], length |-> Length(values[n])]]
        /\ ListScript(WriteFloatLists(values), values, offset, b)
  BY <1>1, EmbedSteps
<1> HIDE DEF values, vectors
<1>6. LET entry == result[Result].cells[row]
      IN  entry.offset + entry.length <= result[Child(0)].size
  <2> HIDE DEF result
  <2> QED
    BY <1>1, <1>2, <1>3, <1>4, <1>5, ListsAreRead
<1> QED
  BY <1>6

\* No writer has written anywhere but in its vectors.
LEMMA NothingIsWild ==
  ASSUME NEW t \in Threads, CallOK(t), ReplyOK(t), NEW v \in DOMAIN call[t].result
  PROVE  ~call[t].result[v].wild
<1>1. CASE call[t].result = FreshResult(call[t].function, call[t].chunk.rows)
  <2>1. PICK room : call[t].result[v] = NewVector(room)
    BY <1>1 DEF FreshResult
  <2> QED
    BY <2>1 DEF NewVector
<1>2. CASE call[t].result = <<>>
  BY <1>2
<1>3. CASE \E k : WrittenTo(t, k)
  BY <1>3 DEF WrittenTo, After, VectorAfter, IsVector
<1> QED
  BY <1>1, <1>2, <1>3 DEF ReplyOK, CallOK, PCs, At, WriterAt

\* Whatever the function, the column and the interleaving, and whatever fails: a
\* call that reports no error has written for every row what SQL asked of it.
THEOREM SilentCallsAnswer == Spec => []ResultIsAnswer
<1>1. ASSUME ReplyInv, NEW t \in Threads, Silent(t)
      PROVE  call[t].result # <<>>
  <2>1. DOMAIN call[t].result = ResultVectors(call[t].function)
    BY <1>1 DEF ReplyInv, ReplyOK, Silent, WrittenTo, After
  <2>2. Result \in DOMAIN call[t].result
    BY <2>1, VectorsOfResults
  <2> QED
    BY <2>2
<1>2. ReplyInv => ResultIsAnswer
  BY <1>1, SilentIsAnswered DEF ReplyInv, ResultIsAnswer
<1> QED
  BY <1>2, RepliesFollow, PTL

\* No writer uses a pointer that sizing has made stale, nor writes past the size
\* it asked for, and the entries of a list lie in what was written.
THEOREM WritersStayInside == Spec => []WritesStayInside
<1>1. CallInv /\ ReplyInv => WritesStayInside
  BY NothingIsWild, EntriesAreInside DEF CallInv, ReplyInv, WritesStayInside
<1> QED
  BY <1>1, RepliesFollow, PTL

-----------------------------------------------------------------------------
(***************************************************************************)
(* The initialisers.  A call that runs one stands where it needs the value *)
(* and takes no other step until the initialiser is over.                  *)
(***************************************************************************)
InitialiserInv ==
  /\ InitialisersAreInCalls
  /\ sizer # NoThread => width = 0

\* A number is not below itself.
LEMMA NotBelowItself ==
  ASSUME NEW n \in Nat
  PROVE  ~(n < n)
OBVIOUS

\* DuckDB calls a function on t.
Called(t) == \E function \in Functions, chunk \in Chunks : CallFunction(t, function, chunk)

\* What a call does beside first use, it does when it runs no initialiser.
LEMMA OthersRunNone ==
  ASSUME OnceOK, InitialiserInv, NEW t \in Threads, ReplyOK(t),
         \/ Called(t) \/ Enter(t) \/ ReadArgument(t) \/ NullRow(t) \/ TruncatedRow(t)
         \/ AskRow(t) \/ AnswerRow(t) \/ ModelBody(t) \/ StatsBody(t) \/ ClearBody(t)
         \/ ModelUnavailable(t)
         \/ StartWriting(t) \/ WriteStep(t) \/ Return(t) \/ Report(t)
  PROVE  loader # t /\ sizer # t
<1>1. loader = t => bundled = "unset" /\ WantsModel(t)
  BY ThreadAssumption DEF OnceOK, InitialiserInv, InitialisersAreInCalls
<1>2. sizer = t => width = 0 /\ WantsCache(t)
  BY ThreadAssumption DEF InitialiserInv, InitialisersAreInCalls
<1>3. CASE ~At(t, "rows") /\ ~At(t, "body")
  BY <1>1, <1>2, <1>3 DEF WantsModel, WantsCache, TextNext, RowsLeft
<1>4. CASE NullRow(t) \/ (StartWriting(t) /\ At(t, "rows"))
  <2>1. ~TextNext(t) /\ ~At(t, "body")
    <3>1. CASE NullRow(t)
      BY <3>1 DEF NullRow, TextNext, RowsLeft, At
    <3>2. CASE StartWriting(t) /\ At(t, "rows")
      <4>1. Row(t) = call[t].chunk.rows /\ ~At(t, "body")
        BY <3>2 DEF StartWriting, At
      <4>2. call[t].chunk.rows \in Nat
        BY <3>2 DEF ReplyOK, ChunkOK, ReadSoFar, At
      <4>3. ~(Row(t) < call[t].chunk.rows)
        BY <4>1, <4>2, NotBelowItself
      <4> QED
        BY <4>1, <4>3 DEF TextNext, RowsLeft
    <3> QED
      BY <1>4, <3>1, <3>2
  <2> QED
    BY <1>1, <1>2, <2>1 DEF WantsModel, WantsCache
<1>5. CASE TruncatedRow(t) \/ ModelUnavailable(t)
  <2>1. At(t, "rows") /\ ~At(t, "body") /\ bundled # "unset"
    BY <1>5 DEF TruncatedRow, ModelUnavailable, TextNext, RowsLeft, At
  <2>2. bundled = "error" \/ ~Running(t, {"embed"})
    BY <1>5 DEF TruncatedRow, ModelUnavailable, Running
  <2> QED
    BY <1>1, <1>2, <2>1, <2>2 DEF WantsCache
<1>6. CASE AskRow(t)
  BY <1>1, <1>2, <1>6 DEF AskRow
<1>7. CASE ModelBody(t)
  BY <1>1, <1>2, <1>7
  DEF ModelBody, WantsCache, TextNext, RowsLeft, At, Running, AsksForModel, AsksForCache
<1>8. CASE StatsBody(t) \/ ClearBody(t)
  BY <1>1, <1>2, <1>8
  DEF StatsBody, ClearBody, WantsModel, TextNext, RowsLeft, At, Running, AsksForModel
<1>9. CASE \/ Called(t) \/ Enter(t) \/ ReadArgument(t) \/ AnswerRow(t)
           \/ WriteStep(t) \/ Return(t) \/ Report(t)
  <2>1. ~At(t, "rows") /\ ~At(t, "body")
    BY <1>9 DEF Called, CallFunction, Enter, ReadArgument, AnswerRow, WriteStep, Return, Report, At
  <2> QED
    BY <1>3, <2>1
<1>10. CASE StartWriting(t) /\ ~At(t, "rows")
  <2>1. ~At(t, "body")
    BY <1>10 DEF StartWriting, At
  <2> QED
    BY <1>3, <1>10, <2>1
<1> QED
  BY <1>4, <1>5, <1>6, <1>7, <1>8, <1>9, <1>10

\* A call nobody moved needs what it needed, once the model is loaded or not.
LEMMA UnmovedWants ==
  ASSUME NEW u \in Threads, Unmoved(u)
  PROVE  /\ sizer' = u \/ (WantsModel(u) /\ sizer # u) => WantsModel(u)'
         /\ WantsCache(u) /\ (bundled = "model" => bundled' = "model") => WantsCache(u)'
<1>1. TextNext(u)' <=> TextNext(u)
  BY DEF Unmoved, TextNext, RowsLeft, At, Row, Cell
<1> QED
  BY <1>1 DEF Unmoved, WantsModel, WantsCache, At, Running, AsksForModel, AsksForCache

\* The other calls stay where they are, but for the mark of a clear.
LEMMA OthersStay ==
  ASSUME CallInv, ReplyInv, [Next]_vars
  PROVE  \/ UNCHANGED <<onceVars, call>>
         \/ \E t \in Threads :
              /\ \A u \in Threads \ {t} : Unmoved(u)
              /\ \/ UNCHANGED onceVars /\ (InitialiserInv => loader # t /\ sizer # t)
                 \/ Initialise(t)
                 \/ InitialiserPanics(t)
<1>0. Shape /\ OnceOK /\ \A t \in Threads : ReplyOK(t)
  BY DEF CallInv, ReplyInv
<1>1. ASSUME NEW t \in Threads, NEW function \in Functions, NEW chunk \in Chunks,
             CallFunction(t, function, chunk)
      PROVE  /\ \A u \in Threads \ {t} : Unmoved(u)
             /\ UNCHANGED onceVars /\ (InitialiserInv => loader # t /\ sizer # t)
  <2>1. InitialiserInv => loader # t /\ sizer # t
    BY <1>0, <1>1, OthersRunNone DEF Called
  <2> QED
    BY <1>0, <1>1, <2>1 DEF CallFunction, Shape, Unmoved
<1>2. ASSUME NEW t \in Threads, ClearBody(t)
      PROVE  /\ \A u \in Threads \ {t} : Unmoved(u)
             /\ UNCHANGED onceVars /\ (InitialiserInv => loader # t /\ sizer # t)
  <2>1. InitialiserInv => loader # t /\ sizer # t
    BY <1>0, <1>2, OthersRunNone
  <2> QED
    BY <1>0, <1>2, <2>1 DEF ClearBody, Shape, Fields, Unmoved
<1>3. ASSUME NEW t \in Threads, AskRow(t) \/ AnswerRow(t)
      PROVE  /\ \A u \in Threads \ {t} : Unmoved(u)
             /\ UNCHANGED onceVars /\ (InitialiserInv => loader # t /\ sizer # t)
  <2>1. InitialiserInv => loader # t /\ sizer # t
    BY <1>0, <1>3, OthersRunNone
  <2>2. \A u \in Threads \ {t} : call'[u] = call[u]
    BY <1>0, <1>3 DEF Shape, AskRow, AnswerRow, AppendRow, Goto, GotoWith, Fail
  <2>3. UNCHANGED onceVars
    BY <1>3 DEF AskRow, AnswerRow
  <2> QED
    BY <2>1, <2>2, <2>3 DEF Unmoved
<1>4. ASSUME NEW t \in Threads,
             \/ Enter(t) \/ ReadArgument(t) \/ NullRow(t) \/ TruncatedRow(t)
             \/ ModelBody(t) \/ StatsBody(t) \/ ModelUnavailable(t)
             \/ StartWriting(t) \/ WriteStep(t) \/ Return(t) \/ Report(t)
      PROVE  /\ \A u \in Threads \ {t} : Unmoved(u)
             /\ UNCHANGED onceVars /\ (InitialiserInv => loader # t /\ sizer # t)
  <2>1. InitialiserInv => loader # t /\ sizer # t
    BY <1>0, <1>4, OthersRunNone
  <2>2. \A u \in Threads \ {t} : call'[u] = call[u]
    BY <1>4, OnwardSteps DEF Onward
  <2>3. UNCHANGED onceVars
    BY <1>4 DEF Enter, ReadArgument, NullRow, TruncatedRow, ModelBody, StatsBody,
                ModelUnavailable, StartWriting, WriteStep, Return, Report
  <2> QED
    BY <2>1, <2>2, <2>3 DEF Unmoved
<1>5. ASSUME NEW t \in Threads, Initialise(t) \/ InitialiserPanics(t)
      PROVE  \A u \in Threads \ {t} : Unmoved(u)
  BY <1>0, <1>5 DEF Shape, Initialise, InitialiserPanics, Fail, Unmoved
<1>6. CASE Finished \/ UNCHANGED vars
  BY <1>6 DEF Finished, vars
<1> QED
  BY <1>1, <1>2, <1>3, <1>4, <1>5, <1>6 DEF Next, Proceed

\* Each step keeps the initialisers with the calls that need them.
LEMMA InitialiserStep ==
  ASSUME CallInv, ReplyInv, InitialiserInv, [Next]_vars
  PROVE  InitialiserInv'
<1>0. OnceOK /\ (loader # NoThread => bundled = "unset")
  BY DEF CallInv, OnceOK
<1>1. CASE UNCHANGED <<onceVars, call>>
  BY <1>1
  DEF onceVars, InitialiserInv, InitialisersAreInCalls, WantsModel, WantsCache, TextNext,
      RowsLeft, At, Running, Row, Cell
<1>2. ASSUME NEW t \in Threads, \A u \in Threads \ {t} : Unmoved(u),
             UNCHANGED onceVars, loader # t, sizer # t
      PROVE  InitialiserInv'
  <2>1. ASSUME NEW u \in Threads
        PROVE  (loader' = u => WantsModel(u)') /\ (sizer' = u => WantsCache(u)')
    <3>1. CASE u = t
      BY <1>2, <3>1 DEF onceVars
    <3>2. CASE u # t
      BY <1>2, <3>2, UnmovedWants DEF onceVars, InitialiserInv, InitialisersAreInCalls
    <3> QED
      BY <3>1, <3>2
  <2> QED
    BY <1>2, <2>1 DEF InitialiserInv, InitialisersAreInCalls, onceVars
<1>3. ASSUME NEW t \in Threads, \A u \in Threads \ {t} : Unmoved(u), Initialise(t)
      PROVE  InitialiserInv'
  <2>0. \A u \in Threads : Unmoved(u)
    BY <1>3 DEF Initialise, Unmoved
  <2>1. CASE WantsModel(t) /\ StartLoad(t)
    BY <2>0, <2>1, UnmovedWants DEF StartLoad, InitialiserInv, InitialisersAreInCalls
  <2>2. CASE WantsCache(t) /\ StartSizing(t)
    BY <2>0, <2>2, UnmovedWants, ThreadAssumption
    DEF StartSizing, InitialiserInv, InitialisersAreInCalls
  <2>3. CASE EndLoad(t)
    <3>1. bundled = "unset" /\ loader' = NoThread /\ UNCHANGED <<width, sizer>>
      BY <1>0, <2>3, ThreadAssumption DEF EndLoad
    <3>2. \A u \in Threads : WantsCache(u) => WantsCache(u)'
      BY <2>0, <3>1, UnmovedWants
    <3> QED
      BY <3>1, <3>2, ThreadAssumption DEF InitialiserInv, InitialisersAreInCalls
  <2>4. CASE EndSizing(t)
    BY <1>0, <2>4, ThreadAssumption DEF EndSizing, InitialiserInv, InitialisersAreInCalls
  <2> QED
    BY <1>3, <2>1, <2>2, <2>3, <2>4 DEF Initialise
<1>4. ASSUME NEW t \in Threads, \A u \in Threads \ {t} : Unmoved(u), InitialiserPanics(t)
      PROVE  InitialiserInv'
  <2>1. /\ loader' = NoThread /\ sizer' # t /\ UNCHANGED <<bundled, width>>
        /\ sizer' # NoThread => sizer' = sizer
    BY <1>4, ThreadAssumption DEF InitialiserPanics, PanicInLoad
  <2>2. \A u \in Threads \ {t} : WantsCache(u) => WantsCache(u)'
    BY <1>4, <2>1, UnmovedWants
  <2> QED
    BY <2>1, <2>2, ThreadAssumption DEF InitialiserInv, InitialisersAreInCalls
<1> QED
  BY <1>1, <1>2, <1>3, <1>4, OthersStay

\* No initialiser is left behind: not by a panic in the load, not by one that
\* unwinds through CACHE's initialiser, and not by a load that ends in an error
\* (OnceLock, bundled and cache).
THEOREM NoInitialiserIsLeft == Spec => []InitialisersAreInCalls
<1>1. Init => InitialiserInv
  BY ThreadAssumption DEF Init, OnceInit, InitialiserInv, InitialisersAreInCalls
<1>2. CallInv /\ ReplyInv /\ InitialiserInv /\ [Next]_vars => InitialiserInv'
  BY InitialiserStep
<1>3. InitialiserInv => InitialisersAreInCalls
  BY DEF InitialiserInv
<1> QED
  BY <1>1, <1>2, <1>3, RepliesFollow, PTL DEF Spec

=============================================================================

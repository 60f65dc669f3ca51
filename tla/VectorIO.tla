------------------------------- MODULE VectorIO -------------------------------
(***************************************************************************)
(* How a scalar function reads its VARCHAR argument and writes its result  *)
(* (Call and Child, crates/subtoken-duckdb/src/capi.rs).  The chunk is     *)
(* private to the worker that runs the call, so everything here is an      *)
(* operator on values; ChunkCall has the state.                            *)
(*                                                                         *)
(* Rows and physical positions count from 0, as in the code.  A string is  *)
(* its text: how its bytes are stored (inline or behind a pointer) and its *)
(* lossy decoding are left out, DuckDB's strings being valid UTF-8.        *)
(***************************************************************************)
EXTENDS Integers, SequencesExt

CONSTANTS
  WordBits,             \* bits in a word of a validity mask, 64
  Null,                 \* SQL NULL
  Garbage               \* what uninitialised memory holds

ASSUME WordBitsAssumption == WordBits \in Nat \ {0}

-----------------------------------------------------------------------------
(***************************************************************************)
(* DuckDB's side of an argument (external).  A vector has physical entries *)
(* and a form: row n is entry n of a FLAT vector, entry 0 of a CONSTANT    *)
(* one, the selected entry of a DICTIONARY, and what a compressed (OTHER)  *)
(* vector unpacks to.  A view has a selection unless the vector is FLAT,   *)
(* and a validity mask unless every entry is valid; OTHER has no view.     *)
(***************************************************************************)
\* A null pointer, where a view has neither.
NoSelection == <<>>
NoMask == <<>>

Rows(chunk) == 0 .. chunk.rows - 1

\* The position of the entry of a row.
Selected(chunk, row) ==
  CASE chunk.form = "FLAT"     -> row
    [] chunk.form = "CONSTANT" -> 0
    [] OTHER                   -> chunk.selection[row]

\* What SQL says the row holds.
Logical(chunk, row) == chunk.physical[Selected(chunk, row)]

\* A column DuckDB may pass: a form, positions from 0, and a row's entry among them.
IsColumn(chunk) ==
  /\ chunk.form \in {"FLAT", "CONSTANT", "DICTIONARY", "OTHER"}
  /\ chunk.rows \in Nat
  /\ DOMAIN chunk.physical \subseteq Nat
  /\ \A row \in Rows(chunk) : Selected(chunk, row) \in DOMAIN chunk.physical

\* vector_flatten
Flatten(chunk) ==
  [chunk EXCEPT !.form = "FLAT",
                !.physical = [row \in Rows(chunk) |-> Logical(chunk, row)]]

\* The words of the mask, each the set of its bits that are 1.
Mask(physical) ==
  LET valid == {n \in DOMAIN physical : physical[n] # Null}
  IN  [word \in {n \div WordBits : n \in DOMAIN physical} |->
         {n % WordBits : n \in {m \in valid : m \div WordBits = word}}]

\* vector_get_view
View(chunk) ==
  [data      |-> [n \in DOMAIN chunk.physical |->
                    IF chunk.physical[n] = Null THEN Garbage ELSE chunk.physical[n]],
   validity  |-> IF \A n \in DOMAIN chunk.physical : chunk.physical[n] # Null
                 THEN NoMask ELSE Mask(chunk.physical),
   selection |-> IF chunk.form = "FLAT" THEN NoSelection
                 ELSE [row \in Rows(chunk) |-> Selected(chunk, row)]]

-----------------------------------------------------------------------------
(***************************************************************************)
(* varchar_arg.  The selection is applied first, and both the validity bit *)
(* and the bytes are those of the selected entry.                          *)
(***************************************************************************)
\* Mutant: the validity bit is read at the row.
EntryOfValidityAtRow(view, row) ==
  LET index == IF view.selection = NoSelection THEN row ELSE view.selection[row]
      word  == view.validity[row \div WordBits]
  IN  IF view.validity = NoMask \/ row % WordBits \in word
      THEN view.data[index] ELSE Null

EntryOf(view, row) ==
  LET index == IF view.selection = NoSelection THEN row ELSE view.selection[row]
      word  == view.validity[index \div WordBits]
  IN  IF view.validity = NoMask \/ index % WordBits \in word
      THEN view.data[index] ELSE Null

\* A vector the view refuses is flattened first.
VarcharArg(chunk) ==
  LET view == View(IF chunk.form = "OTHER" THEN Flatten(chunk) ELSE chunk)
  IN  [row \in Rows(chunk) |-> EntryOf(view, row)]

-----------------------------------------------------------------------------
(***************************************************************************)
(* DuckDB's side of a result (external).  It is a vector and, for a LIST   *)
(* or a STRUCT, its children.  A vector has a size, room for so many       *)
(* cells, the block they are in, and the rows marked NULL.  Making it      *)
(* larger than its room moves it to another block, which leaves a pointer  *)
(* to the old one stale; a write through one, or past the room, is in      *)
(* somebody else's memory.  (pointer and wild are the writer's: the block  *)
(* its pointer is into, and whether it has written elsewhere.)             *)
(***************************************************************************)
Result == <<"result", 0>>
Child(n) == <<"child", n>>

NewVector(room) ==
  [size |-> 0, room |-> room, block |-> 0, cells |-> [n \in 0 .. room - 1 |-> Garbage],
   nulls |-> {}, pointer |-> -1, wild |-> FALSE]

Resized(vector, size) ==
  IF size <= vector.room
  THEN [vector EXCEPT !.size = size]
  ELSE [vector EXCEPT !.size = size, !.room = size, !.block = @ + 1,
          !.cells = [n \in 0 .. size - 1 |-> IF n < vector.room THEN @[n] ELSE Garbage]]

Fetched(vector) == [vector EXCEPT !.pointer = vector.block]

Overwritten(vector, at, values) ==
  LET last == at + Len(values) - 1
  IN  IF vector.pointer = vector.block /\ last < vector.room
      THEN [vector EXCEPT !.cells = [n \in DOMAIN @ |->
              IF n \in at .. last THEN values[n - at + 1] ELSE @[n]]]
      ELSE [vector EXCEPT !.wild = TRUE]

(***************************************************************************)
(* A writer is a sequence of calls on a vector, each of which may fail,    *)
(* and of copies through the pointer one of them fetched.                  *)
(***************************************************************************)
SetSize(vector, size) == [op |-> "set_size", on |-> vector, size |-> size]
GetChild(vector) == [op |-> "get_child", on |-> vector]
GetData(vector) == [op |-> "get_data", on |-> vector]
Copy(vector, at, values) == [op |-> "copy", on |-> vector, at |-> at, values |-> values]
SetNull(row) == [op |-> "set_null", on |-> Result, row |-> row]

Effect(result, step) ==
  [result EXCEPT ![step.on] =
     CASE step.op = "set_size" -> Resized(@, step.size)
       [] step.op = "get_data" -> Fetched(@)
       [] step.op = "copy"     -> Overwritten(@, step.at, step.values)
       [] step.op = "set_null" -> [@ EXCEPT !.nulls = @ \cup {step.row}]
       [] OTHER                -> @]

-----------------------------------------------------------------------------
(***************************************************************************)
(* The writers.  values[n] is the value of the n-th row.                   *)
(***************************************************************************)
SetNulls(values) ==
  LET upTo[n \in 0 .. Len(values)] ==
        IF n = 0 THEN <<>>
        ELSE IF values[n] = Null THEN Append(upTo[n - 1], SetNull(n - 1)) ELSE upTo[n - 1]
  IN  upTo[Len(values)]

\* Mutant: a NULL row's length is left at the width of the vectors.
ListEntriesOfFullWidth(values) ==
  LET width == Max({0} \cup {Len(values[n]) : n \in {m \in DOMAIN values : values[m] # Null}})
  IN  [n \in DOMAIN values |-> [offset |-> (n - 1) * width, length |-> width]]

Length(value) == IF value = Null THEN 0 ELSE Len(value)

\* list_entries: a NULL row has length 0 at the offset reached.
ListEntries(values) ==
  LET offset[n \in 0 .. Len(values)] ==
        IF n = 0 THEN 0 ELSE offset[n - 1] + Length(values[n])
  IN  [n \in 1 .. Len(values) |-> [offset |-> offset[n - 1], length |-> Length(values[n])]]

\* The copies of write_float_lists, at an offset of their own.
FloatCopies(values) ==
  LET End(copies) == IF copies = <<>> THEN 0 ELSE Last(copies).at + Len(Last(copies).values)
      upTo[n \in 0 .. Len(values)] ==
        IF n = 0 THEN <<>>
        ELSE IF values[n] = Null THEN upTo[n - 1]
        ELSE Append(upTo[n - 1], Copy(Child(0), End(upTo[n - 1]), values[n]))
  IN  upTo[Len(values)]

Total(values) ==
  LET entries == ListEntries(values)
  IN  IF entries = <<>> THEN 0
      ELSE entries[Len(entries)].offset + entries[Len(entries)].length

\* Mutant: the data of the child is fetched before it is sized.
WriteFloatListsFetchingFirst(values) ==
  <<SetSize(Result, Len(values)), GetChild(Child(0)), GetData(Child(0)),
    SetSize(Child(0), Total(values))>>
  \o FloatCopies(values)
  \o <<GetData(Result), Copy(Result, 0, ListEntries(values))>>
  \o SetNulls(values)

WriteFloatLists(values) ==
  <<SetSize(Result, Len(values)), GetChild(Child(0)), SetSize(Child(0), Total(values))>>
  \o (IF Total(values) > 0 THEN <<GetData(Child(0))>> \o FloatCopies(values) ELSE <<>>)
  \o <<GetData(Result), Copy(Result, 0, ListEntries(values))>>
  \o SetNulls(values)

\* A NULL boolean is written as false before it is marked.
WriteBools(values) ==
  <<SetSize(Result, Len(values)), GetData(Result),
    Copy(Result, 0, [n \in 1 .. Len(values) |-> IF values[n] = Null THEN FALSE ELSE values[n]])>>
  \o SetNulls(values)

\* write_i64s and write_varchar_rows: a cell a row, none of them NULL.
WriteCells(vector, values) ==
  <<SetSize(vector, Len(values)), GetData(vector), Copy(vector, 0, values)>>

\* struct_child and a Child writer for each <<field, value>> in turn.  Sizing the
\* STRUCT sizes its fields, which is what the writer of the field does again.
WriteFields(writes, rows) ==
  LET Field(n) ==
        <<SetSize(Result, rows), GetChild(Child(writes[n][1]))>>
        \o WriteCells(Child(writes[n][1]), [row \in 1 .. rows |-> writes[n][2]])
      upTo[n \in 0 .. Len(writes)] == IF n = 0 THEN <<>> ELSE upTo[n - 1] \o Field(n)
  IN  upTo[Len(writes)]

-----------------------------------------------------------------------------
(***************************************************************************)
(* What DuckDB reads back (external).                                      *)
(***************************************************************************)
ReadCell(result, row) ==
  IF row \in result[Result].nulls THEN Null ELSE result[Result].cells[row]

ReadList(result, row) ==
  LET entry == result[Result].cells[row]
  IN  IF row \in result[Result].nulls THEN Null
      ELSE [n \in 1 .. entry.length |-> result[Child(0)].cells[entry.offset + n - 1]]

ReadFields(result, row, fields) ==
  [n \in 1 .. fields |-> result[Child(n - 1)].cells[row]]

=============================================================================

---------------------------- MODULE ExtensionLoad ----------------------------
(***************************************************************************)
(* Loading the extension: the entry point (subtoken_init_c_api_v2 and      *)
(* register_all, crates/subtoken-duckdb/src/lib.rs), the registration of   *)
(* one function (ScalarFunction::register, capi.rs) and the API table      *)
(* (crates/subtoken-duckdb-sys).  Registering a function is a sequence of  *)
(* calls into DuckDB, any of which may fail, and three kinds of things     *)
(* have to be given back whichever does: the function handle, the logical  *)
(* types, and the box that carries the function's body to DuckDB.          *)
(*                                                                         *)
(* The macro v2! looks an entry up before it calls it, and leaves the      *)
(* ENCLOSING function with ? when the table does not have it.  A missing   *)
(* entry is therefore not the same as a call that fails.                   *)
(*                                                                         *)
(* DuckDB is external: it keeps the box alive for as long as the handle or *)
(* a registered function refers to it, and calls drop_exec when the last   *)
(* of them is gone.  The error info of a failed call is read and destroyed *)
(* within the call (check) and leaves no state.  The entries that destroy   *)
(* and that report are taken as present.                                   *)
(***************************************************************************)
EXTENDS Naturals, Sequences, FiniteSets

CONSTANTS
  Surface,              \* the functions register_all registers, in order
  MissingChoices        \* which sets of entries the table may lack

VARIABLES
  missing,              \* the entries the API table lacks
  table,                \* TABLE: whether init has stored the table
  pc,
  current,              \* the function being registered
  position,             \* the next call of its script
  failed,               \* whether a call has failed
  slot,                 \* the error slot DuckDB gave this load
  handle,               \* handle[f]: the function handle: none, live, destroyed
  types,                \* logical types created and not destroyed
  box,                  \* box[f]: who answers for the boxed callback
  owners                \* owners[f]: what in DuckDB refers to the box

vars == <<missing, table, pc, current, position, failed, slot, handle, types, box, owners>>

Functions == 1 .. Len(Surface)

\* The calls configure_and_register makes, in order, after register's create.
Script(f) ==
  LET Parameter(n) == IF n % 2 = 1 THEN "create_type" ELSE "add_parameter"
  IN  <<"create", "set_name", "get_signature">>
      \o [n \in 1 .. 2 * Surface[f].parameters |-> Parameter(n)]
      \o <<"create_type", "set_return_type",
           "get_docs", "set_description", "add_example", "add_category">>
      \o (IF Surface[f].volatile THEN <<"set_property">> ELSE <<>>)
      \o <<"set_user_data", "set_exec_callback", "register_function">>

Entry == Script(current)[position]

ASSUME SurfaceAssumption ==
  /\ Surface \in Seq([parameters : Nat, volatile : BOOLEAN])
  /\ Surface # <<>>

Init ==
  /\ missing \in MissingChoices
  /\ table = FALSE
  /\ pc = "entry"
  /\ current = 1
  /\ position = 1
  /\ failed = FALSE
  /\ slot = "empty"
  /\ handle = [f \in Functions |-> "none"]
  /\ types = {}
  /\ box = [f \in Functions |-> "none"]
  /\ owners = [f \in Functions |-> {}]

-----------------------------------------------------------------------------
(***************************************************************************)
(* The entry point, up to register_all.                                    *)
(***************************************************************************)

\* get_api is absent or returns NULL: the load has failed already and DuckDB
\* knows why.
NoTable ==
  /\ pc = "entry"
  /\ pc' = "returned"
  /\ slot' = "set by DuckDB"
  /\ UNCHANGED <<missing, table, current, position, failed, handle, types, box, owners>>

\* init stores the table and from_input takes the factory from the context.
Start ==
  /\ pc = "entry"
  /\ table' = TRUE
  /\ \/ /\ "get_factory" \notin missing
        /\ pc' = "register"
        /\ UNCHANGED failed
     \/ /\ pc' = "report"
        /\ failed' = TRUE
  /\ UNCHANGED <<missing, current, position, slot, handle, types, box, owners>>

-----------------------------------------------------------------------------
(***************************************************************************)
(* The calls of one registration.                                          *)
(***************************************************************************)
Free(b) == IF b = "freed" THEN "freed twice" ELSE "freed"

\* DuckDB drops a reference to the box of f, and calls drop_exec with the last.
DropReference(f, owner) ==
  /\ owners' = [owners EXCEPT ![f] = @ \ {owner}]
  /\ box' = [box EXCEPT ![f] = IF owners[f] = {owner} THEN Free(@) ELSE @]

\* OwnedType::drop, for every type the registration of f still holds.
TypesWithout(f) == {type \in types : type[1] # f}

\* The call returns no error.
CallSucceeds ==
  /\ pc = "register"
  /\ Entry \notin missing
  /\ handle' = IF Entry = "create" THEN [handle EXCEPT ![current] = "live"] ELSE handle
  /\ types' = CASE Entry = "create_type"   -> types \cup {<<current, position>>}
                [] Entry = "add_parameter" -> TypesWithout(current)
                [] OTHER                   -> types
  /\ box' = IF Entry = "set_user_data" THEN [box EXCEPT ![current] = "DuckDB"] ELSE box
  /\ owners' = CASE Entry = "set_user_data" ->
                      [owners EXCEPT ![current] = @ \cup {"handle"}]
                 [] Entry = "register_function" ->
                      [owners EXCEPT ![current] = @ \cup {"catalog"}]
                 [] OTHER -> owners
  /\ \/ /\ position < Len(Script(current))
        /\ position' = position + 1
        /\ UNCHANGED pc
     \/ /\ position = Len(Script(current))
        /\ pc' = "destroy"
        /\ UNCHANGED position
  /\ UNCHANGED <<missing, table, current, failed, slot>>

\* Leaving by ?: out of register when there is no handle yet, out of
\* configure_and_register, and on to the destroy call, when there is.
LeaveWithError ==
  /\ failed' = TRUE
  /\ pc' = IF Entry = "create" THEN "report" ELSE "destroy"
  /\ UNCHANGED <<missing, table, current, position, slot, handle, types, owners>>

\* Mutant: the box is freed whichever call fails once it has been made.
CallFailsFreeing ==
  /\ pc = "register"
  /\ Entry \notin missing
  /\ box' = IF Entry \in {"set_user_data", "set_exec_callback", "register_function"}
            THEN [box EXCEPT ![current] = Free(@)]
            ELSE box
  /\ LeaveWithError

\* The call returns an error.  A set_user_data that failed has not taken the
\* box, so it is freed here.
CallFails ==
  /\ pc = "register"
  /\ Entry \notin missing
  /\ box' = IF Entry = "set_user_data" THEN [box EXCEPT ![current] = Free(@)] ELSE box
  /\ LeaveWithError

\* The table lacks the entry: v2! leaves before the call, and, in the case of
\* set_user_data, before the branch that frees the box already made.
EntryMissing ==
  /\ pc = "register"
  /\ Entry \in missing
  /\ box' = IF Entry = "set_user_data" THEN [box EXCEPT ![current] = "Rust"] ELSE box
  /\ LeaveWithError

\* Mutant: register_all goes on after an error and returns the last result.
NextFunctionAnyway ==
  \/ /\ current < Len(Surface)
     /\ pc' = "register"
     /\ current' = current + 1
     /\ position' = 1
  \/ /\ current = Len(Surface)
     /\ pc' = IF "catalog" \in owners[current] THEN "returned" ELSE "report"
     /\ UNCHANGED <<current, position>>

\* What is left when a registration is over: register_all stops at an error.
NextFunction ==
  \/ /\ failed
     /\ pc' = "report"
     /\ UNCHANGED <<current, position>>
  \/ /\ ~failed
     /\ current < Len(Surface)
     /\ pc' = "register"
     /\ current' = current + 1
     /\ position' = 1
  \/ /\ ~failed
     /\ current = Len(Surface)
     /\ pc' = "returned"
     /\ UNCHANGED <<current, position>>

\* function_destroy: the handle goes and with it its reference to the box.
DestroyHandle ==
  /\ handle' = [handle EXCEPT ![current] = "destroyed"]
  /\ IF "handle" \in owners[current]
     THEN DropReference(current, "handle")
     ELSE UNCHANGED <<box, owners>>

\* Mutant: the handle is destroyed only after a registration that succeeded.
DestroyAfterSuccess ==
  /\ pc = "destroy"
  /\ types' = TypesWithout(current)
  /\ \/ ~failed /\ DestroyHandle
     \/ failed /\ UNCHANGED <<handle, box, owners>>
  /\ NextFunction
  /\ UNCHANGED <<missing, table, failed, slot>>

\* The end of register, on both roads: the types still held go out of scope
\* and the handle is destroyed.
Destroy ==
  /\ pc = "destroy"
  /\ types' = TypesWithout(current)
  /\ DestroyHandle
  /\ NextFunction
  /\ UNCHANGED <<missing, table, failed, slot>>

\* The error is written into DuckDB's slot.
Report ==
  /\ pc = "report"
  /\ slot' = "error"
  /\ pc' = "returned"
  /\ UNCHANGED <<missing, table, current, position, failed, handle, types, box, owners>>

-----------------------------------------------------------------------------
(***************************************************************************)
(* After the load: DuckDB runs registered functions through the trampoline *)
(* and drops them when their database closes, in any order.                *)
(***************************************************************************)
Registered == {f \in Functions : "catalog" \in owners[f]}

DropRegistered(f) ==
  /\ pc = "returned"
  /\ f \in Registered
  /\ DropReference(f, "catalog")
  /\ UNCHANGED <<missing, table, pc, current, position, failed, slot, handle, types>>

Returned == pc = "returned" /\ UNCHANGED vars

Next ==
  \/ NoTable \/ Start
  \/ CallSucceeds \/ CallFails \/ EntryMissing
  \/ Destroy \/ Report
  \/ \E f \in Functions : DropRegistered(f)
  \/ Returned

Spec == Init /\ [][Next]_vars

-----------------------------------------------------------------------------
(***************************************************************************)
(* Properties.                                                             *)
(***************************************************************************)

\* What DuckDB may still call is alive: while the handle or a registered
\* function refers to a box it has not been freed, so exec_trampoline never
\* reads a freed callback (capi.rs:382-384), and no box is freed twice.
BoxOutlivesItsFunction ==
  \A f \in Functions :
    /\ owners[f] # {} => box[f] = "DuckDB"
    /\ box[f] # "freed twice"

\* When the entry point has returned nothing is left behind, whichever call
\* failed: no handle, no type, and no box that nobody will free.  (A table
\* without set_user_data would break this: the box made before the lookup is
\* then left to nobody, capi.rs:329-341.)
NothingLeftBehind ==
  pc = "returned" =>
    /\ types = {}
    /\ \A f \in Functions :
         /\ handle[f] # "live"
         /\ box[f] \in {"none", "DuckDB", "freed"}
         /\ box[f] = "DuckDB" => owners[f] # {}

\* A load that leaves DuckDB's slot empty has registered the whole surface
\* (lib.rs:402-404): from its return on, every function is registered or has
\* been dropped by DuckDB since.
SilenceMeansWholeSurface ==
  pc = "returned" /\ slot = "empty" =>
    /\ ~failed
    /\ \A f \in Functions :
         \/ f \in Registered
         \/ /\ box[f] = "freed"
            /\ handle[f] = "destroyed"

=============================================================================

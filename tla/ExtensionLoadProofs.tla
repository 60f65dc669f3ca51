------------------------ MODULE ExtensionLoadProofs ------------------------
(***************************************************************************)
(* Loading the extension leaves nothing behind and nothing out, for every  *)
(* surface and every choice of the entries a table may lack.               *)
(*                                                                         *)
(* The argument is about two places in a registration's script: the first  *)
(* call, before which there is no handle, and the third from the end,      *)
(* which hands over the box.  ScriptShape says where they are; the rest is *)
(* an inductive invariant (LoadInv) in which nothing else of the script    *)
(* matters.                                                                *)
(***************************************************************************)
EXTENDS ExtensionLoad, TLAPS

\* The calls between the first and the last three.
Middle == {"set_name", "get_signature", "create_type", "add_parameter", "set_return_type",
           "get_docs", "set_description", "add_example", "add_category", "set_property"}

LEMMA Concatenation ==
  ASSUME NEW S, NEW s \in Seq(S), NEW t \in Seq(S)
  PROVE  /\ Len(s \o t) = Len(s) + Len(t)
         /\ \A n \in 1 .. Len(s) : (s \o t)[n] = s[n]
         /\ \A n \in 1 .. Len(t) : (s \o t)[Len(s) + n] = t[n]
  OBVIOUS

Headed(s) ==
  /\ s \in Seq(Middle \cup {"create"})
  /\ Len(s) >= 1
  /\ s[1] = "create"
  /\ \A n \in 2 .. Len(s) : s[n] \in Middle

LEMMA HeadedConcat ==
  ASSUME NEW s, Headed(s), NEW t \in Seq(Middle)
  PROVE  Headed(s \o t)
<1> DEFINE Names == Middle \cup {"create"}
<1>1. s \in Seq(Names) /\ t \in Seq(Names)
  BY DEF Headed
<1> HIDE DEF Names
<1>2. s \o t \in Seq(Names) /\ Len(s \o t) = Len(s) + Len(t) /\ Len(s) \in Nat /\ Len(t) \in Nat
  BY <1>1
<1>3. (s \o t)[1] = "create"
  BY <1>1, <1>2 DEF Headed
<1>4. ASSUME NEW n \in 2 .. Len(s \o t)
      PROVE  (s \o t)[n] \in Middle
  <2>1. CASE n <= Len(s)
    <3>1. (s \o t)[n] = s[n]
      BY <1>1, <1>2, <2>1
    <3> QED
      BY <1>2, <2>1, <3>1 DEF Headed
  <2>2. CASE n > Len(s)
    <3>1. (s \o t)[n] = t[n - Len(s)] /\ n - Len(s) \in 1 .. Len(t)
      BY <1>1, <1>2, <2>2
    <3> QED
      BY <3>1
  <2> QED
    BY <1>2, <2>1, <2>2
<1> QED
  BY <1>2, <1>3, <1>4 DEF Headed, Names

Closing == <<"set_user_data", "set_exec_callback", "register_function">>

\* Where the calls that matter are.
Shaped(script) ==
  /\ Len(script) \in Nat /\ Len(script) >= 4
  /\ \A n \in 1 .. Len(script) :
       /\ script[n] = "create" <=> n = 1
       /\ script[n] = "set_user_data" <=> n = Len(script) - 2
       /\ script[n] = "register_function" <=> n = Len(script)

LEMMA ClosedShape ==
  ASSUME NEW s, Headed(s)
  PROVE  Shaped(s \o Closing)
<1> DEFINE Names == Middle \cup {"create", "set_user_data", "set_exec_callback", "register_function"}
<1>1. s \in Seq(Names) /\ Len(s) \in Nat /\ Len(s) >= 1
  BY DEF Headed
<1>2. Closing \in Seq(Names) /\ Len(Closing) = 3
  BY DEF Closing
<1>3. /\ Closing[1] = "set_user_data" /\ Closing[2] = "set_exec_callback"
      /\ Closing[3] = "register_function"
  BY DEF Closing
<1> HIDE DEF Names
<1>4. /\ Len(s \o Closing) = Len(s) + 3
      /\ \A n \in 1 .. Len(s) : (s \o Closing)[n] = s[n]
      /\ \A n \in 1 .. 3 : (s \o Closing)[Len(s) + n] = Closing[n]
  <2>1. ASSUME NEW S, s \in Seq(S), Closing \in Seq(S)
        PROVE  /\ Len(s \o Closing) = Len(s) + Len(Closing)
               /\ \A n \in 1 .. Len(s) : (s \o Closing)[n] = s[n]
               /\ \A n \in 1 .. Len(Closing) : (s \o Closing)[Len(s) + n] = Closing[n]
    BY <2>1, Concatenation
  <2> QED
    BY <1>1, <1>2, <2>1
<1> DEFINE script == s \o Closing
<1>5. ASSUME NEW n \in 1 .. Len(s)
      PROVE  /\ n = 1 => script[n] = "create"
             /\ n # 1 => script[n] \in Middle
  BY <1>1, <1>4 DEF Headed
<1>6. /\ script[Len(s) + 1] = "set_user_data" /\ script[Len(s) + 2] = "set_exec_callback"
      /\ script[Len(s) + 3] = "register_function"
  BY <1>3, <1>4
<1> HIDE DEF script
<1>7. Len(script) = Len(s) + 3
  BY <1>4 DEF script
<1>8. ASSUME NEW n \in 1 .. Len(script)
      PROVE  /\ script[n] = "create" <=> n = 1
             /\ script[n] = "set_user_data" <=> n = Len(script) - 2
             /\ script[n] = "register_function" <=> n = Len(script)
  <2>1. \/ n \in 1 .. Len(s)
        \/ n = Len(s) + 1 \/ n = Len(s) + 2 \/ n = Len(s) + 3
    BY <1>1, <1>7
  <2> QED
    BY <1>1, <1>5, <1>6, <1>7, <2>1 DEF Middle
<1> QED
  BY <1>1, <1>7, <1>8 DEF Shaped, script

\* Where the calls that matter are in a script (configure_and_register).
LEMMA ScriptShape ==
  ASSUME NEW f \in Functions
  PROVE  Shaped(Script(f))
<1> DEFINE Parameter(n) == IF n % 2 = 1 THEN "create_type" ELSE "add_parameter"
           opening == <<"create", "set_name", "get_signature">>
           parameters == [n \in 1 .. 2 * Surface[f].parameters |-> Parameter(n)]
           returns == <<"create_type", "set_return_type",
                        "get_docs", "set_description", "add_example", "add_category">>
           property == IF Surface[f].volatile THEN <<"set_property">> ELSE <<>>
           before == opening \o parameters \o returns \o property
<1>1. Script(f) = before \o Closing
  BY DEF Script, Closing
<1>2. Surface[f].parameters \in Nat
  <2> DEFINE Parameters == [parameters : Nat, volatile : BOOLEAN]
  <2>1. Surface \in Seq(Parameters)
    BY SurfaceAssumption
  <2> HIDE DEF Parameters
  <2>2. Surface[f] \in Parameters
    BY <2>1 DEF Functions
  <2> QED
    BY <2>2 DEF Parameters
<1>3. Headed(opening)
  <2>1. opening \in Seq(Middle \cup {"create"}) /\ Len(opening) = 3
    BY DEF Middle
  <2>2. \A n \in 2 .. 3 : n = 2 \/ n = 3
    OBVIOUS
  <2> QED
    BY <2>1, <2>2 DEF Headed, Middle
<1>4. parameters \in Seq(Middle)
  <2>1. 2 * Surface[f].parameters \in Nat
    BY <1>2
  <2>2. \A n : Parameter(n) \in Middle
    BY DEF Middle
  <2> HIDE DEF Parameter
  <2> QED
    BY <2>1, <2>2
<1>5. returns \in Seq(Middle)
  BY DEF Middle
<1>6. property \in Seq(Middle)
  <2>1. <<"set_property">> \in Seq(Middle) /\ <<>> \in Seq(Middle)
    BY DEF Middle
  <2> QED
    BY <2>1
<1>7. Headed(before)
  <2> HIDE DEF opening, parameters, returns, property
  <2>1. Headed(opening \o parameters)
    BY <1>3, <1>4, HeadedConcat
  <2>2. Headed(opening \o parameters \o returns)
    BY <1>5, <2>1, HeadedConcat
  <2> QED
    BY <1>6, <2>2, HeadedConcat DEF before
<1> QED
  BY <1>1, <1>7, ClosedShape

-----------------------------------------------------------------------------
PCs == {"entry", "register", "destroy", "report", "returned"}
Boxes == {"none", "DuckDB", "Rust", "freed"}

Types ==
  /\ pc \in PCs
  /\ failed \in BOOLEAN
  /\ current \in Functions
  /\ position \in 1 .. Len(Script(current))
  /\ handle \in [Functions -> {"none", "live", "destroyed"}]
  /\ box \in [Functions -> Boxes]
  /\ owners \in [Functions -> SUBSET {"handle", "catalog"}]

\* DuckDB refers to a box exactly while it answers for it; only a table that
\* lacks the entry leaves a box to Rust.
BoxesOwned ==
  \A f \in Functions :
    /\ owners[f] # {} <=> box[f] = "DuckDB"
    /\ box[f] = "Rust" => "set_user_data" \in missing

\* Only the function being registered has a live handle, a handle's reference
\* and types.
OnlyCurrent ==
  /\ \A f \in Functions :
       handle[f] = "live" \/ "handle" \in owners[f] =>
         f = current /\ pc \in {"register", "destroy"}
  /\ \A type \in types : type[1] = current
  /\ types # {} => pc \in {"register", "destroy"}

\* The functions before it are done, and those after it not begun.
Done(f) == handle[f] = "destroyed" /\ ("catalog" \in owners[f] \/ box[f] = "freed")

InOrder ==
  /\ \A f \in Functions : f < current => Done(f)
  /\ \A f \in Functions : f > current => box[f] = "none"
  /\ pc = "entry" => types = {} /\ position = 1 /\ box[current] = "none" /\ ~failed

\* Where a registration is in its script, and how it ends.
Progress ==
  /\ pc = "register" =>
       /\ ~failed
       /\ position = 1 => types = {} /\ handle[current] # "live"
       /\ position <= Len(Script(current)) - 2 => box[current] = "none"
       /\ position > Len(Script(current)) - 2 => "handle" \in owners[current]
  /\ pc = "destroy" /\ ~failed => "catalog" \in owners[current]
  /\ pc = "report" => failed
  /\ pc # "returned" => slot = "empty"
  /\ pc = "returned" /\ slot = "empty" => ~failed /\ current = Len(Surface) /\ Done(current)

LoadInv == Types /\ BoxesOwned /\ OnlyCurrent /\ InOrder /\ Progress

LEMMA LoadInit == Init => LoadInv
<1> SUFFICES ASSUME Init
             PROVE  LoadInv
  OBVIOUS
<1>1. 1 \in Functions
  BY SurfaceAssumption DEF Functions
<1>2. 1 \in 1 .. Len(Script(1))
  BY <1>1, ScriptShape DEF Shaped
<1> QED
  <2>1. Types
    BY <1>1, <1>2 DEF Init, Types, PCs, Boxes
  <2>2. BoxesOwned /\ OnlyCurrent /\ Progress
    BY <1>1 DEF Init, BoxesOwned, OnlyCurrent, Progress
  <2>3. InOrder
    BY <1>1 DEF Init, InOrder, Functions
  <2> QED
    BY <2>1, <2>2, <2>3 DEF LoadInv

LEMMA LoadStep == LoadInv /\ [Next]_vars => LoadInv'
<1> SUFFICES ASSUME LoadInv, [Next]_vars
             PROVE  LoadInv'
  OBVIOUS
<1> DEFINE last == Len(Script(current))
<1>0. /\ current \in Functions /\ current \in Nat /\ position \in 1 .. last
      /\ Functions \subseteq Nat /\ last \in Nat /\ last >= 4
      /\ Entry = "create" <=> position = 1
      /\ Entry = "set_user_data" <=> position = last - 2
      /\ Entry = "register_function" <=> position = last
  BY ScriptShape DEF LoadInv, Types, Functions, Shaped, Entry
<1> USE <1>0 DEF LoadInv, Types, PCs, Boxes
<1>1. CASE NoTable \/ Start
  <2>1. Types'
    BY <1>1 DEF NoTable, Start
  <2>2. BoxesOwned' /\ OnlyCurrent'
    BY <1>1 DEF NoTable, Start, BoxesOwned, OnlyCurrent, InOrder
  <2>3. InOrder'
    BY <1>1 DEF NoTable, Start, InOrder, Done
  <2>4. Progress'
    <3>1. CASE NoTable
      BY <3>1 DEF NoTable, Progress
    <3>2. CASE Start
      <4>1. /\ position = 1 /\ types = {} /\ handle[current] # "live"
            /\ box[current] = "none" /\ slot = "empty" /\ ~failed
        BY <3>2 DEF Start, InOrder, OnlyCurrent, Progress
      <4>2. UNCHANGED <<current, position, slot, handle, types, box>>
        BY <3>2 DEF Start
      <4>3. CASE pc' = "register" /\ failed' = failed
        BY <4>1, <4>2, <4>3 DEF Progress
      <4>4. CASE pc' = "report" /\ failed' = TRUE
        BY <4>1, <4>2, <4>4 DEF Progress
      <4> QED
        BY <3>2, <4>3, <4>4 DEF Start
    <3> QED
      BY <1>1, <3>1, <3>2
  <2> QED
    BY <2>1, <2>2, <2>3, <2>4
<1>2. CASE CallSucceeds
  <2>1. /\ pc = "register" /\ ~failed /\ UNCHANGED <<missing, table, current, failed, slot>>
        /\ handle' = IF position = 1 THEN [handle EXCEPT ![current] = "live"] ELSE handle
        /\ box' = IF position = last - 2 THEN [box EXCEPT ![current] = "DuckDB"] ELSE box
        /\ owners' = IF position = last - 2
                     THEN [owners EXCEPT ![current] = @ \cup {"handle"}]
                     ELSE IF position = last
                          THEN [owners EXCEPT ![current] = @ \cup {"catalog"}]
                          ELSE owners
        /\ \/ position < last /\ position' = position + 1 /\ pc' = "register"
           \/ position = last /\ position' = position /\ pc' = "destroy"
    BY <1>2 DEF CallSucceeds, Progress
  <2>2. types' \subseteq types \cup {<<current, position>>}
    BY <1>2 DEF CallSucceeds, TypesWithout
  <2>3. Types'
    BY <2>1
  <2>4. BoxesOwned'
    <3>1. CASE position = last - 2
      BY <2>1, <3>1 DEF BoxesOwned
    <3>2. CASE position = last
      <4>1. owners[current] # {} /\ box' = box
        BY <2>1, <3>2 DEF Progress
      <4>2. \A f \in Functions : owners'[f] # {} <=> owners[f] # {}
        BY <2>1, <3>2, <4>1
      <4> QED
        BY <2>1, <4>1, <4>2 DEF BoxesOwned
    <3>3. CASE position # last - 2 /\ position # last
      BY <2>1, <3>3 DEF BoxesOwned
    <3> QED
      BY <3>1, <3>2, <3>3
  <2>5. OnlyCurrent'
    <3>1. \A type \in types' : type[1] = current
      BY <2>2 DEF OnlyCurrent
    <3> QED
      BY <2>1, <3>1 DEF OnlyCurrent
  <2>6. InOrder'
    BY <2>1 DEF InOrder, Done
  <2>7. Progress'
    BY <2>1 DEF Progress
  <2> QED
    BY <2>3, <2>4, <2>5, <2>6, <2>7
<1>3. CASE CallFails \/ EntryMissing
  <2>1. /\ pc = "register" /\ ~failed /\ failed'
        /\ UNCHANGED <<missing, table, current, position, slot, handle, types, owners>>
        /\ pc' = IF position = 1 THEN "report" ELSE "destroy"
    BY <1>3 DEF CallFails, EntryMissing, LeaveWithError, Progress
  <2>2. \/ box' = box /\ position # last - 2
        \/ position = last - 2 /\ box' = [box EXCEPT ![current] = "freed"]
        \/ /\ position = last - 2 /\ "set_user_data" \in missing
           /\ box' = [box EXCEPT ![current] = "Rust"]
    <3>1. position = last - 2 => box[current] = "none"
      BY <2>1 DEF Progress
    <3>2. CASE CallFails
      BY <3>1, <3>2 DEF CallFails, Free
    <3>3. CASE EntryMissing
      BY <3>3 DEF EntryMissing
    <3> QED
      BY <1>3, <3>2, <3>3
  <2>3. Types'
    BY <2>1, <2>2
  <2>4. BoxesOwned'
    BY <2>1, <2>2 DEF BoxesOwned, Progress
  <2>5. OnlyCurrent'
    BY <2>1 DEF OnlyCurrent, Progress, BoxesOwned
  <2>6. InOrder'
    BY <2>1, <2>2 DEF InOrder, Done
  <2>7. Progress'
    BY <2>1 DEF Progress
  <2> QED
    BY <2>3, <2>4, <2>5, <2>6, <2>7
<1>4. CASE Destroy
  <2>1. /\ pc = "destroy" /\ types' = TypesWithout(current)
        /\ UNCHANGED <<missing, table, failed, slot>>
        /\ handle' = [handle EXCEPT ![current] = "destroyed"]
        /\ NextFunction
    BY <1>4 DEF Destroy, DestroyHandle
  <2>2. types' = {}
    BY <2>1 DEF TypesWithout, OnlyCurrent
  <2>3. \/ owners' = owners /\ box' = box /\ "handle" \notin owners[current]
        \/ /\ owners' = [owners EXCEPT ![current] = @ \ {"handle"}]
           /\ owners[current] = {"handle"} /\ box' = [box EXCEPT ![current] = "freed"]
        \/ /\ owners' = [owners EXCEPT ![current] = @ \ {"handle"}]
           /\ "catalog" \in owners[current] /\ box' = box
    <3>1. CASE "handle" \notin owners[current]
      BY <1>4, <3>1 DEF Destroy, DestroyHandle
    <3>2. CASE "handle" \in owners[current]
      <4>1. box[current] = "DuckDB" /\ DropReference(current, "handle")
        BY <1>4, <3>2 DEF Destroy, DestroyHandle, BoxesOwned
      <4>2. /\ owners' = [owners EXCEPT ![current] = @ \ {"handle"}]
            /\ box' = [box EXCEPT ![current] =
                         IF owners[current] = {"handle"} THEN "freed" ELSE "DuckDB"]
        BY <4>1 DEF DropReference, Free
      <4>3. owners[current] = {"handle"} \/ "catalog" \in owners[current]
        BY <3>2
      <4> QED
        BY <4>1, <4>2, <4>3
    <3> QED
      BY <3>1, <3>2
  <2>4. /\ \A f \in Functions : "handle" \notin owners'[f]
        /\ handle' \in [Functions -> {"none", "live", "destroyed"}]
        /\ box' \in [Functions -> Boxes]
        /\ owners' \in [Functions -> SUBSET {"handle", "catalog"}]
        /\ \A f \in Functions : f # current => box'[f] = box[f] /\ owners'[f] = owners[f]
                                               /\ handle'[f] = handle[f]
    BY <2>1, <2>3 DEF OnlyCurrent
  <2>5. BoxesOwned'
    BY <2>1, <2>3 DEF BoxesOwned
  <2>6. ~failed => handle'[current] = "destroyed" /\ "catalog" \in owners'[current]
    <3>1. ~failed => "catalog" \in owners[current]
      BY <2>1 DEF Progress
    <3> QED
      BY <2>1, <2>3, <3>1
  <2>7. \A f \in Functions : f < current => Done(f) /\ Done(f)'
    BY <2>4 DEF InOrder, Done
  <2>8. CASE failed /\ pc' = "report" /\ UNCHANGED <<current, position>>
    <3>1. Types' /\ OnlyCurrent'
      BY <2>1, <2>2, <2>4, <2>8 DEF OnlyCurrent
    <3>2. InOrder'
      BY <2>4, <2>7, <2>8 DEF InOrder
    <3>3. Progress'
      BY <2>1, <2>8 DEF Progress
    <3> QED
      BY <2>5, <3>1, <3>2, <3>3
  <2>9. CASE /\ ~failed /\ current < Len(Surface) /\ pc' = "register"
             /\ current' = current + 1 /\ position' = 1
    <3>1. current' \in Functions /\ Len(Script(current')) >= 4 /\ Len(Script(current')) \in Nat
      BY <2>9, ScriptShape, SurfaceAssumption DEF Functions, Shaped
    <3>2. /\ box[current'] = "none" /\ handle[current'] # "live"
          /\ box'[current'] = "none" /\ handle'[current'] # "live"
      BY <2>4, <2>9, <3>1 DEF InOrder, OnlyCurrent
    <3>3. Types'
      BY <2>1, <2>4, <2>9, <3>1
    <3>4. OnlyCurrent'
      BY <2>1, <2>2, <2>4, <2>9 DEF OnlyCurrent
    <3>5. \A f \in Functions : f < current' => Done(f)'
      <4> SUFFICES ASSUME NEW f \in Functions, f < current'
                   PROVE  Done(f)'
        OBVIOUS
      <4>1. f < current \/ f = current
        BY <2>9
      <4>2. CASE f < current
        BY <2>7, <4>2
      <4>3. CASE f = current
        BY <2>6, <2>9, <4>3 DEF Done
      <4> QED
        BY <4>1, <4>2, <4>3
    <3>6. InOrder'
      BY <2>4, <2>9, <3>5 DEF InOrder
    <3>7. Progress'
      BY <2>1, <2>2, <2>9, <3>1, <3>2 DEF Progress
    <3> QED
      BY <2>5, <3>3, <3>4, <3>6, <3>7
  <2>10. CASE /\ ~failed /\ current = Len(Surface) /\ pc' = "returned"
              /\ UNCHANGED <<current, position>>
    <3>1. Types' /\ OnlyCurrent'
      BY <2>1, <2>2, <2>4, <2>10 DEF OnlyCurrent
    <3>2. InOrder'
      BY <2>4, <2>7, <2>10 DEF InOrder
    <3>3. Done(current)'
      BY <2>6, <2>10 DEF Done
    <3>4. Progress'
      BY <2>1, <2>10, <3>3 DEF Progress
    <3> QED
      BY <2>5, <3>1, <3>2, <3>4
  <2> QED
    BY <2>1, <2>8, <2>9, <2>10 DEF NextFunction
<1>5. CASE Report
  <2>1. /\ pc = "report" /\ failed /\ pc' = "returned" /\ slot' = "error"
        /\ UNCHANGED <<missing, current, position, failed, handle, types, box, owners>>
    BY <1>5 DEF Report, Progress
  <2>2. Types' /\ BoxesOwned' /\ OnlyCurrent'
    BY <2>1 DEF BoxesOwned, OnlyCurrent
  <2>3. InOrder' /\ Progress'
    BY <2>1 DEF InOrder, Done, Progress
  <2> QED
    BY <2>2, <2>3
<1>6. ASSUME NEW g \in Functions, DropRegistered(g)
      PROVE  LoadInv'
  <2>1. /\ pc = "returned" /\ "catalog" \in owners[g]
        /\ UNCHANGED <<missing, pc, current, position, failed, slot, handle, types>>
        /\ DropReference(g, "catalog")
    BY <1>6 DEF DropRegistered, Registered
  <2>2. owners[g] = {"catalog"} /\ box[g] = "DuckDB"
    BY <2>1 DEF OnlyCurrent, BoxesOwned
  <2>3. /\ owners' = [owners EXCEPT ![g] = {}]
        /\ box' = [box EXCEPT ![g] = "freed"]
    BY <2>1, <2>2 DEF DropReference, Free
  <2>4. Types'
    BY <2>1, <2>3
  <2>5. BoxesOwned'
    BY <2>1, <2>3 DEF BoxesOwned
  <2>6. OnlyCurrent'
    BY <2>1, <2>3 DEF OnlyCurrent
  <2>7. \A f \in Functions : Done(f) => Done(f)'
    BY <2>1, <2>3 DEF Done
  <2>8. InOrder'
    BY <2>1, <2>2, <2>3, <2>7 DEF InOrder
  <2>9. Progress'
    <3>1. Done(current) => Done(current)'
      BY <2>1, <2>7 DEF Done
    <3> QED
      BY <2>1, <3>1 DEF Progress
  <2> QED
    BY <2>4, <2>5, <2>6, <2>8, <2>9
<1>7. CASE UNCHANGED vars
  BY <1>7 DEF vars, BoxesOwned, OnlyCurrent, InOrder, Done, Progress
<1> QED
  BY <1>1, <1>2, <1>3, <1>4, <1>5, <1>6, <1>7 DEF Next, Returned

\* Where a load is, what it holds and what DuckDB does, in every reachable state.
THEOREM LoadFollows == Spec => []LoadInv
  BY LoadInit, LoadStep, PTL DEF Spec

\* DuckDB never runs a freed callback, and frees none twice, whichever calls
\* fail, whatever the table lacks and in whatever order functions are dropped.
THEOREM CallbacksOutliveFunctions == Spec => []BoxOutlivesItsFunction
<1>1. LoadInv => BoxOutlivesItsFunction
  BY DEF LoadInv, Types, Boxes, BoxesOwned, BoxOutlivesItsFunction
<1> QED
  BY <1>1, LoadFollows, PTL

\* A silent load has registered the whole surface, however long it is.
THEOREM SilentLoadIsWhole == Spec => []SilenceMeansWholeSurface
<1>1. LoadInv => SilenceMeansWholeSurface
  <2> SUFFICES ASSUME LoadInv, pc = "returned", slot = "empty"
               PROVE  ~failed /\ \A f \in Functions : Done(f)
    BY DEF SilenceMeansWholeSurface, Registered, Done
  <2>1. ~failed /\ current = Len(Surface) /\ Done(current)
    BY DEF LoadInv, Progress
  <2>2. \A f \in Functions : f < current \/ f = current
    BY <2>1, SurfaceAssumption DEF Functions
  <2> QED
    BY <2>1, <2>2 DEF LoadInv, InOrder
<1> QED
  BY <1>1, LoadFollows, PTL

\* The tables of which nothing can be left behind: those with set_user_data.
TakesBoxes == \A choice \in MissingChoices : "set_user_data" \notin choice

\* The assumption is needed: v2! leaves the box just made to nobody when
\* the entry is missing (capi.rs:329-341).
THEOREM LoadLeavesNothing ==
  ASSUME TakesBoxes
  PROVE  Spec => []NothingLeftBehind
<1>1. Init => missing \in MissingChoices
  BY DEF Init
<1>2. missing \in MissingChoices /\ [Next]_vars => (missing \in MissingChoices)'
  BY DEF Next, vars, NoTable, Start, CallSucceeds, CallFails, EntryMissing, LeaveWithError,
         Destroy, Report, DropRegistered, Returned
<1>3. LoadInv /\ missing \in MissingChoices => NothingLeftBehind
  <2> SUFFICES ASSUME LoadInv, "set_user_data" \notin missing, pc = "returned"
               PROVE  /\ types = {}
                      /\ \A f \in Functions :
                           /\ handle[f] # "live"
                           /\ box[f] \in {"none", "DuckDB", "freed"}
                           /\ box[f] = "DuckDB" => owners[f] # {}
    BY DEF TakesBoxes, NothingLeftBehind
  <2> QED
    BY DEF LoadInv, Types, Boxes, BoxesOwned, OnlyCurrent
<1> QED
  BY <1>1, <1>2, <1>3, LoadFollows, PTL DEF Spec

=============================================================================

--------------------------- MODULE MCExtensionLoad ---------------------------
(***************************************************************************)
(* The surface register_all registers, and the tables it may be handed.    *)
(***************************************************************************)
EXTENDS ExtensionLoad

Scalar(parameters, volatile) == [parameters |-> parameters, volatile |-> volatile]

\* embed, is_truncated, version, model_id, models, cache_stats, cache_clear
SevenFunctions ==
  <<Scalar(1, FALSE), Scalar(1, FALSE), Scalar(0, FALSE), Scalar(0, FALSE),
    Scalar(0, FALSE), Scalar(0, TRUE), Scalar(0, TRUE)>>

\* The entries a registration calls.
Called == UNION {{Script(f)[n] : n \in 1 .. Len(Script(f))} : f \in Functions}

\* The whole table, or one that lacks one of them.
WholeOrOneMissing == {{}} \cup {{entry} : entry \in Called \cup {"get_factory"}}

\* The same, with the entry that takes the box always there.
TakesTheBox == {choice \in WholeOrOneMissing : "set_user_data" \notin choice}

=============================================================================

--------------------------- MODULE MCMutationSweep ---------------------------
(***************************************************************************)
(* A short table with every kind of mutation, two of them in one file.     *)
(***************************************************************************)
EXTENDS MutationSweep

Break(file, kind, builds) == [file |-> file, kind |-> kind, builds |-> builds]

ShortTable ==
  <<Break("lib.rs", "sql", FALSE), Break("model.rs", "rust", FALSE),
    Break("model.rs", "script", FALSE), Break("lib.rs", "script", TRUE)>>

=============================================================================

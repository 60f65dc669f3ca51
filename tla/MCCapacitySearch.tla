-------------------------- MODULE MCCapacitySearch --------------------------
(***************************************************************************)
(* A scaled-down cache for TLC, under an allocator that may round a size   *)
(* up and serve it from a recycled block, or hand out what it is asked     *)
(* for.                                                                    *)
(***************************************************************************)
EXTENDS CapacitySearch

\* Every budget around the first doublings of the scaled bucket array.
SmallBudgets == 0 .. 45

=============================================================================

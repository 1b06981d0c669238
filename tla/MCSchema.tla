----------------------------- MODULE MCSchema ------------------------------
(***************************************************************************)
(* The schema with one or two processes, tables and columns.               *)
(***************************************************************************)
EXTENDS Schema

Alike == Permutations(Procs) \cup Permutations(Columns)
=============================================================================

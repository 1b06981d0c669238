---------------------------- MODULE MCTableFile ----------------------------
(***************************************************************************)
(* The table file with a few query objects, keys and rows.                 *)
(***************************************************************************)
EXTENDS TableFile

TwoQueries == Permutations(Writers) \cup Permutations(Readers)
=============================================================================

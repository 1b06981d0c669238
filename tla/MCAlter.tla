------------------------------ MODULE MCAlter ------------------------------
(***************************************************************************)
(* Alterations with a few names of columns and rows.                       *)
(***************************************************************************)
EXTENDS Alter

Renamings == Permutations(Names)
=============================================================================

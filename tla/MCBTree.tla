------------------------------ MODULE MCBTree ------------------------------
(***************************************************************************)
(* The index on small instances: any order of inserts with crashes (Spec), *)
(* a client in ascending order that makes mistakes (RepeatingSpec), past   *)
(* the third split of the root, and one that inserts each key once         *)
(* (OnceSpec).                                                             *)
(***************************************************************************)
EXTENDS BTree

OneKey     == {1}
GappedKeys == {1, 9, 30}
FiveKeys   == 1 .. 5
EightKeys  == 1 .. 8
=============================================================================

------------------------------ MODULE IndexMap ------------------------------
(***************************************************************************)
(* What the index of a table stands for: a map from the keys inserted so   *)
(* far to the locations of their rows.  A key is put once, for a row that  *)
(* lies behind all rows put before it, and stays.                          *)
(***************************************************************************)
EXTENDS Integers

VARIABLE map

TypeOK == DOMAIN map \subseteq Int /\ \A k \in DOMAIN map : map[k] \in Nat

Init == map = [k \in {} |-> 0]

Put(k, location) ==
  /\ k \notin DOMAIN map
  /\ \A j \in DOMAIN map : map[j] < location
  /\ map' = [j \in DOMAIN map \cup {k} |-> IF j = k THEN location ELSE map[j]]

\* Some new key is put.
Next == \E k \in DOMAIN map' : Put(k, map'[k])

Spec == Init /\ [][Next]_map
=============================================================================

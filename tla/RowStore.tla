------------------------------ MODULE RowStore ------------------------------
(***************************************************************************)
(* What a table promises: a set of rows, each told apart by the number of  *)
(* rows inserted before it.  A row is added, and every row whose key meets *)
(* a condition is removed or given another key, each in one step.          *)
(***************************************************************************)
EXTENDS Naturals

CONSTANT Keys           \* what the conditions and updates of a query are about

Row == [serial : Nat, key : Keys]

Removed(rows, cond)      == {r \in rows : r.key \notin cond}
Changed(rows, cond, key) ==
  Removed(rows, cond) \cup
    {[serial |-> r.serial, key |-> key] : r \in {s \in rows : s.key \in cond}}

VARIABLE table

Init == table = {}

Insert(r) == (\A s \in table : s.serial < r.serial) /\ table' = table \cup {r}

Delete == \E cond \in SUBSET Keys : table' = Removed(table, cond)

Update == \E cond \in SUBSET Keys, key \in Keys : table' = Changed(table, cond, key)

Next == (\E r \in table' : Insert(r)) \/ Delete \/ Update

Spec == Init /\ [][Next]_table
=============================================================================

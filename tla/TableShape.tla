----------------------------- MODULE TableShape -----------------------------
(***************************************************************************)
(* What altering a table promises: its columns change one at a time, and   *)
(* every row changes with them, at the same place.                         *)
(***************************************************************************)
EXTENDS Integers, SequencesExt

CONSTANTS Names,   \* names of columns
          Null     \* the value of a row in a column added later

VARIABLES columns,   \* sequence of columns, each with a name and whether it counts
          rows       \* sequence of rows, a value for each column

Column == [name : Names, counts : BOOLEAN]

NamesOf(cs) == {cs[i].name : i \in DOMAIN cs}

Init == columns \in Seq(Column) /\ rows = <<>>

Insert ==
  /\ rows' = Append(rows, [i \in DOMAIN columns |-> i])
  /\ UNCHANGED columns

\* A new column after the first n.
Add(c, n) ==
  /\ c.name \notin NamesOf(columns)
  /\ columns' = InsertAt(columns, n + 1, c)
  /\ rows' = [r \in DOMAIN rows |-> InsertAt(rows[r], n + 1, Null)]

Drop(n) ==
  /\ columns' = RemoveAt(columns, n)
  /\ rows' = [r \in DOMAIN rows |-> RemoveAt(rows[r], n)]

Change(n, c) ==
  /\ c.name \notin NamesOf(RemoveAt(columns, n))
  /\ columns' = ReplaceAt(columns, n, c)
  /\ UNCHANGED rows

Next ==
  \/ Insert
  \/ \E c \in Column, n \in 0 .. Len(columns) : Add(c, n)
  \/ \E c \in Column, n \in DOMAIN columns : Change(n, c)
  \/ \E n \in DOMAIN columns : Drop(n)

Spec == Init /\ [][Next]_<<columns, rows>>
=============================================================================

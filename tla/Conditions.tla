----------------------------- MODULE Conditions -----------------------------
(***************************************************************************)
(* The conditions of a query on a row, and the largest and smallest value  *)
(* of a column: execute/condition/*.zep, execute/select.zep.               *)
(*                                                                         *)
(* A cell is a string.  What PHP makes of one is external: intval(),       *)
(* strtotime(), which strings are == to each other, and its characters.    *)
(***************************************************************************)
EXTENDS Like

CONSTANTS Columns,    \* the columns of the table
          Type,       \* the type of each column
          Cells,      \* the values of rows and of conditions
          Intval,     \* the number each cell begins with, or zero
          Strtotime,  \* the time each cell stands for
          Loosely,    \* the pairs of cells that are ==
          Text,       \* the characters of each cell
          Patterns,   \* the patterns of like conditions
          Blank,      \* the empty cell
          None        \* no column, no cell

ASSUME TypeAssumption  == Type \in [Columns -> {"int", "string", "text", "date", "datetime"}]
ASSUME CellsAssumption ==
  Intval \in [Cells -> Int] /\ Strtotime \in [Cells -> Int] /\ Loosely \subseteq Cells \X Cells
ASSUME TextAssumption  == Text \in [Cells -> Seq(STRING)]
ASSUME PatternsAssumption ==
  \A p \in Patterns : p \in Seq(STRING) /\ ToSet(p) \cap {"(.*)", "(.)"} = {}
ASSUME NoneAssumption  == None \notin Columns /\ None \notin Cells /\ Blank \in Cells

Row == [Columns -> Cells]

\* What a column is compared with: equals has one value, within several.
Tests ==
  [op : {"within"}, values : SUBSET Cells]
    \cup [op : {"like"}, pattern : Patterns]
    \cup [op : {"moreThan", "lessThan"}, than : Cells, equal : BOOLEAN]
    \cup [op : {"between"}, low : Cells, high : Cells, equal : BOOLEAN]

Condition == [column : Columns \cup {None}, matches : BOOLEAN, test : Tests]

\* What ranges go by: only dates are times, a datetime is the number of its year.
Value(column, cell) == IF Type[column] = "date" THEN Strtotime[cell] ELSE Intval[cell]

Within(cell, values) == \E v \in values : <<cell, v>> \in Loosely

\* Variant: the higher value counts as between, the lower does not.
BetweenHalf(x, low, high, equal) == IF equal THEN low < x /\ x <= high ELSE low < x /\ x < high

Less(x, y, equal)           == IF equal THEN x <= y ELSE x < y
More(x, y, equal)           == IF equal THEN x >= y ELSE x > y
Between(x, low, high, equal) ==
  IF equal THEN low <= x /\ x <= high ELSE low < x /\ x < high

Holds(test, column, cell) ==
  CASE test.op = "within"   -> Within(cell, test.values)
    [] test.op = "like"     -> LikeMatches(test.pattern, Text[cell])
    [] test.op = "lessThan" -> Less(Value(column, cell), Value(column, test.than), test.equal)
    [] test.op = "moreThan" -> More(Value(column, cell), Value(column, test.than), test.equal)
    [] test.op = "between"  -> Between(Value(column, cell), Value(column, test.low),
                                       Value(column, test.high), test.equal)

Matches(c, row) == c.matches = Holds(c.test, c.column, row[c.column])

\* The rows that match all of a list of conditions, by their place.
Selected(rows, conditions) ==
  {i \in DOMAIN rows : \A c \in ToSet(conditions) : Matches(c, rows[i])}

-----------------------------------------------------------------------------
\* What a search of the first i rows found: the value to beat, and the cell it is of.
Search(start, rows, column, up) ==
  LET best[i \in 0 .. Len(rows)] ==
        IF i = 0 THEN start
        ELSE LET cell == rows[i][column]
                 x    == Value(column, cell)
                 y    == best[i - 1].value
             IN  IF (up /\ x > y) \/ (~up /\ x < y) THEN [value |-> x, cell |-> cell]
                 ELSE best[i - 1]
  IN  best

\* The search for the largest starts from zero, with no cell.
HighestValue(rows, column) ==
  Search([value |-> 0, cell |-> None], rows, column, TRUE)[Len(rows)].cell

\* Variant: so does the search for the smallest.
LowestValueFromZero(rows, column) ==
  Search([value |-> 0, cell |-> None], rows, column, FALSE)[Len(rows)].cell

\* The search for the smallest starts from the first row.
LowestValue(rows, column) ==
  IF rows = <<>> THEN None
  ELSE Search([value |-> Value(column, rows[1][column]), cell |-> rows[1][column]],
              rows, column, FALSE)[Len(rows)].cell

\* The rows without those at some places, written one after the other.
Rewritten(rows, gone) ==
  LET kept[i \in 0 .. Len(rows)] ==
        IF i = 0 THEN <<>>
        ELSE IF i \in gone THEN kept[i - 1] ELSE Append(kept[i - 1], rows[i])
  IN  kept
=============================================================================

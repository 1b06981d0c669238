------------------------------- MODULE Query -------------------------------
(***************************************************************************)
(* The calls that make up a query: execute/condition.zep, and select.zep,  *)
(* delete.zep and update.zep over it.                                      *)
(*                                                                         *)
(* A client calls where(), not() and comparisons in any order, and done()  *)
(* as often as it likes; it may catch an exception and go on.  The rows    *)
(* are read and rewritten in one step (TableFile has the steps), and no    *)
(* other process has the table.                                            *)
(***************************************************************************)
EXTENDS Conditions

CONSTANTS Kinds,          \* what the query objects do: select, delete or update
          CellsOf,        \* the cells a client puts into and compares with each column
          Rank,           \* what the cells of each column stand for, in order
          Missing,        \* a name of no column
          Used,           \* the false that reset() leaves instead of a column
          Careless,       \* what the client does not look after
          MaxRows,        \* bound: the table of a query of each kind has at most so many rows
          MaxConditions   \* bound: a query of each kind is built no further then

ASSUME KindsAssumption    == Kinds \subseteq {"select", "delete", "update"}
ASSUME CellsOfAssumption  == CellsOf \in [Columns -> SUBSET Cells]
ASSUME RankAssumption     ==
  \A c \in Columns :
    /\ Rank[c] \in [CellsOf[c] -> Int]
    /\ \A v, w \in CellsOf[c] :
         /\ <<v, w>> \in Loosely <=> Rank[c][v] = Rank[c][w]
         /\ Type[c] \in {"int", "date"} =>
              (Value(c, v) < Value(c, w) <=> Rank[c][v] < Rank[c][w])
ASSUME MissingAssumption  == {Missing, Used} \cap (Columns \cup {None}) = {}
ASSUME CarelessAssumption == Careless \subseteq {"unselected", "order", "highest", "recount", "pattern"}
ASSUME BoundsAssumption   == MaxRows \in [Kinds -> Nat] /\ MaxConditions \in [Kinds -> Nat]

VARIABLES kind,           \* what the query object does
          rows,           \* the rows of the table
          currentColumn,  \* the column selected, Used after a condition, None at first
          isNot,          \* whether the next condition is reversed
          conditions,     \* the conditions
          joins,          \* whether a table was joined
          columns,        \* the columns to update
          values,         \* the cells to update them with
          result,         \* what the last call returned, if it was done(), max() or min()
          asked           \* history: the column last named, whether not() was called
                          \* since the last condition, and the conditions asked for

vars == <<kind, rows, currentColumn, isNot, conditions, joins, columns, values, result, asked>>
builder == <<currentColumn, isNot, conditions, asked>>

\* The calls that answer, and what they answer with: places of rows, or a cell.
Answer == [of : {"select", "delete", "update", "refused"}, rows : SUBSET Nat]
            \cup [of : {"max", "min"}, column : Columns, cell : Cells \cup {None}]

TypeOK ==
  /\ kind \in Kinds
  /\ rows \in Seq(Row)
  /\ currentColumn \in Columns \cup {Used, None}
  /\ isNot \in BOOLEAN
  /\ conditions \in Seq(Condition)
  /\ joins \in BOOLEAN
  /\ columns \in Seq(Columns)
  /\ values \in Seq(Cells)
  /\ result \in Answer \cup {None}
  /\ asked \in [column : Columns \cup {None}, not : BOOLEAN, conditions : SUBSET Condition]

Building == Len(conditions) < MaxConditions[kind]

Care(what, looked) == what \in Careless \/ looked

\* The comparisons a client makes with a column.
TestsOf(c) ==
  [op : {"within"}, values : SUBSET CellsOf[c]]
    \cup [op : {"like"}, pattern : Patterns]
    \cup [op : {"moreThan", "lessThan"}, than : CellsOf[c], equal : BOOLEAN]
    \cup [op : {"between"}, low : CellsOf[c], high : CellsOf[c], equal : BOOLEAN]

AllTests == UNION {TestsOf(c) : c \in Columns}

RowsOf == {r \in Row : \A c \in Columns : r[c] \in CellsOf[c]}

-----------------------------------------------------------------------------
Init ==
  /\ kind \in Kinds
  /\ rows \in BoundedSeq(RowsOf, MaxRows[kind])
  /\ currentColumn = None
  /\ isNot = FALSE
  /\ conditions = <<>>
  /\ joins = FALSE
  /\ columns = <<>>
  /\ values = <<>>
  /\ result = None
  /\ asked = [column |-> None, not |-> FALSE, conditions |-> {}]

\* where() of a name that is not there throws and changes nothing.
Where(c) ==
  /\ Building
  /\ IF c \in Columns
       THEN currentColumn' = c /\ asked' = [asked EXCEPT !.column = c]
       ELSE UNCHANGED <<currentColumn, asked>>
  /\ result' = None
  /\ UNCHANGED <<kind, rows, isNot, conditions, joins, columns, values>>

Not ==
  /\ Building
  /\ isNot' = TRUE
  /\ asked' = [asked EXCEPT !.not = TRUE]
  /\ result' = None
  /\ UNCHANGED <<kind, rows, currentColumn, conditions, joins, columns, values>>

\* Variant: the next condition is reversed as well.
ResetColumn == currentColumn' = Used /\ UNCHANGED isNot

Reset == currentColumn' = Used /\ isNot' = FALSE

\* equals(), within(), moreThan(), lessThan(), between() and like(): throws once a
\* column was used, but not before the first was selected.
Compare(test) ==
  /\ Building
  /\ IF currentColumn = Used
       THEN UNCHANGED builder
       ELSE LET condition == [column |-> currentColumn, matches |-> ~isNot, test |-> test] IN
              /\ conditions' = Append(conditions, condition)
              /\ Reset
              /\ asked' = [asked EXCEPT
                   !.not = FALSE,
                   !.conditions = @ \cup {[column |-> asked.column, matches |-> ~asked.not,
                                           test |-> test]}]
  /\ result' = None
  /\ UNCHANGED <<kind, rows, joins, columns, values>>

\* The client knows the column, if it has to.
CompareAny ==
  /\ Building
  /\ Care("unselected", currentColumn # None)
  /\ \E c \in Columns, test \in AllTests :
       /\ currentColumn \in Columns => c = currentColumn
       /\ test \in TestsOf(c)
       /\ Care("pattern", test.op = "like" => OneSort(test.pattern))
       /\ Care("order", test.op \in {"within", "like"} \/ Type[c] \in {"int", "date"})
       /\ Compare(test)

-----------------------------------------------------------------------------
\* The conditions of all rows are asked; one without a column cannot answer.
Asks == rows # <<>> /\ \E c \in ToSet(conditions) : c.column = None
Refused == [of |-> "refused", rows |-> {}]
Found == Selected(rows, conditions)

Join ==
  /\ kind = "select"
  /\ joins' = TRUE
  /\ result' = None
  /\ UNCHANGED <<kind, rows, builder, columns, values>>

\* Joined tables have no results; with conditions there is no answer.
DoneSelect ==
  /\ kind = "select"
  /\ result' = IF joins THEN [of |-> "select", rows |-> {}]
               ELSE IF Asks THEN Refused
               ELSE [of |-> "select", rows |-> Found]
  /\ UNCHANGED <<kind, rows, builder, joins, columns, values>>

\* Without conditions all rows are deleted, which is what matches none of them.
DoneDelete ==
  /\ kind = "delete"
  /\ IF Asks THEN result' = Refused /\ UNCHANGED rows
     ELSE /\ result' = [of |-> "delete", rows |-> Found]
          /\ rows' = Rewritten(rows, Found)[Len(rows)]
  /\ UNCHANGED <<kind, builder, joins, columns, values>>

\* The columns before the first that is missing are set, and then it throws.
SetColumns(cs) ==
  /\ kind = "update"
  /\ Care("recount", values = <<>>)
  /\ columns' = SubSeq(cs, 1, SelectInSeq(Append(cs, Missing), LAMBDA c : c \notin Columns) - 1)
  /\ result' = None
  /\ UNCHANGED <<kind, rows, builder, joins, values>>

\* Throws unless there are as many values as columns.
Values(vs) ==
  /\ kind = "update"
  /\ \A i \in DOMAIN vs \cap DOMAIN columns : vs[i] \in CellsOf[columns[i]]
  /\ values' = IF Len(vs) = Len(columns) THEN vs ELSE values
  /\ result' = None
  /\ UNCHANGED <<kind, rows, builder, joins, columns>>

\* Variant: the values are put in from the last column on.
UpdatedBackwards(row) ==
  [c \in Columns |->
     LET at == SelectLastInSeq(columns, LAMBDA d : d = c)
     IN  IF at = 0 THEN row[c] ELSE values[Len(values) + 1 - at]]

\* Of a column that is named twice the last value counts; one without a value
\* becomes empty.
Updated(row) ==
  [c \in Columns |->
     LET at == SelectLastInSeq(columns, LAMBDA d : d = c)
     IN  IF at = 0 THEN row[c] ELSE IF at \in DOMAIN values THEN values[at] ELSE Blank]

DoneUpdate ==
  /\ kind = "update"
  /\ Care("recount", Len(values) = Len(columns))
  /\ IF Asks THEN result' = Refused /\ UNCHANGED rows
     ELSE /\ result' = [of |-> "update", rows |-> Found]
          /\ rows' = [i \in DOMAIN rows |-> IF i \in Found THEN Updated(rows[i]) ELSE rows[i]]
  /\ UNCHANGED <<kind, builder, joins, columns, values>>

\* max() and min() of all rows, whatever the conditions.
SelectMax(c) ==
  /\ kind = "select"
  /\ Care("order", Type[c] \in {"int", "date"})
  /\ Care("highest", \E i \in DOMAIN rows : Value(c, rows[i][c]) > 0)
  /\ result' = [of |-> "max", column |-> c, cell |-> HighestValue(rows, c)]
  /\ UNCHANGED <<kind, rows, builder, joins, columns, values>>

SelectMin(c) ==
  /\ kind = "select"
  /\ Care("order", Type[c] \in {"int", "date"})
  /\ result' = [of |-> "min", column |-> c, cell |-> LowestValue(rows, c)]
  /\ UNCHANGED <<kind, rows, builder, joins, columns, values>>

\* The lists of columns and of cells given to an update.
ColumnLists == BoundedSeq(Columns \cup {Missing}, 2)
CellLists   == BoundedSeq(UNION {CellsOf[c] : c \in Columns}, 2)

Next ==
  \/ \E c \in Columns \cup {Missing} : Where(c)
  \/ Not \/ CompareAny \/ Join
  \/ DoneSelect \/ DoneDelete \/ DoneUpdate
  \/ \E cs \in ColumnLists : SetColumns(cs)
  \/ \E vs \in CellLists : Values(vs)
  \/ \E c \in Columns : SelectMax(c) \/ SelectMin(c)

Spec == Init /\ [][Next]_vars

-----------------------------------------------------------------------------
(* What a query promises.                                                  *)

\* What a comparison means, by what the cells of the column stand for.
Means(test, c, cell) ==
  LET Above(v) == Rank[c][cell] - Rank[c][v]
      At(v)    == test.equal /\ Above(v) = 0
  IN  \/ test.op = "within"   /\ \E v \in test.values : Above(v) = 0
      \/ test.op = "like"     /\ LikeMeans(test.pattern, Text[cell])
      \/ test.op = "moreThan" /\ (Above(test.than) > 0 \/ At(test.than))
      \/ test.op = "lessThan" /\ (Above(test.than) < 0 \/ At(test.than))
      \/ test.op = "between"  /\ (Above(test.low) > 0 \/ At(test.low))
                             /\ (Above(test.high) < 0 \/ At(test.high))

Wanted(row) ==
  \A c \in asked.conditions : c.matches = Means(c.test, c.column, row[c.column])

Answered == result'.of \in {"select", "delete", "update"}

\* The new rows are the old ones at some places, in order.
Rest(new, old, places) ==
  \E at \in [DOMAIN new -> places] :
    /\ \A k \in DOMAIN new : new[k] = old[at[k]]
    /\ \A k, l \in DOMAIN new : k < l => at[k] < at[l]
    /\ \A i \in places : \E k \in DOMAIN new : at[k] = i

\* done() finds the rows that match every condition asked for since the query object
\* was made, each with its own not(), whatever was called in between, caught or
\* called again (condition.zep, select.zep done); queries with a join are not looked at.
AnswersAsked ==
  [][result' # None /\ Answered /\ ~joins =>
       result'.rows = {i \in DOMAIN rows : Wanted(rows[i])}]_vars

\* Only rows asked for are deleted or changed, and of those only the columns set,
\* to the values given for them (delete.zep done, update.zep done).
WritesAsked ==
  [][/\ kind = "delete" /\ rows' # rows =>
          Rest(rows', rows, {i \in DOMAIN rows : ~Wanted(rows[i])})
     /\ kind = "update" /\ rows' # rows =>
          /\ DOMAIN rows' = DOMAIN rows
          /\ \A i \in DOMAIN rows, c \in Columns :
               \/ rows'[i][c] = rows[i][c]
               \/ Wanted(rows[i]) /\ \E j \in DOMAIN columns :
                    columns[j] = c /\ rows'[i][c] = values[j]]_vars

\* max() and min() of a table with rows answer with a cell of the column that no
\* other row has a larger or a smaller one than (select.zep max, min).
ExtremesFound ==
  result # None /\ result.of \in {"max", "min"} /\ rows # <<>> =>
    \E i \in DOMAIN rows : \A j \in DOMAIN rows :
      LET c == result.column
          more == Rank[c][rows[i][c]] - Rank[c][rows[j][c]]
      IN  result.cell = rows[i][c] /\ IF result.of = "max" THEN more >= 0 ELSE more <= 0

\* Every condition is about a column (condition.zep).
ColumnsSelected == \A i \in DOMAIN conditions : conditions[i].column # None

\* An update puts no cell into a row that nobody gave (update.zep values).
NothingBlanked == \A i \in DOMAIN rows, c \in Columns : rows[i][c] # Blank
=============================================================================

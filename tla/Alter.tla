------------------------------- MODULE Alter -------------------------------
(***************************************************************************)
(* Altering a table: schema/alter.zep, with the parts of table.zep and     *)
(* schema.zep it goes through.                                             *)
(*                                                                         *)
(* An Alter object edits a Table in memory, saves its definition, and then *)
(* rewrites the rows.  The schema keeps a Table as well, which it saves    *)
(* when the process ends: the one the Alter edits, until a save or another *)
(* query loads a new one.                                                  *)
(*                                                                         *)
(* A column is its name and whether it has INCREMENT_FLAG.  A row is the   *)
(* sequence of values that its line is read as; the rewriting, line by     *)
(* line with a rename at the end, is one step here (TableFile has its      *)
(* steps).                                                                 *)
(***************************************************************************)
EXTENDS Integers, SequencesExt, FiniteSetsExt

CONSTANTS Names,       \* names of columns
          Null,        \* the value of a row in a column added later
          None,        \* no name, no table
          Careless,    \* what the client does not look after
          MaxColumns,  \* bound: no column is added to so many
          MaxRows,     \* bound: no row is inserted after so many
          MaxUses      \* bound: no call on an Alter whose column map got so long

ASSUME NoneAssumption     == None \notin Names
ASSUME NullAssumption     == Null \notin Nat
ASSUME CarelessAssumption ==
  Careless \subseteq {"increment", "reuse", "after", "duplicate", "relation", "unknown", "empty", "crash"}
ASSUME BoundsAssumption   == MaxColumns \in Nat /\ MaxRows \in Nat /\ MaxUses \in Nat

VARIABLES defined,    \* the columns in the file "columns"
          relations,  \* the child columns of the relations in the file "relations"
          rows,       \* the lines of the file "data", as they are read
          table,      \* the Table of the Alter object, if there is one
          held,       \* the Table the schema holds: that one, a newer, or none
          doing       \* the rewriting left to do of the alteration in progress

vars == <<defined, relations, rows, table, held, doing>>

Column  == [name : Names, counts : BOOLEAN]
Entry   == [key : Names \cup {None}, column : Column]
Table   == [entries : Seq(Entry), names : Seq(Names), counts : BOOLEAN]
Idle    == [kind |-> "idle", at |-> 0, after |-> None]
Pending == [kind : {"add", "remove"}, at : Nat, after : Names \cup {None}]

TypeOK ==
  /\ defined \in Seq(Column)
  /\ relations \subseteq Names
  /\ rows \in Seq(Seq(Nat \cup {Null}))
  /\ table \in Table \cup {None}
  /\ held \in {"edited", "loaded", "none"}
  /\ doing \in Pending \cup {Idle}

Shape == INSTANCE TableShape WITH columns <- defined

NamesOf(cs) == Shape!NamesOf(cs)
Counting(cs) == \E i \in DOMAIN cs : cs[i].counts

-----------------------------------------------------------------------------
(* Tables in memory.                                                       *)

\* The columns that addColumn() accepts, one after the other, up to the first with
\* a name that is there or that would be the second to count.
Refused(cs, counts, i) ==
  \/ \E j \in 1 .. i - 1 : cs[j].name = cs[i].name
  \/ cs[i].counts /\ (counts \/ \E j \in 1 .. i - 1 : cs[j].counts)

Accepted(cs, counts) ==
  LET refused == {i \in DOMAIN cs : Refused(cs, counts, i)}
  IN  IF refused = {} THEN cs ELSE SubSeq(cs, 1, Min(refused) - 1)

ColumnsOf(t) == [i \in DOMAIN t.entries |-> t.entries[i].column]
Keys(t)      == {t.entries[i].key : i \in DOMAIN t.entries}
KeyAt(t, n)  == SelectInSeq(t.entries, LAMBDA e : e.key = n)

\* The place of a name in the column map, zero if it is not there.
MapAt(t, n)  == SelectInSeq(t.names, LAMBDA m : m = n)

\* setColumns([]) and addColumn() for each: the name map only grows.
Refilled(t, cs) ==
  [entries |-> [i \in DOMAIN cs |-> [key |-> cs[i].name, column |-> cs[i]]],
   names   |-> t.names \o [i \in DOMAIN cs |-> cs[i].name],
   counts  |-> t.counts \/ Counting(cs)]

\* new Table() with the columns of a definition, and whether it throws.
Loaded(cs) == Refilled([entries |-> <<>>, names |-> <<>>, counts |-> FALSE], cs)
Loads(cs)  == Accepted(cs, FALSE) = cs /\ relations \subseteq NamesOf(cs)

\* The map of names agrees with the columns.
InStep(t) == t.names = [i \in DOMAIN t.entries |-> t.entries[i].key]

Care(what, looked) == what \in Careless \/ looked

-----------------------------------------------------------------------------
\* A table was created with any columns that new Table() takes, and is empty.
Init ==
  /\ defined \in {cs \in BoundedSeq(Column, MaxColumns) : Accepted(cs, FALSE) = cs}
  /\ relations \in SUBSET NamesOf(defined)
  /\ rows = <<>>
  /\ table = None
  /\ held = "loaded"
  /\ doing = Idle

\* Schema::alterTable: the Alter gets the Table that the schema holds.
AlterTable ==
  /\ doing = Idle
  /\ Loads(defined)
  /\ table' = Loaded(defined)
  /\ held' = "edited"
  /\ UNCHANGED <<defined, relations, rows, doing>>

MayAlter ==
  /\ doing = Idle
  /\ table # None
  /\ Len(table.names) < MaxUses
  /\ Care("reuse", InStep(table))

\* saveTable(): the definition is written, and then loaded; when that throws, the
\* rows are not rewritten.
Save(t, then) ==
  /\ table' = t
  /\ defined' = ColumnsOf(t)
  /\ IF Loads(ColumnsOf(t))
       THEN held' = "loaded" /\ doing' = then
       ELSE held' = "none"   /\ doing' = Idle
  /\ UNCHANGED <<relations, rows>>

\* A new column: the client knows what the table has.
Fits(c, cs) ==
  Care("duplicate", c.name \notin NamesOf(cs) /\ ~(c.counts /\ Counting(cs)))

AddColumn(c) ==
  /\ MayAlter
  /\ Len(table.entries) < MaxColumns
  /\ c.name \notin Keys(table)
  /\ ~(c.counts /\ table.counts)
  /\ Fits(c, ColumnsOf(table))
  /\ Save([entries |-> Append(table.entries, [key |-> c.name, column |-> c]),
           names   |-> Append(table.names, c.name),
           counts  |-> table.counts \/ c.counts],
          [kind |-> "add", at |-> Len(table.entries), after |-> None])

\* Variant: the place of the name itself.
PlaceBefore(t, n) == IF MapAt(t, n) <= 1 THEN 0 ELSE MapAt(t, n) - 1

\* The place of the new column: one after that of the name, and one as well when
\* the name is not found.  array_slice() takes what there is.
PlaceAfter(t, n)  == IF MapAt(t, n) = 0 THEN 1 ELSE MapAt(t, n)

Placed(s, at, x) == InsertAt(s, IF at < Len(s) THEN at + 1 ELSE Len(s) + 1, x)

\* The new column has no name as its key, and the map does not have it.
AddColumnAfter(c, after) ==
  /\ MayAlter
  /\ Len(table.entries) < MaxColumns
  /\ Fits(c, ColumnsOf(table))
  /\ Care("after", after \in NamesOf(ColumnsOf(table)))
  /\ LET at == PlaceAfter(table, after) IN
       Save([table EXCEPT !.entries = Placed(@, at, [key |-> None, column |-> c])],
            [kind |-> "add", at |-> at, after |-> after])

\* The columns are put back one by one; the first refused throws, and the Table
\* stays as it then is.
Refill(cs, then) ==
  LET t == Refilled(table, Accepted(cs, table.counts))
  IN  IF Accepted(cs, table.counts) = cs
        THEN Save(t, then)
        ELSE table' = t /\ UNCHANGED <<defined, relations, rows, held, doing>>

\* What unset() and array_values() leave: all of it, if there is no such place.
Without(s, i) == IF i \in DOMAIN s THEN RemoveAt(s, i) ELSE s

\* Variant: the column behind the name.
RemoveColumnNext(n) ==
  /\ MayAlter
  /\ n \in Keys(table)
  /\ LET rest == Without(ColumnsOf(table), KeyAt(table, n) + 1) IN
       /\ Care("increment", ~Counting(rest))
       /\ Care("relation", n \notin relations)
       /\ Care("empty", rest # <<>> \/ rows = <<>>)
       /\ Refill(rest, [kind |-> "remove", at |-> MapAt(table, n), after |-> None])

\* Variant: the values are those one place before.
RemoveColumnBefore(n) ==
  /\ MayAlter
  /\ n \in Keys(table)
  /\ LET rest == Without(ColumnsOf(table), KeyAt(table, n)) IN
       /\ Care("increment", ~Counting(rest))
       /\ Care("relation", n \notin relations)
       /\ Care("empty", rest # <<>> \/ rows = <<>>)
       /\ Refill(rest, [kind |-> "remove", at |-> MapAt(table, n) - 1, after |-> None])

RemoveColumn(n) ==
  /\ MayAlter
  /\ n \in Keys(table)
  /\ LET rest == Without(ColumnsOf(table), KeyAt(table, n)) IN
       /\ Care("increment", ~Counting(rest))
       /\ Care("relation", n \notin relations)
       /\ Care("empty", rest # <<>> \/ rows = <<>>)
       /\ Refill(rest, [kind |-> "remove", at |-> MapAt(table, n), after |-> None])

\* A name that is not there gets a column of its own.
ChangeColumn(n, c) ==
  /\ MayAlter
  /\ n \notin Keys(table) => Len(table.entries) < MaxColumns
  /\ Care("unknown", n \in Keys(table))
  /\ LET cs     == ColumnsOf(table)
         others == Without(cs, KeyAt(table, n))
         new    == IF n \in Keys(table) THEN ReplaceAt(cs, KeyAt(table, n), c)
                                        ELSE Append(cs, c)
     IN  /\ Care("increment", ~(table.counts /\ Counting(new)))
         /\ Fits(c, others)
         /\ Care("relation", n \in relations => c.name = n)
         /\ Refill(new, Idle)

-----------------------------------------------------------------------------
\* A row of no values is written as an empty line, which is read as one null.
Line(row) == IF row = <<>> THEN <<Null>> ELSE row

\* Variant: the new value comes last.
RewrittenLast(row) ==
  Line(IF doing.kind = "add" THEN Append(row, Null) ELSE Without(row, doing.at))

\* The closures that addColumn() and removeColumn() give to callback().
Rewritten(row) ==
  Line(IF doing.kind = "add" THEN Placed(row, doing.at, Null) ELSE Without(row, doing.at))

RowsRewritten == [r \in DOMAIN rows |-> Rewritten(rows[r])]

Rewrite ==
  /\ doing # Idle
  /\ rows' = RowsRewritten
  /\ doing' = Idle
  /\ UNCHANGED <<defined, relations, table, held>>

\* A query loads the table anew; an insert appends a row as wide as it says.
Insert ==
  /\ doing = Idle
  /\ Loads(defined)
  /\ Len(rows) < MaxRows
  /\ Care("empty", defined # <<>>)
  /\ rows' = Append(rows, Line([i \in DOMAIN defined |-> i]))
  /\ held' = "loaded"
  /\ UNCHANGED <<defined, relations, table, doing>>

\* The process ends, also by an exception nobody catches: the schema saves the
\* Table it holds.  The next process loads what is there, if it can.
Exit ==
  /\ doing = Idle
  /\ defined' = IF held = "edited" THEN ColumnsOf(table) ELSE defined
  /\ table' = None
  /\ held' = IF Loads(defined') THEN "loaded" ELSE "none"
  /\ UNCHANGED <<relations, rows, doing>>

\* The process is killed.
Crash ==
  /\ Care("crash", doing = Idle)
  /\ table' = None
  /\ held' = IF Loads(defined) THEN "loaded" ELSE "none"
  /\ doing' = Idle
  /\ UNCHANGED <<defined, relations, rows>>

Next ==
  \/ AlterTable
  \/ \E c \in Column : AddColumn(c)
  \/ \E c \in Column, n \in Names : AddColumnAfter(c, n) \/ ChangeColumn(n, c)
  \/ \E n \in Names : RemoveColumn(n)
  \/ Rewrite \/ Insert \/ Exit \/ Crash

Spec == Init /\ [][Next]_vars

-----------------------------------------------------------------------------
(* What an alteration promises.                                            *)

\* Between alterations every row has a value for each column (schema/alter.zep;
\* Table::insertRow refuses any other row).
WidthsAgree ==
  doing = Idle => \A r \in DOMAIN rows : Len(rows[r]) = Len(defined)

\* The definition on disk is always one that a Table can be made of: names differ,
\* one column counts, and relations have their column (table.zep addColumn,
\* addRelation; schema.zep refresh).
OpensAgain == Loads(defined)

\* A column added after another stands behind it (alter.zep addColumn).
AfterNamed ==
  doing.kind = "add" /\ doing.after # None =>
    doing.at \in DOMAIN defined /\ defined[doing.at].name = doing.after

\* The columns change one at a time and the values of each row with them, at the
\* same place; a row that is still to be rewritten counts as rewritten.
Promise ==
  INSTANCE TableShape WITH
    columns <- defined,
    rows    <- IF doing = Idle THEN rows ELSE RowsRewritten

ImplementsShape == Promise!Spec
=============================================================================

---------------------------- MODULE AlterProofs ----------------------------
(***************************************************************************)
(* Theorems about altering a table, for every set of names of columns, any *)
(* number of columns, rows and uses of an Alter object, and each for the   *)
(* clients that look after what the property needs and no more.            *)
(***************************************************************************)
EXTENDS Alter, Lists

-----------------------------------------------------------------------------
(* Tables and their parts.                                                 *)

\* The columns of a Table in memory.
LEMMA ColumnsAre ==
  ASSUME NEW t \in Table
  PROVE  /\ ColumnsOf(t) \in Seq(Column)
         /\ Len(ColumnsOf(t)) = Len(t.entries)
         /\ DOMAIN ColumnsOf(t) = 1 .. Len(t.entries)
         /\ \A i \in 1 .. Len(t.entries) : ColumnsOf(t)[i] = t.entries[i].column
<1>1. t.entries \in Seq(Entry)
  BY DEF Table
<1>2. Len(t.entries) \in Nat /\ DOMAIN t.entries = 1 .. Len(t.entries)
  BY <1>1, LenProperties
<1>3. \A i \in 1 .. Len(t.entries) : t.entries[i].column \in Column
  <2>1. \A i \in 1 .. Len(t.entries) : t.entries[i] \in Entry
    BY <1>1, ElementOfSeq
  <2> QED BY <2>1 DEF Entry
<1>4. ColumnsOf(t) \in [1 .. Len(t.entries) -> Column]
  BY <1>2, <1>3 DEF ColumnsOf
<1> QED BY <1>2, <1>4, BuiltSeq DEF ColumnsOf

\* What filling a Table with columns makes of it: its columns are these, each under
\* its name.
LEMMA RefilledIs ==
  ASSUME NEW t \in Table, NEW cs \in Seq(Column)
  PROVE  /\ Refilled(t, cs) \in Table
         /\ ColumnsOf(Refilled(t, cs)) = cs
         /\ Len(Refilled(t, cs).entries) = Len(cs)
         /\ \A i \in 1 .. Len(cs) :
              /\ Refilled(t, cs).entries[i].key = cs[i].name
              /\ Refilled(t, cs).entries[i].column = cs[i]
<1> DEFINE es == [i \in DOMAIN cs |-> [key |-> cs[i].name, column |-> cs[i]]]
           ns == [i \in DOMAIN cs |-> cs[i].name]
<1>1. Len(cs) \in Nat /\ DOMAIN cs = 1 .. Len(cs)
  BY LenProperties
<1>2. \A i \in 1 .. Len(cs) : cs[i] \in Column /\ cs[i].name \in Names
  <2>1. \A i \in 1 .. Len(cs) : cs[i] \in Column
    BY ElementOfSeq
  <2> QED BY <2>1 DEF Column
<1>3. es \in Seq(Entry) /\ Len(es) = Len(cs)
  <2>1. es \in [1 .. Len(cs) -> Entry]
    BY <1>1, <1>2 DEF Entry
  <2> QED BY <2>1, <1>1, BuiltSeq
<1>4. ns \in Seq(Names)
  <2>1. ns \in [1 .. Len(cs) -> Names]
    BY <1>1, <1>2
  <2> QED BY <2>1, <1>1, BuiltSeq
<1>5. t.names \o ns \in Seq(Names)
  <2>1. t.names \in Seq(Names)
    BY DEF Table
  <2> HIDE DEF ns
  <2> QED BY <2>1, <1>4, ConcatProperties
<1>6. (t.counts \/ Counting(cs)) \in BOOLEAN
  OBVIOUS
<1>7. Refilled(t, cs) = [entries |-> es, names |-> t.names \o ns, counts |-> t.counts \/ Counting(cs)]
  BY DEF Refilled
<1>8. Refilled(t, cs) \in Table
  <2> HIDE DEF es, ns
  <2> QED BY <1>3, <1>5, <1>6, <1>7 DEF Table
<1>9. Refilled(t, cs).entries = es
  BY <1>7
<1>10. /\ DOMAIN es = 1 .. Len(cs)
       /\ \A i \in 1 .. Len(cs) : es[i].key = cs[i].name /\ es[i].column = cs[i]
  BY <1>1
<1>11. ColumnsOf(Refilled(t, cs)) = cs
  <2>1. DOMAIN cs = 1 .. Len(cs) /\ cs = [i \in DOMAIN cs |-> cs[i]]
    BY <1>1
  <2> HIDE DEF es
  <2> QED BY <2>1, <1>9, <1>10 DEF ColumnsOf
<1> QED BY <1>3, <1>8, <1>9, <1>10, <1>11

\* The Table of no columns.
LEMMA EmptyTable == [entries |-> <<>>, names |-> <<>>, counts |-> FALSE] \in Table
<1>1. <<>> \in Seq(Entry) /\ <<>> \in Seq(Names)
  BY EmptySeq
<1> QED BY <1>1 DEF Table

\* What loading a definition makes.
LEMMA LoadedIs ==
  ASSUME NEW cs \in Seq(Column)
  PROVE  /\ Loaded(cs) \in Table
         /\ ColumnsOf(Loaded(cs)) = cs
         /\ Len(Loaded(cs).entries) = Len(cs)
         /\ \A i \in 1 .. Len(cs) :
              /\ Loaded(cs).entries[i].key = cs[i].name
              /\ Loaded(cs).entries[i].column = cs[i]
BY EmptyTable, RefilledIs DEF Loaded

\* The columns accepted are columns.
LEMMA AcceptedType ==
  ASSUME NEW cs \in Seq(Column), NEW counts
  PROVE  Accepted(cs, counts) \in Seq(Column)
<1> DEFINE refused == {i \in DOMAIN cs : Refused(cs, counts, i)}
<1>1. Len(cs) \in Nat /\ DOMAIN cs = 1 .. Len(cs)
  BY LenProperties
<1>2. CASE refused = {}
  BY <1>2 DEF Accepted
<1>3. CASE refused # {}
  <2>1. Min(refused) \in 1 .. Len(cs)
    <3>1. refused \in SUBSET Nat /\ refused \subseteq 1 .. Len(cs)
      BY <1>1
    <3> HIDE DEF refused
    <3> QED BY <3>1, <1>3, MinIs
  <2>2. \A i \in 1 .. Min(refused) - 1 : cs[i] \in Column
    BY <2>1, <1>1, ElementOfSeq
  <2>3. 1 \in Int /\ Min(refused) - 1 \in Int
    BY <2>1
  <2>4. SubSeq(cs, 1, Min(refused) - 1) \in Seq(Column)
    <3> HIDE DEF refused
    <3> QED BY <2>2, <2>3, SubSeqProperties
  <2> QED BY <2>4, <1>3 DEF Accepted
<1> QED BY <1>2, <1>3

\* The first entry with a key: none is zero.
LEMMA KeyAtIs ==
  ASSUME NEW t \in Table, NEW n
  PROVE  /\ n \notin Keys(t) => KeyAt(t, n) = 0
         /\ n \in Keys(t) => /\ KeyAt(t, n) \in 1 .. Len(t.entries)
                             /\ t.entries[KeyAt(t, n)].key = n
                             /\ \A j \in 1 .. KeyAt(t, n) - 1 : t.entries[j].key # n
<1> DEFINE I == {i \in 1 .. Len(t.entries) : t.entries[i].key = n}
<1>1. t.entries \in Seq(Entry)
  BY DEF Table
<1>2. Len(t.entries) \in Nat /\ DOMAIN t.entries = 1 .. Len(t.entries)
  BY <1>1, LenProperties
<1>3. n \in Keys(t) <=> I # {}
  BY <1>2 DEF Keys
<1>4. KeyAt(t, n) = IF I # {} THEN Min(I) ELSE 0
  BY DEF KeyAt, SelectInSeq
<1>5. ASSUME I # {} PROVE Min(I) \in I /\ \A j \in I : Min(I) <= j
  <2>1. I \in SUBSET Nat
    BY <1>2
  <2> HIDE DEF I
  <2> QED BY <1>5, <2>1, MinIs
<1>6. ASSUME n \in Keys(t) PROVE \A j \in 1 .. KeyAt(t, n) - 1 : t.entries[j].key # n
  <2>1. KeyAt(t, n) = Min(I) /\ Min(I) \in I /\ \A j \in I : Min(I) <= j
    BY <1>6, <1>3, <1>4, <1>5
  <2> SUFFICES ASSUME NEW j \in 1 .. KeyAt(t, n) - 1, t.entries[j].key = n PROVE FALSE
    OBVIOUS
  <2>2. j \in I /\ j < KeyAt(t, n)
    BY <2>1, <1>2
  <2> QED BY <2>1, <2>2, <1>2
<1> QED BY <1>3, <1>4, <1>5, <1>6

\* The first place of a name in the map: none is zero.
LEMMA MapAtIs ==
  ASSUME NEW t \in Table, NEW n
  PROVE  /\ (\A i \in 1 .. Len(t.names) : t.names[i] # n) => MapAt(t, n) = 0
         /\ (\E i \in 1 .. Len(t.names) : t.names[i] = n) =>
              /\ MapAt(t, n) \in 1 .. Len(t.names)
              /\ t.names[MapAt(t, n)] = n
              /\ \A j \in 1 .. MapAt(t, n) - 1 : t.names[j] # n
         /\ MapAt(t, n) \in Nat
<1> DEFINE I == {i \in 1 .. Len(t.names) : t.names[i] = n}
<1>1. t.names \in Seq(Names)
  BY DEF Table
<1>2. Len(t.names) \in Nat
  BY <1>1, LenProperties
<1>4. MapAt(t, n) = IF I # {} THEN Min(I) ELSE 0
  BY DEF MapAt, SelectInSeq
<1>5. ASSUME I # {} PROVE Min(I) \in I /\ \A j \in I : Min(I) <= j
  <2>1. I \in SUBSET Nat
    BY <1>2
  <2> HIDE DEF I
  <2> QED BY <1>5, <2>1, MinIs
<1>6. ASSUME I # {} PROVE \A j \in 1 .. MapAt(t, n) - 1 : t.names[j] # n
  <2>1. MapAt(t, n) = Min(I) /\ Min(I) \in I /\ \A j \in I : Min(I) <= j
    BY <1>6, <1>4, <1>5
  <2> SUFFICES ASSUME NEW j \in 1 .. MapAt(t, n) - 1, t.names[j] = n PROVE FALSE
    OBVIOUS
  <2>2. j \in I /\ j < MapAt(t, n)
    BY <2>1, <1>2
  <2> QED BY <2>1, <2>2, <1>2
<1>7. MapAt(t, n) \in Nat
  BY <1>4, <1>5, <1>2
<1> QED BY <1>4, <1>5, <1>6, <1>7

\* A place among the elements, or behind them all, to put one more.
Slot(s, at) == IF at < Len(s) THEN at + 1 ELSE Len(s) + 1

\* Where a column, or its value in a row, is put: at a place of the list, or at its end.
LEMMA PlacedIs ==
  ASSUME NEW S, NEW s \in Seq(S), NEW at \in Nat, NEW x \in S
  PROVE  /\ Slot(s, at) \in 1 .. Len(s) + 1
         /\ Placed(s, at, x) = InsertAt(s, Slot(s, at), x)
         /\ Placed(s, at, x) \in Seq(S)
         /\ Len(Placed(s, at, x)) = Len(s) + 1
<1>1. Len(s) \in Nat
  BY LenProperties
<1>2. Slot(s, at) \in 1 .. Len(s) + 1
  BY <1>1 DEF Slot
<1>3. Placed(s, at, x) = InsertAt(s, Slot(s, at), x)
  BY Zenon DEF Placed, Slot
<1>4. /\ InsertAt(s, Slot(s, at), x) \in Seq(S)
      /\ Inserted(InsertAt(s, Slot(s, at), x), s, Slot(s, at), x)
  BY <1>2, InsertAtIs
<1> QED BY <1>2, <1>3, <1>4 DEF Inserted

\* What is left is of the same kind, and one shorter unless there was no such place.
LEMMA WithoutIs ==
  ASSUME NEW S, NEW s \in Seq(S), NEW i
  PROVE  /\ Without(s, i) \in Seq(S)
         /\ i \in 1 .. Len(s) => Len(Without(s, i)) = Len(s) - 1
<1>1. DOMAIN s = 1 .. Len(s)
  BY LenProperties
<1>2. CASE i \in DOMAIN s
  <2>1. Without(s, i) = RemoveAt(s, i) /\ i \in 1 .. Len(s)
    BY <1>1, <1>2 DEF Without
  <2> QED BY <2>1, RemoveAtIs
<1>3. CASE i \notin DOMAIN s
  <2>1. Without(s, i) = s /\ i \notin 1 .. Len(s)
    BY <1>1, <1>3 DEF Without
  <2> QED BY <2>1
<1> QED BY <1>2, <1>3

-----------------------------------------------------------------------------
(* Types, for every client.                                                *)

\* The Table that the schema shares with the Alter object is one.
Edited == held = "edited" => table \in Table

\* What a saved definition leaves is well typed.
LEMMA SaveTypes ==
  ASSUME TypeOK, NEW t \in Table, NEW then \in Pending \cup {Idle}, Save(t, then)
  PROVE  TypeOK'
<1>1. ColumnsOf(t) \in Seq(Column)
  BY ColumnsAre
<1>2. held' \in {"edited", "loaded", "none"} /\ doing' \in Pending \cup {Idle}
  BY DEF Save
<1>3. defined' = ColumnsOf(t) /\ table' = t /\ relations' = relations /\ rows' = rows
  BY DEF Save
<1> QED BY <1>1, <1>2, <1>3 DEF TypeOK

\* So is what putting the columns back leaves, accepted or not.
LEMMA RefillTypes ==
  ASSUME TypeOK, table # None, NEW cs \in Seq(Column), NEW then \in Pending \cup {Idle},
         Refill(cs, then)
  PROVE  TypeOK'
<1> DEFINE t == Refilled(table, Accepted(cs, table.counts))
<1>1. table \in Table
  BY DEF TypeOK
<1>2. t \in Table
  BY <1>1, AcceptedType, RefilledIs
<1>3. CASE Save(t, then)
  BY <1>2, <1>3, SaveTypes
<1>4. CASE table' = t /\ UNCHANGED <<defined, relations, rows, held, doing>>
  BY <1>2, <1>4 DEF TypeOK
<1> QED BY <1>3, <1>4 DEF Refill

\* The alterations that are left to do when a call saves the definition.
LEMMA PendingTypes ==
  /\ \A at \in Nat : [kind |-> "remove", at |-> at, after |-> None] \in Pending
  /\ \A at \in Nat, after \in Names \cup {None} :
       [kind |-> "add", at |-> at, after |-> after] \in Pending
BY DEF Pending

\* A table with one more entry is a table.
LEMMA AddColumnTypes ==
  ASSUME TypeOK, NEW c \in Column, AddColumn(c)
  PROVE  TypeOK'
<1> DEFINE e == [key |-> c.name, column |-> c]
           t == [entries |-> Append(table.entries, e),
                 names   |-> Append(table.names, c.name),
                 counts  |-> table.counts \/ c.counts]
<1>1. table \in Table
  BY DEF TypeOK, AddColumn, MayAlter
<1>2. c.name \in Names /\ e \in Entry
  BY DEF Entry, Column
<1>3. Append(table.entries, e) \in Seq(Entry) /\ Append(table.names, c.name) \in Seq(Names)
  <2>1. table.entries \in Seq(Entry) /\ table.names \in Seq(Names)
    BY <1>1 DEF Table
  <2> HIDE DEF e
  <2> QED BY <2>1, <1>2, AppendProperties
<1>4. t \in Table
  <2>1. (table.counts \/ c.counts) \in BOOLEAN
    OBVIOUS
  <2> HIDE DEF e
  <2> QED BY <2>1, <1>3 DEF Table
<1>5. Len(table.entries) \in Nat
  <2>1. table.entries \in Seq(Entry)
    BY <1>1 DEF Table
  <2> QED BY <2>1, LenProperties
<1>6. [kind |-> "add", at |-> Len(table.entries), after |-> None] \in Pending
  BY <1>5, PendingTypes
<1>7. Save(t, [kind |-> "add", at |-> Len(table.entries), after |-> None])
  BY DEF AddColumn
<1> QED
  <2> HIDE DEF t
  <2> QED BY <1>4, <1>6, <1>7, SaveTypes

\* What the call that adds a column behind another makes of the Table.
LEMMA TableWithPlaced ==
  ASSUME NEW t \in Table, NEW at \in Nat, NEW c \in Column
  PROVE  LET u == [t EXCEPT !.entries = Placed(@, at, [key |-> None, column |-> c])]
         IN  /\ u \in Table
             /\ u.entries = Placed(t.entries, at, [key |-> None, column |-> c])
             /\ u.names = t.names
             /\ u.counts = t.counts
<1> DEFINE e == [key |-> None, column |-> c]
           es == Placed(t.entries, at, e)
<1>1. e \in Entry
  BY DEF Entry
<1>2. t.entries \in Seq(Entry)
  BY DEF Table
<1>3. es \in Seq(Entry)
  <2> HIDE DEF e
  <2> QED BY <1>1, <1>2, PlacedIs
<1> HIDE DEF es
<1>4. [t EXCEPT !.entries = es] \in Table
  BY <1>3 DEF Table
<1>5. [t EXCEPT !.entries = es].entries = es /\ [t EXCEPT !.entries = es].names = t.names
      /\ [t EXCEPT !.entries = es].counts = t.counts
  BY DEF Table
<1> QED BY <1>4, <1>5 DEF es

\* The place behind a column is never the first.
LEMMA PlaceAfterType ==
  ASSUME NEW t \in Table, NEW n
  PROVE  PlaceAfter(t, n) \in Nat \ {0}
<1>1. MapAt(t, n) \in Nat
  BY MapAtIs
<1> QED BY <1>1 DEF PlaceAfter

\* The column behind another.
LEMMA AddColumnAfterTypes ==
  ASSUME TypeOK, NEW c \in Column, NEW after \in Names, AddColumnAfter(c, after)
  PROVE  TypeOK'
<1> DEFINE at == PlaceAfter(table, after)
           t  == [table EXCEPT !.entries = Placed(@, at, [key |-> None, column |-> c])]
<1>1. table \in Table
  BY DEF TypeOK, AddColumnAfter, MayAlter
<1>2. at \in Nat
  BY <1>1, PlaceAfterType
<1>3. Save(t, [kind |-> "add", at |-> at, after |-> after])
  BY DEF AddColumnAfter
<1> HIDE DEF at
<1>4. t \in Table
  BY <1>1, <1>2, TableWithPlaced
<1>5. [kind |-> "add", at |-> at, after |-> after] \in Pending
  BY <1>2, PendingTypes
<1> HIDE DEF t
<1> QED BY <1>3, <1>4, <1>5, SaveTypes

\* The columns without one of them.
LEMMA RemoveColumnTypes ==
  ASSUME TypeOK, NEW n \in Names, RemoveColumn(n)
  PROVE  TypeOK'
<1> DEFINE rest == Without(ColumnsOf(table), KeyAt(table, n))
           then == [kind |-> "remove", at |-> MapAt(table, n), after |-> None]
<1>1. table \in Table /\ table # None
  BY DEF TypeOK, RemoveColumn, MayAlter
<1>2. rest \in Seq(Column)
  BY <1>1, ColumnsAre, WithoutIs
<1>3. then \in Pending
  BY <1>1, MapAtIs, PendingTypes
<1>4. Refill(rest, then)
  BY DEF RemoveColumn
<1> HIDE DEF rest, then
<1> QED BY <1>1, <1>2, <1>3, <1>4, RefillTypes

\* A name there is has a place; what is put there, or behind all, is a column.
LEMMA ChangedType ==
  ASSUME NEW t \in Table, NEW n \in Names, NEW c \in Column
  PROVE  (IF n \in Keys(t) THEN ReplaceAt(ColumnsOf(t), KeyAt(t, n), c)
                           ELSE Append(ColumnsOf(t), c)) \in Seq(Column)
<1>1. ColumnsOf(t) \in Seq(Column) /\ Len(ColumnsOf(t)) = Len(t.entries)
  BY ColumnsAre
<1>2. ASSUME n \in Keys(t) PROVE ReplaceAt(ColumnsOf(t), KeyAt(t, n), c) \in Seq(Column)
  <2>1. KeyAt(t, n) \in 1 .. Len(ColumnsOf(t))
    BY <1>1, <1>2, KeyAtIs
  <2> QED BY <1>1, <2>1, ExceptSeq DEF ReplaceAt
<1>3. Append(ColumnsOf(t), c) \in Seq(Column)
  BY <1>1, AppendProperties
<1> QED BY <1>2, <1>3

\* The longest call keeps the types.
LEMMA ChangeColumnTypes ==
  ASSUME TypeOK, NEW n \in Names, NEW c \in Column, ChangeColumn(n, c)
  PROVE  TypeOK'
<1> DEFINE new == IF n \in Keys(table) THEN ReplaceAt(ColumnsOf(table), KeyAt(table, n), c)
                                       ELSE Append(ColumnsOf(table), c)
<1>1. table \in Table /\ table # None
  BY DEF TypeOK, ChangeColumn, MayAlter
<1>2. new \in Seq(Column)
  BY <1>1, ChangedType
<1>3. Refill(new, Idle)
  BY DEF ChangeColumn
<1> HIDE DEF new
<1> QED BY <1>1, <1>2, <1>3, RefillTypes

\* A line is read as a row, and as the one that was written if that has values.
LEMMA LineIs ==
  ASSUME NEW row \in Seq(Nat \cup {Null})
  PROVE  /\ Line(row) \in Seq(Nat \cup {Null})
         /\ Len(row) > 0 => Line(row) = row
<1>1. Len(row) > 0 => row # <<>>
  BY EmptySeq
<1>2. <<Null>> \in Seq(Nat \cup {Null})
  OBVIOUS
<1> QED BY <1>1, <1>2 DEF Line

\* The rewritten rows are rows.
LEMMA RewriteTypes ==
  ASSUME TypeOK, doing # Idle
  PROVE  RowsRewritten \in Seq(Seq(Nat \cup {Null}))
<1>1. rows \in Seq(Seq(Nat \cup {Null})) /\ doing \in Pending
  BY DEF TypeOK
<1>2. Len(rows) \in Nat /\ DOMAIN rows = 1 .. Len(rows)
  BY <1>1, LenProperties
<1>3. doing.at \in Nat
  BY <1>1 DEF Pending
<1>4. ASSUME NEW r \in 1 .. Len(rows)
      PROVE  Rewritten(rows[r]) \in Seq(Nat \cup {Null})
  <2>1. rows[r] \in Seq(Nat \cup {Null})
    BY <1>1, ElementOfSeq
  <2>2. Placed(rows[r], doing.at, Null) \in Seq(Nat \cup {Null})
    <3>1. Null \in Nat \cup {Null}
      OBVIOUS
    <3> QED BY <2>1, <3>1, <1>3, PlacedIs
  <2>3. Without(rows[r], doing.at) \in Seq(Nat \cup {Null})
    BY <2>1, WithoutIs
  <2>4. (IF doing.kind = "add" THEN Placed(rows[r], doing.at, Null) ELSE Without(rows[r], doing.at))
          \in Seq(Nat \cup {Null})
    BY <2>2, <2>3
  <2> QED BY <2>4, LineIs DEF Rewritten
<1>5. RowsRewritten \in [1 .. Len(rows) -> Seq(Nat \cup {Null})]
  BY <1>2, <1>4 DEF RowsRewritten
<1> QED BY <1>2, <1>5, BuiltSeq

\* A new row has as many values as the definition has columns.
LEMMA NewRow ==
  ASSUME NEW cs \in Seq(Column)
  PROVE  /\ [i \in DOMAIN cs |-> i] \in Seq(Nat \cup {Null})
         /\ Len([i \in DOMAIN cs |-> i]) = Len(cs)
<1>1. Len(cs) \in Nat /\ DOMAIN cs = 1 .. Len(cs)
  BY LenProperties
<1>2. [i \in DOMAIN cs |-> i] \in [1 .. Len(cs) -> Nat \cup {Null}]
  BY <1>1
<1> QED BY <1>1, <1>2, BuiltSeq

\* The first Table has its types, and the schema holds it.
LEMMA InitTypes == Init => TypeOK /\ Edited
<1> SUFFICES ASSUME Init PROVE TypeOK /\ Edited
  OBVIOUS
<1>1. defined \in Seq(Column)
  <2>1. defined \in BoundedSeq(Column, MaxColumns)
    BY DEF Init
  <2>2. PICK n \in 0 .. MaxColumns : defined \in [1 .. n -> Column]
    BY <2>1 DEF BoundedSeq, SeqOf
  <2>3. n \in Nat
    BY BoundsAssumption
  <2> QED BY <2>2, <2>3, BuiltSeq
<1>2. relations \subseteq Names
  <2>1. \A i \in DOMAIN defined : defined[i].name \in Names
    <3>1. \A i \in 1 .. Len(defined) : defined[i] \in Column
      BY <1>1, ElementOfSeq
    <3>2. DOMAIN defined = 1 .. Len(defined)
      BY <1>1, LenProperties
    <3> QED BY <3>1, <3>2 DEF Column
  <2> QED BY <2>1 DEF Init, NamesOf, Shape!NamesOf
<1>3. rows \in Seq(Seq(Nat \cup {Null}))
  BY EmptySeq DEF Init
<1> QED BY <1>1, <1>2, <1>3 DEF Init, TypeOK, Edited

\* Every step keeps the types.
LEMMA StepTypes == TypeOK /\ Edited /\ [Next]_vars => TypeOK'
<1> SUFFICES ASSUME TypeOK, Edited, [Next]_vars PROVE TypeOK'
  OBVIOUS
<1>1. CASE AlterTable
  <2>1. Loaded(defined) \in Table
    BY LoadedIs DEF TypeOK
  <2> QED BY <1>1, <2>1 DEF AlterTable, TypeOK
<1>2. ASSUME NEW c \in Column, AddColumn(c) PROVE TypeOK'
  BY <1>2, AddColumnTypes
<1>3. ASSUME NEW c \in Column, NEW n \in Names, AddColumnAfter(c, n) PROVE TypeOK'
  BY <1>3, AddColumnAfterTypes
<1>4. ASSUME NEW c \in Column, NEW n \in Names, ChangeColumn(n, c) PROVE TypeOK'
  BY <1>4, ChangeColumnTypes
<1>5. ASSUME NEW n \in Names, RemoveColumn(n) PROVE TypeOK'
  BY <1>5, RemoveColumnTypes
<1>6. CASE Rewrite
  <2>1. RowsRewritten \in Seq(Seq(Nat \cup {Null}))
    BY <1>6, RewriteTypes DEF Rewrite
  <2> QED BY <1>6, <2>1 DEF Rewrite, TypeOK
<1>7. CASE Insert
  <2>1. Line([i \in DOMAIN defined |-> i]) \in Seq(Nat \cup {Null})
    BY NewRow, LineIs DEF TypeOK
  <2>2. Append(rows, Line([i \in DOMAIN defined |-> i])) \in Seq(Seq(Nat \cup {Null}))
    BY <2>1, AppendProperties DEF TypeOK
  <2> QED BY <1>7, <2>2 DEF Insert, TypeOK
<1>8. CASE Exit
  <2>1. defined' \in Seq(Column)
    BY <1>8, ColumnsAre DEF Exit, TypeOK, Edited
  <2> QED BY <1>8, <2>1 DEF Exit, TypeOK
<1>9. CASE Crash
  BY <1>9 DEF Crash, TypeOK
<1>10. CASE UNCHANGED vars
  BY <1>10 DEF vars, TypeOK
<1> QED BY <1>1, <1>2, <1>3, <1>4, <1>5, <1>6, <1>7, <1>8, <1>9, <1>10 DEF Next

\* Every step keeps the schema holding what the Alter edits when it says so.
LEMMA StepEdited == TypeOK /\ Edited /\ [Next]_vars => Edited'
<1> SUFFICES ASSUME TypeOK, Edited, [Next]_vars, held' = "edited" PROVE table' \in Table
  BY DEF Edited
<1>1. CASE AlterTable
  BY <1>1, LoadedIs DEF AlterTable, TypeOK
<1>2. ASSUME NEW t, NEW then, Save(t, then) PROVE FALSE
  BY <1>2 DEF Save
<1>3. ASSUME NEW cs \in Seq(Column), NEW then, table # None, Refill(cs, then)
      PROVE  table' \in Table
  <2>1. table \in Table
    BY <1>3 DEF TypeOK
  <2>2. Refilled(table, Accepted(cs, table.counts)) \in Table
    BY <2>1, AcceptedType, RefilledIs
  <2> QED BY <2>2, <1>2, <1>3 DEF Refill
<1>4. ASSUME NEW c \in Column, AddColumn(c) PROVE FALSE
  BY <1>4, <1>2 DEF AddColumn
<1>5. ASSUME NEW c \in Column, NEW n \in Names, AddColumnAfter(c, n) PROVE FALSE
  BY <1>5, <1>2 DEF AddColumnAfter
<1>6. ASSUME NEW c \in Column, NEW n \in Names, ChangeColumn(n, c) PROVE table' \in Table
  <2>1. table \in Table /\ table # None
    BY <1>6 DEF TypeOK, ChangeColumn, MayAlter
  <2>2. (IF n \in Keys(table) THEN ReplaceAt(ColumnsOf(table), KeyAt(table, n), c)
                              ELSE Append(ColumnsOf(table), c)) \in Seq(Column)
    BY <2>1, ChangedType
  <2> QED BY <2>1, <2>2, <1>3, <1>6 DEF ChangeColumn
<1>7. ASSUME NEW n \in Names, RemoveColumn(n) PROVE table' \in Table
  <2>1. table \in Table /\ table # None
    BY <1>7 DEF TypeOK, RemoveColumn, MayAlter
  <2>2. Without(ColumnsOf(table), KeyAt(table, n)) \in Seq(Column)
    BY <2>1, ColumnsAre, WithoutIs
  <2> QED BY <2>1, <2>2, <1>3, <1>7 DEF RemoveColumn
<1>8. CASE Rewrite \/ UNCHANGED vars
  BY <1>8 DEF Rewrite, vars, Edited
<1>9. CASE Insert \/ Exit \/ Crash
  BY <1>9 DEF Insert, Exit, Crash
<1> QED BY <1>1, <1>4, <1>5, <1>6, <1>7, <1>8, <1>9 DEF Next

\* Every variable keeps its type, whatever the client does (schema/alter.zep).
THEOREM TypeCorrect == Spec => []TypeOK
<1>1. Init => TypeOK /\ Edited
  BY InitTypes
<1>2. (TypeOK /\ Edited) /\ [Next]_vars => (TypeOK /\ Edited)'
  BY StepTypes, StepEdited
<1> QED BY <1>1, <1>2, PTL DEF Spec

-----------------------------------------------------------------------------
(* Where a column is added.                                                *)

\* A column is under its name, or under none.
KeysNamed == 
  table # None => \A i \in 1 .. Len(table.entries) :
                    table.entries[i].key \in {None, table.entries[i].column.name}

\* What putting the columns back makes of the Table, accepted or not.
LEMMA RefillIs ==
  ASSUME TypeOK, table # None, NEW cs \in Seq(Column), NEW then, Refill(cs, then)
  PROVE  \A i \in 1 .. Len(table'.entries) :
           table'.entries[i].key = table'.entries[i].column.name
<1> DEFINE as == Accepted(cs, table.counts)
           t  == Refilled(table, as)
<1>1. table \in Table /\ as \in Seq(Column)
  BY AcceptedType DEF TypeOK
<1>2. table' = t
  BY DEF Refill, Save
<1>3. /\ Len(t.entries) = Len(as)
      /\ \A i \in 1 .. Len(as) : t.entries[i].key = as[i].name /\ t.entries[i].column = as[i]
  <2> HIDE DEF as
  <2> QED BY <1>1, RefilledIs
<1> HIDE DEF t, as
<1> QED BY <1>2, <1>3

\* Each alteration leaves it so.
LEMMA StepKeys == TypeOK /\ KeysNamed /\ [Next]_vars => KeysNamed'
<1> SUFFICES ASSUME TypeOK, KeysNamed, [Next]_vars, table' # None
             PROVE  \A i \in 1 .. Len(table'.entries) :
                      table'.entries[i].key \in {None, table'.entries[i].column.name}
  BY DEF KeysNamed
<1>1. CASE AlterTable
  <2>1. /\ Len(Loaded(defined).entries) = Len(defined)
        /\ \A i \in 1 .. Len(defined) :
             /\ Loaded(defined).entries[i].key = defined[i].name
             /\ Loaded(defined).entries[i].column = defined[i]
    BY LoadedIs DEF TypeOK
  <2> QED BY <1>1, <2>1 DEF AlterTable
<1>2. ASSUME NEW c \in Column, AddColumn(c)
      PROVE  \A i \in 1 .. Len(table'.entries) :
               table'.entries[i].key \in {None, table'.entries[i].column.name}
  <2> DEFINE e == [key |-> c.name, column |-> c]
  <2>1. table.entries \in Seq(Entry) /\ table # None
    BY <1>2 DEF TypeOK, AddColumn, MayAlter, Table
  <2>2. e \in Entry /\ e.key = e.column.name
    BY DEF Entry, Column
  <2>3. table'.entries = Append(table.entries, e)
    BY <1>2 DEF AddColumn, Save
  <2> HIDE DEF e
  <2>4. /\ Len(table'.entries) = Len(table.entries) + 1
        /\ \A i \in 1 .. Len(table.entries) : table'.entries[i] = table.entries[i]
        /\ table'.entries[Len(table.entries) + 1] = e
    BY <2>1, <2>2, <2>3, AppendProperties
  <2>5. Len(table.entries) \in Nat
    BY <2>1, LenProperties
  <2> QED BY <2>1, <2>2, <2>4, <2>5 DEF KeysNamed
<1>3. ASSUME NEW c \in Column, NEW n \in Names, AddColumnAfter(c, n)
      PROVE  \A i \in 1 .. Len(table'.entries) :
               table'.entries[i].key \in {None, table'.entries[i].column.name}
  <2> DEFINE e  == [key |-> None, column |-> c]
             es == table.entries
             at == PlaceAfter(table, n)
             s  == Slot(es, at)
  <2>1. table \in Table /\ es \in Seq(Entry) /\ table # None
    BY <1>3 DEF TypeOK, AddColumnAfter, MayAlter, Table
  <2>2. e \in Entry /\ e.key = None
    BY DEF Entry
  <2>3. at \in Nat
    BY <2>1, PlaceAfterType
  <2>4. table'.entries = Placed(es, at, e)
    <3>1. table' = [table EXCEPT !.entries = Placed(@, at, e)]
      BY <1>3 DEF AddColumnAfter, Save
    <3> HIDE DEF at
    <3> QED BY <2>1, <2>3, <3>1, TableWithPlaced
  <2> HIDE DEF e, at
  <2>5. table'.entries = InsertAt(es, s, e) /\ s \in 1 .. Len(es) + 1
    BY <2>1, <2>2, <2>3, <2>4, PlacedIs
  <2> HIDE DEF s
  <2>6. Len(es) \in Nat /\ \A i \in 1 .. Len(es) : es[i].key \in {None, es[i].column.name}
    BY <2>1, LenProperties DEF KeysNamed
  <2> HIDE DEF es
  <2>7. /\ Len(table'.entries) = Len(es) + 1
        /\ \A i \in 1 .. Len(es) + 1 :
             table'.entries[i] = IF i < s THEN es[i] ELSE IF i = s THEN e ELSE es[i - 1]
    <3>1. es \in Seq(Entry) /\ e \in Entry
      BY <2>1, <2>2
    <3>2. Inserted(InsertAt(es, s, e), es, s, e)
      BY <3>1, <2>5, InsertAtIs
    <3> QED BY <3>2, <2>5 DEF Inserted
  <2> SUFFICES ASSUME NEW i \in 1 .. Len(es) + 1
               PROVE  table'.entries[i].key \in {None, table'.entries[i].column.name}
    BY <2>7
  <2>8. CASE i < s
    <3>1. table'.entries[i] = es[i] /\ i \in 1 .. Len(es)
      BY <2>5, <2>6, <2>7, <2>8
    <3> QED BY <3>1, <2>6
  <2>9. CASE i = s
    <3>1. table'.entries[i] = e
      BY <2>5, <2>6, <2>7, <2>9
    <3> QED BY <3>1, <2>2
  <2>10. CASE i > s
    <3>1. table'.entries[i] = es[i - 1] /\ i - 1 \in 1 .. Len(es)
      BY <2>5, <2>6, <2>7, <2>10
    <3> QED BY <3>1, <2>6
  <2> QED BY <2>5, <2>6, <2>8, <2>9, <2>10
<1>4. ASSUME NEW c \in Column, NEW n \in Names, ChangeColumn(n, c)
      PROVE  \A i \in 1 .. Len(table'.entries) :
               table'.entries[i].key \in {None, table'.entries[i].column.name}
  <2>1. table \in Table /\ table # None
    BY <1>4 DEF TypeOK, ChangeColumn, MayAlter
  <2>2. (IF n \in Keys(table) THEN ReplaceAt(ColumnsOf(table), KeyAt(table, n), c)
                              ELSE Append(ColumnsOf(table), c)) \in Seq(Column)
    BY <2>1, ChangedType
  <2>3. \A i \in 1 .. Len(table'.entries) : table'.entries[i].key = table'.entries[i].column.name
    BY <2>1, <2>2, <1>4, RefillIs DEF ChangeColumn
  <2> QED BY <2>3
<1>5. ASSUME NEW n \in Names, RemoveColumn(n)
      PROVE  \A i \in 1 .. Len(table'.entries) :
               table'.entries[i].key \in {None, table'.entries[i].column.name}
  <2>1. table \in Table /\ table # None
    BY <1>5 DEF TypeOK, RemoveColumn, MayAlter
  <2>2. Without(ColumnsOf(table), KeyAt(table, n)) \in Seq(Column)
    BY <2>1, ColumnsAre, WithoutIs
  <2>3. \A i \in 1 .. Len(table'.entries) : table'.entries[i].key = table'.entries[i].column.name
    BY <2>1, <2>2, <1>5, RefillIs DEF RemoveColumn
  <2> QED BY <2>3
<1>6. CASE Rewrite \/ Insert \/ UNCHANGED vars
  <2>1. table' = table
    BY <1>6 DEF Rewrite, Insert, vars
  <2> QED BY <2>1 DEF KeysNamed
<1>7. CASE Exit \/ Crash
  BY <1>7 DEF Exit, Crash
<1> QED BY <1>1, <1>2, <1>3, <1>4, <1>5, <1>6, <1>7 DEF Next

\* A name that a column has is in the map at the place of the column, when the map
\* agrees with the columns.
LEMMA MapFinds ==
  ASSUME NEW t \in Table, InStep(t),
         \A i \in 1 .. Len(t.entries) : t.entries[i].key \in {None, t.entries[i].column.name},
         NEW n \in NamesOf(ColumnsOf(t))
  PROVE  /\ PlaceAfter(t, n) \in 1 .. Len(t.entries)
         /\ ColumnsOf(t)[PlaceAfter(t, n)].name = n
<1>1. t.entries \in Seq(Entry) /\ t.names \in Seq(Names)
  BY DEF Table
<1>2. /\ Len(t.entries) \in Nat /\ DOMAIN t.entries = 1 .. Len(t.entries)
      /\ Len(t.names) \in Nat /\ DOMAIN t.names = 1 .. Len(t.names)
  BY <1>1, LenProperties
<1>3. Len(t.names) = Len(t.entries) /\ \A i \in 1 .. Len(t.names) : t.names[i] = t.entries[i].key
  BY <1>2 DEF InStep
<1>4. \A i \in 1 .. Len(t.names) : t.names[i] # None /\ t.names[i] = ColumnsOf(t)[i].name
  <2>1. \A i \in 1 .. Len(t.names) : t.names[i] \in Names
    BY <1>1, ElementOfSeq
  <2>2. \A i \in 1 .. Len(t.entries) : ColumnsOf(t)[i] = t.entries[i].column
    BY ColumnsAre
  <2> QED BY <2>1, <2>2, <1>3, NoneAssumption
<1>5. PICK j \in 1 .. Len(t.entries) : ColumnsOf(t)[j].name = n
  BY ColumnsAre DEF NamesOf, Shape!NamesOf
<1>6. t.names[j] = n /\ j \in 1 .. Len(t.names)
  BY <1>3, <1>4, <1>5
<1>7. MapAt(t, n) \in 1 .. Len(t.names) /\ t.names[MapAt(t, n)] = n
  BY <1>6, MapAtIs
<1>8. PlaceAfter(t, n) = MapAt(t, n)
  BY <1>2, <1>7 DEF PlaceAfter
<1> QED BY <1>3, <1>4, <1>7, <1>8

\* The columns of a Table that got one more at a place.
LEMMA ColumnsPlaced ==
  ASSUME NEW t \in Table, NEW at \in Nat, NEW c \in Column
  PROVE  LET u == [t EXCEPT !.entries = Placed(@, at, [key |-> None, column |-> c])]
         IN  u \in Table /\ ColumnsOf(u) = Placed(ColumnsOf(t), at, c)
<1> DEFINE e  == [key |-> None, column |-> c]
           u  == [t EXCEPT !.entries = Placed(@, at, e)]
           es == t.entries
           cs == ColumnsOf(t)
           i  == Slot(es, at)
<1>1. u \in Table /\ u.entries = Placed(es, at, e)
  BY TableWithPlaced
<1>2. e \in Entry /\ e.column = c
  BY DEF Entry
<1>3. es \in Seq(Entry) /\ Len(es) \in Nat
  BY LenProperties DEF Table
<1>4. /\ cs \in Seq(Column) /\ Len(cs) = Len(es)
      /\ \A k \in 1 .. Len(es) : cs[k] = es[k].column
  BY ColumnsAre
<1>5. /\ ColumnsOf(u) \in Seq(Column) /\ Len(ColumnsOf(u)) = Len(u.entries)
      /\ \A k \in 1 .. Len(u.entries) : ColumnsOf(u)[k] = u.entries[k].column
  BY <1>1, ColumnsAre
<1> HIDE DEF u, e, es, cs
<1>6. i \in 1 .. Len(es) + 1 /\ u.entries = InsertAt(es, i, e)
  <2>1. e \in Entry /\ es \in Seq(Entry)
    BY <1>2, <1>3
  <2>2. i \in 1 .. Len(es) + 1 /\ Placed(es, at, e) = InsertAt(es, i, e)
    BY <2>1, PlacedIs, ZenonT(60)
  <2> QED BY <2>2, <1>1
<1>7. Placed(cs, at, c) = InsertAt(cs, i, c)
  <2>1. Slot(cs, at) = i
    BY <1>4 DEF Slot
  <2> QED BY <2>1, <1>4, PlacedIs
<1> HIDE DEF i
<1>8. /\ Len(u.entries) = Len(es) + 1
      /\ \A k \in 1 .. Len(es) + 1 :
           u.entries[k] = IF k < i THEN es[k] ELSE IF k = i THEN e ELSE es[k - 1]
  <2>1. e \in Entry /\ es \in Seq(Entry)
    BY <1>2, <1>3
  <2>2. Inserted(InsertAt(es, i, e), es, i, e)
    BY <2>1, <1>6, InsertAtIs
  <2> QED BY <2>2, <1>6 DEF Inserted
<1>9. /\ InsertAt(cs, i, c) \in Seq(Column) /\ Len(InsertAt(cs, i, c)) = Len(cs) + 1
      /\ \A k \in 1 .. Len(cs) + 1 :
           InsertAt(cs, i, c)[k] = IF k < i THEN cs[k] ELSE IF k = i THEN c ELSE cs[k - 1]
  <2>1. cs \in Seq(Column) /\ i \in 1 .. Len(cs) + 1
    BY <1>4, <1>6
  <2>2. InsertAt(cs, i, c) \in Seq(Column) /\ Inserted(InsertAt(cs, i, c), cs, i, c)
    BY <2>1, InsertAtIs
  <2> QED BY <2>2 DEF Inserted
<1>10. ASSUME NEW k \in 1 .. Len(ColumnsOf(u))
       PROVE  ColumnsOf(u)[k] = InsertAt(cs, i, c)[k]
  <2>0. k \in 1 .. Len(es) + 1 /\ ColumnsOf(u)[k] = u.entries[k].column
    BY <1>5, <1>8
  <2>1. u.entries[k] = IF k < i THEN es[k] ELSE IF k = i THEN e ELSE es[k - 1]
    BY <2>0, <1>8
  <2>2. InsertAt(cs, i, c)[k] = IF k < i THEN cs[k] ELSE IF k = i THEN c ELSE cs[k - 1]
    BY <2>0, <1>4, <1>9
  <2>3. i \in 1 .. Len(es) + 1 /\ Len(es) \in Nat
    BY <1>3, <1>6
  <2>4. CASE k < i
    <3>1. k \in 1 .. Len(es)
      BY <2>0, <2>3, <2>4
    <3> QED BY <3>1, <2>0, <2>1, <2>2, <2>4, <1>4
  <2>5. CASE k = i
    BY <2>0, <2>1, <2>2, <2>3, <2>5, <1>2
  <2>6. CASE k > i
    <3>1. k - 1 \in 1 .. Len(es) /\ ~(k < i) /\ k # i
      BY <2>0, <2>3, <2>6
    <3> QED BY <3>1, <2>0, <2>1, <2>2, <1>4
  <2> QED BY <2>0, <2>3, <2>4, <2>5, <2>6
<1>11. ColumnsOf(u) = InsertAt(cs, i, c)
  BY <1>4, <1>5, <1>8, <1>9, <1>10, SeqEqual
<1> QED BY <1>1, <1>7, <1>11 DEF u, e, cs

\* What is left of an alteration when its definition is saved.
LEMMA SaveDoes ==
  ASSUME NEW t, NEW then, Save(t, then)
  PROVE  defined' = ColumnsOf(t) /\ table' = t /\ doing' \in {then, Idle}
BY DEF Save

\* What is put behind an element leaves that one at its place.
LEMMA PlacedBehind ==
  ASSUME NEW cs \in Seq(Column), NEW at \in 1 .. Len(cs), NEW c \in Column
  PROVE  at \in DOMAIN Placed(cs, at, c) /\ Placed(cs, at, c)[at] = cs[at]
<1> DEFINE i == Slot(cs, at)
           r == InsertAt(cs, i, c)
<1>1. at \in Nat /\ Len(cs) \in Nat
  BY LenProperties
<1>2. i \in 1 .. Len(cs) + 1 /\ Placed(cs, at, c) = r
  BY <1>1, PlacedIs
<1>3. at < i
  BY <1>1 DEF Slot
<1> HIDE DEF i
<1>4. /\ r \in Seq(Column)
      /\ Len(r) = Len(cs) + 1
      /\ \A k \in 1 .. Len(cs) + 1 :
           r[k] = IF k < i THEN cs[k] ELSE IF k = i THEN c ELSE cs[k - 1]
  <2>1. r \in Seq(Column) /\ Inserted(r, cs, i, c)
    BY <1>2, InsertAtIs
  <2> QED BY <2>1 DEF Inserted
<1> HIDE DEF r
<1>5. DOMAIN r = 1 .. Len(cs) + 1
  BY <1>4, LenProperties
<1>6. at \in DOMAIN r /\ r[at] = cs[at]
  BY <1>1, <1>3, <1>4, <1>5
<1> QED BY <1>2, <1>6

\* The new column goes where the one before it has the name.
LEMMA AddedAfter ==
  ASSUME Careless \cap {"reuse", "after"} = {}, TypeOK, KeysNamed,
         NEW c \in Column, NEW after \in Names, AddColumnAfter(c, after), doing' # Idle
  PROVE  /\ doing'.at \in DOMAIN defined' /\ defined'[doing'.at].name = after
         /\ doing'.after = after
<1> DEFINE at == PlaceAfter(table, after)
           cs == ColumnsOf(table)
<1>1. /\ table \in Table /\ table # None /\ InStep(table)
      /\ after \in NamesOf(cs)
  <2>1. Care("reuse", InStep(table)) /\ Care("after", after \in NamesOf(cs))
    BY DEF AddColumnAfter, MayAlter
  <2>2. "reuse" \notin Careless /\ "after" \notin Careless
    OBVIOUS
  <2> QED BY <2>1, <2>2 DEF Care, TypeOK, AddColumnAfter, MayAlter
<1>2. at \in 1 .. Len(table.entries) /\ cs[at].name = after
  BY <1>1, MapFinds DEF KeysNamed
<1>3. cs \in Seq(Column) /\ Len(cs) = Len(table.entries) /\ Len(cs) \in Nat
  BY <1>1, ColumnsAre, LenProperties
<1>4. /\ doing' = [kind |-> "add", at |-> at, after |-> after]
      /\ defined' = Placed(cs, at, c)
  <2>1. Save([table EXCEPT !.entries = Placed(@, at, [key |-> None, column |-> c])],
             [kind |-> "add", at |-> at, after |-> after])
    BY DEF AddColumnAfter
  <2> HIDE DEF at
  <2>2. at \in Nat
    BY <1>2, <1>3
  <2> QED BY <1>1, <2>1, <2>2, SaveDoes, ColumnsPlaced
<1> HIDE DEF at, cs
<1>5. at \in 1 .. Len(cs)
  BY <1>2, <1>3
<1>6. at \in DOMAIN Placed(cs, at, c) /\ Placed(cs, at, c)[at] = cs[at]
  BY <1>3, <1>5, PlacedBehind
<1> QED BY <1>2, <1>4, <1>6

\* A step puts a column behind the one that it names.
LEMMA StepAfter ==
  ASSUME Careless \cap {"reuse", "after"} = {}
  PROVE  TypeOK /\ KeysNamed /\ AfterNamed /\ [Next]_vars => AfterNamed'
<1> SUFFICES ASSUME TypeOK, KeysNamed, AfterNamed, [Next]_vars,
                    doing'.kind = "add", doing'.after # None
             PROVE  doing'.at \in DOMAIN defined' /\ defined'[doing'.at].name = doing'.after
  BY DEF AfterNamed
<1>1. Idle.kind # "add"
  BY DEF Idle
<1>2. ASSUME NEW c \in Column, NEW n \in Names, AddColumnAfter(c, n)
      PROVE  doing'.at \in DOMAIN defined' /\ defined'[doing'.at].name = doing'.after
  BY <1>1, <1>2, AddedAfter
<1>3. ASSUME NEW c \in Column, AddColumn(c) PROVE FALSE
  BY <1>1, <1>3, SaveDoes DEF AddColumn
<1>4. ASSUME NEW cs, NEW then, doing = Idle, then.kind # "add", Refill(cs, then) PROVE FALSE
  <2>1. doing' \in {then, Idle, doing}
    BY <1>4 DEF Refill, Save
  <2> QED BY <2>1, <1>1, <1>4
<1>5. ASSUME NEW c \in Column, NEW n \in Names, ChangeColumn(n, c) PROVE FALSE
  BY <1>1, <1>4, <1>5 DEF ChangeColumn, MayAlter
<1>6. ASSUME NEW n \in Names, RemoveColumn(n) PROVE FALSE
  BY <1>4, <1>6 DEF RemoveColumn, MayAlter
<1>7. CASE AlterTable \/ Rewrite \/ Insert \/ Exit \/ Crash
  <2>1. doing' = Idle
    BY <1>7 DEF AlterTable, Rewrite, Insert, Exit, Crash
  <2> QED BY <2>1, <1>1
<1>8. CASE UNCHANGED vars
  BY <1>8 DEF vars, AfterNamed
<1> QED BY <1>2, <1>3, <1>5, <1>6, <1>7, <1>8 DEF Next

\* A client that makes a new Alter for every alteration that a map out of step would
\* spoil, and names a column there is, gets its column behind that one, however
\* careless it is about all else (alter.zep addColumn).
THEOREM AddedBehind ==
  ASSUME Careless \cap {"reuse", "after"} = {}
  PROVE  Spec => []AfterNamed
<1>1. Init => TypeOK /\ Edited /\ KeysNamed /\ AfterNamed
  <2>1. Init => KeysNamed /\ AfterNamed
    BY DEF Init, KeysNamed, AfterNamed, Idle
  <2> QED BY <2>1, InitTypes
<1>2. (TypeOK /\ Edited /\ KeysNamed /\ AfterNamed) /\ [Next]_vars
        => (TypeOK /\ Edited /\ KeysNamed /\ AfterNamed)'
  BY StepTypes, StepEdited, StepKeys, StepAfter
<1> QED BY <1>1, <1>2, PTL DEF Spec

-----------------------------------------------------------------------------
(* Definitions that a Table can be made of.                                *)

\* Two columns that no Table has both of.
Clash(c, d) == c.name = d.name \/ (c.counts /\ d.counts)
Fine(cs)    == \A i, j \in DOMAIN cs : i # j => ~Clash(cs[i], cs[j])

\* A column that can be added to others.
Free(c, cs) == c.name \notin NamesOf(cs) /\ ~(c.counts /\ Counting(cs))

\* A column is accepted if it clashes with none that is there.
LEMMA FreeIs ==
  ASSUME NEW cs, NEW c
  PROVE  Free(c, cs) <=> \A i \in DOMAIN cs : ~Clash(c, cs[i])
BY DEF Free, NamesOf, Shape!NamesOf, Counting, Clash

\* All columns are accepted if no two of them clash, and none counts when the Table
\* has counted before.
LEMMA AcceptedAll ==
  ASSUME NEW cs \in Seq(Column), NEW counts \in BOOLEAN
  PROVE  Accepted(cs, counts) = cs <=> (Fine(cs) /\ ~(counts /\ Counting(cs)))
<1> DEFINE refused == {i \in DOMAIN cs : Refused(cs, counts, i)}
<1>1. Len(cs) \in Nat /\ DOMAIN cs = 1 .. Len(cs)
  BY LenProperties
<1>2. Accepted(cs, counts) = cs <=> refused = {}
  <2>1. ASSUME refused # {} PROVE SubSeq(cs, 1, Min(refused) - 1) # cs
    <3>1. Min(refused) \in 1 .. Len(cs)
      <4>1. refused \in SUBSET Nat /\ refused \subseteq 1 .. Len(cs)
        BY <1>1
      <4> HIDE DEF refused
      <4> QED BY <4>1, <2>1, MinIs
    <3>2. \A i \in 1 .. Min(refused) - 1 : cs[i] \in Column
      BY <3>1, <1>1, ElementOfSeq
    <3> HIDE DEF refused
    <3>3. 1 \in Int /\ Min(refused) - 1 \in Int
      BY <3>1
    <3>4. Len(SubSeq(cs, 1, Min(refused) - 1))
            = IF 1 <= Min(refused) - 1 THEN Min(refused) - 1 - 1 + 1 ELSE 0
      BY <3>2, <3>3, SubSeqProperties
    <3>5. Len(SubSeq(cs, 1, Min(refused) - 1)) # Len(cs)
      BY <3>1, <3>4, <1>1
    <3> QED BY <3>5
  <2> QED BY <2>1 DEF Accepted
<1>3. ASSUME refused = {} PROVE Fine(cs) /\ ~(counts /\ Counting(cs))
  <2>1. \A i \in DOMAIN cs : ~Refused(cs, counts, i)
    BY <1>3
  <2>2. ASSUME NEW i \in DOMAIN cs, NEW j \in DOMAIN cs, i # j, Clash(cs[i], cs[j]) PROVE FALSE
    <3>1. CASE i < j
      <4>1. i \in 1 .. j - 1
        BY <3>1, <1>1
      <4>2. ~Refused(cs, counts, j)
        BY <2>1
      <4> QED BY <4>1, <4>2, <2>2 DEF Refused, Clash
    <3>2. CASE j < i
      <4>1. j \in 1 .. i - 1
        BY <3>2, <1>1
      <4>2. ~Refused(cs, counts, i)
        BY <2>1
      <4> QED BY <4>1, <4>2, <2>2 DEF Refused, Clash
    <3> QED BY <3>1, <3>2, <2>2, <1>1
  <2>3. ~(counts /\ Counting(cs))
    BY <2>1 DEF Refused, Counting
  <2> QED BY <2>2, <2>3 DEF Fine
<1>4. ASSUME Fine(cs), ~(counts /\ Counting(cs)) PROVE refused = {}
  <2> SUFFICES ASSUME NEW i \in DOMAIN cs, Refused(cs, counts, i) PROVE FALSE
    OBVIOUS
  <2>1. ASSUME NEW j \in 1 .. i - 1, Clash(cs[i], cs[j]) PROVE FALSE
    <3>1. j \in DOMAIN cs /\ i # j
      BY <1>1, <2>1
    <3> QED BY <3>1, <2>1, <1>4 DEF Fine
  <2>2. ~(cs[i].counts /\ counts)
    BY <1>4 DEF Counting
  <2> QED BY <2>1, <2>2 DEF Refused, Clash
<1> QED BY <1>2, <1>3, <1>4

\* A definition loads if its columns are accepted and those of its relations are there.
LEMMA LoadsIs ==
  ASSUME NEW cs \in Seq(Column)
  PROVE  Loads(cs) <=> (Fine(cs) /\ relations \subseteq NamesOf(cs))
<1>1. Accepted(cs, FALSE) = cs <=> Fine(cs)
  BY AcceptedAll
<1> QED BY <1>1 DEF Loads

\* One more column, free among the others, anywhere.
LEMMA InsertFine ==
  ASSUME NEW cs \in Seq(Column), NEW i \in 1 .. Len(cs) + 1, NEW c \in Column,
         Fine(cs), Free(c, cs)
  PROVE  Fine(InsertAt(cs, i, c)) /\ NamesOf(cs) \subseteq NamesOf(InsertAt(cs, i, c))
<1> DEFINE r == InsertAt(cs, i, c)
           From(k) == IF k < i THEN k ELSE k - 1
           To(k) == IF k < i THEN k ELSE k + 1
<1>1. Len(cs) \in Nat /\ DOMAIN cs = 1 .. Len(cs)
  BY LenProperties
<1>2. /\ r \in Seq(Column) /\ Len(r) = Len(cs) + 1
      /\ \A k \in 1 .. Len(cs) + 1 :
           r[k] = IF k < i THEN cs[k] ELSE IF k = i THEN c ELSE cs[k - 1]
  <2>1. r \in Seq(Column) /\ Inserted(r, cs, i, c)
    BY InsertAtIs
  <2> QED BY <2>1 DEF Inserted
<1> HIDE DEF r
<1>3. DOMAIN r = 1 .. Len(cs) + 1
  BY <1>2, LenProperties
<1>4. \A k \in DOMAIN r : k # i => From(k) \in DOMAIN cs /\ r[k] = cs[From(k)]
  BY <1>1, <1>2, <1>3
<1>5. r[i] = c
  BY <1>1, <1>2
<1>6. \A k \in DOMAIN cs : ~Clash(c, cs[k]) /\ ~Clash(cs[k], c)
  BY FreeIs DEF Clash
<1>7. ASSUME NEW k \in DOMAIN r, NEW l \in DOMAIN r, k # l PROVE ~Clash(r[k], r[l])
  <2>1. CASE k = i
    BY <2>1, <1>4, <1>5, <1>6, <1>7
  <2>2. CASE l = i
    BY <2>2, <1>4, <1>5, <1>6, <1>7
  <2>3. CASE k # i /\ l # i
    <3>1. From(k) \in DOMAIN cs /\ From(l) \in DOMAIN cs /\ From(k) # From(l)
      BY <2>3, <1>1, <1>3, <1>4, <1>7
    <3>2. r[k] = cs[From(k)] /\ r[l] = cs[From(l)]
      BY <2>3, <1>4
    <3> HIDE DEF From
    <3> QED BY <3>1, <3>2 DEF Fine
  <2> QED BY <2>1, <2>2, <2>3
<1>8. ASSUME NEW k \in DOMAIN cs PROVE cs[k].name \in NamesOf(r)
  <2>1. To(k) \in DOMAIN r /\ r[To(k)] = cs[k]
    BY <1>1, <1>2, <1>3
  <2> HIDE DEF To
  <2> QED BY <2>1 DEF NamesOf, Shape!NamesOf
<1> QED BY <1>7, <1>8 DEF Fine, NamesOf, Shape!NamesOf, r

\* One column less; all others are still there.
LEMMA RemoveFine ==
  ASSUME NEW cs \in Seq(Column), NEW i \in 1 .. Len(cs), Fine(cs)
  PROVE  /\ Fine(RemoveAt(cs, i))
         /\ \A j \in 1 .. Len(cs) : j # i =>
              \E k \in DOMAIN RemoveAt(cs, i) : RemoveAt(cs, i)[k] = cs[j]
<1> DEFINE r == RemoveAt(cs, i)
           From(k) == IF k < i THEN k ELSE k + 1
           To(k) == IF k < i THEN k ELSE k - 1
<1>1. Len(cs) \in Nat /\ DOMAIN cs = 1 .. Len(cs)
  BY LenProperties
<1>2. /\ r \in Seq(Column) /\ Len(r) = Len(cs) - 1
      /\ \A k \in 1 .. Len(cs) - 1 : r[k] = IF k < i THEN cs[k] ELSE cs[k + 1]
  BY RemoveAtIs
<1> HIDE DEF r
<1>3. DOMAIN r = 1 .. Len(cs) - 1
  BY <1>2, LenProperties
<1>4. \A k \in DOMAIN r : From(k) \in DOMAIN cs /\ r[k] = cs[From(k)]
  BY <1>1, <1>2, <1>3
<1>5. ASSUME NEW k \in DOMAIN r, NEW l \in DOMAIN r, k # l PROVE ~Clash(r[k], r[l])
  <2>1. From(k) \in DOMAIN cs /\ From(l) \in DOMAIN cs /\ From(k) # From(l)
    BY <1>1, <1>3, <1>4, <1>5
  <2>2. r[k] = cs[From(k)] /\ r[l] = cs[From(l)]
    BY <1>4
  <2> HIDE DEF From
  <2> QED BY <2>1, <2>2 DEF Fine
<1>6. ASSUME NEW j \in 1 .. Len(cs), j # i PROVE \E k \in DOMAIN r : r[k] = cs[j]
  <2>1. To(j) \in DOMAIN r /\ r[To(j)] = cs[j]
    BY <1>1, <1>2, <1>3, <1>6
  <2> QED BY <2>1
<1> QED BY <1>5, <1>6 DEF Fine, r

\* Another column in the place of one, free among the rest.
LEMMA ReplaceFine ==
  ASSUME NEW cs \in Seq(Column), NEW i \in 1 .. Len(cs), NEW c \in Column,
         Fine(cs), Free(c, RemoveAt(cs, i))
  PROVE  /\ ReplaceAt(cs, i, c) \in Seq(Column)
         /\ Len(ReplaceAt(cs, i, c)) = Len(cs)
         /\ Fine(ReplaceAt(cs, i, c))
         /\ \A j \in 1 .. Len(cs) : ReplaceAt(cs, i, c)[j] = IF j = i THEN c ELSE cs[j]
<1> DEFINE r == ReplaceAt(cs, i, c)
<1>1. Len(cs) \in Nat /\ DOMAIN cs = 1 .. Len(cs)
  BY LenProperties
<1>2. /\ r \in Seq(Column) /\ Len(r) = Len(cs)
      /\ \A j \in 1 .. Len(cs) : r[j] = IF j = i THEN c ELSE cs[j]
  BY ExceptSeq DEF ReplaceAt
<1> HIDE DEF r
<1>3. DOMAIN r = 1 .. Len(cs)
  BY <1>2, LenProperties
<1>4. \A j \in 1 .. Len(cs) : j # i => ~Clash(c, cs[j])
  BY RemoveFine, FreeIs
<1>5. ASSUME NEW k \in DOMAIN r, NEW l \in DOMAIN r, k # l PROVE ~Clash(r[k], r[l])
  <2>1. CASE k = i
    <3>1. r[k] = c /\ r[l] = cs[l]
      BY <2>1, <1>2, <1>3, <1>5
    <3> QED BY <3>1, <2>1, <1>3, <1>4, <1>5
  <2>2. CASE l = i
    <3>1. r[k] = cs[k] /\ r[l] = c
      BY <2>2, <1>2, <1>3, <1>5
    <3>2. ~Clash(c, cs[k])
      BY <2>2, <1>3, <1>4, <1>5
    <3> QED BY <3>1, <3>2 DEF Clash
  <2>3. CASE k # i /\ l # i
    <3>1. r[k] = cs[k] /\ r[l] = cs[l]
      BY <2>3, <1>2, <1>3
    <3> QED BY <3>1, <1>1, <1>3, <1>5 DEF Fine
  <2> QED BY <2>1, <2>2, <2>3
<1> QED BY <1>2, <1>5 DEF Fine, r

\* What is put behind all is put at a place.
LEMMA AppendInserts ==
  ASSUME NEW S, NEW s \in Seq(S), NEW e \in S
  PROVE  Append(s, e) = InsertAt(s, Len(s) + 1, e)
<1> DEFINE n == Len(s) + 1
           r == InsertAt(s, n, e)
<1>1. Len(s) \in Nat /\ n \in 1 .. Len(s) + 1 /\ n = Len(s) + 1
  BY LenProperties
<1> HIDE DEF n
<1>2. /\ r \in Seq(S) /\ Len(r) = Len(s) + 1
      /\ \A j \in 1 .. Len(s) + 1 :
           r[j] = IF j < n THEN s[j] ELSE IF j = n THEN e ELSE s[j - 1]
  <2>1. r \in Seq(S) /\ Inserted(r, s, n, e)
    BY <1>1, InsertAtIs
  <2> QED BY <2>1 DEF Inserted
<1> HIDE DEF r
<1>3. /\ Append(s, e) \in Seq(S) /\ Len(Append(s, e)) = Len(s) + 1
      /\ \A j \in 1 .. Len(s) : Append(s, e)[j] = s[j]
      /\ Append(s, e)[Len(s) + 1] = e
  BY AppendProperties
<1>4. \A j \in 1 .. Len(Append(s, e)) : Append(s, e)[j] = r[j]
  BY <1>1, <1>2, <1>3
<1>5. Append(s, e) = r
  BY <1>2, <1>3, <1>4, SeqEqual
<1> QED BY <1>5 DEF r, n

-----------------------------------------------------------------------------
(* What each call does when the client minds what a Table can have.        *)

\* The Table that is being edited is what the file says.
InSync == table # None \/ held = "edited" => table \in Table /\ ColumnsOf(table) = defined

\* The inductive invariant of such a client.
OpenInv == TypeOK /\ KeysNamed /\ OpensAgain /\ InSync

\* A definition was saved and loaded again.
Altered(cs, then) ==
  /\ table' \in Table /\ ColumnsOf(table') = cs
  /\ defined' = cs
  /\ held' = "loaded"
  /\ doing' = then
  /\ UNCHANGED <<relations, rows>>

\* What a save of a Table that loads does to the files.
LEMMA SaveAlters ==
  ASSUME NEW t \in Table, NEW then, Loads(ColumnsOf(t)), Save(t, then)
  PROVE  Altered(ColumnsOf(t), then)
BY DEF Save, Altered

\* The same, file by file.
LEMMA AlteredIs ==
  ASSUME NEW cs, NEW then, Altered(cs, then)
  PROVE  defined' = cs /\ rows' = rows /\ doing' = then
BY DEF Altered

\* Columns that a Table can have are all put back.
LEMMA RefillAlters ==
  ASSUME TypeOK, table # None, NEW cs \in Seq(Column), NEW then,
         Fine(cs), relations \subseteq NamesOf(cs), ~(table.counts /\ Counting(cs)),
         Refill(cs, then)
  PROVE  Altered(cs, then) /\ Loads(cs)
<1> DEFINE t == Refilled(table, cs)
<1>1. table \in Table /\ table.counts \in BOOLEAN
  BY DEF TypeOK, Table
<1>2. Accepted(cs, table.counts) = cs
  BY <1>1, AcceptedAll
<1>3. Save(t, then)
  BY <1>2 DEF Refill
<1>4. t \in Table /\ ColumnsOf(t) = cs
  BY <1>1, RefilledIs
<1>5. Loads(cs)
  BY LoadsIs
<1> HIDE DEF t
<1> QED BY <1>3, <1>4, <1>5, SaveAlters

Minds(what) == Careless \cap what = {}
Legal       == {"increment", "duplicate", "relation"}

\* addColumn() defines one column more, at the end.
LEMMA AddColumnAlters ==
  ASSUME Minds(Legal), OpenInv, NEW c \in Column, AddColumn(c)
  PROVE  /\ Free(c, defined)
         /\ Altered(InsertAt(defined, Len(defined) + 1, c),
                    [kind |-> "add", at |-> Len(defined), after |-> None])
         /\ Loads(InsertAt(defined, Len(defined) + 1, c))
<1> DEFINE e == [key |-> c.name, column |-> c]
           t == [entries |-> Append(table.entries, e),
                 names   |-> Append(table.names, c.name),
                 counts  |-> table.counts \/ c.counts]
           then == [kind |-> "add", at |-> Len(table.entries), after |-> None]
           new == InsertAt(defined, Len(defined) + 1, c)
<1>1. /\ table \in Table /\ ColumnsOf(table) = defined
      /\ defined \in Seq(Column) /\ Len(defined) = Len(table.entries) /\ Len(defined) \in Nat
  BY ColumnsAre, LenProperties DEF OpenInv, InSync, TypeOK, AddColumn, MayAlter
<1>2. Free(c, defined)
  <2>1. Fits(c, defined) /\ "duplicate" \notin Careless
    BY <1>1 DEF AddColumn, Minds, Legal
  <2> QED BY <2>1 DEF Fits, Care, Free
<1>3. t \in Table /\ ColumnsOf(t) = Append(defined, c)
  <2>1. table.entries \in Seq(Entry) /\ table.names \in Seq(Names)
    BY <1>1 DEF Table
  <2>2. c.name \in Names /\ e \in Entry /\ e.column = c
    BY DEF Entry, Column
  <2> HIDE DEF e
  <2>3. /\ Append(table.entries, e) \in Seq(Entry) /\ Append(table.names, c.name) \in Seq(Names)
        /\ Len(Append(table.entries, e)) = Len(table.entries) + 1
        /\ \A i \in 1 .. Len(table.entries) : Append(table.entries, e)[i] = table.entries[i]
        /\ Append(table.entries, e)[Len(table.entries) + 1] = e
    BY <2>1, <2>2, AppendProperties
  <2>4. t \in Table
    <3>1. (table.counts \/ c.counts) \in BOOLEAN
      OBVIOUS
    <3> QED BY <3>1, <2>3 DEF Table
  <2>5. t.entries = Append(table.entries, e)
    OBVIOUS
  <2> HIDE DEF t
  <2>6. /\ ColumnsOf(t) \in Seq(Column) /\ Len(ColumnsOf(t)) = Len(defined) + 1
        /\ \A i \in 1 .. Len(t.entries) : ColumnsOf(t)[i] = t.entries[i].column
    BY <2>3, <2>4, <2>5, <1>1, ColumnsAre
  <2>7. /\ Append(defined, c) \in Seq(Column) /\ Len(Append(defined, c)) = Len(defined) + 1
        /\ \A i \in 1 .. Len(defined) : Append(defined, c)[i] = defined[i]
        /\ Append(defined, c)[Len(defined) + 1] = c
    BY <1>1, AppendProperties
  <2>8. \A i \in 1 .. Len(defined) : defined[i] = table.entries[i].column
    BY <1>1, ColumnsAre
  <2>9. ASSUME NEW i \in 1 .. Len(ColumnsOf(t)) PROVE ColumnsOf(t)[i] = Append(defined, c)[i]
    <3>1. i \in 1 .. Len(defined) + 1 /\ ColumnsOf(t)[i] = Append(table.entries, e)[i].column
      BY <2>3, <2>5, <2>6, <1>1
    <3>2. CASE i \in 1 .. Len(defined)
      BY <3>1, <3>2, <2>3, <2>7, <2>8, <1>1
    <3>3. CASE i = Len(defined) + 1
      BY <3>1, <3>3, <2>2, <2>3, <2>7, <1>1
    <3> QED BY <3>1, <3>2, <3>3, <1>1
  <2> QED BY <2>4, <2>6, <2>7, <2>9, SeqEqual
<1>4. Append(defined, c) = new
  BY <1>1, AppendInserts
<1>5. Loads(new)
  <2>1. Fine(defined) /\ relations \subseteq NamesOf(defined)
    BY <1>1, LoadsIs DEF OpenInv, OpensAgain
  <2>2. Len(defined) + 1 \in 1 .. Len(defined) + 1
    BY <1>1
  <2>3. Fine(new) /\ NamesOf(defined) \subseteq NamesOf(new)
    BY <1>1, <1>2, <2>1, <2>2, InsertFine
  <2>4. new \in Seq(Column)
    BY <1>1, <1>4, AppendProperties
  <2> HIDE DEF new
  <2> QED BY <2>1, <2>3, <2>4, LoadsIs
<1>6. Save(t, then)
  BY DEF AddColumn
<1>7. then = [kind |-> "add", at |-> Len(defined), after |-> None]
  BY <1>1
<1> HIDE DEF t, then
<1>8. Altered(new, then)
  BY <1>3, <1>4, <1>5, <1>6, SaveAlters
<1> QED BY <1>2, <1>5, <1>7, <1>8

\* addColumn() with a name defines one column more, at the place behind it.
LEMMA AddColumnAfterAlters ==
  ASSUME Minds(Legal), OpenInv, NEW c \in Column, NEW n \in Names, AddColumnAfter(c, n)
  PROVE  LET at == PlaceAfter(table, n) IN
           /\ at \in Nat
           /\ Free(c, defined)
           /\ Altered(Placed(defined, at, c), [kind |-> "add", at |-> at, after |-> n])
           /\ Loads(Placed(defined, at, c))
<1> DEFINE at == PlaceAfter(table, n)
           t  == [table EXCEPT !.entries = Placed(@, at, [key |-> None, column |-> c])]
           then == [kind |-> "add", at |-> at, after |-> n]
           new == Placed(defined, at, c)
<1>1. table \in Table /\ ColumnsOf(table) = defined /\ defined \in Seq(Column)
  BY DEF OpenInv, InSync, TypeOK, AddColumnAfter, MayAlter
<1>2. Free(c, defined)
  <2>1. Fits(c, defined) /\ "duplicate" \notin Careless
    BY <1>1 DEF AddColumnAfter, Minds, Legal
  <2> QED BY <2>1 DEF Fits, Care, Free
<1>3. at \in Nat
  BY <1>1, PlaceAfterType
<1>4. Save(t, then)
  BY DEF AddColumnAfter
<1> HIDE DEF at
<1>5. t \in Table /\ ColumnsOf(t) = new
  BY <1>1, <1>3, ColumnsPlaced
<1>6. new \in Seq(Column) /\ Fine(new) /\ NamesOf(defined) \subseteq NamesOf(new)
  <2>1. Fine(defined)
    BY <1>1, LoadsIs DEF OpenInv, OpensAgain
  <2>2. /\ new = InsertAt(defined, Slot(defined, at), c)
        /\ Slot(defined, at) \in 1 .. Len(defined) + 1
        /\ new \in Seq(Column)
    BY <1>1, <1>3, PlacedIs, ZenonT(60)
  <2> DEFINE i == Slot(defined, at)
  <2> HIDE DEF i, new
  <2> QED BY <1>1, <1>2, <2>1, <2>2, InsertFine
<1>7. relations \subseteq NamesOf(defined)
  BY <1>1, LoadsIs DEF OpenInv, OpensAgain
<1> HIDE DEF t, then, new
<1>8. Loads(new)
  BY <1>6, <1>7, LoadsIs
<1>9. Altered(new, then)
  BY <1>4, <1>5, <1>8, SaveAlters
<1> QED BY <1>2, <1>3, <1>8, <1>9 DEF at, then, new

\* removeColumn() defines all columns but the one that is named.
LEMMA RemoveColumnAlters ==
  ASSUME Minds(Legal), OpenInv, NEW n \in Names, RemoveColumn(n)
  PROVE  LET i == KeyAt(table, n) IN
           /\ i \in 1 .. Len(defined)
           /\ Altered(RemoveAt(defined, i),
                      [kind |-> "remove", at |-> MapAt(table, n), after |-> None])
           /\ Loads(RemoveAt(defined, i))
<1> DEFINE i == KeyAt(table, n)
           then == [kind |-> "remove", at |-> MapAt(table, n), after |-> None]
           rest == Without(ColumnsOf(table), i)
<1>1. /\ table \in Table /\ table # None /\ ColumnsOf(table) = defined
      /\ defined \in Seq(Column) /\ Len(defined) = Len(table.entries)
  BY ColumnsAre DEF OpenInv, InSync, TypeOK, RemoveColumn, MayAlter
<1>2. i \in 1 .. Len(defined) /\ table.entries[i].key = n
  BY <1>1, KeyAtIs DEF RemoveColumn
<1>3. rest = RemoveAt(defined, i)
  <2>1. DOMAIN defined = 1 .. Len(defined)
    BY <1>1, LenProperties
  <2> QED BY <1>1, <1>2, <2>1 DEF Without
<1>4. ~Counting(rest) /\ n \notin relations /\ Refill(rest, then)
  <2>1. Care("increment", ~Counting(rest)) /\ Care("relation", n \notin relations)
    BY DEF RemoveColumn
  <2>2. "increment" \notin Careless /\ "relation" \notin Careless
    BY DEF Minds, Legal
  <2> QED BY <2>1, <2>2 DEF Care, RemoveColumn
<1>5. defined[i].name = n
  <2>1. table.entries[i].column.name = n
    BY <1>1, <1>2, NoneAssumption DEF OpenInv, KeysNamed
  <2> QED BY <1>1, <1>2, <2>1, ColumnsAre
<1> HIDE DEF i, then
<1>6. Fine(defined) /\ relations \subseteq NamesOf(defined)
  BY <1>1, LoadsIs DEF OpenInv, OpensAgain
<1>7. /\ Fine(rest)
      /\ \A j \in 1 .. Len(defined) : j # i => \E k \in DOMAIN rest : rest[k] = defined[j]
  BY <1>1, <1>2, <1>3, <1>6, RemoveFine
<1>8. rest \in Seq(Column)
  BY <1>1, <1>2, <1>3, RemoveAtIs
<1> HIDE DEF rest
<1>9. relations \subseteq NamesOf(rest)
  <2> SUFFICES ASSUME NEW m \in relations PROVE m \in NamesOf(rest)
    OBVIOUS
  <2>1. PICK j \in 1 .. Len(defined) : defined[j].name = m
    BY <1>1, <1>6, LenProperties DEF NamesOf, Shape!NamesOf
  <2>2. j # i
    BY <1>4, <1>5, <2>1
  <2>3. PICK k \in DOMAIN rest : rest[k] = defined[j]
    BY <1>7, <2>2
  <2> QED BY <2>1, <2>3 DEF NamesOf, Shape!NamesOf
<1>10. Altered(rest, then) /\ Loads(rest)
  BY <1>1, <1>4, <1>7, <1>8, <1>9, RefillAlters DEF OpenInv
<1> QED BY <1>2, <1>3, <1>10 DEF i, then

\* changeColumn() defines another column in the place of the one that is named.
LEMMA ChangeColumnAlters ==
  ASSUME Minds(Legal), OpenInv, NEW n \in Names, NEW c \in Column, ChangeColumn(n, c)
  PROVE  LET i == KeyAt(table, n) IN
           \/ /\ n \in Keys(table)
              /\ i \in 1 .. Len(defined)
              /\ Free(c, RemoveAt(defined, i))
              /\ Altered(ReplaceAt(defined, i, c), Idle)
              /\ Loads(ReplaceAt(defined, i, c))
           \/ /\ n \notin Keys(table)
              /\ "unknown" \in Careless
              /\ Altered(Append(defined, c), Idle)
              /\ Loads(Append(defined, c))
<1> DEFINE i == KeyAt(table, n)
           new == IF n \in Keys(table) THEN ReplaceAt(ColumnsOf(table), KeyAt(table, n), c)
                                       ELSE Append(ColumnsOf(table), c)
           others == Without(ColumnsOf(table), i)
<1>1. /\ table \in Table /\ table # None /\ ColumnsOf(table) = defined
      /\ defined \in Seq(Column) /\ Len(defined) = Len(table.entries)
      /\ DOMAIN defined = 1 .. Len(defined) /\ Len(defined) \in Nat
  BY ColumnsAre, LenProperties DEF OpenInv, InSync, TypeOK, ChangeColumn, MayAlter
<1>2. /\ ~(table.counts /\ Counting(new))
      /\ Free(c, others)
      /\ n \in relations => c.name = n
      /\ Refill(new, Idle)
      /\ "unknown" \in Careless \/ n \in Keys(table)
  <2>1. /\ Care("increment", ~(table.counts /\ Counting(new)))
        /\ Fits(c, others)
        /\ Care("relation", n \in relations => c.name = n)
        /\ Care("unknown", n \in Keys(table))
        /\ Refill(new, Idle)
    BY DEF ChangeColumn
  <2>2. "increment" \notin Careless /\ "relation" \notin Careless /\ "duplicate" \notin Careless
    BY DEF Minds, Legal
  <2> HIDE DEF new, others
  <2> QED BY <2>1, <2>2 DEF Care, Fits, Free
<1>3. Fine(defined) /\ relations \subseteq NamesOf(defined)
  BY <1>1, LoadsIs DEF OpenInv, OpensAgain
<1>4. CASE n \in Keys(table)
  <2>1. i \in 1 .. Len(defined) /\ table.entries[i].key = n
    BY <1>1, <1>4, KeyAtIs
  <2>2. others = RemoveAt(defined, i) /\ new = ReplaceAt(defined, i, c)
    BY <1>1, <1>4, <2>1 DEF Without
  <2>3. defined[i].name = n
    <3>1. table.entries[i].column.name = n
      BY <1>1, <2>1, NoneAssumption DEF OpenInv, KeysNamed
    <3> QED BY <1>1, <2>1, <3>1, ColumnsAre
  <2> HIDE DEF i
  <2>4. /\ new \in Seq(Column) /\ Len(new) = Len(defined) /\ Fine(new)
        /\ \A j \in 1 .. Len(defined) : new[j] = IF j = i THEN c ELSE defined[j]
    <3> HIDE DEF new, others
    <3> QED BY <1>1, <1>2, <1>3, <2>1, <2>2, ReplaceFine
  <2> HIDE DEF new, others
  <2>5. relations \subseteq NamesOf(new)
    <3> SUFFICES ASSUME NEW m \in relations PROVE m \in NamesOf(new)
      OBVIOUS
    <3>1. PICK j \in 1 .. Len(defined) : defined[j].name = m
      BY <1>1, <1>3, LenProperties DEF NamesOf, Shape!NamesOf
    <3>2. new[j].name = m
      BY <1>2, <2>1, <2>3, <2>4, <3>1
    <3>3. j \in DOMAIN new
      BY <2>4, LenProperties
    <3> QED BY <3>2, <3>3 DEF NamesOf, Shape!NamesOf
  <2>6. Altered(new, Idle) /\ Loads(new)
    BY <1>1, <1>2, <2>4, <2>5, RefillAlters DEF OpenInv
  <2> QED BY <1>2, <1>4, <2>1, <2>2, <2>6 DEF i
<1>5. CASE n \notin Keys(table)
  <2>1. i = 0
    BY <1>1, <1>5, KeyAtIs
  <2>2. others = defined /\ new = Append(defined, c)
    BY <1>1, <1>5, <2>1 DEF Without
  <2>3. new = InsertAt(defined, Len(defined) + 1, c) /\ new \in Seq(Column)
    <3>1. Append(defined, c) = InsertAt(defined, Len(defined) + 1, c)
      BY <1>1, AppendInserts
    <3>2. Append(defined, c) \in Seq(Column)
      BY <1>1, AppendProperties
    <3> QED BY <2>2, <3>1, <3>2
  <2>4. Fine(new) /\ NamesOf(defined) \subseteq NamesOf(new)
    <3>1. Len(defined) + 1 \in 1 .. Len(defined) + 1
      BY <1>1
    <3>2. Free(c, defined)
      BY <1>2, <2>2
    <3> HIDE DEF new
    <3> QED BY <1>1, <1>3, <2>3, <3>1, <3>2, InsertFine
  <2> HIDE DEF new, others
  <2>5. Altered(new, Idle) /\ Loads(new)
    BY <1>1, <1>2, <1>3, <2>3, <2>4, RefillAlters DEF OpenInv
  <2> QED BY <1>2, <1>5, <2>2, <2>5
<1> QED BY <1>4, <1>5

\* After an alteration the invariant holds again.
LEMMA AlteredOpens ==
  ASSUME NEW cs, NEW then, Altered(cs, then), Loads(cs)
  PROVE  OpensAgain' /\ InSync'
<1>1. OpensAgain'
  BY DEF OpensAgain, Loads, Altered, NamesOf, Shape!NamesOf
<1>2. InSync'
  BY DEF InSync, Altered
<1> QED BY <1>1, <1>2

\* Every step of a client that minds leaves a definition that loads.
LEMMA StepOpens == Minds(Legal) /\ OpenInv /\ [Next]_vars => OpensAgain' /\ InSync'
<1> SUFFICES ASSUME Minds(Legal), OpenInv, [Next]_vars PROVE OpensAgain' /\ InSync'
  OBVIOUS
<1>1. CASE AlterTable
  <2>1. Loaded(defined) \in Table /\ ColumnsOf(Loaded(defined)) = defined
    BY LoadedIs DEF OpenInv, TypeOK
  <2>2. OpensAgain'
    BY <1>1 DEF AlterTable, OpensAgain, OpenInv, Loads
  <2> QED BY <1>1, <2>1, <2>2 DEF AlterTable, InSync
<1>2. ASSUME NEW c \in Column, AddColumn(c) PROVE OpensAgain' /\ InSync'
  BY <1>2, AddColumnAlters, AlteredOpens
<1>3. ASSUME NEW c \in Column, NEW n \in Names, AddColumnAfter(c, n) PROVE OpensAgain' /\ InSync'
  BY <1>3, AddColumnAfterAlters, AlteredOpens
<1>4. ASSUME NEW c \in Column, NEW n \in Names, ChangeColumn(n, c) PROVE OpensAgain' /\ InSync'
  BY <1>4, ChangeColumnAlters, AlteredOpens
<1>5. ASSUME NEW n \in Names, RemoveColumn(n) PROVE OpensAgain' /\ InSync'
  BY <1>5, RemoveColumnAlters, AlteredOpens
<1>6. CASE Rewrite \/ Insert \/ UNCHANGED vars
  <2>1. /\ defined' = defined /\ relations' = relations /\ table' = table
        /\ held' = "edited" => held = "edited"
    BY <1>6 DEF Rewrite, Insert, vars
  <2>2. OpensAgain'
    BY <2>1 DEF OpensAgain, OpenInv, Loads
  <2>3. InSync'
    BY <2>1 DEF InSync, OpenInv
  <2> QED BY <2>2, <2>3
<1>7. CASE Exit \/ Crash
  <2>1. defined' = defined /\ relations' = relations
    BY <1>7 DEF Exit, Crash, OpenInv, InSync
  <2>2. OpensAgain'
    BY <2>1 DEF OpensAgain, OpenInv, Loads
  <2>3. table' = None /\ held' # "edited"
    BY <1>7 DEF Exit, Crash
  <2> QED BY <2>2, <2>3 DEF InSync
<1> QED BY <1>1, <1>2, <1>3, <1>4, <1>5, <1>6, <1>7 DEF Next

\* The first definition loads.
LEMMA InitOpens == Init => OpenInv
<1> SUFFICES ASSUME Init PROVE OpenInv
  OBVIOUS
<1>1. TypeOK
  BY InitTypes
<1>2. KeysNamed /\ InSync
  BY DEF Init, KeysNamed, InSync
<1>3. OpensAgain
  BY DEF Init, OpensAgain, Loads
<1> QED BY <1>1, <1>2, <1>3 DEF OpenInv

\* The invariant of the clients whose definition always loads.
LEMMA OpenInvHolds == Minds(Legal) => (Spec => []OpenInv)
<1> SUFFICES ASSUME Minds(Legal) PROVE Spec => []OpenInv
  OBVIOUS
<1>1. OpenInv /\ [Next]_vars => OpenInv'
  <2> SUFFICES ASSUME OpenInv, [Next]_vars PROVE OpenInv'
    OBVIOUS
  <2>1. Edited
    BY DEF OpenInv, InSync, Edited
  <2>2. TypeOK'
    BY <2>1, StepTypes DEF OpenInv
  <2>3. KeysNamed'
    BY StepKeys DEF OpenInv
  <2> QED BY <2>2, <2>3, StepOpens DEF OpenInv
<1> QED BY <1>1, InitOpens, PTL DEF Spec

\* A client that looks before it adds a name, a counting column or the end of a
\* relation always leaves a definition that opens, even if it uses an Alter twice,
\* names columns that are not there, or is killed (table.zep addColumn, addRelation).
THEOREM AlwaysOpens ==
  ASSUME Careless \cap {"increment", "duplicate", "relation"} = {}
  PROVE  Spec => []OpensAgain
<1>1. Minds(Legal)
  BY DEF Minds, Legal
<1>2. Spec => []OpenInv
  BY <1>1, OpenInvHolds
<1>3. OpenInv => OpensAgain
  BY DEF OpenInv
<1> QED BY <1>2, <1>3, PTL

-----------------------------------------------------------------------------
(* Rows and columns change together, for a client that minds everything    *)
(* except where a column goes.                                             *)

\* How wide the rows are while an alteration waits to rewrite them.  There are none
\* without a column: their lines would be read as rows of one value.
Widths ==
  \A r \in DOMAIN rows :
    /\ Len(defined) > 0
    /\ doing = Idle => Len(rows[r]) = Len(defined)
    /\ doing.kind = "add" => Len(rows[r]) + 1 = Len(defined)
    /\ doing.kind = "remove" => /\ Len(rows[r]) = Len(defined) + 1
                                /\ doing.at \in 1 .. Len(rows[r])

\* The inductive invariant of such a client.
RowsInv == OpenInv /\ Widths

\* The rows as they will be, and the step of the promise.
Seen == IF doing = Idle THEN rows ELSE RowsRewritten

Kept == Widths' /\ [Promise!Next]_<<defined, Seen>>

\* The sorts of the definition and the rows.
LEMMA RowsAre ==
  ASSUME RowsInv
  PROVE  /\ defined \in Seq(Column) /\ Len(defined) \in Nat
         /\ rows \in Seq(Seq(Nat \cup {Null}))
         /\ DOMAIN rows = 1 .. Len(rows) /\ Len(rows) \in Nat
         /\ \A r \in DOMAIN rows : rows[r] \in Seq(Nat \cup {Null}) /\ Len(rows[r]) \in Nat
<1>1. defined \in Seq(Column) /\ rows \in Seq(Seq(Nat \cup {Null}))
  BY DEF RowsInv, OpenInv, TypeOK
<1>2. Len(defined) \in Nat /\ DOMAIN rows = 1 .. Len(rows) /\ Len(rows) \in Nat
  BY <1>1, LenProperties
<1>3. \A r \in DOMAIN rows : rows[r] \in Seq(Nat \cup {Null})
  BY <1>1, <1>2, ElementOfSeq
<1>4. \A r \in DOMAIN rows : Len(rows[r]) \in Nat
  BY <1>3, LenProperties
<1> QED BY <1>1, <1>2, <1>3, <1>4

\* The operators on sequences are those that the promise is stated with.
LEMMA SameOperators ==
  /\ \A s, i, x : Promise!InsertAt(s, i, x) = InsertAt(s, i, x)
  /\ \A s, i, x : Promise!ReplaceAt(s, i, x) = ReplaceAt(s, i, x)
  /\ \A s, i : Promise!RemoveAt(s, i) = RemoveAt(s, i)
BY DEF Promise!InsertAt, InsertAt, Promise!ReplaceAt, ReplaceAt, Promise!RemoveAt, RemoveAt

\* A column and a value in each row are put at the same place.
LEMMA AddKeeps ==
  ASSUME RowsInv, doing = Idle, NEW c \in Column, Free(c, defined), NEW at \in Nat, NEW after,
         Altered(Placed(defined, at, c), [kind |-> "add", at |-> at, after |-> after])
  PROVE  Kept
<1> DEFINE n == Slot(defined, at) - 1
           i == Slot(defined, at)
<1>1. /\ defined \in Seq(Column) /\ Len(defined) \in Nat
      /\ \A r \in DOMAIN rows : rows[r] \in Seq(Nat \cup {Null})
      /\ \A r \in DOMAIN rows : Len(rows[r]) = Len(defined)
  BY RowsAre DEF RowsInv, Widths
<1>2. /\ i \in 1 .. Len(defined) + 1
      /\ Placed(defined, at, c) = InsertAt(defined, i, c)
      /\ Len(Placed(defined, at, c)) = Len(defined) + 1
  BY <1>1, PlacedIs
<1>3. \A r \in DOMAIN rows : Placed(rows[r], at, Null) = InsertAt(rows[r], i, Null)
  BY <1>1 DEF Placed, Slot
<1>4. /\ defined' = InsertAt(defined, i, c) /\ Len(defined') = Len(defined) + 1
      /\ rows' = rows
  BY <1>2 DEF Altered
<1>5. doing' = [kind |-> "add", at |-> at, after |-> after]
  BY DEF Altered
<1>6. doing'.kind = "add" /\ doing'.at = at /\ doing' # Idle
  BY <1>5 DEF Idle
<1>7. Widths'
  <2>1. doing'.kind # "remove"
    BY <1>6
  <2> QED BY <1>1, <1>4, <1>6, <2>1 DEF Widths
<1>8. Seen' = [r \in DOMAIN rows |-> InsertAt(rows[r], i, Null)]
  <2>1. \A r \in DOMAIN rows : Line(Placed(rows[r], at, Null)) = Placed(rows[r], at, Null)
    <3> SUFFICES ASSUME NEW r \in DOMAIN rows
                 PROVE  Line(Placed(rows[r], at, Null)) = Placed(rows[r], at, Null)
      OBVIOUS
    <3> DEFINE row == rows[r]
    <3>1. row \in Seq(Nat \cup {Null}) /\ Len(row) \in Nat /\ Null \in Nat \cup {Null}
      BY <1>1
    <3> HIDE DEF row
    <3>2. /\ Placed(row, at, Null) \in Seq(Nat \cup {Null})
          /\ Len(Placed(row, at, Null)) = Len(row) + 1
      BY <3>1, PlacedIs
    <3>3. Line(Placed(row, at, Null)) = Placed(row, at, Null)
      BY <3>1, <3>2, LineIs
    <3> QED BY <3>3 DEF row
  <2>2. Seen' = [r \in DOMAIN rows |-> Line(Placed(rows[r], at, Null))]
    BY <1>4, <1>6 DEF Seen, RowsRewritten, Rewritten, Line
  <2>3. Seen' = [r \in DOMAIN rows |-> Placed(rows[r], at, Null)]
    BY <2>1, <2>2
  <2> QED BY <2>3, <1>3
<1>9. Seen = rows
  BY DEF Seen
<1>10. n \in 0 .. Len(defined) /\ i = n + 1
  BY <1>1, <1>2
<1> HIDE DEF n, i
<1>11. c \in Promise!Column /\ c.name \notin Promise!NamesOf(defined)
  BY DEF Free, NamesOf, Shape!NamesOf, Promise!NamesOf, Column, Promise!Column
<1>12. Promise!Add(c, n)
  <2>1. defined' = Promise!InsertAt(defined, n + 1, c)
    BY <1>4, <1>10, SameOperators
  <2>2. Seen' = [r \in DOMAIN Seen |-> Promise!InsertAt(Seen[r], n + 1, Null)]
    BY <1>8, <1>9, <1>10, SameOperators
  <2> QED BY <2>1, <2>2, <1>11 DEF Promise!Add, Seen
<1>13. Promise!Next
  BY <1>10, <1>11, <1>12 DEF Promise!Next
<1> QED BY <1>7, <1>13 DEF Kept

\* A column and its value in each row go together.
LEMMA DropKeeps ==
  ASSUME RowsInv, doing = Idle, NEW i \in 1 .. Len(defined),
         RemoveAt(defined, i) # <<>> \/ rows = <<>>,
         Altered(RemoveAt(defined, i), [kind |-> "remove", at |-> i, after |-> None])
  PROVE  Kept
<1>0. \A r \in DOMAIN rows : RemoveAt(defined, i) # <<>>
  BY EmptySeq
<1>1. /\ defined \in Seq(Column) /\ Len(defined) \in Nat
      /\ \A r \in DOMAIN rows : rows[r] \in Seq(Nat \cup {Null})
      /\ \A r \in DOMAIN rows : Len(rows[r]) = Len(defined)
  BY RowsAre DEF RowsInv, Widths
<1>2. /\ Len(RemoveAt(defined, i)) = Len(defined) - 1
      /\ \A r \in DOMAIN rows : Len(defined) - 1 > 0
  <2>1. Len(RemoveAt(defined, i)) = Len(defined) - 1 /\ RemoveAt(defined, i) \in Seq(Column)
    BY <1>1, RemoveAtIs
  <2>2. RemoveAt(defined, i) # <<>> => Len(defined) - 1 > 0
    <3> DEFINE rest == RemoveAt(defined, i)
    <3> HIDE DEF rest
    <3>1. Len(rest) = Len(defined) - 1 /\ rest \in Seq(Column)
      BY <2>1 DEF rest
    <3>2. rest # <<>> => Len(rest) # 0
      BY <3>1, EmptySeq
    <3> QED BY <3>1, <3>2, <1>1 DEF rest
  <2> QED BY <2>1, <2>2, <1>0
<1>3. \A r \in DOMAIN rows : Without(rows[r], i) = RemoveAt(rows[r], i)
  <2>1. \A r \in DOMAIN rows : i \in DOMAIN rows[r]
    BY <1>1, LenProperties
  <2> QED BY <2>1 DEF Without
<1>4. /\ defined' = RemoveAt(defined, i) /\ Len(defined') = Len(defined) - 1
      /\ rows' = rows
  BY <1>2 DEF Altered
<1>5. doing' = [kind |-> "remove", at |-> i, after |-> None]
  BY DEF Altered
<1>6. doing'.kind = "remove" /\ doing'.at = i /\ doing' # Idle
  BY <1>5 DEF Idle
<1>7. Widths'
  <2>1. doing'.kind # "add"
    BY <1>6
  <2> QED BY <1>1, <1>4, <1>6, <2>1 DEF Widths
<1>8. Seen' = [r \in DOMAIN rows |-> RemoveAt(rows[r], i)]
  <2>1. \A r \in DOMAIN rows : Line(Without(rows[r], i)) = Without(rows[r], i)
    <3> SUFFICES ASSUME NEW r \in DOMAIN rows
                 PROVE  Line(Without(rows[r], i)) = Without(rows[r], i)
      OBVIOUS
    <3>1. rows[r] \in Seq(Nat \cup {Null}) /\ i \in 1 .. Len(rows[r])
      BY <1>1
    <3>2. /\ Without(rows[r], i) \in Seq(Nat \cup {Null})
          /\ Len(Without(rows[r], i)) = Len(defined) - 1
      BY <3>1, <1>1, WithoutIs
    <3> QED BY <3>2, <1>2, LineIs
  <2>2. Seen' = [r \in DOMAIN rows |-> Line(Without(rows[r], i))]
    BY <1>4, <1>6 DEF Seen, RowsRewritten, Rewritten, Line
  <2>3. Seen' = [r \in DOMAIN rows |-> Without(rows[r], i)]
    BY <2>1, <2>2
  <2> QED BY <2>3, <1>3
<1>9. Seen = rows
  BY DEF Seen
<1>10. Promise!Drop(i) /\ i \in DOMAIN defined
  <2>1. DOMAIN defined = 1 .. Len(defined)
    BY <1>1, LenProperties
  <2>2. defined' = Promise!RemoveAt(defined, i)
    BY <1>4, SameOperators
  <2>3. Seen' = [r \in DOMAIN Seen |-> Promise!RemoveAt(Seen[r], i)]
    BY <1>8, <1>9, SameOperators
  <2> QED BY <2>1, <2>2, <2>3 DEF Promise!Drop, Seen
<1>11. Promise!Next
  BY <1>10 DEF Promise!Next
<1> QED BY <1>7, <1>11 DEF Kept

\* A column gives way to another, and no row changes.
LEMMA ChangeKeeps ==
  ASSUME RowsInv, doing = Idle, NEW i \in 1 .. Len(defined), NEW c \in Column,
         Free(c, RemoveAt(defined, i)), Altered(ReplaceAt(defined, i, c), Idle)
  PROVE  Kept
<1>1. /\ defined \in Seq(Column) /\ DOMAIN defined = 1 .. Len(defined)
      /\ \A r \in DOMAIN rows : Len(rows[r]) = Len(defined) /\ Len(defined) > 0
  BY RowsAre, LenProperties DEF RowsInv, Widths
<1>2. Len(ReplaceAt(defined, i, c)) = Len(defined)
  BY <1>1, ExceptSeq DEF ReplaceAt
<1>3. /\ defined' = ReplaceAt(defined, i, c) /\ Len(defined') = Len(defined)
      /\ rows' = rows /\ doing' = Idle
  <2>1. defined' = ReplaceAt(defined, i, c) /\ rows' = rows /\ doing' = Idle
    BY AlteredIs
  <2> QED BY <1>2, <2>1
<1>4. Widths'
  <2>1. Idle.kind # "add" /\ Idle.kind # "remove"
    BY DEF Idle
  <2> HIDE DEF Idle
  <2> QED BY <2>1, <1>1, <1>3 DEF Widths
<1>5. Seen' = Seen
  BY <1>3 DEF Seen
<1>6. c \in Promise!Column /\ c.name \notin Promise!NamesOf(RemoveAt(defined, i))
  BY DEF Free, NamesOf, Shape!NamesOf, Promise!NamesOf, Column, Promise!Column
<1>7. Promise!Change(i, c)
  <2>1. defined' = Promise!ReplaceAt(defined, i, c)
    BY <1>3, SameOperators
  <2>2. c.name \notin Promise!NamesOf(Promise!RemoveAt(defined, i))
    BY <1>6, SameOperators
  <2> QED BY <2>1, <2>2, <1>5 DEF Promise!Change, Seen
<1>8. Promise!Next
  BY <1>1, <1>6, <1>7 DEF Promise!Next
<1> QED BY <1>4, <1>8 DEF Kept

\* A name has the same place in the map and in the columns, when these agree.
LEMMA SamePlace ==
  ASSUME NEW t \in Table, InStep(t), NEW n \in Keys(t)
  PROVE  MapAt(t, n) = KeyAt(t, n)
<1>1. t.entries \in Seq(Entry) /\ t.names \in Seq(Names)
  BY DEF Table
<1>2. /\ Len(t.entries) \in Nat /\ DOMAIN t.entries = 1 .. Len(t.entries)
      /\ Len(t.names) \in Nat /\ DOMAIN t.names = 1 .. Len(t.names)
  BY <1>1, LenProperties
<1>3. Len(t.names) = Len(t.entries) /\ \A i \in 1 .. Len(t.names) : t.names[i] = t.entries[i].key
  BY <1>2 DEF InStep
<1>4. /\ KeyAt(t, n) \in 1 .. Len(t.entries) /\ t.entries[KeyAt(t, n)].key = n
      /\ \A j \in 1 .. KeyAt(t, n) - 1 : t.entries[j].key # n
  BY KeyAtIs
<1>5. /\ MapAt(t, n) \in 1 .. Len(t.names) /\ t.names[MapAt(t, n)] = n
      /\ \A j \in 1 .. MapAt(t, n) - 1 : t.names[j] # n
  <2>1. \E i \in 1 .. Len(t.names) : t.names[i] = n
    BY <1>3, <1>4
  <2> QED BY <2>1, MapAtIs
<1>6. ~(KeyAt(t, n) < MapAt(t, n))
  BY <1>2, <1>3, <1>4, <1>5
<1>7. ~(MapAt(t, n) < KeyAt(t, n))
  BY <1>2, <1>3, <1>4, <1>5
<1> QED BY <1>2, <1>4, <1>5, <1>6, <1>7

\* A step that changes neither is none of the promise.
LEMMA NothingKeeps ==
  ASSUME RowsInv, defined' = defined, rows' = rows, doing' = doing
  PROVE  Kept
<1>1. Widths'
  BY DEF RowsInv, Widths
<1>2. Seen' = Seen
  BY DEF Seen, RowsRewritten, Rewritten, Line
<1> QED BY <1>1, <1>2 DEF Kept

\* The rows are rewritten as they were seen.
LEMMA RewriteKeeps ==
  ASSUME RowsInv, Rewrite
  PROVE  Kept
<1>1. /\ defined \in Seq(Column) /\ Len(defined) \in Nat
      /\ \A r \in DOMAIN rows : rows[r] \in Seq(Nat \cup {Null}) /\ Len(rows[r]) \in Nat
  BY RowsAre
<1>2. /\ doing # Idle /\ doing' = Idle /\ defined' = defined /\ rows' = RowsRewritten
      /\ doing \in Pending
  BY DEF Rewrite, RowsInv, OpenInv, TypeOK
<1>3. ASSUME NEW r \in DOMAIN rows
      PROVE  Len(Rewritten(rows[r])) = Len(defined) /\ Len(defined) > 0
  <2>1. rows[r] \in Seq(Nat \cup {Null}) /\ Len(defined) > 0
    BY <1>1 DEF RowsInv, Widths
  <2>2. CASE doing.kind = "add"
    <3>1. Null \in Nat \cup {Null} /\ doing.at \in Nat
      BY <1>2 DEF Pending
    <3> DEFINE row == rows[r]
               at  == doing.at
    <3>2. row \in Seq(Nat \cup {Null}) /\ at \in Nat
      BY <2>1, <3>1
    <3>3. Rewritten(rows[r]) = Line(Placed(row, at, Null))
      BY <2>2 DEF Rewritten
    <3>4. Len(row) + 1 = Len(defined)
      BY <2>2 DEF RowsInv, Widths
    <3> HIDE DEF row, at
    <3>5. /\ Placed(row, at, Null) \in Seq(Nat \cup {Null})
          /\ Len(Placed(row, at, Null)) = Len(row) + 1
      <4>1. Placed(row, at, Null) \in Seq(Nat \cup {Null})
        BY <3>1, <3>2, PlacedIs
      <4>2. Len(Placed(row, at, Null)) = Len(row) + 1
        BY <3>1, <3>2, PlacedIs
      <4> QED BY <4>1, <4>2
    <3>6. Line(Placed(row, at, Null)) = Placed(row, at, Null)
      BY <3>4, <3>5, <2>1, LineIs
    <3> QED BY <3>3, <3>4, <3>5, <3>6, <2>1
  <2>3. CASE doing.kind = "remove"
    <3>1. doing.at \in 1 .. Len(rows[r]) /\ Len(rows[r]) = Len(defined) + 1
      BY <2>3 DEF RowsInv, Widths
    <3>2. /\ Without(rows[r], doing.at) \in Seq(Nat \cup {Null})
          /\ Len(Without(rows[r], doing.at)) = Len(rows[r]) - 1
      BY <2>1, <3>1, WithoutIs
    <3>3. Rewritten(rows[r]) = Line(Without(rows[r], doing.at))
      BY <2>3 DEF Rewritten
    <3>4. Len(Without(rows[r], doing.at)) = Len(defined)
      BY <3>1, <3>2, <1>1
    <3>5. Line(Without(rows[r], doing.at)) = Without(rows[r], doing.at)
      BY <3>2, <3>4, <2>1, LineIs
    <3> QED BY <3>3, <3>4, <3>5, <2>1
  <2>4. doing.kind \in {"add", "remove"}
    BY <1>2 DEF Pending
  <2> QED BY <2>2, <2>3, <2>4
<1>4. Widths'
  <2>1. Idle.kind # "add" /\ Idle.kind # "remove"
    BY DEF Idle
  <2>2. DOMAIN rows' = DOMAIN rows /\ \A r \in DOMAIN rows : rows'[r] = Rewritten(rows[r])
    BY <1>2 DEF RowsRewritten
  <2> QED BY <2>1, <2>2, <1>2, <1>3 DEF Widths
<1>5. Seen' = Seen
  BY <1>2 DEF Seen
<1> QED BY <1>2, <1>4, <1>5 DEF Kept

\* A new row is as wide as the definition.
LEMMA InsertKeeps ==
  ASSUME RowsInv, Insert, defined # <<>>
  PROVE  Kept
<1> DEFINE row == [i \in DOMAIN defined |-> i]
<1>1. /\ defined \in Seq(Column) /\ rows \in Seq(Seq(Nat \cup {Null}))
      /\ DOMAIN rows = 1 .. Len(rows) /\ Len(rows) \in Nat
  BY RowsAre
<1>2. row \in Seq(Nat \cup {Null}) /\ Len(row) = Len(defined)
  BY <1>1, NewRow
<1>3. /\ Len(defined) > 0
      /\ doing = Idle /\ doing' = Idle /\ defined' = defined /\ rows' = Append(rows, row)
  <2>1. Len(defined) > 0
    BY <1>1, EmptySeq, LenProperties
  <2>2. Line(row) = row
    BY <1>2, <2>1, LineIs
  <2> HIDE DEF row
  <2>3. rows' = Append(rows, Line(row))
    BY DEF Insert, row
  <2>4. doing = Idle /\ doing' = Idle /\ defined' = defined
    BY DEF Insert
  <2> QED BY <2>1, <2>2, <2>3, <2>4
<1>4. Promise!Insert
  BY <1>3 DEF Promise!Insert
<1> HIDE DEF row
<1>5. /\ rows' \in Seq(Seq(Nat \cup {Null})) /\ Len(rows') = Len(rows) + 1
      /\ \A r \in 1 .. Len(rows) : rows'[r] = rows[r]
      /\ rows'[Len(rows) + 1] = row
  BY <1>1, <1>2, <1>3, AppendProperties
<1>6. DOMAIN rows' = 1 .. Len(rows) + 1
  BY <1>5, LenProperties
<1>7. \A r \in DOMAIN rows' : Len(rows'[r]) = Len(defined)
  <2> TAKE r \in DOMAIN rows'
  <2>1. CASE r \in 1 .. Len(rows)
    BY <2>1, <1>1, <1>3, <1>5 DEF RowsInv, Widths
  <2>2. CASE r = Len(rows) + 1
    BY <2>2, <1>2, <1>5
  <2> QED BY <2>1, <2>2, <1>1, <1>6
<1>8. Widths'
  <2>1. Idle.kind # "add" /\ Idle.kind # "remove"
    BY DEF Idle
  <2> QED BY <2>1, <1>3, <1>7 DEF Widths
<1> QED BY <1>4, <1>8 DEF Kept, Promise!Next

\* Every step of a careful client keeps the widths, and is a step of the abstract table.
LEMMA StepKept ==
  ASSUME Careless \subseteq {"after"}
  PROVE  RowsInv /\ [Next]_vars => Kept
<1> SUFFICES ASSUME RowsInv, [Next]_vars PROVE Kept
  OBVIOUS
<1>0. Minds(Legal)
  BY DEF Minds, Legal
<1>1. ASSUME NEW what, what # "after", NEW P, Care(what, P) PROVE P
  BY <1>1 DEF Care
<1>2. CASE AlterTable
  BY <1>2, NothingKeeps DEF AlterTable
<1>3. ASSUME NEW c \in Column, AddColumn(c) PROVE Kept
  <2>1. /\ Free(c, defined)
        /\ Altered(InsertAt(defined, Len(defined) + 1, c),
                   [kind |-> "add", at |-> Len(defined), after |-> None])
    BY <1>0, <1>3, AddColumnAlters DEF RowsInv
  <2>2. doing = Idle
    BY <1>3 DEF AddColumn, MayAlter
  <2>3. defined \in Seq(Column) /\ Len(defined) \in Nat
    BY RowsAre
  <2>4. Placed(defined, Len(defined), c) = InsertAt(defined, Len(defined) + 1, c)
    BY <2>3 DEF Placed
  <2> QED BY <2>1, <2>2, <2>3, <2>4, AddKeeps
<1>4. ASSUME NEW c \in Column, NEW n \in Names, AddColumnAfter(c, n) PROVE Kept
  <2> DEFINE at == PlaceAfter(table, n)
  <2>1. /\ at \in Nat /\ Free(c, defined)
        /\ Altered(Placed(defined, at, c), [kind |-> "add", at |-> at, after |-> n])
    BY <1>0, <1>4, AddColumnAfterAlters DEF RowsInv
  <2>2. doing = Idle
    BY <1>4 DEF AddColumnAfter, MayAlter
  <2> HIDE DEF at
  <2> QED BY <2>1, <2>2, AddKeeps
<1>5. ASSUME NEW n \in Names, RemoveColumn(n) PROVE Kept
  <2> DEFINE i == KeyAt(table, n)
  <2>1. /\ i \in 1 .. Len(defined)
        /\ Altered(RemoveAt(defined, i),
                   [kind |-> "remove", at |-> MapAt(table, n), after |-> None])
    BY <1>0, <1>5, RemoveColumnAlters DEF RowsInv
  <2>2. /\ doing = Idle /\ table \in Table /\ n \in Keys(table)
        /\ Care("reuse", InStep(table))
    BY <1>5 DEF RemoveColumn, MayAlter, RowsInv, OpenInv, TypeOK
  <2>3. MapAt(table, n) = i
    BY <1>1, <2>2, SamePlace
  <2>4. RemoveAt(defined, i) # <<>> \/ rows = <<>>
    <3> DEFINE rest == Without(ColumnsOf(table), i)
    <3>1. Care("empty", rest # <<>> \/ rows = <<>>)
      BY <1>5 DEF RemoveColumn
    <3>2. rest # <<>> \/ rows = <<>>
      BY <3>1, <1>1
    <3>3. ColumnsOf(table) = defined
      BY <1>5 DEF RowsInv, OpenInv, InSync, RemoveColumn, MayAlter
    <3>4. defined \in Seq(Column)
      BY RowsAre
    <3>5. i \in DOMAIN defined
      BY <2>1, <3>4, LenProperties
    <3>6. rest = RemoveAt(defined, i)
      BY <3>3, <3>5 DEF Without
    <3> QED BY <3>2, <3>6
  <2> HIDE DEF i
  <2> QED BY <2>1, <2>2, <2>3, <2>4, DropKeeps
<1>6. ASSUME NEW c \in Column, NEW n \in Names, ChangeColumn(n, c) PROVE Kept
  <2> DEFINE i == KeyAt(table, n)
  <2>1. /\ i \in 1 .. Len(defined) /\ Free(c, RemoveAt(defined, i))
        /\ Altered(ReplaceAt(defined, i, c), Idle)
    BY <1>0, <1>6, ChangeColumnAlters DEF RowsInv
  <2>2. doing = Idle
    BY <1>6 DEF ChangeColumn, MayAlter
  <2> HIDE DEF i
  <2> QED BY <2>1, <2>2, ChangeKeeps
<1>7. CASE Rewrite
  BY <1>7, RewriteKeeps
<1>8. CASE Insert
  <2>1. Care("empty", defined # <<>>)
    BY <1>8 DEF Insert
  <2>2. defined # <<>>
    BY <2>1, <1>1
  <2> QED BY <1>8, <2>2, InsertKeeps
<1>9. CASE Exit
  <2>1. defined' = defined /\ rows' = rows /\ doing' = doing
    BY <1>9 DEF Exit, RowsInv, OpenInv, InSync
  <2> QED BY <2>1, NothingKeeps
<1>10. CASE Crash
  <2>1. Care("crash", doing = Idle)
    BY <1>10 DEF Crash
  <2>2. doing = Idle
    BY <2>1, <1>1
  <2>3. defined' = defined /\ rows' = rows /\ doing' = doing
    BY <1>10, <2>2 DEF Crash
  <2> QED BY <2>3, NothingKeeps
<1>11. CASE UNCHANGED vars
  BY <1>11, NothingKeeps DEF vars
<1> QED BY <1>2, <1>3, <1>4, <1>5, <1>6, <1>7, <1>8, <1>9, <1>10, <1>11 DEF Next

\* The invariant of careful clients.
LEMMA RowsInvHolds ==
  ASSUME Careless \subseteq {"after"}
  PROVE  Spec => []RowsInv
<1>1. Minds(Legal)
  BY DEF Minds, Legal
<1>2. Spec => []OpenInv
  BY <1>1, OpenInvHolds
<1>3. Init => Widths
  BY DEF Init, Widths
<1>4. OpenInv /\ OpenInv' /\ Widths /\ [Next]_vars => Widths'
  BY StepKept DEF RowsInv, Kept
<1>5. RowsInv <=> OpenInv /\ Widths
  BY DEF RowsInv
<1> QED BY <1>2, <1>3, <1>4, <1>5, PTL DEF Spec

\* Between alterations every row has a value for each column (schema/alter.zep).
THEOREM RowsFit ==
  ASSUME Careless \subseteq {"after"}
  PROVE  Spec => []WidthsAgree
<1>1. Spec => []RowsInv
  BY RowsInvHolds
<1>2. RowsInv => WidthsAgree
  BY DEF RowsInv, Widths, WidthsAgree
<1> QED BY <1>1, <1>2, PTL

\* Altering a table changes its columns and the values of all its rows together, one
\* column at a time and at the same place (alter.zep addColumn, removeColumn,
\* changeColumn).
THEOREM AlterRefines ==
  ASSUME Careless \subseteq {"after"}
  PROVE  Spec => ImplementsShape
<1>1. Spec => []RowsInv
  BY RowsInvHolds
<1>2. Init => Promise!Init
  <2> SUFFICES ASSUME Init PROVE Promise!Init
    OBVIOUS
  <2>1. defined \in Seq(Column)
    BY InitTypes DEF TypeOK
  <2> QED BY <2>1 DEF Init, Promise!Init, Promise!Column, Column
<1>3. RowsInv /\ [Next]_vars => [Promise!Next]_<<defined, IF doing = Idle THEN rows ELSE RowsRewritten>>
  BY StepKept DEF Kept, Seen
<1> QED BY <1>1, <1>2, <1>3, PTL DEF Spec, ImplementsShape, Promise!Spec
=============================================================================

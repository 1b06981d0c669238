# A verification of ZataBase in TLA+

ZataBase is a file-based database written in Zephir and compiled to a PHP
extension.  Its own code is `zatabase/zatabase/*.zep`; `zatabase/ext` holds what
the compiler makes of it and the runtime that code runs on (`ext/kernel`); the
rest of the repository is build files, tests and examples.  This directory holds
TLA+ modules that model the database and the runtime under it, TLC
configurations that check them on small instances, and proofs that TLAPS checks
for every instance.

The database is modelled from its Zephir sources, the runtime from its C
sources.  The compiled form of a Zephir class (`ext/zatabase/*.zep.c`) is looked
at for one class, `Db`, to see what shape the compiler gives a method.

## Inventory

| Component | Source | State | Operations | Correct when |
|---|---|---|---|---|
| BTree index | `storage/btree.zep`, `btree/node.zep`, `btree/node/element.zep` | index file of nodes, data file of rows, key type | `find`, `locate`, `insert`, `insertIndex`, `split`, `splitRoot`, constructor | every inserted key is found with its own row; nothing is lost by a split; an answer is never another key's row |
| Table file | `helper/filehandler.zep`, `table.zep`, `execute/insert`, `delete`, `update`, `results` | the file behind the path, the `.write` file, every open handle | append, delete, replace, callback (rewrite + rename), truncate, read at offset | a query sees all rows or a snapshot; no acknowledged row is lost; a crash leaves the old file or the new one |
| Schema | `schema.zep`, `table/column.zep` | table definitions in memory and in `columns`, `relations`, `increment`, `.zatabasetable` | getTable, createTable, deleteTable, saveTable, save (at shutdown), refresh | memory and disk agree; a table exists completely or not at all |
| Alter | `schema/alter.zep` | a `Table` whose `columns` and `columnMap` it edits | addColumn, removeColumn, changeColumn | column definitions and row width agree, also after a crash |
| Conditions | `execute/condition/*.zep`, `execute/select.zep` | none | equals, within, moreThan, lessThan, between, like, not, min, max | agree with their arithmetic meaning |
| Csv | `helper/csv.zep` | none | arrayToCsv | what is written is what str_getcsv reads back |
| Storage adapter | `storage/adapter/file.zep` | directory tree under the scope | path, addDir, removeDir, setFile, getFile, getHandle | stays inside the scope; writes are whole |
| Joins, relations | `execute/complexresults.zep`, `table/relation*.zep` | none | row arithmetic over several tables | the product of the tables |
| Db, Execute | `db.zep`, `execute.zep`, `execute/querytype.zep` | none of their own | forward to services | each Db uses its own storage |
| Dependency container | `di.zep`, `di/*` | services, default container | set, get, setDefault | copied from Phalcon |
| Runtime: values | `ext/kernel/array.c`, `object.c`, `memory.h`, `operators.c` | zvals with reference counts, behind variables, properties, static properties and array elements | assign, fetch, update and unset at offsets, increment, append | a write changes the one place it names, whoever shares the memory; nothing in use is freed |
| Runtime: frames, exceptions, calls | `ext/kernel/memory.c`, `exception.c`, `fcall.c`, `fcall.h`, `ext/zatabase.c` | stack of memory frames, pending exception, call counter | grow, observe, restore, throw, check the status, start and end a request | every way out of a method restores its own frame, once |
| Runtime: arrays, texts, operators | `ext/kernel/array.c`, `hash.c`, `string.c`, `operators.c` | none of their own | the functions compiled code calls on data | functions that read the same data tell the same of it |
| Runtime: cache of calls | `ext/kernel/fcall.c` | the cache of a request | `zephir_call_user_function` | a call reaches the function the engine would find |
| Skeleton, files, build | `ext/kernel/main.c`, `file.c`, `ext/zatabase.c`, configure | | | generated, or wrappers around PHP functions |
| Examples, benchmarks, stubs | `example/`, `benchmarks/`, `ide/` | | | programs that use the database |

How they interact: `Db` builds a container with a `File` adapter, a `Schema` and
an `Execute`.  `Execute` asks the `Schema` for a `Table` at every query;
`Schema::getTable` reads the definition files and constructs a new `Table`,
whose `FileHandler` opens the data file.  Query objects keep that table and call
its `insertRow`, `selectRows`, `deleteRows` or the handler's `callback`.  The
`Schema` writes every definition it has in memory when the process ends.  The
`BTree` is used on its own, over two `FileHandler`s.

What is hard: a `FileHandler` rewrites by writing `<path>.write` and renaming it
over `<path>`, which leaves every other open handle on the old file; there are
no locks; a multi-step change (a split, an alteration, a table creation) can be
cut short by a crash; node numbers are line numbers, so that prepending a line
renumbers every pointer in the file.  Below, the runtime counts references and
frames by hand: each of its functions has several ways out, and the same decision
(which key an index means, which of two values is less) is written in many places.

## Plan

1. `BTreeNode`, `BTree`, `IndexMap`, `MCBTree`, `BTreeProofs` - the index, its
   abstract map, and its proofs.  Done.
2. `RowStore`, `TableFile`, `MCTableFile`, `TableFileProofs` - the data file of a
   table and the query objects over it, the abstract set of rows it implements,
   and its proofs.  Done for one writing process; two of them at once (the shared
   `.write` file, appends over each other) are left.
3. `Schema` (processes with definitions in memory, create, save and delete in
   steps on files, kills), `TableShape`, `Alter` (columns, name map, rows), and
   `Lists`, `AlterProofs`, `SchemaProofs`.  Done; left are
   the ids that an auto-incrementing column generates, whose counter both touch.
4. `Conditions`, `Query` (the calls that make up a query), `Like`, and
   `QueryProofs`.  Done; left are `Csv`, and rows that go through it at every
   rewrite.
5. `ValueDomain`, `ValueStore`, `Values` (zvals, what PHP promises of them, and
   the refinement), `Runtime` (frames, exceptions, requests), `Scalars`,
   `Arrays`, `Texts`, `Numbers`, `Calls` and `Kernel` over them, and
   `RuntimeProofs` and `KernelProofs`.  Done; `Values` is model-checked only.
6. Proofs that the index keeps its elements whatever its shape is, and is a map for a
   client in any order.  Done.  There are none about the shape, which no client of
   more than a few splits keeps.
7. Two processes that write the data file at once (the shared `.write` file,
   appends over each other); the default container of `Di`; joins.

## The index

### What is modelled

`BTreeNode` has the pure operations on a node: the record of an element, moving
its pointers, sorted insertion (`Node::addElement`), the lookup `Node::hasKey`
(`Holds`, `ElementOf`, `ChildFor`) and `splitNode` (`Split`).  `BTree` has the
state:

| Variable | Code |
|---|---|
| `index` | the index file, one node per line; node *n* is `index[n + 1]` |
| `data` | the data file; a row is the key it was inserted under, its location the number of rows before it |
| `keyType` | `BTree::keyType` as far as `insert` without a key looks at it |
| `frame` | the local variables of the insert in progress, one shape per place it can be at |
| `accepted` | history: the inserts that returned |

One action is one write of the index file with the code between it and the write
before: `Insert`, `InsertNext`, `InsertKeyless` append the row; `IndexFirst`,
`IndexDuplicate`, `IndexInPlace`, `IndexFull` are the branches of
`insertIndex`; `SplitLeft`, `SplitRight`, `SplitParent`, `AdoptChild` are
`split`; `RootRenumber`, `RootRight`, `RootLeft`, `RootTop`, `FixLast` are
`splitRoot` and what follows it.  A crash may come between any two of them
(`Crash`); `Reopen` constructs the tree anew and `Truncate` empties both files
under it, as the repository's tests do.

Locating a key, the first and the last node are functions on node numbers,
iterated as often as there are nodes (`Walk`): a walk that has not come to rest
by then goes round a cycle of pointers, where the code would recurse for ever.

Abstractions: keys are integers (a string key becomes one by `intval`, a date by
`strtotime`); padding, csv and byte offsets are left out: a node is addressed by
its number because all lines of the index have the same length.  A row is only
told apart by its key and location.

An insert into a damaged file may reach a state in which the code
writes something that is not a node (the header of a node past the end of the
file) or never returns; the model then stops in the stage `"undefined"`.

### What the runs check

| Run | Client | Bounds | Shows |
|---|---|---|---|
| `btree_any` | any order, repeats, crashes, truncation | 5 keys, 2 per node, 6 rows | an element never points at another key's row; `find` never answers with one; only a crash and the truncation lose an element |
| `btree_client` | ascending, gaps, generated keys, rejected inserts, reopening | 3 keys with gaps, 2 per node, 19 rows: four levels | parent headers are right up to three levels and wrong from the fourth on; a key is missed only where they are wrong; up to there the balance and the ends are right and a key is hidden only inside a split; throughout it implements `IndexMap` and every insert ends |
| `btree_lost` | each key once | 8 keys, 4 per node | **violated**: `find` misses an inserted key |

Two elements per node are the smallest node that can split; the smaller the
node, the more levels a bound on rows reaches.  The root splits for the third time
with fifteen accepted keys and the first key is lost with seventeen, so nineteen rows
go past both.  Keys with gaps leave a client room between the keys it gives and those
the tree generates.  The default of four elements per node is used where a run
is about what the documentation says.

`btree_lost` is a finding, see `PROJECT.json`: `split` leaves the `less` pointer
of the element after the median on the left half, so only a client that splits
the last node of each level gets a correct tree.  Such a client is that of
`btree_client`, and even its tree does not stay correct: `splitRoot` raises parent
numbers by one where the nodes below the first level move by two
(`btree.zep:365`).  `HeadersRightToThreeLevels` says when that shows: no header is
wrong before the third split of the root, and some header is wrong ever after it.
`MissedOnlyByHeaders` says what it costs: whenever the headers are right every key
is found, and nothing else makes this client miss one.  The keys it does lose are
shown by `btree_deep.cfg` (see "Departures"); the run `btree_client` contains those
states, and its refinement and its liveness hold in them as well.

What is lost is the way to a key, not the key.  `ElementsKept` says so: no step but a
crash and the truncation takes an entry (a key with its location) from the nodes and
the memory of an insert.  It is not obvious where parent numbers have gone astray.
A node may then name itself as its parent; `split` loads that parent, writes the left
half of the node over it, and in the next round writes its old copy over that.  The
bounds of `btree_any` reach such nodes.

Fairness: `WF_vars(IndexStep)`: once `insert` has been called, PHP runs it; the
next statement is always executed unless the process dies, and the clients with
fairness do not crash.  No fairness is assumed of the client's calls.

### What is proved

`BTreeProofs` proves for every set of integer keys, every node size and every
number of rows, crashes and truncation included:

* `TypeCorrect`: `Spec => []TypeOK` (proved only; the invariant below contains it)
* `ElementsSound`: `Spec => []ElementsPointAtTheirRows`
* `FindIsSound`: `Spec => []FindSound`
* `ElementsNeverLost`: `Spec => ElementsKept`

and for two clients of the same kind

* `AcceptedStay`: `SurvivingSpec => []AcceptedIndexed`.  The client does anything but
  die inside an insert: the element of every insert that returned is in the index.
* `IndexRefinesMap`: `FindableSpec => ImplementsMap`.  The client does not die and
  does not truncate, uses its keys in any order, and repeats one only while `find`
  has it (`Findable`): every write puts a new key for a later row into the map of
  `IndexMap`, or leaves the map as it is.

The inductive invariant `IInv` adds to the first three that an insert in progress is
about the last row of the data file (`InsertHasRow`: what makes the new element true,
and the pair that `Accept` records) and that the nodes a split is about to
rewrite exist (`InsertHasRoot`: without it `SplitLeft` and `RootRight` would
write outside the file).  The argument: each action only moves elements between
the file and memory or changes their pointers, never their key and byte
(`ElementsMove`), and rows are only appended (`RowsGrow`).  `FindSound` follows
because the element `hasKey` returns is one of the file with that key, which
needs the least member of a set of positions (`LeastMember`).

That nothing is lost needs a second invariant, `CopiesFit`, about the copies of nodes
that `split` holds in memory and writes back.  Usually a copy is `Exact`: its node has
not changed since.  Where the node is its own parent it is `Stale`, and then the node
has the left half of what the copy has, the right half is behind the file, and the
median, which `split` adds to the copy, sorts into the upper half of it again
(`MedianAgain`), so that by the time the copy is written nothing of the node is missing
from the copy and the other nodes (`Covers`).  For that nodes have to be sorted and no
larger than `ElementCount` (`Fits`), the parts of a split have to be those of the node
(`SplitHalves`), and a left half must have room for the median.  Each action then
leaves the set of entries as it was (`Same`) or, where the key was located, adds the
one of the insert (`Stores`).  What a write does to the nodes that it does not name is
in `WrittenReplaces`, `AppendExtends` and `PrependExtends`.

The refinement follows from the entries alone, since they determine the map as long
as no key has two locations (`SameMap`, `MapWithOne`).  A key that the walk has just
missed is new because the client would have found it (`LocatedIsNew`), and its location
is behind all others because every element points at a row of its own key.

Assumptions: keys are integers, `ElementCount >= 2`, `None` is not an integer.

Only model-checked: the shape of the tree (`HeadersRightToThreeLevels`,
`MissedOnlyByHeaders`, `Balanced`, `EndsAreExtremes`, `KeysHiddenOnlyBySplit`), in the
bounds of `btree_client`, and `InsertEnds` (liveness).

## The table file

### What is modelled

Every query (`Execute::insert`, `select`, `delete`, `update`) gets a new `Table`
with a file handle of its own from `Schema::getTable`.  `TableFile` models these
query objects and the files their handles are on:

| Variable | Code |
|---|---|
| `files` | the contents of every file ever made, those only old handles still reach included; a line is a row |
| `live` | the file at `<table>/data` |
| `temp` | the file at `<table>/data.write`, if there is one |
| `query` | per query object: the call it is in, its condition and new key, its handle (`file`, and the lines read or rows appended, `at`), the rows to append, the offsets found |
| `inserted` | how many rows were appended so far; numbers the next one |
| `acked` | history: the rows the writing process may expect from the calls that returned |

| Action | Code |
|---|---|
| `Open` | `Schema::getTable`, `Table::refresh`: a handle on the file at the path |
| `Values`, `AppendRow` | `Insert::values`, `Table::insertRow(s)`: one write per row through `FileHandler::appendRaw` |
| `Truncate` | `Delete::done` without a condition: `Table::deleteAllRows` |
| `Done`, `ScanLine`, `ScanEnd` | `done()` of a select, delete or update: `Table::selectRows`, line by line |
| `StartRewrite`, `CopyLine`, `Rename`, `Reopen` | `FileHandler::delete` and `callback`: open `.write`, copy line by line, rename it over the path, construct the handle again |
| `Crash` | the writing process dies between any two of these |

One process writes: its calls run one at a time (`MayCall`), but it may hold
several query objects and use them in any order.  Any number of processes read.
A step is one line read or written, so that readers are interleaved with the
writer at that grain.

Abstractions: a row is the value of one column that conditions and updates are
about, and the number of rows inserted before it, which stands for the other
columns and tells rows apart.  A condition is the set of values it matches.  An
offset is a line number.  A result set lives in the query object that made it.
An update always has a condition, since `selectRows` needs one to be given.

### Three clients

What the table promises depends on the client, because a rename leaves every
other open handle on a file the path no longer names:

* `Spec`: query objects used in any order, old handles included.  Here only
  the order of rows is kept.
* `FreshSpec`: each query object is used while its handle is on the file at the
  path, as a chained call `insert("t")->values(..)` does.  Here nothing is lost.
* `KeepingSpec`: no delete without a condition.  Here result sets keep answering.
  `deleteAllRows` cuts the file that readers have offsets into, so it is left out.

### What the runs check

| Run | Client | Bounds | Shows |
|---|---|---|---|
| `table_fresh` | `FreshSpec` | 2 query objects, 2 keys, 3 rows, 3 files | types; no file ever holds a row twice or out of order; between calls the table holds exactly what the returned calls promise; the path implements `RowStore`: every rewrite is one step, a crash leaves the old table or the new one |
| `table_readers` | `KeepingSpec` | 1 writing, 1 reading query object | a select returns the matching rows of one state of its file, and its results keep answering |

An insert starts while fewer than `MaxRows` rows were appended and appends one
or two, so `MaxRows = 2` reaches three rows: enough for a row before, at and
after one that is changed.  Three files are two rewrites, so that a handle can
be two renames behind, and a rewrite can find the `.write` file of one that was
cut short.  Two query objects of one process are enough for one to go stale
while the other rewrites.  Query objects of the same kind of process are
symmetric.  `CHECK_DEADLOCK FALSE` because nothing is left to do once the bounds
are reached and every query object waits.

No fairness is assumed: the promises are about what is there, not when.

What a client loses that uses old handles is shown by `table_stale`, see
"Departures".

### What is proved

`TableFileProofs` proves, for every set of keys and any number of query objects,
rows and rewrites, crashes included:

* `TypeCorrect`: `Spec => []TypeOK`
* `RowsInOrder`: `Spec => []InOrder`
* `NothingLost`: `FreshSpec => []AcknowledgedKept`
* `Refinement`: `FreshSpec => ImplementsStore`
* `ResultsAnswer`: `KeepingSpec => []ResultsStay`
* `SelectsAreWhole`: `KeepingSpec => SelectsWhole`

`IInv` is inductive for every client.  To the types and the order it adds that
calls of the writing process never overlap (`OneCall`), that a stage belongs to
the kinds of query that pass through it (`KindsFit`), that no handle and not the
path is on the file being written (`TempApart`: what makes writing to it
invisible), that the next rows get numbers above all there are (`Numbered`) and
that what was copied comes from the lines read so far (`CopyBehind`: so that a
line copied belongs behind them).

`FreshInv` adds, for each query of the writing process, that its call is on the
file at the path (`OnLive`), that it has found exactly the lines that match
(`Found`), that what it copied is what the query makes of the lines read
(`CopiedSoFar`), and what the table is in terms of the rows the client expects
(`Expected`, `Settled`).  The rename then replaces the table by what the query
makes of all its lines, which is the step of `RowStore`; all other steps leave
the table alone or append a row to it.  `KeepingInv` adds for each reader that
it has found exactly the lines that match and that they are still there
(`ReaderFits`), which holds because every file but the one being written only
grows (`FilesGrow`).

Assumptions: there is a key, the writing and the reading query objects are
different, `None` is not a number.

Nothing of this component is only model-checked; the
bounds `MaxRows` and `MaxFiles` are natural numbers of any size.

## Alterations

### What is modelled

An `Alter` object edits a `Table` in memory, saves its definition, and then
rewrites the rows.  `Alter` has one table, the process that alters it, and the
client of that process:

| Variable | Code |
|---|---|
| `defined`, `relations`, `rows` | the files `columns`, `relations` (child columns) and `data` |
| `table` | the `Table` of the `Alter`: its columns with the keys they are under (`entries`), `columnMap` (`names`), and whether `increment` is set (`counts`) |
| `held` | which `Table` the schema holds and saves at shutdown: the one of the `Alter`, one loaded since, or none because loading threw |
| `doing` | the rewriting still to do after the definition was saved |

`AddColumn`, `AddColumnAfter`, `RemoveColumn` and `ChangeColumn` are the calls up
to the save; `Rewrite` is the rewriting of the rows (in one step: `TableFile` has
its steps).  `Insert` is a query that loads the table anew.  `Exit` is the end
of the process with the save at shutdown, `Crash` one without.  An exception
inside a call leaves the `Table` as it then is (`Refill`); the client may go on
or end.

A row is what `str_getcsv` makes of its line (`alter.zep:59`, `101`).  That is what was
written except for a row of no values: its line is empty, and an empty line is read
as one null (`Line`).

`Careless` says what the client does not look after, one word for each:

| Word | The client |
|---|---|
| `increment` | removes or changes a column while a counting one is to be put back |
| `reuse` | uses an `Alter` again after its name map got out of step |
| `after` | adds a column after one that is not there |
| `duplicate` | adds or renames a column to a name the table has, or a second counting one |
| `relation` | removes or renames the child column of a relation |
| `unknown` | changes a column that is not there |
| `empty` | takes the only column of a table that has rows, or inserts a row without values |
| `crash` | is killed between the save and the rewriting |

### What the runs check

| Run | `Careless` | Shows |
|---|---|---|
| `alter_careful` | nothing | rows have a value for each column; a new column stands behind the one named; implements `TableShape`: one column at a time, every row with it, at the same place; the definition on disk always loads |

Each of the words breaks one of these properties: see "Departures".  Not
`OpensAgain`, though, for `reuse`, `after`, `unknown`, `empty` and `crash`: with these
five and `MaxRows = 0` it holds as well.

Three names and three columns give a column before, at and after the one that
is changed, and one name that is not there.  Two rows are enough, since the
rewriting treats each by itself.  The name
map of a reused `Alter` grows without end: no call is made once it has six
names, which is two calls on a full table.  Names are symmetric.

### What is proved

`AlterProofs` proves, for every set of names and any number of columns, rows and
alterations, kills included where `crash` is among the words:

| Theorem | Clients | What it says |
|---|---|---|
| `TypeCorrect` | all | `Spec => []TypeOK` |
| `AddedBehind` | without `reuse` and `after` | `Spec => []AfterNamed` |
| `AlwaysOpens` | without `increment`, `duplicate` and `relation` | `Spec => []OpensAgain` |
| `RowsFit` | none of the words but `after` | `Spec => []WidthsAgree` |
| `AlterRefines` | none of the words but `after` | `Spec => ImplementsShape` |

In each case every other word makes TLC find a violation: no more clients have
the property than the theorem says.

The types need that the schema shares a `Table` with the `Alter` when it says so
(`Edited`).  `AfterNamed` needs that a column is under its own name, or under none
(`KeysNamed`).  `OpenInv` is the invariant of the clients whose definition always
loads: it adds that the `Table` that is edited has the columns that are on disk
(`InSync`), so that what the shutdown saves loads as well.  `RowsInv` adds `Widths`:
there are rows only where there are columns, and they are as wide as the definition, or
the rewriting still to do makes them so.  The first part is why a line is read as the
row that was written (`LineIs`).  Every step then keeps them (`Kept`) and, with the
rewriting counted as done (`Seen`), is a step of `TableShape` or none.

Where a proof needs induction over numbers it goes by the least number for which
the claim fails (`Lists!LeastNat`), since the theorems of induction of the library
take an operator as a parameter.

Assumptions: those of `Alter` on its constants, and the words above.

## The schema

### What is modelled

`Schema` has any number of processes on one database directory.  A call is a
program, a sequence of steps, each a check, a read or a write of one file; the
steps of all processes interleave and a kill may come between any two.

| Variable | Code |
|---|---|
| `disk`, `dirs` | the files of each table and the directories |
| `phase`, `todo` | where a process is in its life, and what is left of its call |
| `arg`, `read` | locals of `createTable` and `getTable` |
| `held` | `Schema::tables` |
| `given` | history: the definition each table was last created or saved with |

A definition is its set of columns and the columns its relations are about.
`setFile` is two steps, `OpenFile` (take the lock, empty the file) and `PutFile`
(write); in between the file holds the process that emptied it, and a process
killed there leaves it empty.  Readers take no lock.  `removeDir` lists the files
first (`ListDir`) and then removes them in that order, the marker before all
others.  An exception ends the call, and in the constructor of `Schema` the
process (`Throw`).

Three clients: `Spec` calls anything; `OnceSpec` has each table created once, by
one process, and altered by none; `SavingSpec` adds `saveTable` while no other
call runs.

### What the runs check

| Run | Client | Shows |
|---|---|---|
| `schema_one` | one process, no kills, two tables | what was created or saved last is what is there; a new table is empty; loading always answers |
| `schema_once` | `OnceSpec`, two processes, kills | a table that exists has all its definition files; whoever holds an existing table holds it as given, and whoever loaded one that was being deleted holds of each list what was given or nothing |

In `schema_one` two columns give three shapes of a definition (none, one, two
columns), with and without relations; in `schema_once` nobody alters a table, and
one column is enough.  Two tables are needed where a save of one may touch the
other; two processes are enough for each of the interleavings above.

Abstractions: the rows of a table are nothing or something; the content of
`increment` is left out, since it is read as no counter whatever it holds; path
normalisation and permissions of the adapter are left out.

### What is proved

`SchemaProofs`, for any number of processes that may be killed anywhere, any finite
number of tables and any columns:

* `TypeCorrect`: `Spec => []TypeOK`
* `ExistingAreWhole`: `OnceSpec => []ExistsWhole`
* `HeldAreGiven`: `OnceSpec => []HeldIsGiven`

What a process does next depends on the program it is in, so the invariants are
about programs.  `TypeInv` adds to the types that the steps of every program are on
files they can be on, and that the definition which `createTable` got is there
until it is used.  `OnceInv` says that one client at a time is about to create a
table nobody has created (`OneCreates`), and that each table is in one of four
stages: nobody created it (`Unmade`); a process creates it, and the program of that
process still opens every file that is not there yet before it touches the marker
(`Making`); it exists (`Made`): every definition file has its part of what was given
or was emptied by a process that saves it, every program puts only that into it,
removes the marker before anything else, and has read it or still does before it
makes a `Table` of it; it is gone for good (`Dead`), because in
`OnceSpec` nobody creates it again.  A kill can leave a table in any of the four.

A process that loads a table while another deletes it reads the files that are
already gone as empty lists (`schema.zep:70-75`), and holds a definition without its
relations, or an empty one (relations without their columns throw); if the directory is still there, its save at the
end writes that back.  So `HeldIsGiven` promises the whole definition of existing
tables only, and of all others that each list is the one given or empty; `schema_once`
reaches such a table.  Its proof
needs, besides `OnceInv`, what is left of a table in every stage (`PartsInv`): each
definition file has its part, is empty, emptied by a process or gone; each program
puts only its part or nothing into it; and each `Table` in memory or about to be made
comes from such files (`Left`).

The second half of `SchemaProofs`, for one process that is not killed, any finite number of tables
and any columns, where the client calls whatever it likes in any order, tables
created again after they were deleted and definitions altered included (`Spec`):

* `FilesAreGiven`: `Spec => []GivenStays`
* `CreatesEmpty`: `Spec => [](CreatedEmpty /\ CreatedOnce)`
* `LoadsSucceed`: `Spec => []LoadsAnswer`

`AloneInv` says where the process is with each table (`Where`): it does
nothing to it, which then is there as it was saved, or will be before the call ends,
or has neither directory nor files (`Rest`); it checks, loads, creates,
writes or removes it.  That it does only one of these at a time, to one
table, needs that programs are not mixed (`Unmixed`: between the steps about a table
no other step comes); that `refresh()` finds saved what it forgets needs that no
program loads before it saves (`Saves`); that a file is not left empty needs that
each is written right after it was opened (`Pairs`).  TLC finds `AloneInv` true on
the instance of `schema_one`, too.

Both hypotheses are needed: with two processes `GivenStays`, `LoadsAnswer` and
`CreatedOnce` are violated (see "Departures"); where one process may be killed TLC
finds `GivenStays`, `CreatedEmpty` and `LoadsAnswer` violated (a file is left empty,
a directory with its rows).

Assumptions: the values that stand for no definition, no file and a process that
emptied a file are different from all definitions (`ValuesAssumption`); the tables
are finitely many, at least one (`TablesAssumption`: a program has a step for each
table, and `Refresh` is a step that has to be on some table).

## Queries

### What is modelled

`Conditions` has the comparisons as operators on a row, and `max` and `min` as
loops over the rows.  What PHP makes of a cell - `intval()`, `strtotime()`,
which strings are `==` - is given by constants.  `Query` has the object the
client builds: `currentColumn`, `isNot`, `conditions` of `Condition`, `columns`
and `values` of `Update`, `joins` of `Select`.  Each method is an action, called
in any order; one that throws leaves what it had changed, and the client goes on.
`asked` is the history of what the client asked for.  `Like` has the making of a
regular expression from a pattern, and what that matches.

`AnswersAsked` compares with a meaning of its own: `Rank` says what the cells of
a column stand for in order, and a comparison is one of ranks.  So it fails if
the code makes the wrong number of a cell as well as if a bound is wrong.

`Careless` again says what the client does not look after: `unselected`
(compares before the first `where`), `order` (ranges and extremes of columns
that are neither numbers nor dates), `highest` (`max` without a value above
zero), `recount` (`setColumns` after or without `values`), `pattern` (wildcards
of both sorts, escaped and not, or a dot).

### What the runs check

| Run | Shows |
|---|---|
| `query` | selects, updates with one condition and deletes with two find the rows asked for, in any order of calls, after exceptions and when asked again; they change the rows and columns asked for only; `max` and `min` of up to three rows answer with a value of the column that none exceeds |

Cells are a negative number, a positive one, a larger one with the same first
character, and two dates: below, at and above each bound.  (A third column, of
datetimes, is there for the departure below.)
One row is enough where conditions are asked, since `selectRows` asks each row by
itself (`TableFile` has the scan over several); two conditions are enough for one
to leak into the next (a query that has its bound of conditions is built no
further, only asked).  `Like` treats a text as a sequence of characters:
`LikeMatches` is what the code does (a regular expression is made, and matched),
`LikeMeans` is what the documentation says, by cutting the text into parts, one
for each sign.  `query` compares them on five patterns: either wildcard, one
on both sides, one escaped, and one alone.

Left out: values that are PHP integers (they compare like their string, but for
0 with a word), characters other than the dot that mean something to
`preg_match`, and the columns of a row that an update rewrites as csv.

### What is proved

`QueryProofs` proves, for every set of columns, every table, and whatever the
constants say that PHP makes of a cell:

| Theorem | Clients | What it says |
|---|---|---|
| `TypeCorrect` | all | `Spec => []TypeOK` |
| `FindsExtremes` | without `order` and `highest` | `Spec => []ExtremesFound` |
| `FindsAsked` | none of the words but `highest` | `Spec => AnswersAsked` |
| `WritesOnlyAsked` | none of the words but `highest` | `Spec => WritesAsked` |

Each word excluded breaks the promise, see "Departures".  (`recount` is shown
there by `NothingBlanked`: `AnswersAsked` and `WritesAsked` are about cells that a
client gave, and say nothing of an empty one that nobody did.)

What is a loop in the code is a recursive function in the model: the search of
`max` and `min` (`Search`), the lines that a delete keeps (`Rewritten`), the places
where a part of a regular expression may end (`Ends`).  Such a function exists
because each round is a step from the one before (`Lists!Stepwise`), and what holds
after each round is proved by the number of the round (`Lists!Inductive`): the
search has a cell of the rows so far, and none of them beats it; what a delete
keeps are the rows so far that are not deleted, in order; and a part of a pattern
may end at a place if the text up to there can be cut into pieces that its signs
stand for.  The last says what `like` finds: what the pattern means (`LikeFinds`), for
all patterns and texts instead of the five of the run.

A comparison then holds when it means so (`HoldsMeans`), which leaves the calls.
`AskedInv` says that the conditions of the query object are exactly those
asked for: that the column selected is the one last named, or used, that a
condition is reversed if `not()` was called since the one before, and that there is
no condition without a column; for an update, that each value is one for its column,
unless there are none.  `ExtremesInv` says that rows have the cells a client puts
there, and that only a select has such an answer, which changes no row.

Assumptions: `RankAssumption`, that cells a client puts into a column are `==` if
they stand for the same, and that numbers and dates are ordered as what they stand
for; `TextAssumption` and `PatternsAssumption`, that texts and patterns are made of
strings, none of which is a group of a regular expression; and the sorts of the other
constants.

## Values

### What is modelled

Compiled code keeps every value in a zval with a reference count and copies one
that is shared before it writes to it; the functions of `array.c` and
`object.c` do so by hand.  `Values` has the zvals (`cell`) and what points at
them (`slot`: local variables, properties of an object, static properties), and
one action per operation a program has: assignment of a number, a null, an empty
array or another variable, fetching an element, writing an element at one or
several offsets or at the end, `unset`, `++` and `--`, appending text, reading a
property.  The functions they call (`PropertyArray`, `Level`, `Reinsert`,
`Update`, `Written` ...) are operators on the heap; `Level` is one turn of the
loop that goes down the offsets of `$a[i][j] = v`, with the copies put back into
the levels above.  The engine's part (`zval_copy_ctor`, `zval_ptr_dtor`,
`write_property`) is modelled from how it is called.

`ValueStore` is what PHP promises: every place has a value of its own, and an
operation changes the one it names.  `MCValues` reads the values off the heap
(`ValueOf`) and so maps the one to the other.

### What the run checks

`values_shared`: `ImplementsValues`, the refinement of `ValueStore`;
`NothingDangling`, no zval that something points at is freed; `OnlyTheseLose`,
no operation loses memory but the three kinds that `MayLose` names: the loop over
several offsets counts a reference to each element it passes and never gives it
back, the one for static properties does so for a single offset too, and a value
made for a variable that is no array is forgotten.

Two local variables, a property and a static property, three operations, paths
of up to three keys and with an append at the end: enough for an array within an
array that two places share, and a write below it.  `values_deeper.cfg` takes
four operations with fewer paths, and holds too.

Simplifications: no PHP references (`is_ref`, which the kernel sets only around
the arguments of a call), integer keys only (module `Arrays` has the others), no
array is stored into itself, an element of a shared null is not appended to and
an array within a static property is not replaced (both in "Departures"), and
fetches that are read only take no reference and are left out.

## Frames, exceptions and requests

### What is modelled

`Runtime` has the C stack, one activation per level: PHP code, a compiled method,
or one of the functions that throw.  A method is of the shape the compiler gives
all of them (`ext/zatabase/db.zep.c`): grow a frame, take the parameters, observe
a variable, read a service (which may ask `__get` of `Injectable`), call it, look
at the status, restore the frame.

| Variable | Code |
|---|---|
| `memory`, `active` | the frames and `active_memory`; a frame observes variables of one activation |
| `exception` | `EG(exception)` |
| `lock` | `recursive_lock` |
| `phase` | the request: between two, in the script, in the functions at its end (`Schema::save` among them), over |
| `held` | history: the references methods have taken and not given back |
| `unclean` | whether the engine gave up on the request (a fatal error, `exit()`), which jumps out of all activations |

Abstractions: frames out of the preallocated block and from the heap are the
same; virtual symbol tables are left out.  `NullAnswered` and the functions that throw are
guarded by `MayThrow`: below a property that is being looked up nothing throws
unless `ContainerThrows` says so.

### What the run checks

`runtime_calls`: `FramesMatch`, every running method has its own frame, in the
order of the calls, above what an `exit()` has left, and a free frame is empty, so
that restoring the active frame never releases somebody else's variables;
`CountsMatch`, the references taken are those of the variables of running
methods, and the counter of calls is the number of calls in progress, until the
engine gives up, and starts at zero in the next request.

Eight levels are three methods that call each other with PHP code between them
and a function that throws above; a limit of three calls is reached within them.
Requests follow each other without bound.

### What is proved

`RuntimeProofs` proves for every depth of the C stack and every recursion limit,
from `BoundsAssumption` alone:

| Theorem | What it says |
|---|---|
| `FramesAlwaysMatch` | `FramesMatch` always holds |
| `CountsAlwaysMatch` | `CountsMatch` always holds |
| `NeverDead` | the state keeps its types, and no method restores a frame where there is none |
| `NothingThrownOver` | if `__get` does not throw, no exception is thrown over a pending one, and `FramesMatch` holds also with `ThrowFails` among the steps |

`FramesMatch` is not inductive.  That a method that is called finds a free frame
needs `LeftFit`: the frames an `exit()` left are the lowest, none while a script
runs and at most one per level while `save()` runs, and the level of each frame
above them is at least its distance from them, so there is one per level at most.
That the frame that is restored gives back all that its method holds needs
`HeldObserved`, and that a variable is counted once needs `VariablesFit`: it holds
nothing before the method reaches the place that gives it a value.  The counter
needs `LockEnough` after the engine gave up, when it is no longer exact but must
not fall below the calls that still return.  `NothingThrownOver` needs
`WaitingFit` (below the top every method waits, and only the top throws) and
`PendingFit`: while a property is looked up nothing is pending, and a pending
exception is on its way through activations that do nothing but return.

Each kind of step (a call, a return, a value given, everything given up) has a
lemma on the stack, one on the frames and one on the counters; each action is then
one of these kinds.  The first three hold
of `Spec`, which has no `ThrowFails`: of a container that throws they say what
happens up to such a step, of one that does not they say everything, by the last
theorem.  Without its assumption that theorem fails: `runtime_missing` below.

## Data of compiled code

`Scalars` has the values a zval holds, `Arrays` the functions of `array.c` and
`hash.c` over an ordered hash table with its chains, `Texts` those of `string.c`
over sequences of characters, `Numbers` those of `operators.c` and the macros of
`operators.h`, `Calls` the cache of `fcall.c`.  `Kernel` puts them in motion: an
array that any calls make, a text of any characters, a pair of operands, a cache
that any calls fill.  The four do not meet, so each is only moved while the
others are as at the start.

`kernel_data` checks in each of these states that functions which read the same
data, each in its own way, tell the same of it:

* `StoredIsFound`: what is stored or dropped under an index is found or missed
  under every index that means the same key (`Meant`, from the comments of
  `array.c`) by each of the functions that read, and nothing else changes;
* `WholeArrays`: keys, values, merging, adding in front and the test for a list
  agree with each other and with the elements;
* `SearchesAgree`: `memnstr`, `strpos`, `start_with`, `end_with`;
* `PiecesReturn`: `substr` is PHP's, but for a length of zero, which takes all the
  rest; a first letter made small and capital returns, only slashes are taken off the end (these are `PiecesCut`), and what is cut into
  words and joined, or camelized and back, returns;
* `ComparesAlike`, `ConvertsAlike`: a comparison or a conversion gives the same
  whether the compiler knew the types or not;
* `CallsReach`: after any calls, from any method of three classes, a call
  reaches the function and the object that the engine would find without the
  cache.

Bounds: arrays of three elements and two slots, so that keys share a chain; the
elements are symmetric.  Texts of four characters of two letters, a capital, a
dash and a slash.  Each type of operand, with numbers and texts on both sides of
zero and one.  Two cached calls; three classes, one of them a subclass and one
with `__call`.  `CHECK_DEADLOCK FALSE` because a full text has no successor.

Left out: `str_replace`, `stripos`, random texts and unique keys, functions that
only pass their arguments to PHP; `self::` and `static::` outside an object and
variables that are called, which no source of ZataBase has (with them the key is
too short, see "Departures"); literal keys that are numbers, which the compiler
gives to another function; the function that a call site would keep for itself
(`fcall.c:441-449` and `504-508`), since `db.zep.c`, the one compiled class in the
repository, gives `NULL` for its place in every call; the message after a call that
fails, where `zephir_call_class_method_aparams` reads an unset variable if it has no
class.

### What is proved

`KernelProofs` proves for arrays and texts of every length, values of every type,
and any classes, methods and functions:

| Theorem | What it says |
|---|---|
| `CallsReachAlways` | if calls are those that the sources make, `CallsReach` always holds |
| `StoredFoundAlways` | `StoredIsFound` always holds |
| `WholeAlways` | `WholeArrays` always holds |
| `AlikeAlways`, `ConvertsAlways` | `ComparesAlike` and `ConvertsAlike` always hold |
| `SearchesAlways`, `CutAlways` | `SearchesAgree` and `PiecesCut` always hold |
| `SubstrCuts` | `zephir_substr` is `Cut`, what PHP's `substr()` cuts, for every text, start and length but zero; for zero it is `Cut` of the whole length |

The assumptions are about data only: indexes and operands are values of PHP, the
empty text is no number, what stands for "no element" is not stored
(`ElementsAssumption`), the capitals of two letters differ, and a method runs in a
class that the class of `$this` is or extends (`EnvironmentsAssumption`).

* Calls.  The invariant is `CacheAnswers`: every entry is what the engine finds for
  its key, read from the key alone (`HandlerUnder`).  It is inductive if a call that
  has a key finds under it what the engine finds for the call (`KeyAnswers`), which
  has one lemma per kind of call: by `parent::` it needs that a class is all that
  its parent is, by `self::` and `static::` that `$this` is of a class that extends
  the one whose method runs.  The hypothesis `CallsGiven` (`CallsFrom` gives calls
  among `CallsOf`) is what `kernel_data` has and `kernel_calls` has not: with a
  called variable, or `self::` without an object, the keys are too short.
* Arrays.  The invariant is `IsArray`: the keys differ, and those that are numbers
  are below the next one.  A lemma per function says what it makes of an array
  (`Puts`, `Deletes`), one that the chain of a slot finds what the engine finds
  (`ChainFinds`), one that every switch turns an index into the key it means
  (`MeantIs`).  What pushes or puts in a loop is a recursive function; its rounds
  are shown to exist (`Stepwise` in `Lists`) and are then followed one by one.
* Operators.  `Compared` the other way around is its negative, and each function
  for a literal is a case of it.
* Texts.  All searches are about `StandsAt`, character by character.

Of `PiecesReturn` only `PiecesCut` is proved: `zephir_camelize` and `Words` are folds over data.

## Departures

Each word of `Careless`, and each client left out above, stands for something
that the code does not do as its documentation says.  These are not among the
runs of `PROJECT.json`; each shows one such case, and TLC finds the property
violated.  Where a configuration is named, it is `tlc -config <name>.cfg
<module>.tla`; for `Alter` and `Query` it is `alter_careful.cfg` or `query.cfg`
with the constants and the property that the table gives, for `Schema` it is
`schema_once.cfg` with `Killed = FALSE`, that specification and that property.

| Configuration | What happens | What the repository says |
|---|---|---|
| `btree_deep` (`MCBTree`) | keys are generated; with four elements per node earlier keys are missing from the 56th insert on | `tests/Storage/BTreeTest.php:327` asserts that all are found, for 26 |
| `btree_orphan` (`MCBTree`) | an insert that raises leaves its row in the data file without an element | "Insert a row to the data file and add an index pointer" (`storage/btree.zep:257`) |
| `table_stale` (`MCTableFile`) | an insert object is made, another query deletes or updates a row, then `values()` on the first returns and its row is in no file the path names | "Insert row/s into a table" (`execute/insert.zep:40`) |
| `MCAlter`, `Careless = {"increment"}`, `WidthsAgree` | columns are put back one by one; at a counting one that was there all along an exception leaves some, and the shutdown save writes them | "Change a column in a table to the new supplied column" (`schema/alter.zep:114`) |
| `MCAlter`, `{"reuse"}`, `WidthsAgree` | the second call on an `Alter` takes a place of the old name map | "Return the position of a column" (`table.zep:189`) |
| `MCAlter`, `{"after"}`, `AfterNamed` | 1 is added to `false` before it is compared: the column lands behind the first | "You cannot add a column after a non-existent column." (`schema/alter.zep:43`) |
| `MCAlter`, `{"duplicate"}`, `OpensAgain` | a column added after another is not checked; the saved definition does not load | "A table may not have two columns with the same name." (`table.zep:131`) |
| `MCAlter`, `{"relation"}`, `OpensAgain` | the child column of a relation is removed; the saved definition does not load | "You cannot add a relation to this table with a non-existent child column." (`table.zep:166`) |
| `MCAlter`, `{"unknown"}`, `WidthsAgree` | a column that is not there is changed: the definition gets one, the rows do not | "Row should contain the same number of values as columns in the table" (`table.zep:204`) |
| `MCAlter`, `{"empty"}`, `WidthsAgree` | the only column of a table with rows is removed: each line is left empty and read as one value, so that rows have two values for the one column added next | "Row should contain the same number of values as columns in the table" (`table.zep:204`) |
| `MCSchema`, `SavingSpec`, `GivenStays` | a process that ends saves the definitions it had loaded, over what another has saved since | `tests/SchemaTest.php:125`: `getTable` returns what `saveTable` saved |
| `MCSchema`, `Spec`, `CreatedOnce` | two processes both pass the check and create the table | "Table: '...' already exists." (`schema.zep:113`) |
| `MCSchema`, `OnceSpec`, `LoadsAnswer` | a process reads a file that another has emptied to write it, and the constructor of `Table` throws | `getTable` returns a table or false (`schema.zep:62`) |
| `MCQuery`, `Careless = {"unselected"}`, `ColumnsSelected` | before the first `where` the column is null, not false: the comparison makes a condition without a column | "Cannot apply a condition without selecting a column first." (`execute/condition.zep:92`) |
| `MCQuery`, `{"order"}`, `Columns = {"t"}`, `AnswersAsked` | ranges of a datetime column compare `intval()`, the year | "Apply a more than condition to the selected column" (`execute/condition.zep:116`) |
| `MCQuery`, `{"highest"}`, `ExtremesFound` | `max` starts from zero: no maximum of values that are zero or less | "Get the maximum value of a column" (`execute/select.zep:78`) |
| `MCQuery`, `{"recount"}`, `NothingBlanked` | `setColumns` after `values`, or without: empty values are written | "Number of values must match number of columns." (`execute/update.zep:76`) |
| `MCQuery`, `{"pattern"}`, `Columns = {"n"}`, `Patterns <- AnyPattern`, `AnswersAsked` | `_` beside `%` matches only itself; a dot matches any character | "Perform a like comparison with % and _ wildcards" (`execute/condition.zep:164`) |
| `values_null` (`MCValues`) | text is appended to the null that a missing element was fetched as, which is the null of the whole extension | `ZEPHIR_GLOBAL(global_null)` is shared as a constant |
| `values_static` (`MCValues`) | writing an element of a static property that is an array already puts the value into that array instead of in its place | the same function for properties replaces it |
| `runtime_missing` (`MCRuntime`) | `__get` of `Injectable` throws (`di/injectable.zep:87`), the method throws over it that null has no such method; the constructor of that exception is not called, and the check of that call restores the frame of the method that will restore it again | "Trying to free someone else's memory frame!" (`ext/kernel/memory.c:305`) |
| `kernel_calls` (`MCKernel`) | a called variable and `self::` or `static::` without `$this` have keys that other functions have too, and reach those | "Creates a unique key to cache the current method/function call address for the current scope" (`ext/kernel/fcall.c:160`) |

`schema_killed` holds: tables created and deleted over and over by one process
that may be killed anywhere have their definition files whenever they exist.

Not in a configuration, but excluded where a property compares functions of the
kernel: `zephir_compare_strict_double` cuts a double down to compare it with a
long (1 equals 1.5), `zephir_get_boolval_ex` of a text that is no number is
false; `zephir_start_with` and `zephir_end_with` fold the case if their parameter
`case_sensitive` is true; `zephir_substr`, "a substr like the PHP function"
(`ext/kernel/string.c:918`), takes all the rest of the text for a length of zero (`:944`),
where PHP's gives an empty text: it has no other way to be called without a length, as
`storage/adapter/file.zep:33` calls `substr`, but a length that is computed and happens to
be zero gets the same.

## What is not modelled

* Of joins only the call: no code fills their results.  Relations are the columns
  they are about.
* Two processes that write one table's file at once; `FileHandler::prependRaw`
  outside the index and `FileHandler::replace`, which no query calls.
* The counter of generated ids: what the code stores of it is read as no counter.
* `Csv`, whose other half is PHP's `str_getcsv`; `Di`, a copy of Phalcon's
  container, of which one default per process is assumed; `ArrayToObject`.
* Of the runtime: class registration and lookup, closures, iterators, wrappers
  around files, `main.c`, and everything that only passes its arguments to PHP.
  The compiled form of the Zephir classes, but for the shape of a method, and the
  build files.
* Of the proofs: liveness (`InsertEnds`); the shape of the index and all that follows
  from it (`HeadersRightToThreeLevels`, `MissedOnlyByHeaders`, `KeysHiddenOnlyBySplit`,
  `Balanced`, `EndsAreExtremes`), which even an
  ascending client has only up to the third split of the root, so that there is no theorem;
  everything about `Values`, where what is reachable and counted is recursion over data; and
  of `PiecesReturn` what is not `PiecesCut`.  These stay with TLC.

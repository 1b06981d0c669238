------------------------------- MODULE Schema -------------------------------
(***************************************************************************)
(* The definitions of tables: schema.zep over storage/adapter/file.zep.    *)
(*                                                                         *)
(* Every process that opens the database loads all definitions, and writes *)
(* all it holds when it creates, deletes or saves a table, and when it     *)
(* ends.  A table exists if its directory has the file ".zatabasetable".   *)
(*                                                                         *)
(* A definition is the set of its columns and the set of columns that its  *)
(* relations are about.  A call is a program of steps on files; the steps  *)
(* of all processes interleave, and a process may be killed between two.   *)
(***************************************************************************)
EXTENDS Integers, SequencesExt, FiniteSets

CONSTANTS Procs,     \* processes that open the database
          Tables,    \* names of tables
          Columns,   \* names of columns
          None,      \* no definition
          Absent,    \* no such file
          Killed     \* whether processes may be killed

ASSUME ValuesAssumption ==
  /\ Absent \notin Procs
  /\ \A S \in SUBSET Columns : S \notin Procs \cup {Absent}
  /\ \A S, R \in SUBSET Columns : [columns |-> S, relations |-> R] # None
ASSUME KilledAssumption == Killed \in BOOLEAN
ASSUME TablesAssumption == IsFiniteSet(Tables) /\ Tables # {}

VARIABLES disk,    \* the files in the directory of each table
          dirs,    \* the directories there are
          phase,   \* of each process
          todo,    \* of each process: the steps left of the call it is in
          arg,     \* of each process: the definition its createTable() got
          read,    \* of each process: the definition files getTable() has read
          held,    \* of each process: the definitions in memory
          given    \* history: the definition each table was last given

vars == <<disk, dirs, phase, todo, arg, read, held, given>>

\* The files of a table.
Files == {"marker", "columns", "data", "increment", "relations"}

\* The content of a file: some columns, or for the files without a definition
\* always the same; a process that emptied it and has not written yet; no file.
Content == {Absent} \cup Procs \cup SUBSET Columns
Blank   == {}

Def == {d \in [columns : SUBSET Columns, relations : SUBSET Columns] :
          d.relations \subseteq d.columns}

\* The steps of a call, each on a table or a file of it.
Steps == [do  : {"new", "check", "absent", "present", "read", "build", "make", "open", "put",
                 "touch", "save", "scan", "list", "unlink", "rmdir"},
          table : Tables, file : Files, part : Content]

NoneRead == [columns |-> Absent, relations |-> Absent]
NoneHeld == [t \in Tables |-> None]

TypeOK ==
  /\ disk \in [Tables -> [Files -> Content]]
  /\ dirs \subseteq Tables
  /\ phase \in [Procs -> {"down", "starting", "up", "ending"}]
  /\ todo \in [Procs -> Seq(Steps)]
  /\ arg \in [Procs -> Def \cup {None}]
  /\ read \in [Procs -> [columns : Content, relations : Content]]
  /\ held \in [Procs -> [Tables -> Def \cup {None}]]
  /\ given \in [Tables -> Def \cup {None}]

Has(t, f) == disk[t][f] # Absent

-----------------------------------------------------------------------------
(* The programs of the calls.                                              *)

Do(what, t)       == [do |-> what, table |-> t, file |-> "marker", part |-> Absent]
On(what, t, f, v) == [do |-> what, table |-> t, file |-> f, part |-> v]

\* A step for each of some tables, one after the other.
Each(what, S) == LET order == SetToSeq(S) IN [i \in DOMAIN order |-> Do(what, order[i])]

SetFile(t, f, v) == <<On("open", t, f, v), On("put", t, f, v)>>

\* Variant: the columns are not written.
SetFilesBut(t, d) == SetFile(t, "relations", d.relations) \o SetFile(t, "increment", Blank)

SetFiles(t, d) ==
  SetFile(t, "columns", d.columns) \o SetFile(t, "relations", d.relations)
    \o SetFile(t, "increment", Blank)

\* What getTable() does once it saw the marker.
Load(t) == <<On("read", t, "columns", Absent), On("read", t, "relations", Absent),
             Do("build", t)>>
SaveAll == Each("save", Tables)
Refresh == <<Do("scan", CHOOSE t \in Tables : TRUE)>>

\* Variant: the marker is there before the definition.
CreateMarkedFirst(t, d) == <<Do("touch", t)>> \o SetFiles(t, d) \o SaveAll \o Refresh

Create(t, d) ==
  <<Do("make", t)>> \o SetFiles(t, d) \o <<Do("touch", t)>> \o SaveAll \o Refresh

Delete(t) == Load(t) \o <<Do("list", t)>> \o SaveAll \o Refresh

-----------------------------------------------------------------------------
Init ==
  /\ disk = [t \in Tables |-> [f \in Files |-> Absent]]
  /\ dirs = {}
  /\ phase = [p \in Procs |-> "down"]
  /\ todo = [p \in Procs |-> <<>>]
  /\ arg = [p \in Procs |-> None]
  /\ read = [p \in Procs |-> NoneRead]
  /\ held = [p \in Procs |-> NoneHeld]
  /\ given = [t \in Tables |-> None]

Ready(p) == phase[p] = "up" /\ todo[p] = <<>>

\* A process makes a Db, and with it a Schema.
Start(p) ==
  /\ phase[p] = "down"
  /\ phase' = [phase EXCEPT ![p] = "starting"]
  /\ todo' = [todo EXCEPT ![p] = Refresh]
  /\ UNCHANGED <<disk, dirs, arg, read, held, given>>

Opened(p) ==
  /\ phase[p] = "starting" /\ todo[p] = <<>>
  /\ phase' = [phase EXCEPT ![p] = "up"]
  /\ UNCHANGED <<disk, dirs, todo, arg, read, held, given>>

\* The process ends: the shutdown function saves all it holds.
Exit(p) ==
  /\ Ready(p)
  /\ phase' = [phase EXCEPT ![p] = "ending"]
  /\ todo' = [todo EXCEPT ![p] = SaveAll]
  /\ UNCHANGED <<disk, dirs, arg, read, held, given>>

\* What is left of a process that is gone.
Gone(p) ==
  /\ phase' = [phase EXCEPT ![p] = "down"]
  /\ todo' = [todo EXCEPT ![p] = <<>>]
  /\ arg' = [arg EXCEPT ![p] = None]
  /\ read' = [read EXCEPT ![p] = NoneRead]
  /\ held' = [held EXCEPT ![p] = NoneHeld]
  /\ UNCHANGED <<disk, dirs, given>>

Ended(p) == phase[p] = "ending" /\ todo[p] = <<>> /\ Gone(p)

Kill(p) == Killed /\ phase[p] # "down" /\ Gone(p)

-----------------------------------------------------------------------------
(* Calls.                                                                  *)

Call(p, program) ==
  /\ Ready(p)
  /\ todo' = [todo EXCEPT ![p] = program]
  /\ UNCHANGED <<disk, dirs, phase, read>>

\* getTable(), by itself and at the start of every query.
GetTable(p, t) == Call(p, <<Do("check", t)>>) /\ UNCHANGED <<arg, held, given>>

\* The client makes a Table and calls createTable() with it.
CreateTable(p, t, d) ==
  /\ Call(p, <<Do("new", t), Do("absent", t)>>)
  /\ arg' = [arg EXCEPT ![p] = d]
  /\ UNCHANGED <<held, given>>

DeleteTable(p, t) == Call(p, <<Do("present", t)>>) /\ UNCHANGED <<arg, held, given>>

\* Variant: what is on disk is loaded before it is written.
SaveTableLate(p, t, d) ==
  /\ held[p][t] # None
  /\ Call(p, Refresh \o SaveAll)
  /\ held' = [held EXCEPT ![p][t] = d]
  /\ given' = [given EXCEPT ![t] = d]
  /\ UNCHANGED arg

\* A query appends a row; which one does not matter here.
InsertRow(p, t) ==
  /\ Ready(p)
  /\ held[p][t] # None /\ Has(t, "data")
  /\ disk' = [disk EXCEPT ![t]["data"] = Columns]
  /\ UNCHANGED <<dirs, phase, todo, arg, read, held, given>>

\* saveTable() with a Table the process loaded and altered.
SaveTable(p, t, d) ==
  /\ held[p][t] # None
  /\ Call(p, SaveAll \o Refresh)
  /\ held' = [held EXCEPT ![p][t] = d]
  /\ given' = [given EXCEPT ![t] = d]
  /\ UNCHANGED arg

-----------------------------------------------------------------------------
(* Steps.                                                                  *)

Now(p)      == Head(todo[p])
At(p, what) == todo[p] # <<>> /\ Now(p).do = what

\* Go on with a program before the rest of the call, or with the rest.
Then(p, program) == todo' = [todo EXCEPT ![p] = program \o Tail(@)]
Proceed(p)       == Then(p, <<>>)

\* An exception ends the call; in the constructor of the Schema, the process.
Throw(p) ==
  IF phase[p] = "starting"
    THEN Gone(p)
    ELSE /\ todo' = [todo EXCEPT ![p] = <<>>]
         /\ read' = [read EXCEPT ![p] = NoneRead]
         /\ UNCHANGED <<disk, dirs, phase, arg, held, given>>

Written(t, f, v) == disk' = [disk EXCEPT ![t][f] = v]
Touched(t, f)    == Written(t, f, IF Has(t, f) THEN disk[t][f] ELSE Blank)
MakeDir(t)       == dirs' = dirs \cup {t}

Check(p) ==
  /\ At(p, "check")
  /\ LET t == Now(p).table IN Then(p, IF Has(t, "marker") THEN Load(t) ELSE <<>>)
  /\ UNCHANGED <<disk, dirs, phase, arg, read, held, given>>

\* createTable() throws when getTable() gave it a table.
CheckAbsent(p) ==
  /\ At(p, "absent")
  /\ LET t == Now(p).table IN
       IF Has(t, "marker")
         THEN Then(p, Load(t)) /\ UNCHANGED given
         ELSE Then(p, Create(t, arg[p])) /\ given' = [given EXCEPT ![t] = arg[p]]
  /\ arg' = [arg EXCEPT ![p] = None]
  /\ UNCHANGED <<disk, dirs, phase, read, held>>

CheckPresent(p) ==
  /\ At(p, "present")
  /\ LET t == Now(p).table IN Then(p, IF Has(t, "marker") THEN Delete(t) ELSE <<>>)
  /\ UNCHANGED <<disk, dirs, phase, arg, read, held, given>>

Read(p) ==
  /\ At(p, "read")
  /\ LET s == Now(p) IN read' = [read EXCEPT ![p][s.file] = disk[s.table][s.file]]
  /\ Proceed(p)
  /\ UNCHANGED <<disk, dirs, phase, arg, held, given>>

\* Variant: what is not an array counts as an empty one.
PartLenient(content) == IF content \in Procs \cup {Absent} THEN {} ELSE content

\* A file that is not there counts as an empty array; an empty file does not.
Part(content) == IF content = Absent THEN {} ELSE content
Found(p) == [columns |-> Part(read[p].columns), relations |-> Part(read[p].relations)]

IsDef(d) ==
  d.columns \notin Procs /\ d.relations \notin Procs /\ d.relations \subseteq d.columns

\* new Table(): throws for what is no definition, or else opens the data file.
Build(p) ==
  /\ At(p, "build")
  /\ IF IsDef(Found(p))
       THEN LET t == Now(p).table IN
              /\ held' = [held EXCEPT ![p][t] = Found(p)]
              /\ MakeDir(t) /\ Touched(t, "data")
              /\ read' = [read EXCEPT ![p] = NoneRead]
              /\ Proceed(p)
              /\ UNCHANGED <<phase, arg, given>>
       ELSE Throw(p)

New(p) ==
  /\ At(p, "new")
  /\ LET t == Now(p).table IN MakeDir(t) /\ Touched(t, "data")
  /\ Proceed(p)
  /\ UNCHANGED <<phase, arg, read, held, given>>

Make(p) ==
  /\ At(p, "make")
  /\ MakeDir(Now(p).table)
  /\ Proceed(p)
  /\ UNCHANGED <<disk, phase, arg, read, held, given>>

\* setFile() locks the file, empties it, and writes it.
Locked(t, f) ==
  \E q \in Procs : disk[t][f] = q /\ At(q, "put") /\ Now(q).table = t /\ Now(q).file = f

OpenFile(p) ==
  /\ At(p, "open")
  /\ LET s == Now(p) IN
       /\ ~Locked(s.table, s.file)
       /\ MakeDir(s.table)
       /\ Written(s.table, s.file, p)
  /\ Proceed(p)
  /\ UNCHANGED <<phase, arg, read, held, given>>

\* What is put into a file that was removed meanwhile is lost.
PutFile(p) ==
  /\ At(p, "put")
  /\ LET s == Now(p) IN
       IF disk[s.table][s.file] = p THEN Written(s.table, s.file, s.part) ELSE UNCHANGED disk
  /\ Proceed(p)
  /\ UNCHANGED <<dirs, phase, arg, read, held, given>>

Touch(p) ==
  /\ At(p, "touch")
  /\ LET t == Now(p).table IN MakeDir(t) /\ Touched(t, "marker")
  /\ Proceed(p)
  /\ UNCHANGED <<phase, arg, read, held, given>>

\* save(), for one table.
Save(p) ==
  /\ At(p, "save")
  /\ LET t == Now(p).table IN
       Then(p, IF held[p][t] # None /\ t \in dirs THEN SetFiles(t, held[p][t]) ELSE <<>>)
  /\ UNCHANGED <<disk, dirs, phase, arg, read, held, given>>

\* refresh(): forget all, and load what the directory has.
Scan(p) ==
  /\ At(p, "scan")
  /\ held' = [held EXCEPT ![p] = NoneHeld]
  /\ Then(p, Each("check", dirs))
  /\ UNCHANGED <<disk, dirs, phase, arg, read, given>>

Removal(t, f) == IF Has(t, f) THEN <<On("unlink", t, f, Absent)>> ELSE <<>>

\* Variant: the rows are not the business of the schema.
ListDirBut(p) ==
  /\ At(p, "list")
  /\ LET t == Now(p).table IN
       Then(p, IF t \notin dirs THEN <<>>
               ELSE Removal(t, "marker") \o Removal(t, "columns") \o Removal(t, "increment")
                      \o Removal(t, "relations") \o <<Do("rmdir", t)>>)
  /\ UNCHANGED <<disk, dirs, phase, arg, read, held, given>>

\* removeDir(): the files that are there now, in order, and then the directory.
ListDir(p) ==
  /\ At(p, "list")
  /\ LET t == Now(p).table IN
       Then(p, IF t \notin dirs THEN <<>>
               ELSE Removal(t, "marker") \o Removal(t, "columns") \o Removal(t, "data")
                      \o Removal(t, "increment") \o Removal(t, "relations") \o <<Do("rmdir", t)>>)
  /\ UNCHANGED <<disk, dirs, phase, arg, read, held, given>>

Unlink(p) ==
  /\ At(p, "unlink")
  /\ Written(Now(p).table, Now(p).file, Absent)
  /\ Proceed(p)
  /\ UNCHANGED <<dirs, phase, arg, read, held, given>>

\* A directory with files stays; one that is gone cannot be written to.
RemoveDir(p) ==
  /\ At(p, "rmdir")
  /\ LET t == Now(p).table IN
       IF t \in dirs
         THEN /\ dirs' = IF \A f \in Files : ~Has(t, f) THEN dirs \ {t} ELSE dirs
              /\ Proceed(p)
              /\ UNCHANGED <<disk, phase, arg, read, held, given>>
         ELSE Throw(p)

CallStep(p) ==
  \/ Check(p) \/ CheckAbsent(p) \/ CheckPresent(p) \/ Read(p) \/ Build(p)
  \/ New(p) \/ Make(p) \/ OpenFile(p) \/ PutFile(p) \/ Touch(p)
  \/ Save(p) \/ Scan(p) \/ ListDir(p) \/ Unlink(p) \/ RemoveDir(p)

Life(p) == Start(p) \/ Opened(p) \/ Exit(p) \/ Ended(p) \/ Kill(p)

Next ==
  \E p \in Procs :
    \/ Life(p) \/ CallStep(p)
    \/ \E t \in Tables : GetTable(p, t) \/ InsertRow(p, t) \/ DeleteTable(p, t)
    \/ \E t \in Tables, d \in Def : CreateTable(p, t, d) \/ SaveTable(p, t, d)

Spec == Init /\ [][Next]_vars

\* Clients that create each table once, by one of them, and never alter one.
OnceNext ==
  \E p \in Procs :
    \/ Life(p) \/ CallStep(p)
    \/ \E t \in Tables : GetTable(p, t) \/ InsertRow(p, t) \/ DeleteTable(p, t)
    \/ \E t \in Tables, d \in Def :
         given[t] = None /\ (\A q \in Procs : arg[q] = None) /\ CreateTable(p, t, d)

OnceSpec == Init /\ [][OnceNext]_vars

\* Clients that may alter it, one at a time.
SavingSpec ==
  Init /\ [][OnceNext \/ \E p \in Procs, t \in Tables, d \in Def :
               (\A q \in Procs : todo[q] = <<>>) /\ SaveTable(p, t, d)]_vars

-----------------------------------------------------------------------------
(* What the schema promises.                                               *)

\* A table that exists has all files of its definition, whoever was killed in which
\* step of creating, saving or deleting it (schema.zep createTable, deleteTable).
ExistsWhole ==
  \A t \in Tables : Has(t, "marker") =>
    \A f \in {"columns", "relations", "increment"} : Has(t, f)

\* A process that has an existing table in memory has it as it was created, and not
\* what a save of another process is just writing.  While a table is deleted the files
\* that are already gone count as empty lists, so that a process which loads it then
\* may have a part of its definition, but never another (schema.zep getTable,
\* createTable).
HeldIsGiven ==
  \A p \in Procs, t \in Tables : held[p][t] # None =>
    /\ held[p][t].columns \in {Blank, given[t].columns}
    /\ held[p][t].relations \in {Blank, given[t].relations}
    /\ Has(t, "marker") => held[p][t] = given[t]

\* When no call runs, an existing table has the definition it was last created or
\* saved with (schema.zep createTable, saveTable).
GivenStays ==
  (\A p \in Procs : todo[p] = <<>>) =>
    \A t \in Tables : Has(t, "marker") =>
      disk[t]["columns"] = given[t].columns /\ disk[t]["relations"] = given[t].relations

\* createTable() makes a table only where there is none (schema.zep createTable).
CreatedOnce ==
  \A p \in Procs : At(p, "touch") => ~Has(Now(p).table, "marker")

\* A new table has no rows, also when there was one of that name (schema.zep
\* createTable, deleteTable).
CreatedEmpty ==
  \A p \in Procs : At(p, "touch") => disk[Now(p).table]["data"] = Blank

\* What getTable() reads is always a definition (schema.zep getTable).
LoadsAnswer ==
  \A p \in Procs : At(p, "build") => IsDef(Found(p))
=============================================================================

----------------------------- MODULE TableFile -----------------------------
(***************************************************************************)
(* The data file of a table and the query objects over it: table.zep,      *)
(* helper/filehandler.zep and execute/insert, delete, update, results.     *)
(*                                                                         *)
(* A query object opens the file when it is made.  It deletes and updates  *)
(* by copying the file line by line to "<path>.write", renaming that over  *)
(* the path and opening the path again; every other open handle stays on   *)
(* the file it had.  One process writes (its calls run one at a time, and  *)
(* it may die in one), any number of processes read.                       *)
(*                                                                         *)
(* A line is a row: the value of the column conditions are about, and the  *)
(* number of rows inserted before it, which stands for the other columns.  *)
(***************************************************************************)
EXTENDS Integers, SequencesExt

CONSTANTS Keys,      \* the values of the column conditions and updates are about
          Writers,   \* query objects of the process that writes
          Readers,   \* query objects of the processes that select
          None,      \* no file
          MaxRows,   \* bound: no insert starts once that many rows were inserted
          MaxFiles   \* bound: no rewrite starts once that many files were made

ASSUME KeysAssumption     == Keys # {}
ASSUME SeparateAssumption == Writers \cap Readers = {}
ASSUME NoneAssumption     == None \notin Nat
ASSUME BoundsAssumption   == MaxRows \in Nat /\ MaxFiles \in Nat

VARIABLES files,     \* every file ever made, also those only open handles still reach
          live,      \* the one at the path
          temp,      \* the one at "<path>.write", if any
          query,     \* the query objects
          inserted,  \* the number of rows appended so far
          acked      \* history: the rows the writing process may expect in the table

vars == <<files, live, temp, query, inserted, acked>>

Queries == Writers \cup Readers
Row     == [serial : Nat, key : Keys]
Kinds   == {"insert", "delete", "deleteAll", "update", "select"}
Stages  == {"closed", "ready", "append", "scan", "copy", "reopen"}

\* A query object: the call it is in, its condition (the keys that match) and new
\* key, its handle (file, and lines read or rows appended so far), the rows to
\* append, and the line numbers found, each with the row that was there.
Query == [stage : Stages, kind : Kinds, cond : SUBSET Keys, key : Keys,
          file : Nat, at : Nat, todo : Seq(Row), found : SUBSET [at : Nat, row : Row]]

TypeOK ==
  /\ files \in Seq(Seq(Row))
  /\ live \in DOMAIN files
  /\ temp \in DOMAIN files \cup {None}
  /\ query \in [Queries -> Query]
  /\ inserted \in Nat
  /\ acked \subseteq Row

Content(q) == files[query[q].file]
Offsets(q) == {f.at : f \in query[q].found}
Busy(q)    == query[q].stage \notin {"closed", "ready"}
At(q, s)   == query[q].stage = s
Is(q, k)   == query[q].kind = k

\* Calls of the process that writes run one at a time.
MayCall(q) == At(q, "ready") /\ (q \in Writers => \A w \in Writers : ~Busy(w))

AnyKey == CHOOSE k \in Keys : TRUE   \* the key of a query that sets none

New(stage, kind, cond, key, file) ==
  [stage |-> stage, kind |-> kind, cond |-> cond, key |-> key,
   file |-> file, at |-> 0, todo |-> <<>>, found |-> {}]
Closed == New("closed", "select", {}, AnyKey, 1)

\* The query objects once q got to a stage.
Moved(q, stage, at, todo, found) ==
  [query EXCEPT ![q] =
    [stage |-> stage, kind |-> query[q].kind, cond |-> query[q].cond,
     key |-> query[q].key, file |-> query[q].file,
     at |-> at, todo |-> todo, found |-> found]]

Store == INSTANCE RowStore WITH table <- ToSet(files[live])

\* The rows when a delete or an update is done with them.
Effect(q, rows) ==
  IF Is(q, "delete")      THEN Store!Removed(rows, query[q].cond)
  ELSE IF Is(q, "update") THEN Store!Changed(rows, query[q].cond, query[q].key)
  ELSE                         rows

-----------------------------------------------------------------------------
Init ==
  /\ files = << <<>> >>
  /\ live = 1
  /\ temp = None
  /\ query = [q \in Queries |-> Closed]
  /\ inserted = 0
  /\ acked = {}

\* getTable(): a new Table, whose refresh() opens the path.
Open(q, kind, cond, key) ==
  /\ q \in Writers => \A w \in Writers : ~Busy(w)
  /\ ~Busy(q)
  /\ q \in Readers <=> kind = "select"
  /\ query' = [query EXCEPT ![q] = New("ready", kind, cond, key, live)]
  /\ UNCHANGED <<files, live, temp, inserted, acked>>

-----------------------------------------------------------------------------
(* Insert: values() of one row or several, each appended by a write.       *)

Values(q, keys) ==
  /\ MayCall(q) /\ Is(q, "insert")
  /\ inserted < MaxRows
  /\ LET rows == [i \in DOMAIN keys |-> [serial |-> inserted + i - 1, key |-> keys[i]]]
     IN  query' = Moved(q, "append", 0, rows, {})
  /\ UNCHANGED <<files, live, temp, inserted, acked>>

AppendRow(q) ==
  /\ At(q, "append")
  /\ LET row  == query[q].todo[query[q].at + 1]
         last == query[q].at + 1 = Len(query[q].todo)
     IN  /\ files' = [files EXCEPT ![query[q].file] = Append(@, row)]
         /\ query' = IF last THEN Moved(q, "ready", 0, <<>>, {})
                     ELSE Moved(q, "append", query[q].at + 1, query[q].todo, {})
         /\ acked' = IF last THEN acked \cup ToSet(query[q].todo) ELSE acked
  /\ inserted' = inserted + 1
  /\ UNCHANGED <<live, temp>>

-----------------------------------------------------------------------------
(* done(): select, delete and update read the file line by line.           *)

\* Delete without a condition: the file of the handle is cut to nothing.
Truncate(q) ==
  /\ MayCall(q) /\ Is(q, "deleteAll")
  /\ files' = [files EXCEPT ![query[q].file] = <<>>]
  /\ acked' = {}
  /\ UNCHANGED <<live, temp, query, inserted>>

Done(q) ==
  /\ MayCall(q)
  /\ query[q].kind \in {"select", "delete", "update"}
  /\ Is(q, "select") \/ Len(files) < MaxFiles
  /\ query' = Moved(q, "scan", 0, <<>>, {})
  /\ UNCHANGED <<files, live, temp, inserted, acked>>

\* Variant: the offset is taken after the line was read.
FoundAfter(at, row) == [at |-> at + 1, row |-> row]

FoundAt(at, row) == [at |-> at, row |-> row]

\* Variant: "match" is not set again for the next row.
ScanLineSticky(q) ==
  /\ At(q, "scan")
  /\ query[q].at < Len(Content(q))
  /\ LET row == Content(q)[query[q].at + 1] IN
       query' = Moved(q, "scan", query[q].at + 1, <<>>,
                  query[q].found \cup (IF \A i \in 1 .. query[q].at + 1 :
                                             Content(q)[i].key \in query[q].cond
                                        THEN {FoundAt(query[q].at, row)} ELSE {}))
  /\ UNCHANGED <<files, live, temp, inserted, acked>>

ScanLine(q) ==
  /\ At(q, "scan")
  /\ query[q].at < Len(Content(q))
  /\ LET row == Content(q)[query[q].at + 1] IN
       query' = Moved(q, "scan", query[q].at + 1, <<>>,
                  query[q].found \cup (IF row.key \in query[q].cond
                                        THEN {FoundAt(query[q].at, row)} ELSE {}))
  /\ UNCHANGED <<files, live, temp, inserted, acked>>

\* The end of the file: a select returns its results, and so does a delete or an
\* update that found nothing.
ScanEnd(q) ==
  /\ At(q, "scan")
  /\ query[q].at >= Len(Content(q))
  /\ Is(q, "select") \/ query[q].found = {}
  /\ query' = Moved(q, "ready", 0, <<>>, query[q].found)
  /\ acked' = Effect(q, acked)
  /\ UNCHANGED <<files, live, temp, inserted>>

-----------------------------------------------------------------------------
(* delete() and callback() of the file handler.                            *)

\* Variant: a file left there is written on.
StartRewriteOver(q) ==
  /\ At(q, "scan")
  /\ query[q].at >= Len(Content(q))
  /\ ~Is(q, "select") /\ query[q].found # {}
  /\ IF temp = None
       THEN files' = Append(files, <<>>) /\ temp' = Len(files) + 1
       ELSE UNCHANGED <<files, temp>>
  /\ query' = Moved(q, "copy", 0, <<>>, query[q].found)
  /\ UNCHANGED <<live, inserted, acked>>

\* Open "<path>.write" for writing: a file left there by a crash is emptied.
StartRewrite(q) ==
  /\ At(q, "scan")
  /\ query[q].at >= Len(Content(q))
  /\ ~Is(q, "select") /\ query[q].found # {}
  /\ IF temp = None
       THEN files' = Append(files, <<>>) /\ temp' = Len(files) + 1
       ELSE files' = [files EXCEPT ![temp] = <<>>] /\ UNCHANGED temp
  /\ query' = Moved(q, "copy", 0, <<>>, query[q].found)
  /\ UNCHANGED <<live, inserted, acked>>

\* Variants: a line whose offset was found is copied as well; it loses its key.
CopiedAlways(q, row) == <<row>>
CopiedBare(q, row)   == <<[serial |-> row.serial, key |-> None]>>

\* What a line becomes: itself, nothing, or the row with its new key.
Copied(q, row) ==
  IF query[q].at \notin Offsets(q) THEN <<row>>
  ELSE IF Is(q, "delete")          THEN <<>>
  ELSE                                  <<[serial |-> row.serial, key |-> query[q].key]>>

CopyLine(q) ==
  /\ At(q, "copy")
  /\ query[q].at < Len(Content(q))
  /\ files' = [files EXCEPT ![temp] = @ \o Copied(q, Content(q)[query[q].at + 1])]
  /\ query' = Moved(q, "copy", query[q].at + 1, <<>>, query[q].found)
  /\ UNCHANGED <<live, temp, inserted, acked>>

\* Variant: the rename does not wait for the last line.
CopiedAllBut(q) == query[q].at + 1 >= Len(Content(q))

CopiedAll(q) == query[q].at >= Len(Content(q))

Rename(q) ==
  /\ At(q, "copy")
  /\ CopiedAll(q)
  /\ live' = temp
  /\ temp' = None
  /\ query' = Moved(q, "reopen", 0, <<>>, {})
  /\ UNCHANGED <<files, inserted, acked>>

\* Construct the handle again on the path, and return.
Reopen(q) ==
  /\ At(q, "reopen")
  /\ query' = [query EXCEPT ![q] =
       New("ready", query[q].kind, query[q].cond, query[q].key, live)]
  /\ acked' = Effect(q, acked)
  /\ UNCHANGED <<files, live, temp, inserted>>

-----------------------------------------------------------------------------
\* The writing process dies, and another looks at what is there.
Crash ==
  /\ \E w \in Writers : ~At(w, "closed")
  /\ query' = [q \in Queries |-> IF q \in Writers THEN Closed ELSE query[q]]
  /\ acked' = ToSet(files[live])
  /\ UNCHANGED <<files, live, temp, inserted>>

\* What follows in a call once it has begun.
CallStep(q) ==
  \/ AppendRow(q)
  \/ ScanLine(q) \/ ScanEnd(q)
  \/ StartRewrite(q) \/ CopyLine(q) \/ Rename(q) \/ Reopen(q)

Batches == UNION {[1 .. n -> Keys] : n \in 1 .. 2}

Conditions == SUBSET Keys \ {{}}

OpenAny(q) ==
  \/ \E kind \in {"insert", "deleteAll"} : Open(q, kind, {}, AnyKey)
  \/ \E kind \in {"select", "delete"}, cond \in Conditions : Open(q, kind, cond, AnyKey)
  \/ \E cond \in Conditions, key \in Keys : Open(q, "update", cond, key)

Call(q) == (\E keys \in Batches : Values(q, keys)) \/ Truncate(q) \/ Done(q)

Next == (\E q \in Queries : OpenAny(q) \/ Call(q) \/ CallStep(q)) \/ Crash

Spec == Init /\ [][Next]_vars

\* A client that writes through query objects made since the last rewrite, as a
\* chained call does.
FreshNext ==
  \/ \E q \in Queries : OpenAny(q) \/ CallStep(q)
  \/ \E q \in Queries : (q \in Writers => query[q].file = live) /\ Call(q)
  \/ Crash

FreshSpec == Init /\ [][FreshNext]_vars

\* A client that never deletes without a condition.
KeepingNext ==
  \/ \E q \in Queries : OpenAny(q) \/ CallStep(q) \/ Done(q)
  \/ \E q \in Writers, keys \in Batches : Values(q, keys)
  \/ Crash

KeepingSpec == Init /\ [][KeepingNext]_vars

-----------------------------------------------------------------------------
(* What the table promises.                                                *)

\* In every file, also the one being written and those only old handles reach,
\* the rows are in the order of their insertion and none is there twice, whatever
\* handles, rewrites and crashes overlap (filehandler.zep delete, callback).
InOrder ==
  \A f \in DOMAIN files : \A i, j \in DOMAIN files[f] :
    i < j => files[f][i].serial < files[f][j].serial

\* Between calls the table holds the rows whose insert returned, less those deleted
\* and with the keys set since: no more and no less (table.zep insertRow, deleteRows,
\* execute/update.zep done).
AcknowledgedKept ==
  (\A w \in Writers : ~Busy(w)) => acked = ToSet(files[live])

\* The path always names a whole table: rewriting changes it in one step, a crash
\* leaves the old table or the new one, and a left-over "<path>.write" never shows
\* (filehandler.zep delete, callback).
ImplementsStore == Store!Spec

\* A result set keeps answering with the rows it was made of while others append
\* to, rewrite and rename over the table (results.zep getRow).
ResultsStay ==
  \A r \in Readers : \A f \in query[r].found :
    f.at < Len(Content(r)) /\ Content(r)[f.at + 1] = f.row

\* A select returns all rows of one state of its file that match, although others
\* write while it reads (table.zep selectRows).
SelectsWhole ==
  [][\A r \in Readers :
       At(r, "scan") /\ At(r, "ready")' =>
         {f.row : f \in query'[r].found} =
           {row \in ToSet(Content(r)) : row.key \in query[r].cond}]_vars
=============================================================================

-------------------------- MODULE TableFileProofs --------------------------
(***************************************************************************)
(* Theorems about the table file, for every set of keys and any number of  *)
(* query objects, rows and rewrites.                                       *)
(***************************************************************************)
EXTENDS TableFile, SequenceTheorems, TLAPS

\* Two calls of the process that writes never run at the same time.
OneCall == \A v, w \in Writers : Busy(v) /\ Busy(w) => v = w

\* A stage belongs to the kinds of query that pass through it.
KindsFit ==
  \A q \in Queries :
    /\ q \in Readers => Is(q, "select")
    /\ At(q, "append") => Is(q, "insert")
    /\ query[q].stage \in {"scan", "copy", "reopen"} =>
         query[q].kind \in {"select", "delete", "update"}
    /\ query[q].stage \in {"copy", "reopen"} => query[q].kind \in {"delete", "update"}

\* No handle is ever on the file being written, nor is the path.
TempApart ==
  /\ live # temp /\ temp # 1
  /\ \A q \in Queries : query[q].file \in DOMAIN files /\ query[q].file # temp

\* The next row gets a number no file has seen yet.
Numbered ==
  /\ \A f \in DOMAIN files : \A i \in DOMAIN files[f] : files[f][i].serial < inserted
  /\ \A q \in Queries : At(q, "append") =>
       /\ query[q].at < Len(query[q].todo)
       /\ \A i \in query[q].at + 1 .. Len(query[q].todo) :
            query[q].todo[i].serial = inserted + i - (query[q].at + 1)

\* What was copied so far comes from the lines read so far.
CopyBehind ==
  \A q \in Queries : At(q, "copy") =>
    /\ temp # None
    /\ query[q].at <= Len(Content(q))
    /\ \A i \in DOMAIN files[temp] :
         \E j \in 1 .. query[q].at : files[temp][i].serial = Content(q)[j].serial

\* The inductive invariant of every client.
IInv == TypeOK /\ OneCall /\ KindsFit /\ TempApart /\ Numbered /\ CopyBehind /\ InOrder

\* The first n lines of q's file, and where the rows among them are that match.
Lines(q, n)     == {Content(q)[i] : i \in 1 .. n}
FoundUpTo(q, n) ==
  {FoundAt(i - 1, Content(q)[i]) : i \in {j \in 1 .. n : Content(q)[j].key \in query[q].cond}}

\* A client that uses fresh handles only: its calls are on the file at the path.
OnLive(w) == query[w].stage \in {"append", "scan", "copy"} => query[w].file = live

\* What it has found is exactly what matches.
Found(w) ==
  /\ At(w, "scan") => /\ query[w].at <= Len(Content(w))
                      /\ query[w].found = FoundUpTo(w, query[w].at)
  /\ At(w, "copy") => query[w].found = FoundUpTo(w, Len(Content(w)))

\* What it has copied is what the query makes of the lines read so far.
CopiedSoFar(w) ==
  At(w, "copy") => ToSet(files[temp]) = Effect(w, Lines(w, query[w].at))

\* The table at the path in terms of the rows the client may expect.
Expected(w) ==
  /\ At(w, "append") =>
       ToSet(files[live]) = acked \cup {query[w].todo[i] : i \in 1 .. query[w].at}
  /\ At(w, "reopen") => ToSet(files[live]) = Effect(w, acked)
  /\ query[w].stage \in {"scan", "copy"} => acked = ToSet(files[live])

\* The inductive invariant of such a client.
WriterFits(w) == OnLive(w) /\ Found(w) /\ CopiedSoFar(w) /\ Expected(w)
Settled       == (\A w \in Writers : ~Busy(w)) => acked = ToSet(files[live])
FreshInv      == IInv /\ Settled /\ \A w \in Writers : WriterFits(w)

\* A reader of a table that is never cut has found exactly what matches, and
\* it is still where it was found.
ReaderFits(r) ==
  /\ At(r, "scan") => /\ query[r].at <= Len(Content(r))
                      /\ query[r].found = FoundUpTo(r, query[r].at)
  /\ \A f \in query[r].found : f.at < Len(Content(r)) /\ Content(r)[f.at + 1] = f.row

\* The inductive invariant of a client that does not cut it.
KeepingInv == IInv /\ \A r \in Readers : ReaderFits(r)

-----------------------------------------------------------------------------
(* What the steps are made of.                                             *)

\* The record of a query object after a step of its own.
Next1(q, stage, at, todo, found) ==
  [stage |-> stage, kind |-> query[q].kind, cond |-> query[q].cond, key |-> query[q].key,
   file |-> query[q].file, at |-> at, todo |-> todo, found |-> found]

\* It is a query object of the same kind, with the same handle.
LEMMA NextType ==
  ASSUME TypeOK, NEW q \in Queries, NEW stage \in Stages, NEW at \in Nat,
         NEW todo \in Seq(Row), NEW found \in SUBSET [at : Nat, row : Row]
  PROVE  /\ Next1(q, stage, at, todo, found) \in Query
         /\ Moved(q, stage, at, todo, found) =
              [query EXCEPT ![q] = Next1(q, stage, at, todo, found)]
  BY DEF TypeOK, Query, Next1, Moved

\* A step of a query changes that one only.
LEMMA OthersStay ==
  ASSUME TypeOK, NEW q \in Queries, NEW r \in Query, query' = [query EXCEPT ![q] = r]
  PROVE  /\ query' \in [Queries -> Query]
         /\ query'[q] = r
         /\ \A p \in Queries \ {q} : query'[p] = query[p]
  BY DEF TypeOK

\* Writing a file changes that one only.
LEMMA FileWritten ==
  ASSUME TypeOK, NEW f \in DOMAIN files, NEW s \in Seq(Row), files' = [files EXCEPT ![f] = s]
  PROVE  /\ files' \in Seq(Seq(Row))
         /\ DOMAIN files' = DOMAIN files
         /\ files'[f] = s
         /\ \A g \in DOMAIN files \ {f} : files'[g] = files[g]
  BY ExceptSeq DEF TypeOK

\* Making a file leaves the others.
LEMMA FileMade ==
  ASSUME TypeOK, files' = Append(files, <<>>)
  PROVE  /\ files' \in Seq(Seq(Row))
         /\ DOMAIN files' = DOMAIN files \cup {Len(files) + 1}
         /\ Len(files) + 1 \notin DOMAIN files
         /\ files'[Len(files) + 1] = <<>>
         /\ \A g \in DOMAIN files : files'[g] = files[g]
<1>1. files \in Seq(Seq(Row)) /\ <<>> \in Seq(Row)
  BY EmptySeq DEF TypeOK
<1>2. files' \in Seq(Seq(Row)) /\ Len(files') = Len(files) + 1
  BY <1>1, AppendProperties
<1>3. \A i \in 1 .. Len(files) : files'[i] = files[i]
  BY <1>1, AppendProperties
<1>4. files'[Len(files) + 1] = <<>>
  BY <1>1, AppendProperties
<1>5. DOMAIN files = 1 .. Len(files) /\ Len(files) \in Nat
  BY <1>1, LenProperties
<1>6. DOMAIN files' = 1 .. Len(files) + 1
  BY <1>2, LenProperties
<1>7. QED
  BY <1>2, <1>3, <1>4, <1>5, <1>6

\* The parts of a query object.
LEMMA QueryParts ==
  ASSUME TypeOK, NEW q \in Queries
  PROVE  /\ query[q].stage \in Stages /\ query[q].kind \in Kinds
         /\ query[q].cond \in SUBSET Keys /\ query[q].key \in Keys
         /\ query[q].file \in Nat /\ query[q].at \in Nat
         /\ query[q].todo \in Seq(Row)
         /\ query[q].found \in SUBSET [at : Nat, row : Row]
  BY DEF TypeOK, Query

\* A file is a sequence of rows.
LEMMA FileParts ==
  ASSUME TypeOK, NEW f \in DOMAIN files
  PROVE  /\ f \in Nat \ {0}
         /\ files[f] \in Seq(Row)
         /\ DOMAIN files[f] = 1 .. Len(files[f])
         /\ Len(files[f]) \in Nat
         /\ \A i \in DOMAIN files[f] : files[f][i] \in Row
<1>1. files[f] \in Seq(Row) /\ f \in Nat \ {0}
  BY ElementOfSeq, LenProperties DEF TypeOK
<1>2. QED
  BY <1>1, ElementOfSeq, LenProperties

\* The same for a stage with no rows to append.
LEMMA NextIdle ==
  ASSUME TypeOK, NEW q \in Queries, NEW stage \in Stages, NEW at \in Nat,
         NEW found \in SUBSET [at : Nat, row : Row]
  PROVE  /\ Next1(q, stage, at, <<>>, found) \in Query
         /\ Moved(q, stage, at, <<>>, found) =
              [query EXCEPT ![q] = Next1(q, stage, at, <<>>, found)]
<1>1. PICK todo \in Seq(Row) : todo = <<>>
  BY EmptySeq
<1>2. /\ Next1(q, stage, at, todo, found) \in Query
      /\ Moved(q, stage, at, todo, found) =
           [query EXCEPT ![q] = Next1(q, stage, at, todo, found)]
  BY NextType
<1>3. QED
  BY <1>1, <1>2, Zenon

\* Steps that touch no file keep the invariant if the query they leave behind fits.
LEMMA QueryStepKeeps ==
  ASSUME IInv, NEW q \in Queries, NEW r \in Query, query' = [query EXCEPT ![q] = r],
         UNCHANGED <<files, live, temp, inserted>>, acked' \subseteq Row,
         r.file \in DOMAIN files, r.file # temp,
         r.stage # "copy",
         q \in Writers /\ r.stage \notin {"closed", "ready"} =>
           Busy(q) \/ \A w \in Writers : ~Busy(w),
         q \in Readers => r.kind = "select",
         r.stage = "append" => r.kind = "insert",
         r.stage = "scan" => r.kind \in {"select", "delete", "update"},
         r.stage = "reopen" => r.kind \in {"delete", "update"},
         r.stage = "append" =>
           /\ r.at < Len(r.todo)
           /\ \A i \in r.at + 1 .. Len(r.todo) :
                r.todo[i].serial = inserted + i - (r.at + 1)
  PROVE  IInv'
<1>1. /\ query' \in [Queries -> Query] /\ query'[q] = r
      /\ \A p \in Queries \ {q} : query'[p] = query[p]
  BY OthersStay DEF IInv
<1>2. TypeOK'
  BY <1>1 DEF IInv, TypeOK
<1>3. OneCall'
  BY <1>1 DEF IInv, OneCall, Busy, Queries
<1>4. KindsFit'
  BY <1>1 DEF IInv, KindsFit, Is, At
<1>5. TempApart'
  BY <1>1 DEF IInv, TempApart
<1>6. Numbered'
  BY <1>1 DEF IInv, Numbered, At
<1>7. CopyBehind'
  BY <1>1 DEF IInv, CopyBehind, At, Content
<1>8. InOrder'
  BY DEF IInv, InOrder
<1>9. QED
  BY <1>2, <1>3, <1>4, <1>5, <1>6, <1>7, <1>8 DEF IInv

\* A delete or an update makes rows of rows.
LEMMA EffectKeeps ==
  ASSUME TypeOK, NEW q \in Queries, NEW rows \in SUBSET Row
  PROVE  Effect(q, rows) \subseteq Row
<1>1. Store!Removed(rows, query[q].cond) \subseteq Row
  BY DEF Store!Removed
<1>2. Store!Changed(rows, query[q].cond, query[q].key) \subseteq Row
  BY <1>1, QueryParts DEF Store!Changed, Row
<1>3. QED
  BY <1>1, <1>2 DEF Effect

-----------------------------------------------------------------------------
(* Every action keeps the invariant.                                       *)

\* A new handle is on the path, never on the file being written.
LEMMA OpenKeeps ==
  ASSUME IInv, NEW q \in Queries, NEW kind \in Kinds, NEW cond \in SUBSET Keys,
         NEW key \in Keys, Open(q, kind, cond, key)
  PROVE  IInv'
<1> DEFINE r == New("ready", kind, cond, key, live)
<1>1. r \in Query
  <2>1. live \in Nat /\ <<>> \in Seq(Row)
    BY FileParts, EmptySeq DEF IInv, TypeOK
  <2>2. QED
    BY <2>1 DEF New, Query, Stages
<1>2. /\ r.stage = "ready" /\ r.kind = kind /\ r.file = live
      /\ acked' \subseteq Row
  BY DEF New, Open, IInv, TypeOK
<1>3. r.file \in DOMAIN files /\ r.file # temp
  BY <1>2 DEF IInv, TypeOK, TempApart
<1>4. q \in Readers => kind = "select"
  BY DEF Open
<1> HIDE DEF r
<1>5. query' = [query EXCEPT ![q] = r] /\ UNCHANGED <<files, live, temp, inserted>>
  BY DEF Open, r
<1>6. QED
  BY <1>1, <1>2, <1>3, <1>4, <1>5, QueryStepKeeps

\* The rows to append get the next numbers.
LEMMA ValuesKeeps ==
  ASSUME IInv, NEW q \in Queries, NEW keys \in Batches, Values(q, keys)
  PROVE  IInv'
<1> DEFINE rows == [i \in DOMAIN keys |-> [serial |-> inserted + i - 1, key |-> keys[i]]]
           r    == Next1(q, "append", 0, rows, {})
<1>1. PICK n \in 1 .. 2 : keys \in [1 .. n -> Keys]
  BY DEF Batches
<1>2. DOMAIN rows = 1 .. n /\ inserted \in Nat
  BY <1>1 DEF IInv, TypeOK
<1>3. \A i \in 1 .. n : rows[i] \in Row /\ rows[i].serial = inserted + i - 1
  BY <1>1, <1>2 DEF Row
<1>4. rows \in Seq(Row) /\ Len(rows) = n
  <2>1. rows \in [1 .. n -> Row]
    <3>1. \A i \in 1 .. n : [serial |-> inserted + i - 1, key |-> keys[i]] \in Row
      BY <1>1, <1>2 DEF Row
    <3>2. DOMAIN keys = 1 .. n
      BY <1>1
    <3>3. QED
      BY <3>1, <3>2
  <2> HIDE DEF rows
  <2>2. QED
    BY <1>1, <2>1, SeqDef, LenProperties
<1> HIDE DEF rows
<1>5. r \in Query /\ query' = [query EXCEPT ![q] = r]
  BY <1>4, NextType DEF IInv, Values, Stages, rows
<1>6. /\ r.stage = "append" /\ r.kind = query[q].kind /\ r.file = query[q].file
      /\ r.at = 0 /\ r.todo = rows
  BY DEF Next1
<1>7. query[q].kind = "insert" /\ (q \in Writers => \A w \in Writers : ~Busy(w))
  BY DEF Values, Is, MayCall
<1>8. r.file \in DOMAIN files /\ r.file # temp
  BY <1>6 DEF IInv, TempApart
<1>9. q \notin Readers
  BY <1>7 DEF IInv, KindsFit, Is
<1>10. acked' \subseteq Row /\ UNCHANGED <<files, live, temp, inserted>>
  BY DEF Values, IInv, TypeOK
<1>11. /\ r.at < Len(r.todo)
       /\ \A i \in r.at + 1 .. Len(r.todo) : r.todo[i].serial = inserted + i - (r.at + 1)
  BY <1>1, <1>2, <1>3, <1>4, <1>6
<1> HIDE DEF r
<1>12. QED
  BY <1>5, <1>6, <1>7, <1>8, <1>9, <1>10, <1>11, QueryStepKeeps

\* A scan begins at the first line.
LEMMA DoneKeeps ==
  ASSUME IInv, NEW q \in Queries, Done(q)
  PROVE  IInv'
<1> DEFINE r == Next1(q, "scan", 0, <<>>, {})
<1>1. r \in Query /\ query' = [query EXCEPT ![q] = r]
  <2>1. "scan" \in Stages /\ {} \in SUBSET [at : Nat, row : Row] /\ TypeOK
    BY QueryParts DEF Stages, IInv
  <2>2. query' = Moved(q, "scan", 0, <<>>, {})
    BY DEF Done
  <2>3. QED
    BY <2>1, <2>2, NextIdle
<1>2. r.stage = "scan" /\ r.kind = query[q].kind /\ r.file = query[q].file
  BY DEF Next1
<1>3. r.kind \in {"select", "delete", "update"} /\ (q \in Readers => r.kind = "select")
  BY <1>2 DEF Done, IInv, KindsFit, Is
<1>4. q \in Writers => \A w \in Writers : ~Busy(w)
  BY DEF Done, MayCall
<1>5. r.file \in DOMAIN files /\ r.file # temp
  BY <1>2 DEF IInv, TempApart
<1>6. acked' \subseteq Row /\ UNCHANGED <<files, live, temp, inserted>>
  BY DEF Done, IInv, TypeOK
<1> HIDE DEF r
<1>7. QED
  BY <1>1, <1>2, <1>3, <1>4, <1>5, <1>6, QueryStepKeeps

\* A line read is noted or not.
LEMMA ScanLineKeeps ==
  ASSUME IInv, NEW q \in Queries, ScanLine(q)
  PROVE  IInv'
<1> DEFINE row == Content(q)[query[q].at + 1]
           more == IF row.key \in query[q].cond THEN {FoundAt(query[q].at, row)} ELSE {}
           found == query[q].found \cup more
           r == Next1(q, "scan", query[q].at + 1, <<>>, found)
<1>1. query[q].at \in Nat /\ query[q].found \in SUBSET [at : Nat, row : Row]
  BY QueryParts DEF IInv
<1>2. row \in Row
  <2>1. Content(q) \in Seq(Row) /\ DOMAIN Content(q) = 1 .. Len(Content(q)) /\ Len(Content(q)) \in Nat
    BY FileParts DEF IInv, TempApart, Content
  <2>2. query[q].at + 1 \in DOMAIN Content(q)
    BY <1>1, <2>1 DEF ScanLine
  <2>3. QED
    BY <2>1, <2>2, ElementOfSeq
<1>3. found \in SUBSET [at : Nat, row : Row]
  BY <1>1, <1>2 DEF FoundAt
<1>4. query' = Moved(q, "scan", query[q].at + 1, <<>>, found)
  BY DEF ScanLine
<1> HIDE DEF row, found
<1>5. r \in Query /\ query' = [query EXCEPT ![q] = r]
  <2>1. "scan" \in Stages /\ query[q].at + 1 \in Nat /\ TypeOK
    BY <1>1 DEF Stages, IInv
  <2>2. QED
    BY <1>3, <1>4, <2>1, NextIdle
<1>6. r.stage = "scan" /\ r.kind = query[q].kind /\ r.file = query[q].file
  BY DEF Next1
<1>7. r.kind \in {"select", "delete", "update"} /\ (q \in Readers => r.kind = "select")
  BY <1>6 DEF ScanLine, IInv, KindsFit, Is, At
<1>8. Busy(q)
  BY DEF ScanLine, At, Busy
<1>9. r.file \in DOMAIN files /\ r.file # temp
  BY <1>6 DEF IInv, TempApart
<1>10. acked' \subseteq Row /\ UNCHANGED <<files, live, temp, inserted>>
  BY DEF ScanLine, IInv, TypeOK
<1> HIDE DEF r
<1>11. QED
  BY <1>5, <1>6, <1>7, <1>8, <1>9, <1>10, QueryStepKeeps

\* A scan that ends leaves the handle where it is.
LEMMA ScanEndKeeps ==
  ASSUME IInv, NEW q \in Queries, ScanEnd(q)
  PROVE  IInv'
<1> DEFINE r == Next1(q, "ready", 0, <<>>, query[q].found)
<1>1. r \in Query /\ query' = [query EXCEPT ![q] = r]
  <2>1. "ready" \in Stages /\ query[q].found \in SUBSET [at : Nat, row : Row] /\ TypeOK
    BY QueryParts DEF Stages, IInv
  <2>2. query' = Moved(q, "ready", 0, <<>>, query[q].found)
    BY DEF ScanEnd
  <2>3. QED
    BY <2>1, <2>2, NextIdle
<1>2. r.stage = "ready" /\ r.kind = query[q].kind /\ r.file = query[q].file
  BY DEF Next1
<1>3. q \in Readers => r.kind = "select"
  BY <1>2 DEF IInv, KindsFit, Is
<1>4. r.file \in DOMAIN files /\ r.file # temp
  BY <1>2 DEF IInv, TempApart
<1>5. acked' \subseteq Row /\ UNCHANGED <<files, live, temp, inserted>>
  BY EffectKeeps DEF ScanEnd, IInv, TypeOK
<1> HIDE DEF r
<1>6. QED
  BY <1>1, <1>2, <1>3, <1>4, <1>5, QueryStepKeeps

\* The handle constructed again is on the path.
LEMMA ReopenKeeps ==
  ASSUME IInv, NEW q \in Queries, Reopen(q)
  PROVE  IInv'
<1> DEFINE r == New("ready", query[q].kind, query[q].cond, query[q].key, live)
<1>1. r \in Query
  <2>1. live \in Nat /\ <<>> \in Seq(Row)
    BY FileParts, EmptySeq DEF IInv, TypeOK
  <2>2. QED
    BY <2>1, QueryParts DEF New, Query, Stages, IInv
<1>2. r.stage = "ready" /\ r.kind = query[q].kind /\ r.file = live
  BY DEF New
<1>3. q \in Readers => r.kind = "select"
  BY <1>2 DEF IInv, KindsFit, Is
<1>4. r.file \in DOMAIN files /\ r.file # temp
  BY <1>2 DEF IInv, TypeOK, TempApart
<1>5. acked' \subseteq Row /\ UNCHANGED <<files, live, temp, inserted>>
  BY EffectKeeps DEF Reopen, IInv, TypeOK
<1>6. query' = [query EXCEPT ![q] = r]
  BY DEF Reopen
<1> HIDE DEF r
<1>7. QED
  BY <1>1, <1>2, <1>3, <1>4, <1>5, <1>6, QueryStepKeeps

\* Whoever appends or copies writes, and while one of the process's queries is in
\* a call, or starts one, no other appends or copies.
LEMMA Alone ==
  ASSUME IInv, NEW q \in Queries, Busy(q) \/ MayCall(q), ~Is(q, "select")
  PROVE  /\ q \in Writers
         /\ \A p \in Queries \ {q} : ~At(p, "append") /\ ~At(p, "copy")
<1>1. q \in Writers
  BY DEF IInv, KindsFit, Is, Queries
<1>2. ASSUME NEW p \in Queries, p # q, At(p, "append") \/ At(p, "copy")
      PROVE  FALSE
  <2>1. p \in Writers
    BY <1>2 DEF IInv, KindsFit, Is, At, Queries
  <2>2. Busy(p)
    BY <1>2 DEF At, Busy
  <2>3. QED
    BY <1>1, <1>2, <2>1, <2>2 DEF IInv, OneCall, MayCall
<1>3. QED
  BY <1>1, <1>2

\* A number below another is the one before it or further below.
LEMMA LessNext == ASSUME NEW a \in Nat, NEW b \in Nat, a < b, a + 1 # b PROVE a + 1 < b
  OBVIOUS

\* Appending the next row keeps a file in order.
LEMMA AppendInOrder ==
  ASSUME NEW s \in Seq(Row), NEW row \in Row,
         \A i, j \in DOMAIN s : i < j => s[i].serial < s[j].serial,
         \A i \in DOMAIN s : s[i].serial < row.serial,
         NEW n \in Nat, row.serial < n
  PROVE  /\ Append(s, row) \in Seq(Row)
         /\ \A i, j \in DOMAIN Append(s, row) :
              i < j => Append(s, row)[i].serial < Append(s, row)[j].serial
         /\ \A i \in DOMAIN Append(s, row) : Append(s, row)[i].serial < n
<1> DEFINE t == Append(s, row)
<1>1. /\ t \in Seq(Row) /\ Len(s) \in Nat /\ DOMAIN s = 1 .. Len(s)
      /\ DOMAIN t = 1 .. Len(s) + 1
      /\ t[Len(s) + 1] = row
      /\ \A i \in 1 .. Len(s) : t[i] = s[i]
  <2>1. t \in Seq(Row) /\ Len(t) = Len(s) + 1
    BY AppendProperties
  <2>2. t[Len(s) + 1] = row /\ \A i \in 1 .. Len(s) : t[i] = s[i]
    BY AppendProperties
  <2>3. QED
    BY <2>1, <2>2, LenProperties
<1> HIDE DEF t
<1>2. row.serial \in Nat /\ \A i \in 1 .. Len(s) : s[i].serial \in Nat
  <2>1. \A i \in 1 .. Len(s) : s[i] \in Row
    BY <1>1, ElementOfSeq
  <2>2. QED
    BY <2>1 DEF Row
<1>3. \A i, j \in DOMAIN t : i < j => t[i].serial < t[j].serial
  BY <1>1, <1>2
<1>4. \A i \in DOMAIN t : t[i].serial < n
  BY <1>1, <1>2
<1>5. QED
  BY <1>1, <1>3, <1>4 DEF t

-----------------------------------------------------------------------------
\* A row appended, by a stale handle too, has a number above all others.
LEMMA AppendRowKeeps ==
  ASSUME IInv, NEW q \in Queries, AppendRow(q)
  PROVE  IInv'
<1> DEFINE f    == query[q].file
           at   == query[q].at
           todo == query[q].todo
           row  == todo[at + 1]
           last == (at + 1 = Len(todo))
           s    == Append(files[f], row)
           r    == IF last THEN Next1(q, "ready", 0, <<>>, {}) ELSE Next1(q, "append", at + 1, todo, {})
<1>1. /\ at \in Nat /\ todo \in Seq(Row) /\ Len(todo) \in Nat /\ DOMAIN todo = 1 .. Len(todo)
      /\ at < Len(todo) /\ inserted \in Nat
  BY QueryParts, LenProperties DEF IInv, TypeOK, Numbered, AppendRow
<1>2. row \in Row /\ row.serial = inserted
  <2>1. at + 1 \in DOMAIN todo /\ at + 1 \in at + 1 .. Len(todo)
    BY <1>1
  <2>2. row.serial = inserted + (at + 1) - (at + 1)
    BY <2>1 DEF IInv, Numbered, AppendRow
  <2>3. row.serial = inserted
    BY <1>1, <2>2
  <2>4. row \in Row
    <3> HIDE DEF at, todo
    <3>1. QED
      BY <1>1, <2>1, ElementOfSeq
  <2>5. QED
    BY <2>3, <2>4
<1>3. f \in DOMAIN files /\ f # temp
  BY DEF IInv, TempApart
<1>4. /\ q \in Writers /\ At(q, "append") /\ Is(q, "insert")
      /\ \A p \in Queries \ {q} : ~At(p, "append") /\ ~At(p, "copy")
  BY Alone DEF AppendRow, IInv, KindsFit, At, Is, Busy
<1>5. query' = IF last THEN Moved(q, "ready", 0, <<>>, {}) ELSE Moved(q, "append", at + 1, todo, {})
  BY DEF AppendRow
<1>6. files' = [files EXCEPT ![f] = s] /\ inserted' = inserted + 1 /\ UNCHANGED <<live, temp>>
  BY DEF AppendRow
<1>7. acked' \subseteq Row
  <2>1. acked' = acked \/ acked' = acked \cup ToSet(todo)
    BY DEF AppendRow
  <2>2. ToSet(todo) \subseteq Row
    BY <1>1, ElementOfSeq DEF ToSet
  <2>3. QED
    BY <2>1, <2>2 DEF IInv, TypeOK
<1> HIDE DEF row, s
<1>8. r \in Query /\ query' = [query EXCEPT ![q] = r]
  <2>1. /\ "ready" \in Stages /\ "append" \in Stages /\ 0 \in Nat /\ at + 1 \in Nat
        /\ {} \in SUBSET [at : Nat, row : Row] /\ TypeOK
    BY <1>1 DEF Stages, IInv
  <2>2. CASE last
    BY <2>1, <2>2, <1>5, NextIdle
  <2>3. CASE ~last
    BY <1>1, <2>1, <2>3, <1>5, NextType
  <2>4. QED
    BY <2>2, <2>3
<1>9. /\ r.file = f /\ r.kind = query[q].kind /\ r.stage \in {"ready", "append"}
      /\ r.stage = "append" => ~last /\ r.at = at + 1 /\ r.todo = todo
  BY DEF Next1
<1> HIDE DEF r, f, at, todo
<1>10. /\ query' \in [Queries -> Query] /\ query'[q] = r
       /\ \A p \in Queries \ {q} : query'[p] = query[p]
  BY <1>8, OthersStay DEF IInv
<1>11. /\ files[f] \in Seq(Row)
       /\ \A i, j \in DOMAIN files[f] : i < j => files[f][i].serial < files[f][j].serial
       /\ \A i \in DOMAIN files[f] : files[f][i].serial < inserted
  BY <1>3, FileParts DEF IInv, InOrder, Numbered
<1>12. /\ s \in Seq(Row)
       /\ \A i, j \in DOMAIN s : i < j => s[i].serial < s[j].serial
       /\ \A i \in DOMAIN s : s[i].serial < inserted + 1
  <2>1. inserted + 1 \in Nat /\ row.serial < inserted + 1
    BY <1>1, <1>2
  <2>2. \A i \in DOMAIN files[f] : files[f][i].serial < row.serial
    BY <1>2, <1>11
  <2>3. QED
    BY <1>2, <1>11, <2>1, <2>2, AppendInOrder DEF s
<1>13. /\ files' \in Seq(Seq(Row)) /\ DOMAIN files' = DOMAIN files /\ files'[f] = s
       /\ \A g \in DOMAIN files \ {f} : files'[g] = files[g]
  BY <1>3, <1>6, <1>12, FileWritten DEF IInv
<1>14. TypeOK'
  BY <1>1, <1>6, <1>7, <1>10, <1>13 DEF IInv, TypeOK
<1>15. OneCall'
  BY <1>4, <1>10 DEF IInv, OneCall, Busy, At, Queries
<1>16. KindsFit'
  BY <1>4, <1>9, <1>10 DEF IInv, KindsFit, Is, At
<1>17. TempApart'
  BY <1>6, <1>9, <1>10, <1>13, <1>3 DEF IInv, TempApart
<1>18. Numbered'
  <2>1. \A g \in DOMAIN files : \A i \in DOMAIN files[g] :
          files[g][i].serial \in Nat /\ files[g][i].serial < inserted
    BY FileParts DEF IInv, Numbered, Row
  <2>2. \A g \in DOMAIN files' : \A i \in DOMAIN files'[g] : files'[g][i].serial < inserted'
    BY <1>1, <1>6, <1>12, <1>13, <2>1
  <2>3. ASSUME r.stage = "append"
        PROVE  /\ r.at < Len(r.todo)
               /\ \A i \in r.at + 1 .. Len(r.todo) :
                    r.todo[i].serial = inserted' + i - (r.at + 1)
    <3>1. \A i \in at + 1 .. Len(todo) : todo[i].serial = inserted + i - (at + 1)
      BY <1>4 DEF IInv, Numbered, todo, at
    <3>2. \A i \in at + 2 .. Len(todo) :
            inserted + i - (at + 1) = inserted + 1 + i - (at + 2)
      BY <1>1
    <3>3. at + 1 + 1 = at + 2 /\ at + 2 .. Len(todo) \subseteq at + 1 .. Len(todo)
      BY <1>1
    <3>4. at + 1 < Len(todo)
      <4>1. at + 1 # Len(todo)
        BY <1>9, <2>3
      <4>2. QED
        BY <1>1, <4>1, LessNext
    <3>5. QED
      BY <1>6, <1>9, <2>3, <3>1, <3>2, <3>3, <3>4
  <2>4. QED
    BY <1>4, <1>10, <2>2, <2>3 DEF Numbered, At
<1>19. CopyBehind'
  BY <1>4, <1>9, <1>10 DEF CopyBehind, At
<1>20. InOrder'
  BY <1>12, <1>13 DEF IInv, InOrder
<1>21. QED
  BY <1>14, <1>15, <1>16, <1>17, <1>18, <1>19, <1>20 DEF IInv

\* A file cut to nothing is in order.
LEMMA TruncateKeeps ==
  ASSUME IInv, NEW q \in Queries, Truncate(q)
  PROVE  IInv'
<1> DEFINE f == query[q].file
<1>1. f \in DOMAIN files /\ f # temp
  BY DEF IInv, TempApart
<1>2. /\ q \in Writers /\ ~At(q, "append") /\ ~At(q, "copy")
      /\ \A p \in Queries \ {q} : ~At(p, "append") /\ ~At(p, "copy")
  BY Alone DEF Truncate, MayCall, Is, At
<1>3. PICK s \in Seq(Row) : s = <<>>
  BY EmptySeq
<1>4. files' = [files EXCEPT ![f] = s] /\ acked' = {} /\ UNCHANGED <<live, temp, query, inserted>>
  BY <1>3 DEF Truncate
<1>5. DOMAIN s = {}
  BY <1>3
<1> HIDE DEF f
<1>6. /\ files' \in Seq(Seq(Row)) /\ DOMAIN files' = DOMAIN files /\ files'[f] = s
      /\ \A g \in DOMAIN files \ {f} : files'[g] = files[g]
  BY <1>1, <1>4, FileWritten DEF IInv
<1>7. TypeOK'
  BY <1>4, <1>6 DEF IInv, TypeOK
<1>8. OneCall' /\ KindsFit'
  BY <1>4 DEF IInv, OneCall, KindsFit, Busy, Is, At
<1>9. TempApart'
  BY <1>4, <1>6 DEF IInv, TempApart
<1>10. Numbered'
  BY <1>2, <1>4, <1>5, <1>6 DEF IInv, Numbered, At
<1>11. CopyBehind'
  BY <1>2, <1>4 DEF CopyBehind, At
<1>12. InOrder'
  BY <1>5, <1>6 DEF IInv, InOrder
<1>13. QED
  BY <1>7, <1>8, <1>9, <1>10, <1>11, <1>12 DEF IInv

\* A rewrite begins with an empty file, new or left by a crash.
LEMMA StartRewriteKeeps ==
  ASSUME IInv, NEW q \in Queries, StartRewrite(q)
  PROVE  IInv'
<1> DEFINE r == Next1(q, "copy", 0, <<>>, query[q].found)
<1>1. r \in Query /\ query' = [query EXCEPT ![q] = r]
  <2>1. "copy" \in Stages /\ query[q].found \in SUBSET [at : Nat, row : Row] /\ TypeOK
    BY QueryParts DEF Stages, IInv
  <2>2. query' = Moved(q, "copy", 0, <<>>, query[q].found)
    BY DEF StartRewrite
  <2>3. QED
    BY <2>1, <2>2, NextIdle
<1>2. r.stage = "copy" /\ r.kind = query[q].kind /\ r.file = query[q].file /\ r.at = 0
  BY DEF Next1
<1> HIDE DEF r
<1>3. /\ query' \in [Queries -> Query] /\ query'[q] = r
      /\ \A p \in Queries \ {q} : query'[p] = query[p]
  BY <1>1, OthersStay DEF IInv
<1>4. /\ q \in Writers /\ At(q, "scan") /\ query[q].kind \in {"delete", "update"}
      /\ \A p \in Queries \ {q} : ~At(p, "append") /\ ~At(p, "copy")
  BY Alone DEF StartRewrite, IInv, KindsFit, At, Is, Busy
<1>5. /\ live \in DOMAIN files /\ live # temp /\ temp # 1
      /\ \A p \in Queries : query[p].file \in DOMAIN files /\ query[p].file # temp
  BY DEF IInv, TypeOK, TempApart
<1>6. /\ files' \in Seq(Seq(Row)) /\ DOMAIN files \subseteq DOMAIN files'
      /\ temp' \in DOMAIN files' /\ DOMAIN files'[temp'] = {}
      /\ \A g \in DOMAIN files' \ {temp'} : g \in DOMAIN files /\ files'[g] = files[g]
      /\ live # temp' /\ temp' # 1 /\ \A p \in Queries : query[p].file # temp'
  <2>1. CASE temp = None
    <3>1. files' = Append(files, <<>>) /\ temp' = Len(files) + 1
      BY <2>1 DEF StartRewrite
    <3>2. /\ files' \in Seq(Seq(Row)) /\ DOMAIN files' = DOMAIN files \cup {temp'}
          /\ temp' \notin DOMAIN files /\ files'[temp'] = <<>>
          /\ \A g \in DOMAIN files : files'[g] = files[g]
      BY <3>1, FileMade DEF IInv
    <3>3. temp' # 1
      <4>1. Len(files) \in Nat /\ DOMAIN files = 1 .. Len(files)
        BY LenProperties DEF IInv, TypeOK
      <4>2. QED
        BY <1>5, <3>1, <4>1
    <3>4. QED
      BY <1>5, <3>2, <3>3
  <2>2. CASE temp # None
    <3>1. PICK s \in Seq(Row) : s = <<>>
      BY EmptySeq
    <3>2. files' = [files EXCEPT ![temp] = s] /\ temp' = temp /\ temp \in DOMAIN files
      BY <2>2, <3>1 DEF StartRewrite, IInv, TypeOK
    <3>3. /\ files' \in Seq(Seq(Row)) /\ DOMAIN files' = DOMAIN files /\ files'[temp] = s
          /\ \A g \in DOMAIN files \ {temp} : files'[g] = files[g]
      BY <3>2, FileWritten DEF IInv
    <3>4. DOMAIN s = {}
      BY <3>1
    <3>5. QED
      BY <1>5, <3>2, <3>3, <3>4
  <2>3. QED
    BY <2>1, <2>2
<1>7. UNCHANGED <<live, inserted, acked>>
  BY DEF StartRewrite
<1>8. TypeOK'
  BY <1>3, <1>5, <1>6, <1>7 DEF IInv, TypeOK
<1>9. OneCall'
  BY <1>3, <1>4 DEF IInv, OneCall, Busy, At, Queries
<1>10. KindsFit'
  BY <1>2, <1>3, <1>4 DEF IInv, KindsFit, Is, At
<1>11. TempApart'
  BY <1>2, <1>3, <1>5, <1>6, <1>7 DEF TempApart
<1>12. Numbered'
  <2>1. \A g \in DOMAIN files' : \A i \in DOMAIN files'[g] : files'[g][i].serial < inserted'
    BY <1>6, <1>7 DEF IInv, Numbered
  <2>2. QED
    BY <1>2, <1>3, <1>4, <2>1 DEF Numbered, At
<1>13. CopyBehind'
  <2>1. temp' # None
    BY <1>6, NoneAssumption, LenProperties
  <2>2. files'[r.file] \in Seq(Row)
    BY <1>2, <1>5, <1>6, ElementOfSeq, LenProperties
  <2>3. r.at <= Len(files'[r.file])
    BY <1>2, <2>2, LenProperties
  <2>4. \A p \in Queries : query'[p].stage = "copy" => p = q
    BY <1>3, <1>4 DEF At
  <2>5. \A i \in DOMAIN files'[temp'] :
          \E j \in 1 .. r.at : files'[temp'][i].serial = files'[r.file][j].serial
    BY <1>6
  <2>6. QED
    BY <1>3, <2>1, <2>3, <2>4, <2>5 DEF CopyBehind, At, Content
<1>14. InOrder'
  BY <1>6 DEF IInv, InOrder
<1>15. QED
  BY <1>8, <1>9, <1>10, <1>11, <1>12, <1>13, <1>14 DEF IInv

\* What a line becomes is nothing, or one row with its number.
LEMMA CopiedRow ==
  ASSUME TypeOK, NEW q \in Queries, NEW row \in Row, NEW s \in Seq(Row)
  PROVE  \/ s \o Copied(q, row) = s
         \/ \E c \in Row : c.serial = row.serial /\ s \o Copied(q, row) = Append(s, c)
<1>1. Copied(q, row) = <<>> \/ \E c \in Row : c.serial = row.serial /\ Copied(q, row) = <<c>>
  <2>1. [serial |-> row.serial, key |-> query[q].key] \in Row
    BY QueryParts DEF Row
  <2>2. QED
    BY <2>1 DEF Copied
<1>2. CASE Copied(q, row) = <<>>
  BY <1>2, ConcatEmptySeq
<1>3. ASSUME NEW c \in Row, c.serial = row.serial, Copied(q, row) = <<c>>
      PROVE  s \o Copied(q, row) = Append(s, c)
  BY <1>3, AppendIsConcat
<1>4. QED
  BY <1>1, <1>2, <1>3

\* A line copied comes behind the lines copied before it.
LEMMA CopyLineKeeps ==
  ASSUME IInv, NEW q \in Queries, CopyLine(q)
  PROVE  IInv'
<1> DEFINE f   == query[q].file
           at  == query[q].at
           row == files[f][at + 1]
           s   == files[temp] \o Copied(q, row)
           r   == Next1(q, "copy", at + 1, <<>>, query[q].found)
<1>1. at \in Nat /\ query[q].found \in SUBSET [at : Nat, row : Row]
  BY QueryParts DEF IInv
<1>2. r \in Query /\ query' = [query EXCEPT ![q] = r]
  <2>1. "copy" \in Stages /\ at + 1 \in Nat /\ TypeOK
    BY <1>1 DEF Stages, IInv
  <2>2. query' = Moved(q, "copy", at + 1, <<>>, query[q].found)
    BY DEF CopyLine
  <2>3. QED
    BY <1>1, <2>1, <2>2, NextIdle
<1>3. r.stage = "copy" /\ r.kind = query[q].kind /\ r.file = f /\ r.at = at + 1
  BY DEF Next1
<1> HIDE DEF r
<1>4. /\ query' \in [Queries -> Query] /\ query'[q] = r
      /\ \A p \in Queries \ {q} : query'[p] = query[p]
  BY <1>2, OthersStay DEF IInv
<1>5. /\ q \in Writers /\ At(q, "copy") /\ query[q].kind \in {"delete", "update"}
      /\ \A p \in Queries \ {q} : ~At(p, "append") /\ ~At(p, "copy")
  BY Alone DEF CopyLine, IInv, KindsFit, At, Is, Busy
<1>6. /\ temp \in DOMAIN files /\ f \in DOMAIN files /\ f # temp
      /\ \A i \in DOMAIN files[temp] : \E j \in 1 .. at : files[temp][i].serial = files[f][j].serial
  BY <1>5 DEF IInv, CopyBehind, TempApart, TypeOK, Content
<1>7. /\ files[f] \in Seq(Row) /\ Len(files[f]) \in Nat /\ DOMAIN files[f] = 1 .. Len(files[f])
      /\ files[temp] \in Seq(Row)
      /\ \A i \in DOMAIN files[f] : files[f][i] \in Row
  BY <1>6, FileParts DEF IInv
<1>8. at < Len(files[f]) /\ at + 1 \in DOMAIN files[f] /\ row \in Row
  <2>1. at < Len(files[f])
    BY DEF CopyLine, Content
  <2>2. at + 1 \in DOMAIN files[f]
    BY <1>1, <1>7, <2>1
  <2>3. QED
    BY <1>7, <2>1, <2>2
<1>9. files' = [files EXCEPT ![temp] = s] /\ UNCHANGED <<live, temp, inserted, acked>>
  BY DEF CopyLine, Content
<1>10. /\ \A j \in 1 .. at + 1 : files[f][j].serial \in Nat /\ files[f][j].serial < inserted
       /\ \A j \in 1 .. at : files[f][j].serial < row.serial
       /\ inserted \in Nat
  <2>1. \A j \in 1 .. at + 1 : j \in DOMAIN files[f]
    BY <1>1, <1>7, <1>8
  <2>2. \A j \in 1 .. at : j \in DOMAIN files[f] /\ j < at + 1
    BY <1>1, <2>1
  <2>3. \A j \in 1 .. at + 1 : files[f][j] \in Row
    BY <1>7, <2>1
  <2>4. \A j \in 1 .. at : files[f][j].serial < row.serial
    BY <1>6, <1>8, <2>2 DEF IInv, InOrder
  <2>5. QED
    BY <1>6, <2>1, <2>3, <2>4 DEF IInv, Numbered, TypeOK, Row
<1>11. /\ s \in Seq(Row)
       /\ \A i, j \in DOMAIN s : i < j => s[i].serial < s[j].serial
       /\ \A i \in DOMAIN s : s[i].serial < inserted
       /\ \A i \in DOMAIN s : \E j \in 1 .. at + 1 : s[i].serial = files[f][j].serial
  <2> DEFINE t == files[temp]
  <2>1. /\ t \in Seq(Row)
        /\ \A i, j \in DOMAIN t : i < j => t[i].serial < t[j].serial
        /\ \A i \in DOMAIN t : t[i].serial < inserted
        /\ \A i \in DOMAIN t : \E j \in 1 .. at : t[i].serial = files[f][j].serial
    BY <1>6, <1>7 DEF IInv, InOrder, Numbered
  <2>2. \A i \in DOMAIN t : \E j \in 1 .. at + 1 : t[i].serial = files[f][j].serial
    <3>1. 1 .. at \subseteq 1 .. at + 1
      BY <1>1
    <3>2. QED
      BY <2>1, <3>1
  <2>3. s = t \/ \E c \in Row : c.serial = row.serial /\ s = Append(t, c)
    BY <1>7, <1>8, CopiedRow DEF IInv
  <2> HIDE DEF t, s
  <2>4. CASE s = t
    BY <2>1, <2>2, <2>4
  <2>5. ASSUME NEW c \in Row, c.serial = row.serial, s = Append(t, c)
        PROVE  /\ s \in Seq(Row)
               /\ \A i, j \in DOMAIN s : i < j => s[i].serial < s[j].serial
               /\ \A i \in DOMAIN s : s[i].serial < inserted
               /\ \A i \in DOMAIN s : \E j \in 1 .. at + 1 : s[i].serial = files[f][j].serial
    <3>1. \A i \in DOMAIN t : t[i].serial < c.serial
      BY <1>10, <2>1, <2>5
    <3>2. c.serial < inserted /\ inserted \in Nat /\ at + 1 \in 1 .. at + 1
      BY <1>1, <1>10, <2>5
    <3>3. /\ s \in Seq(Row)
          /\ \A i, j \in DOMAIN s : i < j => s[i].serial < s[j].serial
          /\ \A i \in DOMAIN s : s[i].serial < inserted
      BY <2>1, <2>5, <3>1, <3>2, AppendInOrder
    <3>4. \A i \in DOMAIN s : (i \in DOMAIN t /\ s[i] = t[i]) \/ s[i] = c
      <4>1. /\ Len(t) \in Nat /\ DOMAIN t = 1 .. Len(t) /\ DOMAIN s = 1 .. Len(s)
            /\ Len(s) = Len(t) + 1
        BY <2>1, <2>5, <3>3, AppendProperties, LenProperties
      <4>2. s[Len(t) + 1] = c /\ \A i \in 1 .. Len(t) : s[i] = t[i]
        BY <2>1, <2>5, AppendProperties
      <4>3. QED
        BY <4>1, <4>2
    <3>5. \A i \in DOMAIN s : \E j \in 1 .. at + 1 : s[i].serial = files[f][j].serial
      BY <2>2, <2>5, <3>2, <3>4
    <3>6. QED
      BY <3>3, <3>5
  <2>6. QED
    BY <2>3, <2>4, <2>5
<1> HIDE DEF s
<1>12. /\ files' \in Seq(Seq(Row)) /\ DOMAIN files' = DOMAIN files /\ files'[temp] = s
       /\ \A g \in DOMAIN files \ {temp} : files'[g] = files[g]
  BY <1>6, <1>9, <1>11, FileWritten DEF IInv
<1>13. TypeOK'
  BY <1>4, <1>9, <1>12 DEF IInv, TypeOK
<1>14. OneCall'
  BY <1>4, <1>5 DEF IInv, OneCall, Busy, At, Queries
<1>15. KindsFit'
  BY <1>3, <1>4, <1>5 DEF IInv, KindsFit, Is, At
<1>16. TempApart'
  <2>1. /\ live # temp /\ temp # 1
        /\ \A p \in Queries : query[p].file \in DOMAIN files /\ query[p].file # temp
    BY DEF IInv, TempApart
  <2>2. \A p \in Queries : query'[p].file = query[p].file
    BY <1>3, <1>4
  <2>3. QED
    BY <1>9, <1>12, <2>1, <2>2 DEF TempApart
<1>17. Numbered'
  <2>1. \A g \in DOMAIN files' : \A i \in DOMAIN files'[g] : files'[g][i].serial < inserted'
    BY <1>9, <1>11, <1>12 DEF IInv, Numbered
  <2>2. QED
    BY <1>3, <1>4, <1>5, <2>1 DEF Numbered, At
<1>18. CopyBehind'
  <2>1. temp' # None
    BY <1>5, <1>9 DEF IInv, CopyBehind
  <2>2. r.at <= Len(files'[r.file])
    BY <1>1, <1>3, <1>6, <1>7, <1>8, <1>12
  <2>3. \A i \in DOMAIN files'[temp'] :
          \E j \in 1 .. r.at : files'[temp'][i].serial = files'[r.file][j].serial
    BY <1>3, <1>6, <1>9, <1>11, <1>12
  <2>4. QED
    BY <1>4, <1>5, <2>1, <2>2, <2>3 DEF CopyBehind, At, Content
<1>19. InOrder'
  BY <1>11, <1>12 DEF IInv, InOrder
<1>20. QED
  BY <1>13, <1>14, <1>15, <1>16, <1>17, <1>18, <1>19 DEF IInv

\* The path gets the written file, which no handle is on.
LEMMA RenameKeeps ==
  ASSUME IInv, NEW q \in Queries, Rename(q)
  PROVE  IInv'
<1> DEFINE r == Next1(q, "reopen", 0, <<>>, {})
<1>1. r \in Query /\ query' = [query EXCEPT ![q] = r]
  <2>1. "reopen" \in Stages /\ {} \in SUBSET [at : Nat, row : Row] /\ TypeOK
    BY DEF Stages, IInv
  <2>2. query' = Moved(q, "reopen", 0, <<>>, {})
    BY DEF Rename
  <2>3. QED
    BY <2>1, <2>2, NextIdle
<1>2. r.stage = "reopen" /\ r.kind = query[q].kind /\ r.file = query[q].file
  BY DEF Next1
<1> HIDE DEF r
<1>3. /\ query' \in [Queries -> Query] /\ query'[q] = r
      /\ \A p \in Queries \ {q} : query'[p] = query[p]
  BY <1>1, OthersStay DEF IInv
<1>4. /\ q \in Writers /\ At(q, "copy") /\ query[q].kind \in {"delete", "update"}
      /\ \A p \in Queries \ {q} : ~At(p, "append") /\ ~At(p, "copy")
  BY Alone DEF Rename, IInv, KindsFit, At, Is, Busy
<1>5. temp \in DOMAIN files
  BY <1>4 DEF IInv, CopyBehind, TypeOK
<1>6. live' = temp /\ temp' = None /\ UNCHANGED <<files, inserted, acked>>
  BY DEF Rename
<1>7. TypeOK'
  BY <1>3, <1>5, <1>6 DEF IInv, TypeOK
<1>8. OneCall'
  BY <1>3, <1>4 DEF IInv, OneCall, Busy, At, Queries
<1>9. KindsFit'
  BY <1>2, <1>3, <1>4 DEF IInv, KindsFit, Is, At
<1>10. TempApart'
  <2>1. \A f \in DOMAIN files : f \in Nat
    BY LenProperties DEF IInv, TypeOK
  <2>2. None \notin DOMAIN files /\ None # 1
    BY <2>1, NoneAssumption
  <2>3. \A p \in Queries : query'[p].file = query[p].file
    BY <1>2, <1>3
  <2>4. \A p \in Queries : query[p].file \in DOMAIN files
    BY DEF IInv, TempApart
  <2>5. QED
    BY <1>5, <1>6, <2>2, <2>3, <2>4 DEF TempApart
<1>11. Numbered'
  <2>1. \A p \in Queries : query'[p].stage # "append"
    BY <1>2, <1>3, <1>4 DEF At
  <2>2. QED
    BY <1>6, <2>1 DEF IInv, Numbered, At
<1>12. CopyBehind'
  <2>1. \A p \in Queries : query'[p].stage # "copy"
    BY <1>2, <1>3, <1>4 DEF At
  <2>2. QED
    BY <2>1 DEF CopyBehind, At
<1>13. InOrder'
  BY <1>6 DEF IInv, InOrder
<1>14. QED
  BY <1>7, <1>8, <1>9, <1>10, <1>11, <1>12, <1>13 DEF IInv

\* A query object that was not made yet.
LEMMA ClosedIs ==
  /\ Closed \in Query /\ Closed.stage = "closed" /\ Closed.kind = "select" /\ Closed.file = 1
  /\ Closed.found = {}
<1>1. PICK none \in Seq(Row) : none = <<>>
  BY EmptySeq
<1>2. AnyKey \in Keys
  BY KeysAssumption DEF AnyKey
<1>3. [stage |-> "closed", kind |-> "select", cond |-> {}, key |-> AnyKey,
       file |-> 1, at |-> 0, todo |-> none, found |-> {}] \in Query
  BY <1>2 DEF Query, Stages, Kinds
<1>4. Closed = [stage |-> "closed", kind |-> "select", cond |-> {}, key |-> AnyKey,
                file |-> 1, at |-> 0, todo |-> none, found |-> {}]
  BY <1>1, Zenon DEF Closed, New
<1>5. QED
  BY <1>3, <1>4

\* A crash closes the queries of the process and leaves the files.
LEMMA CrashKeeps ==
  ASSUME IInv, Crash
  PROVE  IInv'
<1> DEFINE c == Closed
<1>1. c \in Query /\ c.stage = "closed" /\ c.kind = "select" /\ c.file = 1
  BY ClosedIs
<1>2. /\ query' = [q \in Queries |-> IF q \in Writers THEN c ELSE query[q]]
      /\ acked' = ToSet(files[live]) /\ UNCHANGED <<files, live, temp, inserted>>
  BY DEF Crash
<1> HIDE DEF c
<1>3. \A q \in Queries : query'[q] = c \/ (query'[q] = query[q] /\ q \notin Writers)
  <2>1. \A q \in Queries : query'[q] = IF q \in Writers THEN c ELSE query[q]
    BY <1>2
  <2>2. QED
    BY <2>1
<1>4. files \in Seq(Seq(Row)) /\ live \in DOMAIN files /\ files[live] \in Seq(Row)
  BY FileParts DEF IInv, TypeOK
<1>5. TypeOK'
  <2>1. ToSet(files[live]) \subseteq Row
    BY <1>4, ElementOfSeq DEF ToSet
  <2>2. query' \in [Queries -> Query]
    BY <1>1, <1>2 DEF IInv, TypeOK
  <2>3. QED
    BY <1>2, <2>1, <2>2 DEF IInv, TypeOK
<1>6. OneCall'
  BY <1>1, <1>3 DEF OneCall, Busy, Queries
<1>7. KindsFit'
  BY <1>1, <1>3 DEF IInv, KindsFit, Is, At
<1>8. TempApart'
  <2>1. 1 \in DOMAIN files
    BY <1>4, LenProperties
  <2>2. QED
    BY <1>1, <1>2, <1>3, <2>1 DEF IInv, TempApart
<1>9. Numbered'
  BY <1>1, <1>2, <1>3 DEF IInv, Numbered, At
<1>10. CopyBehind'
  BY <1>1, <1>2, <1>3 DEF IInv, CopyBehind, At, Content
<1>11. InOrder'
  BY <1>2 DEF IInv, InOrder
<1>12. QED
  BY <1>5, <1>6, <1>7, <1>8, <1>9, <1>10, <1>11 DEF IInv

\* It holds at first.
LEMMA InitHolds == Init => IInv
<1> SUFFICES ASSUME Init PROVE IInv
  OBVIOUS
<1>1. PICK none \in Seq(Row) : none = <<>>
  BY EmptySeq
<1>2. files = <<none>> /\ DOMAIN none = {}
  BY <1>1 DEF Init
<1>3. files \in Seq(Seq(Row)) /\ DOMAIN files = {1} /\ files[1] = none
  BY <1>2
<1>4. /\ \A q \in Queries : query[q] = Closed
      /\ query \in [Queries -> Query] /\ live = 1 /\ temp = None /\ inserted = 0 /\ acked = {}
  BY ClosedIs DEF Init
<1>5. TypeOK
  BY <1>3, <1>4 DEF TypeOK
<1>6. OneCall
  BY <1>4, ClosedIs DEF OneCall, Busy, Queries
<1>7. KindsFit
  BY <1>4, ClosedIs DEF KindsFit, Is, At
<1>8. TempApart
  BY <1>3, <1>4, ClosedIs, NoneAssumption DEF TempApart
<1>9. Numbered /\ CopyBehind
  BY <1>2, <1>3, <1>4, ClosedIs DEF Numbered, CopyBehind, At
<1>10. InOrder
  BY <1>2, <1>3 DEF InOrder
<1>11. QED
  BY <1>5, <1>6, <1>7, <1>8, <1>9, <1>10 DEF IInv

\* It holds while nothing happens.
LEMMA StuttersKeep ==
  ASSUME IInv, UNCHANGED vars
  PROVE  IInv'
<1>1. UNCHANGED <<files, live, temp, query, inserted, acked>>
  BY DEF vars
<1>2. TypeOK' /\ OneCall' /\ KindsFit'
  BY <1>1 DEF IInv, TypeOK, OneCall, KindsFit, Busy, Is, At
<1>3. TempApart' /\ Numbered' /\ CopyBehind' /\ InOrder'
  BY <1>1 DEF IInv, TempApart, Numbered, CopyBehind, InOrder, At, Content
<1>4. QED
  BY <1>2, <1>3 DEF IInv

\* It is inductive.
LEMMA StepHolds == IInv /\ [Next]_vars => IInv'
<1> SUFFICES ASSUME IInv, [Next]_vars PROVE IInv'
  OBVIOUS
<1>1. AnyKey \in Keys
  BY KeysAssumption DEF AnyKey
<1>2. ASSUME NEW q \in Queries, OpenAny(q)
      PROVE  IInv'
  <2>1. ASSUME NEW kind \in {"insert", "deleteAll"}, Open(q, kind, {}, AnyKey)
        PROVE  IInv'
    BY <1>1, <2>1, OpenKeeps DEF Kinds
  <2>2. ASSUME NEW kind \in {"select", "delete"}, NEW cond \in Conditions,
               Open(q, kind, cond, AnyKey)
        PROVE  IInv'
    BY <1>1, <2>2, OpenKeeps DEF Kinds, Conditions
  <2>3. ASSUME NEW cond \in Conditions, NEW key \in Keys, Open(q, "update", cond, key)
        PROVE  IInv'
    BY <2>3, OpenKeeps DEF Kinds, Conditions
  <2>4. QED
    BY <1>2, <2>1, <2>2, <2>3 DEF OpenAny
<1>3. ASSUME NEW q \in Queries, Call(q)
      PROVE  IInv'
  BY <1>3, ValuesKeeps, TruncateKeeps, DoneKeeps DEF Call
<1>4. ASSUME NEW q \in Queries, CallStep(q)
      PROVE  IInv'
  BY <1>4, AppendRowKeeps, ScanLineKeeps, ScanEndKeeps, StartRewriteKeeps, CopyLineKeeps,
     RenameKeeps, ReopenKeeps DEF CallStep
<1>5. QED
  BY <1>2, <1>3, <1>4, CrashKeeps, StuttersKeep DEF Next

\* The invariant holds in every behaviour.
LEMMA Invariant == Spec => []IInv
  BY InitHolds, StepHolds, PTL DEF Spec

\* The state has the types TableFile.tla gives it: in particular the path always
\* names a file, and what is written to a file is rows.
THEOREM TypeCorrect == Spec => []TypeOK
<1>1. IInv => TypeOK
  BY DEF IInv
<1>2. QED
  BY <1>1, Invariant, PTL

\* No file ever holds a row twice or out of order, whatever handles, rewrites and
\* crashes overlap (filehandler.zep delete, callback).
THEOREM RowsInOrder == Spec => []InOrder
<1>1. IInv => InOrder
  BY DEF IInv
<1>2. QED
  BY <1>1, Invariant, PTL

-----------------------------------------------------------------------------
(* A client that uses fresh handles.                                       *)

\* A query object after a step of its own.
LEMMA MovedIs ==
  ASSUME TypeOK, NEW q \in Queries, NEW stage, NEW at, NEW todo, NEW found,
         query' = Moved(q, stage, at, todo, found)
  PROVE  /\ query'[q].stage = stage /\ query'[q].kind = query[q].kind
         /\ query'[q].cond = query[q].cond /\ query'[q].key = query[q].key
         /\ query'[q].file = query[q].file /\ query'[q].at = at
         /\ query'[q].todo = todo /\ query'[q].found = found
         /\ \A p \in Queries \ {q} : query'[p] = query[p]
<1>1. query' = [query EXCEPT ![q] = Next1(q, stage, at, todo, found)]
  BY DEF Moved, Next1
<1>2. /\ query'[q] = Next1(q, stage, at, todo, found)
      /\ \A p \in Queries \ {q} : query'[p] = query[p]
  BY <1>1 DEF TypeOK
<1>3. QED
  BY <1>2 DEF Next1

\* A query object that was just made.
LEMMA NewIs ==
  ASSUME TypeOK, NEW q \in Queries, NEW kind, NEW cond, NEW key,
         query' = [query EXCEPT ![q] = New("ready", kind, cond, key, live)]
  PROVE  /\ query'[q].stage = "ready"
         /\ \A p \in Queries \ {q} : query'[p] = query[p]
<1> DEFINE r == New("ready", kind, cond, key, live)
<1>1. r.stage = "ready"
  BY DEF New
<1> HIDE DEF r
<1>2. query' = [query EXCEPT ![q] = r]
  BY DEF r
<1>3. QED
  BY <1>1, <1>2 DEF TypeOK

\* When one query of the writing process moves, the others are idle.
LEMMA OthersIdle ==
  ASSUME IInv, NEW q \in Writers, Busy(q) \/ \A w \in Writers : ~Busy(w)
  PROVE  \A p \in Writers \ {q} : ~Busy(p)
  BY DEF IInv, OneCall

\* An idle query has nothing to answer for.
LEMMA WriterMoves ==
  ASSUME NEW q \in Writers, \A p \in Writers \ {q} : ~Busy(p) /\ query'[p] = query[p],
         WriterFits(q)', ~Busy(q)' => acked' = ToSet(files'[live'])
  PROVE  Settled' /\ \A w \in Writers : WriterFits(w)'
<1>1. Settled'
  BY DEF Settled
<1>2. ASSUME NEW p \in Writers \ {q}
      PROVE  WriterFits(p)'
  <2>1. query'[p].stage \in {"closed", "ready"}
    BY DEF Busy
  <2>2. QED
    BY <2>1 DEF WriterFits, OnLive, Found, CopiedSoFar, Expected, At
<1>3. QED
  BY <1>1, <1>2

\* A query that got idle has nothing to answer for but the table itself.
LEMMA WriterIdles ==
  ASSUME NEW q \in Writers, \A p \in Writers \ {q} : ~Busy(p) /\ query'[p] = query[p],
         query'[q].stage = "ready", acked' = ToSet(files'[live'])
  PROVE  Settled' /\ \A w \in Writers : WriterFits(w)'
<1>1. WriterFits(q)'
  BY DEF WriterFits, OnLive, Found, CopiedSoFar, Expected, At
<1>2. QED
  BY <1>1, WriterMoves

\* What nobody but a writer looks at stays when none of it changes.
LEMMA WritersStay ==
  ASSUME FreshInv, UNCHANGED <<files, live, temp, acked>>,
         \A w \in Writers : query'[w] = query[w]
  PROVE  Settled' /\ \A w \in Writers : WriterFits(w)'
<1>1. Settled'
  BY DEF FreshInv, Settled, Busy
<1>2. ASSUME NEW w \in Writers
      PROVE  WriterFits(w)'
  <2>1. WriterFits(w)
    BY DEF FreshInv
  <2>2. OnLive(w)' /\ Found(w)'
    BY <2>1 DEF WriterFits, OnLive, Found, At, Content, FoundUpTo
  <2>3. query'[w] = query[w]
    OBVIOUS
  <2>4. Effect(w, Lines(w, query[w].at))' = Effect(w, Lines(w, query[w].at))
    BY <2>3 DEF Content, Effect, Is, Lines, Store!Removed, Store!Changed
  <2>5. Effect(w, acked)' = Effect(w, acked)
    BY <2>3 DEF Effect, Is, Store!Removed, Store!Changed
  <2>6. CopiedSoFar(w)'
    BY <2>1, <2>3, <2>4 DEF WriterFits, CopiedSoFar, At
  <2>7. Expected(w)'
    BY <2>1, <2>3, <2>5 DEF WriterFits, Expected, At
  <2>8. QED
    BY <2>2, <2>6, <2>7 DEF WriterFits
<1>3. QED
  BY <1>1, <1>2

\* The rows of a file after one more.
LEMMA ToSetAppend ==
  ASSUME NEW s \in Seq(Row), NEW row \in Row
  PROVE  ToSet(Append(s, row)) = ToSet(s) \cup {row}
<1> DEFINE t == Append(s, row)
<1>1. /\ t \in Seq(Row) /\ Len(s) \in Nat /\ DOMAIN s = 1 .. Len(s)
      /\ DOMAIN t = 1 .. Len(s) + 1
      /\ t[Len(s) + 1] = row
      /\ \A i \in 1 .. Len(s) : t[i] = s[i]
  BY AppendProperties, LenProperties
<1> HIDE DEF t
<1>2. ToSet(t) \subseteq ToSet(s) \cup {row}
  BY <1>1 DEF ToSet
<1>3. ToSet(s) \subseteq ToSet(t) /\ row \in ToSet(t)
  BY <1>1 DEF ToSet
<1>4. QED
  BY <1>2, <1>3 DEF t

\* A file of no rows.
LEMMA ToSetEmpty == ASSUME NEW s, DOMAIN s = {} PROVE ToSet(s) = {}
  BY DEF ToSet

\* All lines of a file are its rows.
LEMMA LinesAll ==
  ASSUME TypeOK, NEW q \in Queries, query[q].file \in DOMAIN files
  PROVE  Lines(q, Len(Content(q))) = ToSet(Content(q))
<1>1. DOMAIN Content(q) = 1 .. Len(Content(q))
  BY FileParts DEF Content
<1>2. QED
  BY <1>1 DEF Lines, ToSet

\* Opening makes an idle query.
LEMMA OpenFresh ==
  ASSUME FreshInv, NEW q \in Queries, NEW kind, NEW cond, NEW key, Open(q, kind, cond, key)
  PROVE  Settled' /\ \A w \in Writers : WriterFits(w)'
<1>1. /\ query'[q].stage = "ready" /\ \A p \in Queries \ {q} : query'[p] = query[p]
  BY NewIs DEF Open, FreshInv, IInv
<1>2. UNCHANGED <<files, live, temp, acked>>
  BY DEF Open
<1>3. CASE q \in Writers
  <2>1. \A w \in Writers : ~Busy(w)
    BY <1>3 DEF Open
  <2>2. acked' = ToSet(files'[live'])
    BY <1>2, <2>1 DEF FreshInv, Settled
  <2>3. QED
    BY <1>1, <1>3, <2>1, <2>2, WriterIdles DEF Queries
<1>4. CASE q \notin Writers
  BY <1>1, <1>2, <1>4, WritersStay DEF Queries
<1>5. QED
  BY <1>3, <1>4

\* An insert begins with none of its rows in the table.
LEMMA ValuesFresh ==
  ASSUME FreshInv, NEW q \in Queries, NEW keys, Values(q, keys), query[q].file = live,
         q \in Writers
  PROVE  Settled' /\ \A w \in Writers : WriterFits(w)'
<1>1. PICK rows : query' = Moved(q, "append", 0, rows, {})
  BY DEF Values
<1>2. /\ query'[q].stage = "append" /\ query'[q].file = live /\ query'[q].at = 0
      /\ \A p \in Queries \ {q} : query'[p] = query[p]
  BY <1>1, MovedIs DEF FreshInv, IInv
<1>3. \A w \in Writers : ~Busy(w)
  BY DEF Values, MayCall
<1>4. UNCHANGED <<files, live, temp, acked>> /\ acked = ToSet(files[live])
  BY <1>3 DEF Values, FreshInv, Settled
<1>5. WriterFits(q)'
  <2>1. Expected(q)'
    <3>1. {query'[q].todo[i] : i \in 1 .. query'[q].at} = {}
      BY <1>2
    <3>2. QED
      BY <1>2, <1>4, <3>1 DEF Expected, At
  <2>2. QED
    BY <1>2, <1>4, <2>1 DEF WriterFits, OnLive, Found, CopiedSoFar, At
<1>6. QED
  BY <1>2, <1>3, <1>5, WriterMoves DEF Queries, Busy

\* A row appended by a fresh handle is a row inserted into the table.
LEMMA AppendRowFresh ==
  ASSUME FreshInv, NEW q \in Queries, AppendRow(q)
  PROVE  /\ Settled' /\ \A w \in Writers : WriterFits(w)'
         /\ [Store!Next]_(ToSet(files[live]))
<1> DEFINE at   == query[q].at
           todo == query[q].todo
           row  == todo[at + 1]
           last == (at + 1 = Len(todo))
<1>1. /\ q \in Writers /\ At(q, "append") /\ Busy(q)
      /\ \A p \in Writers \ {q} : ~Busy(p)
  BY Alone, OthersIdle DEF AppendRow, FreshInv, IInv, KindsFit, At, Is, Busy
<1>2. /\ query[q].file = live /\ live \in DOMAIN files
      /\ ToSet(files[live]) = acked \cup {todo[i] : i \in 1 .. at}
  BY <1>1 DEF FreshInv, WriterFits, OnLive, Expected, At, IInv, TypeOK
<1>3. /\ at \in Nat /\ todo \in Seq(Row) /\ Len(todo) \in Nat /\ DOMAIN todo = 1 .. Len(todo)
      /\ at < Len(todo) /\ inserted \in Nat
  BY <1>1, QueryParts, LenProperties DEF FreshInv, IInv, TypeOK, Numbered
<1>4. row \in Row /\ row.serial = inserted
  <2>1. at + 1 \in DOMAIN todo /\ at + 1 \in at + 1 .. Len(todo)
    BY <1>3
  <2>2. row.serial = inserted + (at + 1) - (at + 1)
    BY <1>1, <2>1 DEF FreshInv, IInv, Numbered
  <2>3. row.serial = inserted
    BY <1>3, <2>2
  <2>4. row \in Row
    <3> HIDE DEF at, todo
    <3>1. QED
      BY <1>3, <2>1, ElementOfSeq
  <2>5. QED
    BY <2>3, <2>4
<1>5. /\ files' = [files EXCEPT ![live] = Append(files[live], row)] /\ live' = live
      /\ query' = IF last THEN Moved(q, "ready", 0, <<>>, {})
                  ELSE Moved(q, "append", at + 1, todo, {})
      /\ acked' = IF last THEN acked \cup ToSet(todo) ELSE acked
  BY <1>2 DEF AppendRow
<1> HIDE DEF at, todo, row
<1>6. ToSet(files'[live']) = ToSet(files[live]) \cup {row}
  <2>1. files[live] \in Seq(Row)
    BY <1>2, FileParts DEF FreshInv, IInv
  <2>2. files'[live'] = Append(files[live], row)
    BY <1>2, <1>5 DEF FreshInv, IInv, TypeOK
  <2>3. QED
    BY <1>4, <2>1, <2>2, ToSetAppend
<1>7. ToSet(files'[live']) = acked \cup {todo[i] : i \in 1 .. at + 1}
  <2>1. {todo[i] : i \in 1 .. at + 1} = {todo[i] : i \in 1 .. at} \cup {row}
    <3>1. 1 .. at + 1 = (1 .. at) \cup {at + 1}
      BY <1>3
    <3>2. QED
      BY <3>1 DEF row
  <2>2. QED
    BY <1>2, <1>6, <2>1
<1>8. ASSUME last
      PROVE  Settled' /\ \A w \in Writers : WriterFits(w)'
  <2>1. /\ query'[q].stage = "ready" /\ \A p \in Queries \ {q} : query'[p] = query[p]
    BY <1>5, <1>8, MovedIs DEF FreshInv, IInv
  <2>2. ToSet(todo) = {todo[i] : i \in 1 .. at + 1}
    BY <1>3, <1>8 DEF ToSet
  <2>3. acked' = ToSet(files'[live'])
    BY <1>5, <1>7, <1>8, <2>2
  <2>4. QED
    BY <1>1, <2>1, <2>3, WriterIdles DEF Queries
<1>9. ASSUME ~last
      PROVE  Settled' /\ \A w \in Writers : WriterFits(w)'
  <2>1. /\ query'[q].stage = "append" /\ query'[q].file = query[q].file
        /\ query'[q].at = at + 1 /\ query'[q].todo = todo
        /\ \A p \in Queries \ {q} : query'[p] = query[p]
    BY <1>5, <1>9, MovedIs DEF FreshInv, IInv
  <2>2. WriterFits(q)'
    BY <1>2, <1>5, <1>7, <1>9, <2>1 DEF WriterFits, OnLive, Found, CopiedSoFar, Expected, At
  <2>3. QED
    BY <1>1, <2>1, <2>2, WriterMoves DEF Queries, Busy
<1>10. Store!Insert(row)
  <2>1. \A s \in ToSet(files[live]) : s.serial < inserted
    BY <1>2 DEF FreshInv, IInv, Numbered, ToSet
  <2>2. QED
    BY <1>4, <1>6, <2>1 DEF Store!Insert
<1>11. row \in ToSet(files[live])'
  BY <1>6
<1>12. QED
  BY <1>8, <1>9, <1>10, <1>11 DEF Store!Next

\* Cutting the file at the path removes all rows.
LEMMA TruncateFresh ==
  ASSUME FreshInv, NEW q \in Queries, Truncate(q), query[q].file = live, q \in Writers
  PROVE  /\ Settled' /\ \A w \in Writers : WriterFits(w)'
         /\ [Store!Next]_(ToSet(files[live]))
<1>1. \A w \in Writers : ~Busy(w)
  BY DEF Truncate, MayCall
<1>2. PICK s \in Seq(Row) : s = <<>>
  BY EmptySeq
<1>3. files' = [files EXCEPT ![live] = s] /\ acked' = {} /\ UNCHANGED <<live, temp, query, inserted>>
  BY <1>2 DEF Truncate
<1>4. files'[live'] = s
  BY <1>3 DEF FreshInv, IInv, TypeOK
<1>5. ToSet(files'[live']) = {}
  <2>1. DOMAIN s = {}
    BY <1>2
  <2>2. QED
    BY <1>4, <2>1, ToSetEmpty
<1>6. query'[q].stage \in {"closed", "ready"}
  BY <1>1, <1>3 DEF Busy
<1>7. WriterFits(q)'
  BY <1>6 DEF WriterFits, OnLive, Found, CopiedSoFar, Expected, At
<1>8. Store!Delete
  <2>1. \A r \in ToSet(files[live]) : r.key \in Keys
    <3>1. \A i \in DOMAIN files[live] : files[live][i] \in Row
      BY FileParts DEF FreshInv, IInv, TypeOK
    <3>2. QED
      BY <3>1 DEF ToSet, Row
  <2>2. Store!Removed(ToSet(files[live]), Keys) = {}
    BY <2>1 DEF Store!Removed
  <2>3. ToSet(files[live])' = Store!Removed(ToSet(files[live]), Keys)
    BY <1>5, <2>2
  <2>4. QED
    BY <2>3 DEF Store!Delete
<1>9. QED
  BY <1>1, <1>3, <1>5, <1>7, <1>8, WriterMoves DEF Store!Next

\* A scan begins with nothing found.
LEMMA DoneFresh ==
  ASSUME FreshInv, NEW q \in Queries, Done(q), q \in Writers => query[q].file = live
  PROVE  Settled' /\ \A w \in Writers : WriterFits(w)'
<1>1. /\ query'[q].stage = "scan" /\ query'[q].file = query[q].file /\ query'[q].at = 0
      /\ query'[q].found = {}
      /\ \A p \in Queries \ {q} : query'[p] = query[p]
  BY MovedIs DEF Done, FreshInv, IInv
<1>2. UNCHANGED <<files, live, temp, acked>>
  BY DEF Done
<1>3. CASE q \in Writers
  <2>1. \A w \in Writers : ~Busy(w)
    BY <1>3 DEF Done, MayCall
  <2>2. acked = ToSet(files[live])
    BY <2>1 DEF FreshInv, Settled
  <2>3. Found(q)'
    <3>1. FoundUpTo(q, query[q].at)' = {}
      BY <1>1 DEF FoundUpTo
    <3>2. 0 <= Len(Content(q))'
      <4>1. Content(q)' = files[query[q].file] /\ query[q].file \in DOMAIN files
        BY <1>1, <1>2 DEF Content, FreshInv, IInv, TempApart
      <4>2. QED
        BY <4>1, FileParts DEF FreshInv, IInv
    <3>3. QED
      BY <1>1, <3>1, <3>2 DEF Found, At
  <2>4. WriterFits(q)'
    BY <1>1, <1>2, <1>3, <2>2, <2>3 DEF WriterFits, OnLive, CopiedSoFar, Expected, At
  <2>5. QED
    BY <1>1, <1>3, <2>1, <2>4, WriterMoves DEF Queries, Busy
<1>4. CASE q \notin Writers
  BY <1>1, <1>2, <1>4, WritersStay DEF Queries
<1>5. QED
  BY <1>3, <1>4

\* Reading one more line finds it if it matches.
LEMMA FoundOneMore ==
  ASSUME NEW q, NEW n \in Nat
  PROVE  FoundUpTo(q, n + 1) =
           FoundUpTo(q, n) \cup (IF Content(q)[n + 1].key \in query[q].cond
                                 THEN {FoundAt(n, Content(q)[n + 1])} ELSE {})
<1> DEFINE Match(i) == Content(q)[i].key \in query[q].cond
           F(i)     == FoundAt(i - 1, Content(q)[i])
<1>1. {j \in 1 .. n + 1 : Match(j)} =
        {j \in 1 .. n : Match(j)} \cup (IF Match(n + 1) THEN {n + 1} ELSE {})
  <2> HIDE DEF Match
  <2>1. QED
    OBVIOUS
<1>2. F(n + 1) = FoundAt(n, Content(q)[n + 1])
  <2>1. n + 1 - 1 = n
    OBVIOUS
  <2>2. QED
    BY <2>1
<1> HIDE DEF F
<1>3. {F(i) : i \in {j \in 1 .. n + 1 : Match(j)}} =
        {F(i) : i \in {j \in 1 .. n : Match(j)}} \cup (IF Match(n + 1) THEN {F(n + 1)} ELSE {})
  <2> DEFINE A == {j \in 1 .. n : Match(j)}
             B == {j \in 1 .. n + 1 : Match(j)}
  <2>1. B = A \cup (IF Match(n + 1) THEN {n + 1} ELSE {})
    BY <1>1
  <2> HIDE DEF A, B
  <2>2. {F(i) : i \in B} = {F(i) : i \in A} \cup (IF Match(n + 1) THEN {F(n + 1)} ELSE {})
    BY <2>1
  <2>3. QED
    BY <2>2 DEF A, B
<1>4. QED
  BY <1>2, <1>3 DEF FoundUpTo, F

\* A line read by a fresh handle is a row of the table.
LEMMA ScanLineFresh ==
  ASSUME FreshInv, NEW q \in Queries, ScanLine(q)
  PROVE  Settled' /\ \A w \in Writers : WriterFits(w)'
<1> DEFINE rest == IF Content(q)[query[q].at + 1].key \in query[q].cond
                   THEN {FoundAt(query[q].at, Content(q)[query[q].at + 1])} ELSE {}
           more == query[q].found \cup rest
<1>1. query' = Moved(q, "scan", query[q].at + 1, <<>>, more)
  BY DEF ScanLine
<1>2. UNCHANGED <<files, live, temp, acked>> /\ At(q, "scan") /\ query[q].at < Len(Content(q))
  BY DEF ScanLine
<1> HIDE DEF more
<1>3. /\ query'[q].stage = "scan" /\ query'[q].file = query[q].file
      /\ query'[q].at = query[q].at + 1 /\ query'[q].found = more
      /\ query'[q].cond = query[q].cond
      /\ \A p \in Queries \ {q} : query'[p] = query[p]
  BY <1>1, MovedIs DEF FreshInv, IInv
<1>4. CASE q \in Writers
  <2>1. \A p \in Writers \ {q} : ~Busy(p)
    BY <1>2, <1>4, OthersIdle DEF FreshInv, Busy, At
  <2>2. /\ query[q].file = live /\ query[q].found = FoundUpTo(q, query[q].at)
        /\ acked = ToSet(files[live])
    BY <1>2, <1>4 DEF FreshInv, WriterFits, OnLive, Found, Expected, At
  <2>3. query[q].at \in Nat /\ Len(Content(q)) \in Nat
    BY QueryParts, FileParts DEF FreshInv, IInv, TempApart, Content
  <2>4. more = FoundUpTo(q, query[q].at + 1)
    <3>1. FoundUpTo(q, query[q].at + 1) = FoundUpTo(q, query[q].at) \cup rest
      BY <2>3, FoundOneMore
    <3> HIDE DEF rest
    <3>2. QED
      BY <2>2, <3>1 DEF more
  <2>5. /\ Content(q)' = Content(q)
        /\ FoundUpTo(q, query[q].at)' = FoundUpTo(q, query[q].at + 1)
    BY <1>2, <1>3 DEF Content, FoundUpTo
  <2>6. Found(q)'
    BY <1>2, <1>3, <2>3, <2>4, <2>5 DEF Found, At
  <2>7. WriterFits(q)'
    BY <1>2, <1>3, <2>2, <2>6 DEF WriterFits, OnLive, CopiedSoFar, Expected, At
  <2>8. QED
    BY <1>3, <1>4, <2>1, <2>7, WriterMoves DEF Queries, Busy
<1>5. CASE q \notin Writers
  BY <1>2, <1>3, <1>5, WritersStay DEF Queries
<1>6. QED
  BY <1>4, <1>5

\* A delete or an update that found nothing has nothing to do.
LEMMA ScanEndFresh ==
  ASSUME FreshInv, NEW q \in Queries, ScanEnd(q)
  PROVE  Settled' /\ \A w \in Writers : WriterFits(w)'
<1>1. /\ UNCHANGED <<files, live, temp>> /\ At(q, "scan") /\ query[q].at >= Len(Content(q))
      /\ acked' = Effect(q, acked)
  BY DEF ScanEnd
<1>2. /\ query'[q].stage = "ready"
      /\ \A p \in Queries \ {q} : query'[p] = query[p]
  BY MovedIs DEF ScanEnd, FreshInv, IInv
<1>3. CASE q \in Writers
  <2>1. \A p \in Writers \ {q} : ~Busy(p)
    BY <1>1, <1>3, OthersIdle DEF FreshInv, Busy, At
  <2>2. /\ query[q].file = live /\ query[q].found = FoundUpTo(q, query[q].at)
        /\ query[q].at <= Len(Content(q)) /\ acked = ToSet(files[live])
    BY <1>1, <1>3 DEF FreshInv, WriterFits, OnLive, Found, Expected, At
  <2>3. /\ query[q].at \in Nat /\ Len(Content(q)) \in Nat /\ live \in DOMAIN files
        /\ DOMAIN Content(q) = 1 .. Len(Content(q)) /\ Content(q) = files[live]
    BY <2>2, QueryParts, FileParts DEF FreshInv, IInv, TypeOK, TempApart, Content
  <2>4. acked' = acked
    <3>1. CASE Is(q, "select")
      BY <1>1, <3>1 DEF Effect, Is
    <3>2. CASE query[q].found = {}
      <4>1. FoundUpTo(q, Len(Content(q))) = {}
        <5>1. query[q].at = Len(Content(q))
          BY <1>1, <2>2, <2>3
        <5>2. QED
          BY <2>2, <3>2, <5>1
      <4>2. \A i \in DOMAIN Content(q) : Content(q)[i].key \notin query[q].cond
        BY <2>3, <4>1 DEF FoundUpTo
      <4>3. \A r \in acked : r.key \notin query[q].cond
        BY <2>2, <2>3, <4>2 DEF ToSet
      <4>4. Store!Removed(acked, query[q].cond) = acked
        BY <4>3 DEF Store!Removed
      <4>5. Store!Changed(acked, query[q].cond, query[q].key) = acked
        BY <4>3, <4>4 DEF Store!Changed
      <4>6. QED
        BY <1>1, <4>4, <4>5 DEF Effect
    <3>3. QED
      BY <3>1, <3>2 DEF ScanEnd
  <2>5. acked' = ToSet(files'[live'])
    BY <1>1, <2>2, <2>4
  <2>6. QED
    BY <1>2, <1>3, <2>1, <2>5, WriterIdles DEF Queries
<1>4. CASE q \notin Writers
  <2>1. acked' = acked
    BY <1>1, <1>4 DEF Effect, Is, FreshInv, IInv, KindsFit, Queries
  <2>2. QED
    BY <1>1, <1>2, <1>4, <2>1, WritersStay DEF Queries
<1>5. QED
  BY <1>3, <1>4

\* A rewrite begins with nothing copied; the table stays.
LEMMA StartRewriteFresh ==
  ASSUME FreshInv, NEW q \in Queries, StartRewrite(q)
  PROVE  /\ Settled' /\ \A w \in Writers : WriterFits(w)'
         /\ UNCHANGED ToSet(files[live])
<1>1. /\ UNCHANGED <<live, acked>> /\ At(q, "scan") /\ query[q].at >= Len(Content(q))
      /\ ~Is(q, "select") /\ Busy(q)
  BY DEF StartRewrite, Busy, At
<1>2. /\ query'[q].stage = "copy" /\ query'[q].at = 0 /\ query'[q].file = query[q].file
      /\ query'[q].found = query[q].found /\ query'[q].cond = query[q].cond
      /\ \A p \in Queries \ {q} : query'[p] = query[p]
  BY MovedIs DEF StartRewrite, FreshInv, IInv
<1>3. q \in Writers /\ \A p \in Writers \ {q} : ~Busy(p)
  <2>1. q \in Writers
    BY <1>1 DEF FreshInv, IInv, KindsFit, Is, Queries
  <2>2. QED
    BY <1>1, <2>1, OthersIdle DEF FreshInv
<1>4. /\ query[q].file = live /\ query[q].found = FoundUpTo(q, query[q].at)
      /\ query[q].at <= Len(Content(q)) /\ acked = ToSet(files[live])
  BY <1>1, <1>3 DEF FreshInv, WriterFits, OnLive, Found, Expected, At
<1>5. query[q].at = Len(Content(q))
  <2>1. query[q].at \in Nat /\ Len(Content(q)) \in Nat
    BY QueryParts, FileParts DEF FreshInv, IInv, TempApart, Content
  <2>2. QED
    BY <1>1, <1>4, <2>1
<1>6. live \in DOMAIN files /\ live # temp /\ files \in Seq(Seq(Row))
  BY DEF FreshInv, IInv, TypeOK, TempApart
<1>7. files'[live] = files[live] /\ DOMAIN files'[temp'] = {}
  <2>1. CASE temp = None
    <3>1. files' = Append(files, <<>>) /\ temp' = Len(files) + 1
      BY <2>1 DEF StartRewrite
    <3>2. files'[temp'] = <<>> /\ files'[live] = files[live]
      BY <1>6, <3>1, FileMade DEF FreshInv, IInv
    <3>3. QED
      BY <3>2
  <2>2. CASE temp # None
    <3>1. PICK s \in Seq(Row) : s = <<>>
      BY EmptySeq
    <3>2. files' = [files EXCEPT ![temp] = s] /\ temp' = temp /\ temp \in DOMAIN files
      BY <2>2, <3>1 DEF StartRewrite, FreshInv, IInv, TypeOK
    <3>3. files'[temp] = s /\ files'[live] = files[live]
      BY <1>6, <3>2, FileWritten DEF FreshInv, IInv
    <3>4. DOMAIN s = {}
      BY <3>1
    <3>5. QED
      BY <3>2, <3>3, <3>4
  <2>3. QED
    BY <2>1, <2>2
<1>8. Found(q)'
  <2>1. /\ Content(q)' = Content(q)
        /\ FoundUpTo(q, Len(Content(q)))' = FoundUpTo(q, Len(Content(q)))
    BY <1>2, <1>4, <1>7 DEF Content, FoundUpTo
  <2>2. QED
    BY <1>2, <1>4, <1>5, <2>1 DEF Found, At
<1>9. CopiedSoFar(q)'
  <2>1. Lines(q, query[q].at)' = {}
    BY <1>2 DEF Lines
  <2>2. Store!Removed({}, query'[q].cond) = {} /\ Store!Changed({}, query'[q].cond, query'[q].key) = {}
    BY DEF Store!Removed, Store!Changed
  <2>3. Effect(q, Lines(q, query[q].at))' = {}
    BY <2>1, <2>2 DEF Effect, Store!Removed, Store!Changed
  <2>4. ToSet(files[temp])' = {}
    BY <1>7, ToSetEmpty
  <2>5. QED
    BY <2>3, <2>4 DEF CopiedSoFar
<1>10. WriterFits(q)'
  BY <1>1, <1>2, <1>4, <1>7, <1>8, <1>9 DEF WriterFits, OnLive, Expected, At
<1>11. QED
  BY <1>1, <1>2, <1>3, <1>7, <1>10, WriterMoves DEF Queries, Busy

\* The line numbers of a whole scan are those of the rows that match.
LEMMA OffsetsMatch ==
  ASSUME NEW q, NEW n \in Nat, NEW at \in Nat, at < n, query[q].found = FoundUpTo(q, n)
  PROVE  at \in Offsets(q) <=> Content(q)[at + 1].key \in query[q].cond
<1>1. Offsets(q) = {i - 1 : i \in {j \in 1 .. n : Content(q)[j].key \in query[q].cond}}
  <2>1. \A i : FoundAt(i - 1, Content(q)[i]).at = i - 1
    BY DEF FoundAt
  <2>2. QED
    BY <2>1 DEF Offsets, FoundUpTo
<1>2. at + 1 \in 1 .. n /\ (at + 1) - 1 = at
  OBVIOUS
<1>3. \A i \in 1 .. n : i - 1 = at => i = at + 1
  OBVIOUS
<1>4. QED
  BY <1>1, <1>2, <1>3

\* What a delete or an update makes of more rows.
LEMMA EffectJoins ==
  ASSUME NEW q, NEW A, NEW B
  PROVE  Effect(q, A \cup B) = Effect(q, A) \cup Effect(q, B)
<1>1. Store!Removed(A \cup B, query[q].cond) =
        Store!Removed(A, query[q].cond) \cup Store!Removed(B, query[q].cond)
  BY DEF Store!Removed
<1>2. Store!Changed(A \cup B, query[q].cond, query[q].key) =
        Store!Changed(A, query[q].cond, query[q].key) \cup
        Store!Changed(B, query[q].cond, query[q].key)
  BY <1>1 DEF Store!Changed
<1>3. QED
  BY <1>1, <1>2 DEF Effect

\* Copying a line adds to the file what the query makes of that row.
LEMMA CopiedEffect ==
  ASSUME TypeOK, NEW q \in Queries, query[q].kind \in {"delete", "update"},
         NEW row \in Row, NEW s \in Seq(Row),
         query[q].at \in Offsets(q) <=> row.key \in query[q].cond
  PROVE  ToSet(s \o Copied(q, row)) = ToSet(s) \cup Effect(q, {row})
<1> DEFINE new == [serial |-> row.serial, key |-> query[q].key]
<1>1. new \in Row
  BY QueryParts DEF Row
<1>2. ASSUME NEW c \in Row
      PROVE  ToSet(s \o <<c>>) = ToSet(s) \cup {c}
  <2>1. s \o <<c>> = Append(s, c)
    BY AppendIsConcat
  <2>2. QED
    BY <2>1, ToSetAppend
<1>3. CASE row.key \notin query[q].cond
  <2>1. Copied(q, row) = <<row>>
    BY <1>3 DEF Copied
  <2>2. Store!Removed({row}, query[q].cond) = {row}
    BY <1>3 DEF Store!Removed
  <2>3. Store!Changed({row}, query[q].cond, query[q].key) = {row}
    BY <1>3, <2>2 DEF Store!Changed
  <2>4. Effect(q, {row}) = {row}
    BY <2>2, <2>3 DEF Effect
  <2>5. QED
    BY <1>2, <2>1, <2>4
<1>4. CASE row.key \in query[q].cond /\ Is(q, "delete")
  <2>1. s \o Copied(q, row) = s
    <3>1. Copied(q, row) = <<>>
      BY <1>4 DEF Copied
    <3>2. QED
      BY <3>1, ConcatEmptySeq
  <2>2. Effect(q, {row}) = {}
    BY <1>4 DEF Effect, Store!Removed
  <2>3. QED
    BY <2>1, <2>2
<1>5. CASE row.key \in query[q].cond /\ ~Is(q, "delete")
  <2>1. Copied(q, row) = <<new>>
    BY <1>5 DEF Copied
  <2>2. Effect(q, {row}) = {new}
    <3>1. Is(q, "update")
      BY <1>5 DEF Is
    <3>2. Store!Removed({row}, query[q].cond) = {}
      BY <1>5 DEF Store!Removed
    <3>3. Store!Changed({row}, query[q].cond, query[q].key) = {new}
      BY <1>5, <3>2 DEF Store!Changed
    <3>4. QED
      BY <1>5, <3>1, <3>3 DEF Effect
  <2>3. QED
    BY <1>1, <1>2, <2>1, <2>2
<1>6. QED
  BY <1>3, <1>4, <1>5

\* A line copied is what the query makes of it; the table stays.
LEMMA CopyLineFresh ==
  ASSUME FreshInv, NEW q \in Queries, CopyLine(q)
  PROVE  /\ Settled' /\ \A w \in Writers : WriterFits(w)'
         /\ UNCHANGED ToSet(files[live])
<1> DEFINE at  == query[q].at
           row == Content(q)[at + 1]
<1>1. /\ UNCHANGED <<live, temp, acked>> /\ At(q, "copy") /\ at < Len(Content(q)) /\ Busy(q)
      /\ files' = [files EXCEPT ![temp] = @ \o Copied(q, row)]
  BY DEF CopyLine, Busy, At
<1>2. /\ query'[q].stage = "copy" /\ query'[q].at = at + 1 /\ query'[q].file = query[q].file
      /\ query'[q].found = query[q].found /\ query'[q].cond = query[q].cond
      /\ query'[q].kind = query[q].kind /\ query'[q].key = query[q].key
      /\ \A p \in Queries \ {q} : query'[p] = query[p]
  BY MovedIs DEF CopyLine, FreshInv, IInv
<1>3. /\ q \in Writers /\ query[q].kind \in {"delete", "update"}
      /\ \A p \in Writers \ {q} : ~Busy(p)
  <2>1. query[q].kind \in {"delete", "update"}
    BY <1>1 DEF FreshInv, IInv, KindsFit, At
  <2>2. q \in Writers
    BY <2>1 DEF FreshInv, IInv, KindsFit, Is, Queries
  <2>3. QED
    BY <1>1, <2>1, <2>2, OthersIdle DEF FreshInv
<1>4. /\ query[q].file = live /\ query[q].found = FoundUpTo(q, Len(Content(q)))
      /\ acked = ToSet(files[live]) /\ ToSet(files[temp]) = Effect(q, Lines(q, at))
  BY <1>1, <1>3 DEF FreshInv, WriterFits, OnLive, Found, CopiedSoFar, Expected, At
<1>5. live \in DOMAIN files /\ live # temp /\ temp \in DOMAIN files /\ files \in Seq(Seq(Row))
  BY <1>1, <1>3 DEF FreshInv, IInv, TypeOK, TempApart, CopyBehind, Queries
<1>6. /\ files[temp] \in Seq(Row) /\ Content(q) = files[live]
      /\ at \in Nat /\ Len(Content(q)) \in Nat
      /\ row \in Row
  <2>1. /\ files[temp] \in Seq(Row) /\ Content(q) = files[live] /\ at \in Nat
        /\ Len(Content(q)) \in Nat /\ DOMAIN Content(q) = 1 .. Len(Content(q))
        /\ \A i \in DOMAIN Content(q) : Content(q)[i] \in Row
    BY <1>4, <1>5, FileParts, QueryParts DEF FreshInv, IInv, Content
  <2>2. at + 1 \in DOMAIN Content(q)
    BY <1>1, <2>1
  <2>3. QED
    BY <2>1, <2>2
<1>7. at \in Offsets(q) <=> row.key \in query[q].cond
  BY <1>1, <1>4, <1>6, OffsetsMatch
<1>8. files'[temp] = files[temp] \o Copied(q, row) /\ files'[live] = files[live]
  <2> DEFINE s == files[temp] \o Copied(q, row)
  <2>1. files' = [files EXCEPT ![temp] = s]
    BY <1>1
  <2> HIDE DEF s
  <2>2. files'[temp] = s /\ files'[live] = files[live]
    BY <1>5, <2>1
  <2>3. QED
    BY <2>2 DEF s
<1>9. ToSet(files'[temp']) = Effect(q, Lines(q, at)) \cup Effect(q, {row})
  <2>1. temp' = temp /\ TypeOK
    BY <1>1 DEF FreshInv, IInv
  <2> HIDE DEF row
  <2>2. ToSet(files[temp] \o Copied(q, row)) = ToSet(files[temp]) \cup Effect(q, {row})
    BY <1>3, <1>6, <1>7, <2>1, CopiedEffect
  <2>3. QED
    BY <1>4, <1>8, <2>1, <2>2
<1>10. Lines(q, at + 1) = Lines(q, at) \cup {row}
  <2>1. 1 .. at + 1 = (1 .. at) \cup {at + 1}
    BY <1>6
  <2>2. QED
    BY <2>1 DEF Lines
<1>11. ToSet(files'[temp']) = Effect(q, Lines(q, at + 1))
  BY <1>9, <1>10, EffectJoins
<1>12. Content(q)' = Content(q)
  BY <1>2, <1>4, <1>8 DEF Content
<1>13. Found(q)'
  <2>1. FoundUpTo(q, Len(Content(q)))' = FoundUpTo(q, Len(Content(q)))
    BY <1>2, <1>12 DEF FoundUpTo
  <2>2. QED
    BY <1>2, <1>4, <2>1 DEF Found, At
<1>14. CopiedSoFar(q)'
  <2>1. Lines(q, query[q].at)' = Lines(q, at + 1)
    BY <1>2, <1>12 DEF Lines
  <2>2. Effect(q, Lines(q, query[q].at))' = Effect(q, Lines(q, at + 1))
    BY <1>2, <2>1 DEF Effect, Is, Store!Removed, Store!Changed
  <2>3. QED
    BY <1>11, <2>2 DEF CopiedSoFar
<1>15. WriterFits(q)'
  BY <1>1, <1>2, <1>4, <1>8, <1>13, <1>14 DEF WriterFits, OnLive, Expected, At
<1>16. QED
  BY <1>1, <1>2, <1>3, <1>8, <1>15, WriterMoves DEF Queries, Busy

\* The rename is the delete or the update of the table, in one step.
LEMMA RenameFresh ==
  ASSUME FreshInv, NEW q \in Queries, Rename(q)
  PROVE  /\ Settled' /\ \A w \in Writers : WriterFits(w)'
         /\ [Store!Next]_(ToSet(files[live]))
<1>1. /\ UNCHANGED <<files, acked>> /\ live' = temp /\ At(q, "copy") /\ Busy(q)
      /\ query[q].at >= Len(Content(q))
  BY DEF Rename, Busy, At, CopiedAll
<1>2. /\ query'[q].stage = "reopen" /\ query'[q].cond = query[q].cond
      /\ query'[q].kind = query[q].kind /\ query'[q].key = query[q].key
      /\ \A p \in Queries \ {q} : query'[p] = query[p]
  BY MovedIs DEF Rename, FreshInv, IInv
<1>3. /\ q \in Writers /\ query[q].kind \in {"delete", "update"}
      /\ \A p \in Writers \ {q} : ~Busy(p)
  <2>1. query[q].kind \in {"delete", "update"}
    BY <1>1 DEF FreshInv, IInv, KindsFit, At
  <2>2. q \in Writers
    BY <2>1 DEF FreshInv, IInv, KindsFit, Is, Queries
  <2>3. QED
    BY <1>1, <2>1, <2>2, OthersIdle DEF FreshInv
<1>4. /\ query[q].file = live /\ acked = ToSet(files[live])
      /\ ToSet(files[temp]) = Effect(q, Lines(q, query[q].at))
  BY <1>1, <1>3 DEF FreshInv, WriterFits, OnLive, Found, CopiedSoFar, Expected, At
<1>5. query[q].at = Len(Content(q))
  <2>1. query[q].at \in Nat /\ Len(Content(q)) \in Nat /\ query[q].at <= Len(Content(q))
    BY <1>1, QueryParts, FileParts DEF FreshInv, IInv, TempApart, CopyBehind, Content
  <2>2. QED
    BY <1>1, <2>1
<1>6. Lines(q, query[q].at) = ToSet(files[live])
  BY <1>4, <1>5, LinesAll DEF FreshInv, IInv, TempApart, Content
<1>7. ToSet(files'[live']) = Effect(q, ToSet(files[live]))
  BY <1>1, <1>4, <1>6
<1>8. WriterFits(q)'
  <2>1. Effect(q, acked)' = Effect(q, acked)
    BY <1>1, <1>2 DEF Effect, Is, Store!Removed, Store!Changed
  <2>2. QED
    BY <1>2, <1>4, <1>7, <2>1 DEF WriterFits, OnLive, Found, CopiedSoFar, Expected, At
<1>9. Settled' /\ \A w \in Writers : WriterFits(w)'
  BY <1>2, <1>3, <1>8, WriterMoves DEF Queries, Busy
<1>10. Store!Delete \/ Store!Update
  <2>1. query[q].cond \in SUBSET Keys /\ query[q].key \in Keys
    BY QueryParts DEF FreshInv, IInv
  <2>2. CASE Is(q, "delete")
    BY <1>7, <2>1, <2>2 DEF Effect, Store!Delete
  <2>3. CASE Is(q, "update")
    <3>1. ToSet(files'[live']) = Store!Changed(ToSet(files[live]), query[q].cond, query[q].key)
      BY <1>7, <2>3 DEF Effect, Is
    <3>2. QED
      BY <2>1, <3>1 DEF Store!Update
  <2>4. QED
    BY <1>3, <2>2, <2>3 DEF Is
<1>11. QED
  BY <1>9, <1>10 DEF Store!Next

\* What the call promised is in the table when it returns.
LEMMA ReopenFresh ==
  ASSUME FreshInv, NEW q \in Queries, Reopen(q)
  PROVE  Settled' /\ \A w \in Writers : WriterFits(w)'
<1>1. /\ UNCHANGED <<files, live, temp>> /\ acked' = Effect(q, acked)
      /\ At(q, "reopen") /\ Busy(q)
  BY DEF Reopen, Busy, At
<1>2. query'[q].stage = "ready" /\ \A p \in Queries \ {q} : query'[p] = query[p]
  BY NewIs DEF Reopen, FreshInv, IInv
<1>3. q \in Writers /\ \A p \in Writers \ {q} : ~Busy(p)
  <2>1. q \in Writers
    BY <1>1 DEF FreshInv, IInv, KindsFit, Is, At, Queries
  <2>2. QED
    BY <1>1, <2>1, OthersIdle DEF FreshInv
<1>4. acked' = ToSet(files'[live'])
  BY <1>1, <1>3 DEF FreshInv, WriterFits, Expected
<1>5. QED
  BY <1>2, <1>3, <1>4, WriterIdles DEF Queries

\* After a crash the client looks at what is there.
LEMMA CrashFresh ==
  ASSUME FreshInv, Crash
  PROVE  Settled' /\ \A w \in Writers : WriterFits(w)'
<1>1. acked' = ToSet(files'[live']) /\ UNCHANGED <<files, live>>
  BY DEF Crash
<1>2. \A w \in Writers : query'[w].stage = "closed"
  <2> DEFINE c == Closed
  <2>1. query' = [q \in Queries |-> IF q \in Writers THEN c ELSE query[q]]
    BY DEF Crash
  <2>2. c.stage = "closed"
    BY ClosedIs
  <2> HIDE DEF c
  <2>3. \A w \in Writers : query'[w] = c
    BY <2>1 DEF Queries
  <2>4. QED
    BY <2>2, <2>3
<1>3. QED
  BY <1>1, <1>2 DEF Settled, WriterFits, OnLive, Found, CopiedSoFar, Expected, At

\* It holds at first, when the table is empty.
LEMMA FreshInitHolds == Init => FreshInv /\ Store!Init
<1> SUFFICES ASSUME Init PROVE FreshInv /\ Store!Init
  OBVIOUS
<1>1. \A w \in Writers : query[w].stage = "closed"
  BY ClosedIs DEF Init, Queries
<1>2. ToSet(files[live]) = {} /\ acked = {}
  <2>1. PICK none \in Seq(Row) : none = <<>>
    BY EmptySeq
  <2>2. files = <<none>> /\ DOMAIN none = {} /\ live = 1 /\ acked = {}
    BY <2>1 DEF Init
  <2>3. QED
    BY <2>2, ToSetEmpty
<1>3. \A w \in Writers : WriterFits(w)
  BY <1>1 DEF WriterFits, OnLive, Found, CopiedSoFar, Expected, At
<1>4. QED
  BY <1>2, <1>3, InitHolds DEF FreshInv, Settled, Store!Init

\* Every step of such a client is one of the abstract table, or leaves it alone.
LEMMA FreshStepHolds == FreshInv /\ [FreshNext]_vars => FreshInv' /\ [Store!Next]_(ToSet(files[live]))
<1> SUFFICES ASSUME FreshInv, [FreshNext]_vars
             PROVE  FreshInv' /\ [Store!Next]_(ToSet(files[live]))
  OBVIOUS
<1> DEFINE Step == [Store!Next]_(ToSet(files[live]))
           Fits == Settled' /\ \A w \in Writers : WriterFits(w)'
<1>1. IInv'
  BY StepHolds DEF FreshNext, Next, FreshInv
<1>2. ASSUME NEW q \in Queries, OpenAny(q) PROVE Fits /\ Step
  <2>1. PICK kind, cond, key : Open(q, kind, cond, key)
    BY <1>2 DEF OpenAny
  <2>2. UNCHANGED <<files, live>>
    BY <2>1 DEF Open
  <2>3. QED
    BY <2>1, <2>2, OpenFresh
<1>3. ASSUME NEW q \in Queries, q \in Writers => query[q].file = live, Call(q) PROVE Fits /\ Step
  <2>1. ASSUME NEW keys, Values(q, keys) PROVE Fits /\ Step
    <3>1. q \in Writers
      BY <2>1 DEF Values, Is, FreshInv, IInv, KindsFit, Queries
    <3>2. UNCHANGED <<files, live>>
      BY <2>1 DEF Values
    <3>3. QED
      BY <1>3, <2>1, <3>1, <3>2, ValuesFresh
  <2>2. ASSUME Truncate(q) PROVE Fits /\ Step
    <3>1. q \in Writers
      BY <2>2 DEF Truncate, Is, FreshInv, IInv, KindsFit, Queries
    <3>2. QED
      BY <1>3, <2>2, <3>1, TruncateFresh
  <2>3. ASSUME Done(q) PROVE Fits /\ Step
    <3>1. UNCHANGED <<files, live>>
      BY <2>3 DEF Done
    <3>2. QED
      BY <1>3, <2>3, <3>1, DoneFresh
  <2>4. QED
    BY <1>3, <2>1, <2>2, <2>3 DEF Call
<1>4. ASSUME NEW q \in Queries, CallStep(q) PROVE Fits /\ Step
  <2>1. ASSUME AppendRow(q) \/ Rename(q) PROVE Fits /\ Step
    BY <2>1, AppendRowFresh, RenameFresh
  <2>2. ASSUME ScanLine(q) \/ ScanEnd(q) \/ Reopen(q) PROVE Fits /\ Step
    <3>1. UNCHANGED <<files, live>>
      BY <2>2 DEF ScanLine, ScanEnd, Reopen
    <3>2. QED
      BY <2>2, <3>1, ScanLineFresh, ScanEndFresh, ReopenFresh
  <2>3. ASSUME StartRewrite(q) \/ CopyLine(q) PROVE Fits /\ Step
    BY <2>3, StartRewriteFresh, CopyLineFresh
  <2>4. QED
    BY <1>4, <2>1, <2>2, <2>3 DEF CallStep
<1>5. ASSUME Crash PROVE Fits /\ Step
  <2>1. UNCHANGED <<files, live>>
    BY <1>5 DEF Crash
  <2>2. QED
    BY <1>5, <2>1, CrashFresh
<1>6. ASSUME UNCHANGED vars PROVE Fits /\ Step
  BY <1>6, WritersStay DEF vars
<1>7. QED
  BY <1>1, <1>2, <1>3, <1>4, <1>5, <1>6 DEF FreshNext, FreshInv

\* A client that writes through query objects made since the last rewrite finds
\* in the table exactly the rows whose insert returned, less those it deleted and
\* with the keys it set (table.zep insertRow, deleteRows, execute/update.zep done).
THEOREM NothingLost == FreshSpec => []AcknowledgedKept
<1>1. FreshInv => AcknowledgedKept
  BY DEF FreshInv, Settled, AcknowledgedKept
<1>2. QED
  BY <1>1, FreshInitHolds, FreshStepHolds, PTL DEF FreshSpec

\* For such a client the path always names a whole table, changed in one step by
\* every insert, delete and update, crashes included (filehandler.zep delete,
\* callback).
THEOREM Refinement == FreshSpec => ImplementsStore
  BY FreshInitHolds, FreshStepHolds, PTL DEF FreshSpec, ImplementsStore, Store!Spec

-----------------------------------------------------------------------------
(* A client that never deletes without a condition.                        *)

\* A step of one query leaves the others.
LEMMA OneMoves ==
  ASSUME TypeOK, NEW q \in Queries, OpenAny(q) \/ Call(q) \/ CallStep(q)
  PROVE  \A p \in Queries \ {q} : query'[p] = query[p]
<1>1. CASE OpenAny(q)
  <2>1. PICK kind, cond, key : Open(q, kind, cond, key)
    BY <1>1 DEF OpenAny
  <2>2. QED
    BY <2>1, NewIs DEF Open
<1>2. ASSUME NEW keys, Values(q, keys)
      PROVE  \A p \in Queries \ {q} : query'[p] = query[p]
  <2>1. PICK rows : query' = Moved(q, "append", 0, rows, {})
    BY <1>2 DEF Values
  <2>2. QED
    BY <2>1, MovedIs
<1>3. CASE Truncate(q)
  BY <1>3 DEF Truncate
<1>4. CASE Done(q)
  BY <1>4, MovedIs DEF Done
<1>5. CASE AppendRow(q)
  <2>1. \/ query' = Moved(q, "ready", 0, <<>>, {})
        \/ query' = Moved(q, "append", query[q].at + 1, query[q].todo, {})
    BY <1>5 DEF AppendRow
  <2>2. QED
    BY <2>1, MovedIs
<1>6. CASE ScanLine(q)
  <2>1. PICK found : query' = Moved(q, "scan", query[q].at + 1, <<>>, found)
    BY <1>6 DEF ScanLine
  <2>2. QED
    BY <2>1, MovedIs
<1>7. CASE ScanEnd(q)
  BY <1>7, MovedIs DEF ScanEnd
<1>8. CASE StartRewrite(q)
  BY <1>8, MovedIs DEF StartRewrite
<1>9. CASE CopyLine(q)
  BY <1>9, MovedIs DEF CopyLine
<1>10. CASE Rename(q)
  BY <1>10, MovedIs DEF Rename
<1>11. CASE Reopen(q)
  BY <1>11, NewIs DEF Reopen
<1>12. QED
  BY <1>1, <1>2, <1>3, <1>4, <1>5, <1>6, <1>7, <1>8, <1>9, <1>10, <1>11 DEF Call, CallStep

\* What can happen to a reader.
LEMMA ReaderMoves ==
  ASSUME IInv, NEW r \in Readers, [KeepingNext]_vars
  PROVE  \/ query'[r] = query[r]
         \/ \E kind, cond, key : Open(r, kind, cond, key)
         \/ Done(r) \/ ScanLine(r) \/ ScanEnd(r)
<1>1. r \in Queries /\ r \notin Writers /\ Is(r, "select") /\ TypeOK
  BY SeparateAssumption DEF Queries, IInv, KindsFit
<1>2. ASSUME NEW q \in Queries, OpenAny(q) \/ CallStep(q) \/ Done(q), q # r
      PROVE  query'[r] = query[r]
  BY <1>1, <1>2, OneMoves DEF Call
<1>3. ASSUME NEW q \in Writers, NEW keys \in Batches, Values(q, keys)
      PROVE  query'[r] = query[r]
  <2>1. q \in Queries /\ q # r
    BY <1>1 DEF Queries
  <2>2. QED
    BY <1>1, <1>3, <2>1, OneMoves DEF Call
<1>4. ASSUME Crash
      PROVE  query'[r] = query[r]
  <2> DEFINE c == Closed
  <2>1. query' = [q \in Queries |-> IF q \in Writers THEN c ELSE query[q]]
    BY <1>4 DEF Crash
  <2> HIDE DEF c
  <2>2. QED
    BY <1>1, <2>1
<1>5. ASSUME CallStep(r)
      PROVE  ScanLine(r) \/ ScanEnd(r)
  <2>1. ~At(r, "append") /\ ~At(r, "copy") /\ ~At(r, "reopen")
    BY <1>1 DEF IInv, KindsFit, At, Is
  <2>2. QED
    BY <1>1, <1>5, <2>1 DEF CallStep, AppendRow, StartRewrite, CopyLine, Rename, Reopen
<1>6. ASSUME OpenAny(r)
      PROVE  \E kind, cond, key : Open(r, kind, cond, key)
  BY <1>6 DEF OpenAny
<1>7. ASSUME UNCHANGED vars
      PROVE  query'[r] = query[r]
  BY <1>7 DEF vars
<1>8. QED
  BY <1>2, <1>3, <1>4, <1>5, <1>6, <1>7 DEF KeepingNext

\* Every file but the one being written only grows.
LEMMA FilesGrow ==
  ASSUME IInv, [KeepingNext]_vars, NEW g \in DOMAIN files, g # temp
  PROVE  /\ Len(files[g]) <= Len(files'[g])
         /\ \A i \in 1 .. Len(files[g]) : files'[g][i] = files[g][i]
<1>1. files[g] \in Seq(Row) /\ Len(files[g]) \in Nat /\ TypeOK
  BY FileParts DEF IInv
<1>2. CASE UNCHANGED files
  BY <1>1, <1>2
<1>3. ASSUME NEW q \in Queries, AppendRow(q)
      PROVE  /\ Len(files[g]) <= Len(files'[g])
             /\ \A i \in 1 .. Len(files[g]) : files'[g][i] = files[g][i]
  <2> DEFINE f == query[q].file
             row == query[q].todo[query[q].at + 1]
             s == Append(files[f], row)
  <2>1. f \in DOMAIN files /\ files' = [files EXCEPT ![f] = s]
    BY <1>3 DEF AppendRow, IInv, TempApart
  <2>2. row \in Row
    <3> DEFINE at == query[q].at
               todo == query[q].todo
    <3>1. at \in Nat /\ todo \in Seq(Row) /\ at < Len(todo)
      BY <1>3, QueryParts DEF IInv, Numbered, AppendRow
    <3>2. at + 1 \in DOMAIN todo
      BY <3>1, LenProperties
    <3> HIDE DEF at, todo
    <3>3. todo[at + 1] \in Row
      BY <3>1, <3>2, ElementOfSeq
    <3>4. QED
      BY <3>3 DEF at, todo
  <2>3. CASE g = f
    <3>1. /\ Len(s) = Len(files[g]) + 1
          /\ \A i \in 1 .. Len(files[g]) : s[i] = files[g][i]
      BY <1>1, <2>2, <2>3, AppendProperties
    <3> HIDE DEF s
    <3>2. files'[g] = s
      BY <2>1, <2>3 DEF IInv, TypeOK
    <3>3. QED
      BY <1>1, <3>1, <3>2
  <2>4. CASE g # f
    <3> HIDE DEF s, f
    <3>1. files'[g] = files[g]
      BY <2>1, <2>4 DEF IInv, TypeOK
    <3>2. QED
      BY <1>1, <3>1
  <2>5. QED
    BY <2>3, <2>4
<1>4. ASSUME NEW q \in Queries, StartRewrite(q) \/ CopyLine(q)
      PROVE  files'[g] = files[g]
  <2>1. CASE StartRewrite(q) /\ temp = None
    BY <2>1, <1>1, FileMade DEF StartRewrite
  <2>2. CASE ~(StartRewrite(q) /\ temp = None)
    <3>1. PICK s : files' = [files EXCEPT ![temp] = s]
      BY <1>4, <2>2 DEF StartRewrite, CopyLine
    <3>2. QED
      BY <1>1, <3>1 DEF TypeOK
  <2>3. QED
    BY <2>1, <2>2
<1>5. ASSUME ~UNCHANGED files
      PROVE  \E q \in Queries : AppendRow(q) \/ StartRewrite(q) \/ CopyLine(q)
  BY <1>5 DEF KeepingNext, OpenAny, CallStep, Open, Done, Values, ScanLine, ScanEnd, Rename, Reopen,
              Crash, vars
<1>6. QED
  BY <1>1, <1>2, <1>3, <1>4, <1>5

\* A reader's file while its query stands still.
LEMMA ReaderStays ==
  ASSUME KeepingInv, [KeepingNext]_vars, NEW r \in Readers, query'[r] = query[r]
  PROVE  ReaderFits(r)'
<1> DEFINE s == Content(r)
           t == files'[query[r].file]
<1>1. /\ s \in Seq(Row) /\ Len(s) \in Nat /\ Len(s) <= Len(t)
      /\ \A i \in 1 .. Len(s) : t[i] = s[i]
  BY FilesGrow, FileParts DEF KeepingInv, IInv, TempApart, Queries, Content
<1>2. t \in Seq(Row) /\ Len(t) \in Nat
  <2>1. query'[r].file \in DOMAIN files' /\ TypeOK'
    BY StepHolds DEF KeepingInv, IInv, TempApart, Queries, KeepingNext, Next, Call
  <2>2. QED
    BY <2>1, ElementOfSeq, LenProperties DEF TypeOK
<1>3. Content(r)' = t
  BY DEF Content
<1>4. /\ query[r].at \in Nat /\ query[r].found \in SUBSET [at : Nat, row : Row]
  BY QueryParts DEF KeepingInv, IInv, Queries
<1>5. /\ At(r, "scan") => query[r].at <= Len(s) /\ query[r].found = FoundUpTo(r, query[r].at)
      /\ \A f \in query[r].found : f.at < Len(s) /\ s[f.at + 1] = f.row
  BY DEF KeepingInv, ReaderFits
<1> HIDE DEF t
<1>6. ASSUME At(r, "scan")
      PROVE  query[r].at <= Len(t) /\ query[r].found = FoundUpTo(r, query[r].at)'
  <2>1. query[r].at <= Len(s) /\ query[r].found = FoundUpTo(r, query[r].at)
    BY <1>5, <1>6
  <2>2. \A i \in 1 .. query[r].at : t[i] = s[i]
    <3>1. 1 .. query[r].at \subseteq 1 .. Len(s)
      BY <1>1, <1>4, <2>1
    <3>2. QED
      BY <1>1, <3>1
  <2>3. FoundUpTo(r, query[r].at)' = FoundUpTo(r, query[r].at)
    BY <1>3, <2>2 DEF FoundUpTo
  <2>4. QED
    BY <1>1, <1>2, <1>4, <2>1, <2>3
<1>7. ASSUME NEW f \in query[r].found
      PROVE  f.at < Len(t) /\ t[f.at + 1] = f.row
  <2>1. f.at \in Nat /\ f.at < Len(s) /\ s[f.at + 1] = f.row
    BY <1>4, <1>5
  <2>2. f.at + 1 \in 1 .. Len(s)
    BY <1>1, <2>1
  <2>3. QED
    BY <1>1, <1>2, <2>1, <2>2
<1>8. QED
  BY <1>3, <1>6, <1>7 DEF ReaderFits, At

\* A reader has its handle on a file.
LEMMA KeepingFiles ==
  ASSUME KeepingInv, NEW r \in Readers
  PROVE  /\ r \in Queries /\ TypeOK /\ query[r].file \in DOMAIN files
         /\ Content(r) \in Seq(Row) /\ Len(Content(r)) \in Nat
         /\ DOMAIN Content(r) = 1 .. Len(Content(r))
         /\ query[r].at \in Nat
  BY QueryParts, FileParts DEF KeepingInv, IInv, TempApart, Queries, Content

\* A reader's file when its query moves.
LEMMA ReaderGoesOn ==
  ASSUME KeepingInv, NEW r \in Readers,
         \/ \E kind, cond, key : Open(r, kind, cond, key)
         \/ Done(r) \/ ScanLine(r) \/ ScanEnd(r)
  PROVE  ReaderFits(r)'
<1>1. /\ r \in Queries /\ TypeOK /\ Content(r) \in Seq(Row) /\ Len(Content(r)) \in Nat
      /\ query[r].at \in Nat
  BY KeepingFiles
<1>2. /\ At(r, "scan") => query[r].at <= Len(Content(r)) /\ query[r].found = FoundUpTo(r, query[r].at)
      /\ \A f \in query[r].found : f.at < Len(Content(r)) /\ Content(r)[f.at + 1] = f.row
  BY DEF KeepingInv, ReaderFits
<1>3. ASSUME NEW kind, NEW cond, NEW key, Open(r, kind, cond, key)
      PROVE  ReaderFits(r)'
  <2> DEFINE n == New("ready", kind, cond, key, live)
  <2>1. n.stage = "ready" /\ n.found = {}
    BY DEF New
  <2>2. query' = [query EXCEPT ![r] = n]
    BY <1>3 DEF Open
  <2> HIDE DEF n
  <2>3. query'[r] = n
    BY <1>1, <2>2 DEF TypeOK
  <2>4. QED
    BY <2>1, <2>3 DEF ReaderFits, At
<1>4. CASE Done(r)
  <2>1. /\ query'[r].stage = "scan" /\ query'[r].at = 0 /\ query'[r].found = {}
        /\ query'[r].file = query[r].file /\ files' = files
    BY <1>1, <1>4, MovedIs DEF Done
  <2>2. FoundUpTo(r, query[r].at)' = {}
    BY <2>1 DEF FoundUpTo
  <2>3. Content(r)' = Content(r)
    BY <2>1 DEF Content
  <2>4. QED
    BY <1>1, <2>1, <2>2, <2>3 DEF ReaderFits, At
<1>5. CASE ScanLine(r)
  <2> DEFINE line == Content(r)[query[r].at + 1]
             rest == IF line.key \in query[r].cond THEN {FoundAt(query[r].at, line)} ELSE {}
             more == query[r].found \cup rest
  <2>1. /\ query' = Moved(r, "scan", query[r].at + 1, <<>>, more)
        /\ At(r, "scan") /\ query[r].at < Len(Content(r)) /\ files' = files
    BY <1>5 DEF ScanLine
  <2>2. FoundUpTo(r, query[r].at + 1) = FoundUpTo(r, query[r].at) \cup rest
    BY <1>1, FoundOneMore
  <2>3. \A f \in rest : f.at < Len(Content(r)) /\ Content(r)[f.at + 1] = f.row
    BY <2>1 DEF FoundAt
  <2> HIDE DEF rest
  <2>4. more = FoundUpTo(r, query[r].at + 1)
    BY <1>2, <2>1, <2>2
  <2>5. \A f \in more : f.at < Len(Content(r)) /\ Content(r)[f.at + 1] = f.row
    BY <1>2, <2>3
  <2> HIDE DEF more
  <2>6. /\ query'[r].stage = "scan" /\ query'[r].at = query[r].at + 1 /\ query'[r].found = more
        /\ query'[r].file = query[r].file /\ query'[r].cond = query[r].cond
    BY <1>1, <2>1, MovedIs
  <2>7. Content(r)' = Content(r)
    BY <2>1, <2>6 DEF Content
  <2>8. FoundUpTo(r, query[r].at)' = FoundUpTo(r, query[r].at + 1)
    BY <2>6, <2>7 DEF FoundUpTo
  <2>9. query[r].at + 1 <= Len(Content(r))
    BY <1>1, <2>1
  <2>10. QED
    BY <2>4, <2>5, <2>6, <2>7, <2>8, <2>9 DEF ReaderFits, At
<1>6. CASE ScanEnd(r)
  <2>1. /\ query'[r].stage = "ready" /\ query'[r].found = query[r].found
        /\ query'[r].file = query[r].file /\ files' = files
    BY <1>1, <1>6, MovedIs DEF ScanEnd
  <2>2. Content(r)' = Content(r)
    BY <2>1 DEF Content
  <2>3. QED
    BY <1>2, <2>1, <2>2 DEF ReaderFits, At
<1>7. QED
  BY <1>3, <1>4, <1>5, <1>6

\* It holds at first, when nobody has read.
LEMMA KeepingInitHolds == Init => KeepingInv
<1> SUFFICES ASSUME Init PROVE KeepingInv
  OBVIOUS
<1>1. \A r \in Readers : query[r] = Closed
  BY DEF Init, Queries
<1>2. \A r \in Readers : ReaderFits(r)
  BY <1>1, ClosedIs DEF ReaderFits, At
<1>3. QED
  BY <1>2, InitHolds DEF KeepingInv

\* It is inductive.
LEMMA KeepingStepHolds == KeepingInv /\ [KeepingNext]_vars => KeepingInv'
<1> SUFFICES ASSUME KeepingInv, [KeepingNext]_vars PROVE KeepingInv'
  OBVIOUS
<1>1. IInv'
  BY StepHolds DEF KeepingInv, KeepingNext, Next, Call, Queries
<1>2. ASSUME NEW r \in Readers
      PROVE  ReaderFits(r)'
  BY ReaderMoves, ReaderStays, ReaderGoesOn DEF KeepingInv
<1>3. QED
  BY <1>1, <1>2 DEF KeepingInv

\* The results of a select keep answering with the rows they were made of while
\* the other process inserts, deletes and updates (results.zep getRow).
THEOREM ResultsAnswer == KeepingSpec => []ResultsStay
<1>1. KeepingInv => ResultsStay
  BY DEF KeepingInv, ReaderFits, ResultsStay
<1>2. QED
  BY <1>1, KeepingInitHolds, KeepingStepHolds, PTL DEF KeepingSpec

\* A select that ends has found all rows of its file that match.
LEMMA ScanEndsWhole ==
  ASSUME KeepingInv, NEW r \in Readers, ScanEnd(r)
  PROVE  {f.row : f \in query'[r].found} =
           {row \in ToSet(Content(r)) : row.key \in query[r].cond}
<1>1. /\ r \in Queries /\ TypeOK /\ Len(Content(r)) \in Nat /\ query[r].at \in Nat
      /\ DOMAIN Content(r) = 1 .. Len(Content(r))
  BY KeepingFiles
<1>2. At(r, "scan") /\ query[r].at >= Len(Content(r)) /\ query'[r].found = query[r].found
  BY <1>1, MovedIs DEF ScanEnd
<1>3. query[r].at <= Len(Content(r)) /\ query[r].found = FoundUpTo(r, query[r].at)
  BY <1>2 DEF KeepingInv, ReaderFits
<1>4. query[r].at = Len(Content(r))
  BY <1>1, <1>2, <1>3
<1>5. {f.row : f \in FoundUpTo(r, Len(Content(r)))} =
        {Content(r)[i] : i \in {j \in 1 .. Len(Content(r)) : Content(r)[j].key \in query[r].cond}}
  <2>1. \A i : FoundAt(i - 1, Content(r)[i]).row = Content(r)[i]
    BY DEF FoundAt
  <2>2. QED
    BY <2>1 DEF FoundUpTo
<1>6. {row \in ToSet(Content(r)) : row.key \in query[r].cond} =
        {Content(r)[i] : i \in {j \in 1 .. Len(Content(r)) : Content(r)[j].key \in query[r].cond}}
  BY <1>1 DEF ToSet
<1>7. QED
  BY <1>2, <1>3, <1>4, <1>5, <1>6

\* A select of another process returns all rows of one state of its file that
\* match, although the file grows and is renamed over meanwhile (table.zep
\* selectRows).
THEOREM SelectsAreWhole == KeepingSpec => SelectsWhole
<1> DEFINE Whole(r) == At(r, "scan") /\ At(r, "ready")' =>
             {f.row : f \in query'[r].found} =
               {row \in ToSet(Content(r)) : row.key \in query[r].cond}
           AllWhole == \A r \in Readers : Whole(r)
<1>1. KeepingInv /\ [KeepingNext]_vars => AllWhole
  <2> SUFFICES ASSUME KeepingInv, [KeepingNext]_vars, NEW r \in Readers,
                      query[r].stage = "scan", query'[r].stage = "ready"
               PROVE  {f.row : f \in query'[r].found} =
                        {row \in ToSet(Content(r)) : row.key \in query[r].cond}
    BY DEF At
  <2>1. ScanEnd(r)
    <3>1. query'[r] # query[r]
      OBVIOUS
    <3>2. ~\E kind, cond, key : Open(r, kind, cond, key)
      BY DEF Open, Busy
    <3>3. ~Done(r)
      BY DEF Done, MayCall, At
    <3>4. ~ScanLine(r)
      <4>1. ASSUME ScanLine(r)
            PROVE  query'[r].stage = "scan"
        <5>1. PICK found : query' = Moved(r, "scan", query[r].at + 1, <<>>, found)
          BY <4>1 DEF ScanLine
        <5>2. QED
          BY <5>1, MovedIs, KeepingFiles
      <4>2. QED
        BY <4>1
    <3>5. QED
      BY <3>1, <3>2, <3>3, <3>4, ReaderMoves DEF KeepingInv
  <2>2. QED
    BY <2>1, ScanEndsWhole
<1>2. KeepingInv /\ [KeepingNext]_vars => [AllWhole]_vars
  BY <1>1
<1> HIDE DEF AllWhole
<1>3. KeepingSpec => [][AllWhole]_vars
  BY <1>2, KeepingInitHolds, KeepingStepHolds, PTL DEF KeepingSpec
<1>4. QED
  BY <1>3, PTL DEF SelectsWhole, AllWhole, Whole
=============================================================================

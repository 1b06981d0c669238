---------------------------- MODULE SchemaProofs ----------------------------
(***************************************************************************)
(* Theorems about the definitions of tables that many processes create,    *)
(* use and delete at once, each of which may be killed anywhere.  What a   *)
(* process does next depends on its program, so the invariants are about   *)
(* programs: every step puts some steps in front of the rest of one.  In   *)
(* the second half one process is alone, is not killed, and calls anything. *)
(***************************************************************************)
EXTENDS Schema, Lists, FiniteSetTheorems

Whole == {"columns", "relations", "increment"}

\* What a definition puts into one of its files.
PartOf(d, f) == IF f = "columns" THEN d.columns ELSE IF f = "relations" THEN d.relations ELSE Blank

\* The steps whose files are those of a definition, and all but the one that uses
\* what the client of createTable() handed over, which is there until it is used.
PlainSteps ==
  {e \in Steps :
     /\ e.do # "absent"
     /\ e.do \in {"open", "put"} => e.file \in Whole /\ e.part \in SUBSET Columns
     /\ e.do = "read" => e.file \in {"columns", "relations"}}

Fits(s) ==
  \A i \in DOMAIN s : s[i] \in PlainSteps \/ (s[i].do = "absent" /\ i = Len(s))

Asked(p) == \A i \in DOMAIN todo[p] : todo[p][i].do = "absent" => arg[p] \in Def

TypeInv == TypeOK /\ \A p \in Procs : Fits(todo[p]) /\ Asked(p)

-----------------------------------------------------------------------------
(* The values.                                                             *)

\* A step, as a record.
LEMMA StepIs ==
  ASSUME NEW e \in Steps
  PROVE  /\ e.do \in {"new", "check", "absent", "present", "read", "build", "make", "open",
                      "put", "touch", "save", "scan", "list", "unlink", "rmdir"}
         /\ e.table \in Tables /\ e.file \in Files /\ e.part \in Content
BY DEF Steps

\* A step on a table, as a record.
LEMMA DoIs ==
  ASSUME NEW w \in {"new", "check", "absent", "present", "build", "make", "touch", "save",
                    "scan", "list", "rmdir"}, NEW t \in Tables
  PROVE  Do(w, t) \in Steps /\ Do(w, t).do = w /\ Do(w, t).table = t
<1>1. "marker" \in Files /\ Absent \in Content
  BY DEF Files, Content
<1> QED BY <1>1 DEF Do, Steps

\* A step on a file, as a record.
LEMMA OnIs ==
  ASSUME NEW w \in {"read", "open", "put", "unlink"}, NEW t \in Tables, NEW f \in Files,
         NEW v \in Content
  PROVE  /\ On(w, t, f, v) \in Steps
         /\ On(w, t, f, v).do = w /\ On(w, t, f, v).table = t
         /\ On(w, t, f, v).file = f /\ On(w, t, f, v).part = v
BY DEF On, Steps

\* The steps of a program after the first, behind what is put in front of them.
LEMMA ThenSteps ==
  ASSUME NEW S, NEW s \in Seq(S), s # <<>>, NEW g \in Seq(S)
  PROVE  /\ g \o Tail(s) \in Seq(S)
         /\ Len(g \o Tail(s)) = Len(g) + Len(s) - 1
         /\ DOMAIN (g \o Tail(s)) = 1 .. Len(g) + Len(s) - 1
         /\ \A i \in 1 .. Len(g) : (g \o Tail(s))[i] = g[i]
         /\ \A i \in Len(g) + 1 .. Len(g) + Len(s) - 1 :
              (g \o Tail(s))[i] = s[i - Len(g) + 1]
<1>1. /\ Len(s) \in Nat \ {0} /\ Len(g) \in Nat
      /\ Tail(s) \in Seq(S) /\ Len(Tail(s)) = Len(s) - 1
      /\ \A i \in 1 .. Len(s) - 1 : Tail(s)[i] = s[i + 1]
  BY EmptySeq, LenProperties, HeadTailProperties
<1>2. /\ g \o Tail(s) \in Seq(S)
      /\ Len(g \o Tail(s)) = Len(g) + Len(Tail(s))
      /\ \A i \in 1 .. Len(g) + Len(Tail(s)) :
           (g \o Tail(s))[i] = IF i <= Len(g) THEN g[i] ELSE Tail(s)[i - Len(g)]
  BY <1>1, ConcatProperties
<1>3. DOMAIN (g \o Tail(s)) = 1 .. Len(g) + Len(s) - 1
  BY <1>1, <1>2, LenProperties
<1> QED BY <1>1, <1>2, <1>3

\* The definition of a table, its parts, and what may be in their files.
LEMMA DefIs ==
  ASSUME NEW d \in Def
  PROVE  /\ d.columns \in SUBSET Columns /\ d.relations \in SUBSET Columns
         /\ d # None
         /\ \A f \in Whole : PartOf(d, f) \in SUBSET Columns
<1>1. d = [columns |-> d.columns, relations |-> d.relations]
  BY DEF Def
<1>2. d.columns \in SUBSET Columns /\ d.relations \in SUBSET Columns
  BY DEF Def
<1>3. d # None
  BY <1>1, <1>2, ValuesAssumption
<1> QED BY <1>2, <1>3 DEF PartOf, Whole, Blank

\* A set of columns is no process and not the absence of a file.
LEMMA ContentIs ==
  ASSUME NEW S \in SUBSET Columns
  PROVE  S \in Content /\ S # Absent /\ S \notin Procs
BY ValuesAssumption DEF Content

\* The steps that Each() makes.
LEMMA EachIs ==
  ASSUME NEW w \in {"save", "check"}, NEW S \in SUBSET Tables
  PROVE  /\ Each(w, S) \in Seq(Steps)
         /\ \A i \in DOMAIN Each(w, S) : Each(w, S)[i].do = w /\ Each(w, S)[i].table \in S
<1>1. IsFiniteSet(S)
  BY TablesAssumption, FS_Subset
<1>2. Cardinality(S) \in Nat /\ ExistsBijection(1 .. Cardinality(S), S)
  BY <1>1, FS_CardinalityType
<1> DEFINE n == Cardinality(S)
           o == SetToSeq(S)
<1>3. \E f \in [1 .. n -> S] : IsInjective(f)
  <2>1. PICK f \in Bijection(1 .. n, S) : TRUE
    BY <1>2 DEF ExistsBijection
  <2> QED BY <2>1 DEF Bijection, Injection, IsInjective
<1>4. o \in [1 .. n -> S]
  BY <1>3 DEF SetToSeq
<1> HIDE DEF o, n
<1>5. n \in Nat
  BY <1>2 DEF n
<1>6. Each(w, S) = [i \in 1 .. n |-> Do(w, o[i])]
  BY <1>4 DEF Each, o
<1>7. \A i \in 1 .. n : Do(w, o[i]) \in Steps /\ Do(w, o[i]).do = w /\ Do(w, o[i]).table = o[i]
  BY <1>4, DoIs
<1>8. Each(w, S) \in Seq(Steps)
  BY <1>5, <1>6, <1>7, IsASeq
<1> QED BY <1>4, <1>6, <1>7, <1>8

\* A program of one step.
LEMMA SingleIs ==
  ASSUME NEW S, NEW a \in S
  PROVE  <<a>> \in Seq(S) /\ Len(<<a>>) = 1 /\ DOMAIN <<a>> = {1} /\ <<a>>[1] = a
OBVIOUS

\* A program of two steps.
LEMMA PairIs ==
  ASSUME NEW S, NEW a \in S, NEW b \in S
  PROVE  /\ <<a, b>> \in Seq(S) /\ Len(<<a, b>>) = 2 /\ DOMAIN <<a, b>> = {1, 2}
         /\ <<a, b>>[1] = a /\ <<a, b>>[2] = b
OBVIOUS

\* A program of three steps.
LEMMA TripleIs ==
  ASSUME NEW S, NEW a \in S, NEW b \in S, NEW c \in S
  PROVE  /\ <<a, b, c>> \in Seq(S) /\ Len(<<a, b, c>>) = 3 /\ DOMAIN <<a, b, c>> = 1 .. 3
         /\ <<a, b, c>>[1] = a /\ <<a, b, c>>[2] = b /\ <<a, b, c>>[3] = c
OBVIOUS

\* A program after another.
LEMMA JoinIs ==
  ASSUME NEW S, NEW a \in Seq(S), NEW b \in Seq(S)
  PROVE  /\ a \o b \in Seq(S) /\ Len(a) \in Nat /\ Len(b) \in Nat
         /\ Len(a \o b) = Len(a) + Len(b)
         /\ \A i \in 1 .. Len(a) : (a \o b)[i] = a[i]
         /\ \A i \in Len(a) + 1 .. Len(a) + Len(b) : (a \o b)[i] = b[i - Len(a)]
BY ConcatProperties, LenProperties

-----------------------------------------------------------------------------
(* The programs.                                                           *)

\* setFile() in steps.
LEMMA SetFileIs ==
  ASSUME NEW t \in Tables, NEW f \in Files, NEW v \in Content
  PROVE  /\ SetFile(t, f, v) \in Seq(Steps) /\ Len(SetFile(t, f, v)) = 2
         /\ SetFile(t, f, v)[1] = On("open", t, f, v)
         /\ SetFile(t, f, v)[2] = On("put", t, f, v)
BY OnIs, PairIs DEF SetFile

\* The writing of a definition in steps.
LEMMA SetFilesIs ==
  ASSUME NEW t \in Tables, NEW d \in Def
  PROVE  /\ SetFiles(t, d) \in Seq(Steps) /\ Len(SetFiles(t, d)) = 6
         /\ SetFiles(t, d)[1] = On("open", t, "columns", d.columns)
         /\ SetFiles(t, d)[2] = On("put", t, "columns", d.columns)
         /\ SetFiles(t, d)[3] = On("open", t, "relations", d.relations)
         /\ SetFiles(t, d)[4] = On("put", t, "relations", d.relations)
         /\ SetFiles(t, d)[5] = On("open", t, "increment", Blank)
         /\ SetFiles(t, d)[6] = On("put", t, "increment", Blank)
<1> DEFINE a == SetFile(t, "columns", d.columns)
           b == SetFile(t, "relations", d.relations)
           c == SetFile(t, "increment", Blank)
<1>1. /\ d.columns \in Content /\ d.relations \in Content /\ Blank \in Content
      /\ {"columns", "relations", "increment"} \subseteq Files
  BY DefIs, ContentIs DEF Blank, Files
<1>2. /\ a \in Seq(Steps) /\ Len(a) = 2
      /\ a[1] = On("open", t, "columns", d.columns) /\ a[2] = On("put", t, "columns", d.columns)
  BY <1>1, SetFileIs
<1>3. /\ b \in Seq(Steps) /\ Len(b) = 2
      /\ b[1] = On("open", t, "relations", d.relations)
      /\ b[2] = On("put", t, "relations", d.relations)
  BY <1>1, SetFileIs
<1>4. /\ c \in Seq(Steps) /\ Len(c) = 2
      /\ c[1] = On("open", t, "increment", Blank) /\ c[2] = On("put", t, "increment", Blank)
  BY <1>1, SetFileIs
<1>5. SetFiles(t, d) = (a \o b) \o c
  BY DEF SetFiles
<1> HIDE DEF a, b, c
<1> DEFINE ab == a \o b
<1>6. /\ ab \in Seq(Steps) /\ Len(ab) = 4
      /\ ab[1] = a[1] /\ ab[2] = a[2] /\ ab[3] = b[1] /\ ab[4] = b[2]
  <2>1. /\ a \o b \in Seq(Steps) /\ Len(a) \in Nat /\ Len(b) \in Nat
        /\ Len(a \o b) = Len(a) + Len(b)
        /\ \A i \in 1 .. Len(a) : (a \o b)[i] = a[i]
        /\ \A i \in Len(a) + 1 .. Len(a) + Len(b) : (a \o b)[i] = b[i - Len(a)]
    BY <1>2, <1>3, JoinIs
  <2>2. 1 \in 1 .. Len(a) /\ 2 \in 1 .. Len(a) /\ 3 \in Len(a) + 1 .. Len(a) + Len(b)
      /\ 3 - Len(a) = 1 /\ 4 \in Len(a) + 1 .. Len(a) + Len(b) /\ 4 - Len(a) = 2
    BY <1>2, <1>3
  <2> QED BY <2>1, <2>2, <1>2, <1>3
<1> HIDE DEF ab
<1>7. /\ ab \o c \in Seq(Steps) /\ Len(ab \o c) = 6
      /\ (ab \o c)[1] = ab[1] /\ (ab \o c)[2] = ab[2] /\ (ab \o c)[3] = ab[3]
      /\ (ab \o c)[4] = ab[4] /\ (ab \o c)[5] = c[1] /\ (ab \o c)[6] = c[2]
  <2>1. /\ ab \o c \in Seq(Steps) /\ Len(ab) \in Nat /\ Len(c) \in Nat
        /\ Len(ab \o c) = Len(ab) + Len(c)
        /\ \A i \in 1 .. Len(ab) : (ab \o c)[i] = ab[i]
        /\ \A i \in Len(ab) + 1 .. Len(ab) + Len(c) : (ab \o c)[i] = c[i - Len(ab)]
    BY <1>4, <1>6, JoinIs
  <2>2. 1 \in 1 .. Len(ab) /\ 2 \in 1 .. Len(ab) /\ 3 \in 1 .. Len(ab) /\ 4 \in 1 .. Len(ab) /\ 5 \in Len(ab) + 1 .. Len(ab) + Len(c)
      /\ 5 - Len(ab) = 1 /\ 6 \in Len(ab) + 1 .. Len(ab) + Len(c) /\ 6 - Len(ab) = 2
    BY <1>4, <1>6
  <2> QED BY <2>1, <2>2, <1>4, <1>6
<1> QED BY <1>2, <1>3, <1>4, <1>5, <1>6, <1>7 DEF ab

\* The end of every call: all tables are saved, and all are loaded again.
LEMMA EndIs ==
  /\ SaveAll \in Seq(Steps) /\ \A i \in DOMAIN SaveAll : SaveAll[i].do = "save"
  /\ Refresh \in Seq(Steps) /\ Len(Refresh) = 1 /\ Refresh[1].do = "scan"
<1>1. (CHOOSE t \in Tables : TRUE) \in Tables
  BY TablesAssumption
<1> QED BY <1>1, EachIs, SingleIs, DoIs DEF SaveAll, Refresh

\* The loading of a definition in steps.
LEMMA LoadIs ==
  ASSUME NEW t \in Tables
  PROVE  /\ Load(t) \in Seq(Steps) /\ Len(Load(t)) = 3
         /\ Load(t)[1] = On("read", t, "columns", Absent)
         /\ Load(t)[2] = On("read", t, "relations", Absent)
         /\ Load(t)[3] = Do("build", t)
<1>1. Absent \in Content /\ {"columns", "relations"} \subseteq Files
  BY DEF Content, Files
<1> QED BY <1>1, OnIs, DoIs, TripleIs DEF Load

\* A program and the end of a call.
LEMMA EndedIs ==
  ASSUME NEW g \in Seq(Steps)
  PROVE  /\ (g \o SaveAll) \o Refresh \in Seq(Steps)
         /\ Len((g \o SaveAll) \o Refresh) \in Nat
         /\ Len((g \o SaveAll) \o Refresh) > Len(g)
         /\ \A i \in 1 .. Len(g) : ((g \o SaveAll) \o Refresh)[i] = g[i]
         /\ \A i \in Len(g) + 1 .. Len((g \o SaveAll) \o Refresh) :
              ((g \o SaveAll) \o Refresh)[i].do \in {"save", "scan"}
<1> DEFINE a == g \o SaveAll
<1>1. Len(g) \in Nat /\ Len(SaveAll) \in Nat /\ DOMAIN SaveAll = 1 .. Len(SaveAll)
  BY EndIs, LenProperties
<1>2. /\ a \in Seq(Steps) /\ Len(a) = Len(g) + Len(SaveAll)
      /\ \A i \in 1 .. Len(g) : a[i] = g[i]
      /\ \A i \in Len(g) + 1 .. Len(a) : a[i].do = "save"
  <2>1. /\ g \o SaveAll \in Seq(Steps) /\ Len(g) \in Nat /\ Len(SaveAll) \in Nat
        /\ Len(g \o SaveAll) = Len(g) + Len(SaveAll)
        /\ \A i \in 1 .. Len(g) : (g \o SaveAll)[i] = g[i]
        /\ \A i \in Len(g) + 1 .. Len(g) + Len(SaveAll) : (g \o SaveAll)[i] = SaveAll[i - Len(g)]
    BY EndIs, <1>1, JoinIs
  <2>2. ASSUME NEW i \in Len(g) + 1 .. Len(g) + Len(SaveAll) PROVE a[i].do = "save"
    <3>1. i - Len(g) \in DOMAIN SaveAll
      BY <1>1
    <3>2. a[i] = SaveAll[i - Len(g)]
      BY <2>1
    <3> QED BY <3>1, <3>2, EndIs
  <2> QED BY <2>1, <2>2
<1> HIDE DEF a
<1>3. /\ a \o Refresh \in Seq(Steps) /\ Len(a \o Refresh) = Len(a) + 1
      /\ \A i \in 1 .. Len(a) : (a \o Refresh)[i] = a[i]
      /\ (a \o Refresh)[Len(a) + 1].do = "scan"
  <2>0. a \in Seq(Steps) /\ Refresh \in Seq(Steps)
    BY <1>2, EndIs
  <2>1. /\ a \o Refresh \in Seq(Steps) /\ Len(a) \in Nat /\ Len(Refresh) \in Nat
        /\ Len(a \o Refresh) = Len(a) + Len(Refresh)
        /\ \A i \in 1 .. Len(a) : (a \o Refresh)[i] = a[i]
        /\ \A i \in Len(a) + 1 .. Len(a) + Len(Refresh) : (a \o Refresh)[i] = Refresh[i - Len(a)]
    BY <2>0, JoinIs
  <2> QED BY <2>1, EndIs, <1>1, <1>2
<1> QED BY <1>1, <1>2, <1>3 DEF a

\* createTable() in steps, from the check on.
LEMMA CreateIs ==
  ASSUME NEW t \in Tables, NEW d \in Def
  PROVE  /\ Create(t, d) \in Seq(Steps) /\ Len(Create(t, d)) > 8
         /\ Create(t, d)[1] = Do("make", t)
         /\ \A i \in 1 .. 6 : Create(t, d)[i + 1] = SetFiles(t, d)[i]
         /\ Create(t, d)[8] = Do("touch", t)
         /\ \A i \in 9 .. Len(Create(t, d)) : Create(t, d)[i].do \in {"save", "scan"}
<1> DEFINE a == <<Do("make", t)>>
           b == SetFiles(t, d)
           c == <<Do("touch", t)>>
<1>1. a \in Seq(Steps) /\ Len(a) = 1 /\ a[1] = Do("make", t)
  BY DoIs, SingleIs
<1>2. b \in Seq(Steps) /\ Len(b) = 6
  BY SetFilesIs
<1>3. c \in Seq(Steps) /\ Len(c) = 1 /\ c[1] = Do("touch", t)
  BY DoIs, SingleIs
<1>4. Create(t, d) = (((a \o b) \o c) \o SaveAll) \o Refresh
  BY DEF Create
<1> HIDE DEF a, b, c
<1> DEFINE ab == a \o b
<1>5. ab \in Seq(Steps) /\ Len(ab) = 7 /\ ab[1] = a[1] /\ \A i \in 1 .. 6 : ab[i + 1] = b[i]
  <2>1. /\ a \o b \in Seq(Steps) /\ Len(a) \in Nat /\ Len(b) \in Nat
        /\ Len(a \o b) = Len(a) + Len(b)
        /\ \A i \in 1 .. Len(a) : (a \o b)[i] = a[i]
        /\ \A i \in Len(a) + 1 .. Len(a) + Len(b) : (a \o b)[i] = b[i - Len(a)]
    BY <1>1, <1>2, JoinIs
  <2>2. 1 \in 1 .. Len(a)
    BY <1>1, <1>2
  <2> QED BY <2>1, <2>2, <1>1, <1>2
<1> HIDE DEF ab
<1> DEFINE g == ab \o c
<1>6. g \in Seq(Steps) /\ Len(g) = 8 /\ g[8] = c[1] /\ \A i \in 1 .. 7 : g[i] = ab[i]
  <2>1. /\ ab \o c \in Seq(Steps) /\ Len(ab) \in Nat /\ Len(c) \in Nat
        /\ Len(ab \o c) = Len(ab) + Len(c)
        /\ \A i \in 1 .. Len(ab) : (ab \o c)[i] = ab[i]
        /\ \A i \in Len(ab) + 1 .. Len(ab) + Len(c) : (ab \o c)[i] = c[i - Len(ab)]
    BY <1>3, <1>5, JoinIs
  <2>2. 8 \in Len(ab) + 1 .. Len(ab) + Len(c) /\ 8 - Len(ab) = 1
    BY <1>3, <1>5
  <2> QED BY <2>1, <2>2, <1>3, <1>5
<1> HIDE DEF g
<1>7. Create(t, d) = (g \o SaveAll) \o Refresh
  BY <1>4 DEF g, ab
<1> DEFINE z == (g \o SaveAll) \o Refresh
<1>8. /\ z \in Seq(Steps) /\ Len(z) > 8 /\ \A i \in 1 .. 8 : z[i] = g[i]
      /\ \A i \in 9 .. Len(z) : z[i].do \in {"save", "scan"}
  <2>1. /\ z \in Seq(Steps) /\ Len(z) \in Nat /\ Len(z) > Len(g)
        /\ \A i \in 1 .. Len(g) : z[i] = g[i]
        /\ \A i \in Len(g) + 1 .. Len(z) : z[i].do \in {"save", "scan"}
    BY <1>6, EndedIs
  <2> HIDE DEF z
  <2> QED BY <2>1, <1>6
<1> HIDE DEF z
<1>9. Create(t, d) = z
  BY <1>7 DEF z
<1> QED BY <1>1, <1>3, <1>5, <1>6, <1>8, <1>9 DEF b

\* deleteTable() in steps, from the check on.
LEMMA DeleteIs ==
  ASSUME NEW t \in Tables
  PROVE  /\ Delete(t) \in Seq(Steps) /\ Len(Delete(t)) > 4
         /\ \A i \in 1 .. 3 : Delete(t)[i] = Load(t)[i]
         /\ Delete(t)[4] = Do("list", t)
         /\ \A i \in 5 .. Len(Delete(t)) : Delete(t)[i].do \in {"save", "scan"}
<1> DEFINE a == Load(t)
           b == <<Do("list", t)>>
<1>1. a \in Seq(Steps) /\ Len(a) = 3
  BY LoadIs
<1>2. b \in Seq(Steps) /\ Len(b) = 1 /\ b[1] = Do("list", t)
  BY DoIs, SingleIs
<1>3. Delete(t) = ((a \o b) \o SaveAll) \o Refresh
  BY DEF Delete
<1> HIDE DEF a, b
<1> DEFINE g == a \o b
<1>4. g \in Seq(Steps) /\ Len(g) = 4 /\ g[4] = b[1] /\ \A i \in 1 .. 3 : g[i] = a[i]
  <2>1. /\ a \o b \in Seq(Steps) /\ Len(a) \in Nat /\ Len(b) \in Nat
        /\ Len(a \o b) = Len(a) + Len(b)
        /\ \A i \in 1 .. Len(a) : (a \o b)[i] = a[i]
        /\ \A i \in Len(a) + 1 .. Len(a) + Len(b) : (a \o b)[i] = b[i - Len(a)]
    BY <1>1, <1>2, JoinIs
  <2>2. 4 \in Len(a) + 1 .. Len(a) + Len(b) /\ 4 - Len(a) = 1
    BY <1>1, <1>2
  <2> QED BY <2>1, <2>2, <1>1, <1>2
<1> HIDE DEF g
<1> DEFINE z == (g \o SaveAll) \o Refresh
<1>5. /\ z \in Seq(Steps) /\ Len(z) > 4 /\ \A i \in 1 .. 4 : z[i] = g[i]
      /\ \A i \in 5 .. Len(z) : z[i].do \in {"save", "scan"}
  <2>1. /\ z \in Seq(Steps) /\ Len(z) \in Nat /\ Len(z) > Len(g)
        /\ \A i \in 1 .. Len(g) : z[i] = g[i]
        /\ \A i \in Len(g) + 1 .. Len(z) : z[i].do \in {"save", "scan"}
    BY <1>4, EndedIs
  <2> HIDE DEF z
  <2> QED BY <2>1, <1>4
<1>6. Delete(t) = z
  BY <1>3 DEF g
<1> HIDE DEF z
<1> QED BY <1>2, <1>4, <1>5, <1>6 DEF a

\* A sequence with all its elements in a set is one over the set.
LEMMA NarrowIs ==
  ASSUME NEW S, NEW T, NEW s \in Seq(S), \A i \in DOMAIN s : s[i] \in T
  PROVE  s \in Seq(T)
<1>1. Len(s) \in Nat /\ DOMAIN s = 1 .. Len(s) /\ s = [i \in 1 .. Len(s) |-> s[i]]
  BY LenProperties, SeqDef
<1> QED BY <1>1, IsASeq

\* A sequence over a set is one over any larger set.
LEMMA WidenIs ==
  ASSUME NEW S, NEW T \in SUBSET S, NEW s \in Seq(T)
  PROVE  s \in Seq(S) /\ \A i \in DOMAIN s : s[i] \in T
<1>1. Len(s) \in Nat /\ DOMAIN s = 1 .. Len(s) /\ \A i \in 1 .. Len(s) : s[i] \in T
  BY LenProperties, ElementOfSeq
<1> QED BY <1>1, NarrowIs

\* What is plain about a plain step.
LEMMA PlainIs ==
  ASSUME NEW e \in PlainSteps
  PROVE  /\ e \in Steps /\ e.do # "absent"
         /\ e.do \in {"open", "put"} => e.file \in Whole /\ e.part \in SUBSET Columns
         /\ e.do = "read" => e.file \in {"columns", "relations"}
<1>1. e \in Steps
  BY DEF PlainSteps
<1>2. /\ e.do # "absent"
      /\ e.do \in {"open", "put"} => e.file \in Whole /\ e.part \in SUBSET Columns
      /\ e.do = "read" => e.file \in {"columns", "relations"}
  BY DEF PlainSteps
<1> QED BY <1>1, <1>2

\* Steps on the files of a definition are plain.
LEMMA PlainAre ==
  /\ \A t \in Tables, w \in {"new", "check", "present", "build", "make", "touch", "save",
                            "scan", "list", "rmdir"} : Do(w, t) \in PlainSteps
  /\ \A t \in Tables, w \in {"open", "put"}, f \in Whole, v \in SUBSET Columns :
       On(w, t, f, v) \in PlainSteps
  /\ \A t \in Tables, f \in {"columns", "relations"} : On("read", t, f, Absent) \in PlainSteps
  /\ \A t \in Tables, f \in Files : On("unlink", t, f, Absent) \in PlainSteps
<1>1. Whole \subseteq Files /\ {"columns", "relations"} \subseteq Files
  BY DEF Whole, Files
<1>2. SUBSET Columns \subseteq Content /\ Absent \in Content
  BY DEF Content
<1> QED BY <1>1, <1>2, DoIs, OnIs DEF PlainSteps

\* All calls are made of plain steps, but for the check that a table is not there.
LEMMA ProgramsPlain ==
  ASSUME NEW t \in Tables
  PROVE  /\ <<>> \in Seq(PlainSteps) /\ SaveAll \in Seq(PlainSteps) /\ Refresh \in Seq(PlainSteps)
         /\ SaveAll \o Refresh \in Seq(PlainSteps)
         /\ Load(t) \in Seq(PlainSteps) /\ Delete(t) \in Seq(PlainSteps)
         /\ \A d \in Def : SetFiles(t, d) \in Seq(PlainSteps) /\ Create(t, d) \in Seq(PlainSteps)
         /\ \A w \in {"check", "present"} : <<Do(w, t)>> \in Seq(PlainSteps)
         /\ \A S \in SUBSET Tables : Each("check", S) \in Seq(PlainSteps)
<1>1. PlainSteps \subseteq Steps
  BY DEF PlainSteps
<1>2. \A e \in Steps : e.do \in {"save", "scan", "check"} => e \in PlainSteps
  BY DEF PlainSteps
<1>3. SaveAll \in Seq(PlainSteps)
  <2>1. \A i \in DOMAIN SaveAll : SaveAll[i] \in PlainSteps
    BY <1>2, EndIs, ElementOfSeq, LenProperties
  <2> QED BY <2>1, EndIs, NarrowIs
<1>4. Refresh \in Seq(PlainSteps)
  <2>1. \A i \in DOMAIN Refresh : Refresh[i] \in PlainSteps
    <3>1. DOMAIN Refresh = 1 .. 1 /\ \A i \in 1 .. 1 : Refresh[i] \in Steps
      BY EndIs, ElementOfSeq, LenProperties
    <3>2. \A i \in 1 .. 1 : i = 1
      OBVIOUS
    <3> QED BY <1>2, EndIs, <3>1, <3>2
  <2> QED BY <2>1, EndIs, NarrowIs
<1>5. SaveAll \o Refresh \in Seq(PlainSteps)
  BY <1>3, <1>4, ConcatProperties
<1>6. Load(t) \in Seq(PlainSteps)
  BY PlainAre, TripleIs DEF Load
<1>7. ASSUME NEW d \in Def PROVE SetFiles(t, d) \in Seq(PlainSteps)
  <2>1. d.columns \in SUBSET Columns /\ d.relations \in SUBSET Columns /\ Blank \in SUBSET Columns
    BY DefIs DEF Blank
  <2>2. \A f \in Whole, v \in SUBSET Columns : SetFile(t, f, v) \in Seq(PlainSteps)
    BY PlainAre, PairIs DEF SetFile
  <2>3. {"columns", "relations", "increment"} \subseteq Whole
    BY DEF Whole
  <2> DEFINE a == SetFile(t, "columns", d.columns)
             b == SetFile(t, "relations", d.relations)
             c == SetFile(t, "increment", Blank)
  <2>4. a \in Seq(PlainSteps) /\ b \in Seq(PlainSteps) /\ c \in Seq(PlainSteps)
    BY <2>1, <2>2, <2>3
  <2>5. SetFiles(t, d) = (a \o b) \o c
    BY DEF SetFiles
  <2> HIDE DEF a, b, c
  <2> QED BY <2>4, <2>5, ConcatProperties
<1>8. ASSUME NEW d \in Def PROVE Create(t, d) \in Seq(PlainSteps)
  <2> DEFINE a == <<Do("make", t)>>
             b == SetFiles(t, d)
             c == <<Do("touch", t)>>
  <2>1. a \in Seq(PlainSteps) /\ c \in Seq(PlainSteps) /\ b \in Seq(PlainSteps)
    BY <1>7, PlainAre, SingleIs
  <2>2. Create(t, d) = (((a \o b) \o c) \o SaveAll) \o Refresh
    BY DEF Create
  <2> HIDE DEF a, b, c
  <2> QED BY <2>1, <2>2, <1>3, <1>4, ConcatProperties
<1>9. Delete(t) \in Seq(PlainSteps)
  <2> DEFINE b == <<Do("list", t)>>
  <2>1. b \in Seq(PlainSteps)
    BY PlainAre, SingleIs
  <2>2. Delete(t) = ((Load(t) \o b) \o SaveAll) \o Refresh
    BY DEF Delete
  <2> HIDE DEF b
  <2> QED BY <2>1, <2>2, <1>3, <1>4, <1>6, ConcatProperties
<1>10. ASSUME NEW w \in {"check", "present"} PROVE <<Do(w, t)>> \in Seq(PlainSteps)
  BY PlainAre, SingleIs
<1>11. ASSUME NEW S \in SUBSET Tables PROVE Each("check", S) \in Seq(PlainSteps)
  <2> DEFINE z == Each("check", S)
  <2>0. z \in Seq(Steps) /\ \A i \in DOMAIN z : z[i].do = "check"
    BY EachIs
  <2> HIDE DEF z
  <2>1. \A i \in DOMAIN z : z[i] \in PlainSteps
    BY <1>2, <2>0, ElementOfSeq, LenProperties
  <2>2. z \in Seq(PlainSteps)
    BY <2>1, <2>0, NarrowIs
  <2> QED BY <2>2 DEF z
<1>12. <<>> \in Seq(PlainSteps)
  OBVIOUS
<1> QED BY <1>3, <1>4, <1>5, <1>6, <1>7, <1>8, <1>9, <1>10, <1>11, <1>12

-----------------------------------------------------------------------------
(* Types.                                                                  *)

\* At first there are no files and no programs.
LEMMA InitTypes == Init => TypeInv
<1>1. NoneRead \in [columns : Content, relations : Content]
  BY DEF NoneRead, Content
<1> QED BY <1>1 DEF Init, TypeInv, TypeOK, Fits, Asked, NoneHeld, Content

\* One file written.
LEMMA WrittenIs ==
  ASSUME disk \in [Tables -> [Files -> Content]], NEW t \in Tables, NEW f \in Files,
         NEW v \in Content, Written(t, f, v)
  PROVE  /\ disk' \in [Tables -> [Files -> Content]]
         /\ \A u \in Tables, g \in Files : disk'[u][g] = IF u = t /\ g = f THEN v ELSE disk[u][g]
<1> DEFINE z == [disk[t] EXCEPT ![f] = v]
<1>1. disk[t] \in [Files -> Content]
  OBVIOUS
<1>2. z \in [Files -> Content] /\ \A g \in Files : z[g] = IF g = f THEN v ELSE disk[t][g]
  BY <1>1
<1>3. disk' = [disk EXCEPT ![t] = z]
  BY DEF Written
<1> HIDE DEF z
<1> QED BY <1>2, <1>3

\* A file that is written.
LEMMA TouchedIs ==
  ASSUME disk \in [Tables -> [Files -> Content]], NEW t \in Tables, NEW f \in Files,
         Touched(t, f)
  PROVE  /\ disk' \in [Tables -> [Files -> Content]]
         /\ \A u \in Tables, g \in Files : u # t \/ g # f => disk'[u][g] = disk[u][g]
         /\ disk'[t][f] # Absent
<1> DEFINE v == IF Has(t, f) THEN disk[t][f] ELSE Blank
<1>1. v \in Content /\ v # Absent
  BY ContentIs DEF Blank, Has
<1>2. Written(t, f, v)
  BY DEF Touched
<1> HIDE DEF v
<1> QED BY <1>1, <1>2, WrittenIs

\* Programs keep fitting when plain steps are put in front of the rest.
LEMMA FitsThen ==
  ASSUME NEW s \in Seq(Steps), s # <<>>, Fits(s), NEW g \in Seq(PlainSteps)
  PROVE  /\ g \o Tail(s) \in Seq(Steps)
         /\ Fits(g \o Tail(s))
         /\ \A i \in DOMAIN (g \o Tail(s)) : (g \o Tail(s))[i].do = "absent" =>
              \E j \in DOMAIN s : s[j].do = "absent" /\ j > 1
<1> DEFINE z == g \o Tail(s)
<1>1. g \in Seq(Steps) /\ \A i \in DOMAIN g : g[i] \in PlainSteps
  BY WidenIs DEF PlainSteps
<1>2. /\ Len(s) \in Nat \ {0} /\ DOMAIN s = 1 .. Len(s)
      /\ Len(g) \in Nat /\ DOMAIN g = 1 .. Len(g)
  BY <1>1, LenProperties, EmptySeq
<1>3. /\ z \in Seq(Steps) /\ Len(z) = Len(g) + Len(s) - 1 /\ DOMAIN z = 1 .. Len(z)
      /\ \A i \in 1 .. Len(g) : z[i] = g[i]
      /\ \A i \in Len(g) + 1 .. Len(z) : z[i] = s[i - Len(g) + 1]
  BY <1>1, ThenSteps
<1> HIDE DEF z
<1>4. ASSUME NEW i \in DOMAIN z
      PROVE  /\ z[i] \in PlainSteps \/ (z[i].do = "absent" /\ i = Len(z))
             /\ z[i].do = "absent" => \E j \in DOMAIN s : s[j].do = "absent" /\ j > 1
  <2>1. CASE i <= Len(g)
    <3>1. i \in 1 .. Len(g) /\ z[i] = g[i] /\ i \in DOMAIN g
      BY <2>1, <1>2, <1>3
    <3>2. z[i] \in PlainSteps
      BY <3>1, <1>1
    <3>3. z[i].do # "absent"
      BY <3>2, PlainIs
    <3> QED BY <3>2, <3>3
  <2>2. CASE ~(i <= Len(g))
    <3> DEFINE j == i - Len(g) + 1
    <3>1. i \in Int /\ i \in Len(g) + 1 .. Len(z)
      BY <2>2, <1>2, <1>3
    <3>2. j \in DOMAIN s /\ j > 1
      BY <3>1, <1>2, <1>3
    <3>4. j = Len(s) <=> i = Len(z)
      BY <3>1, <1>2, <1>3
    <3>3. z[i] = s[j]
      BY <3>1, <1>3
    <3> HIDE DEF j
    <3> QED BY <3>2, <3>3, <3>4 DEF Fits
  <2> QED BY <2>1, <2>2
<1> QED BY <1>3, <1>4 DEF Fits, z

\* A step of a call that hands nothing over keeps what is said of the programs.
LEMMA ThenTypes ==
  ASSUME TypeInv, NEW p \in Procs, todo[p] # <<>>, NEW g \in Seq(PlainSteps), Then(p, g),
         arg' = arg
  PROVE  /\ todo' \in [Procs -> Seq(Steps)]
         /\ \A q \in Procs : Fits(todo'[q]) /\ Asked(q)'
<1>1. todo \in [Procs -> Seq(Steps)] /\ \A q \in Procs : Fits(todo[q]) /\ Asked(q)
  BY DEF TypeInv, TypeOK
<1> DEFINE z == g \o Tail(todo[p])
<1>2. /\ z \in Seq(Steps) /\ Fits(z)
      /\ \A i \in DOMAIN z : z[i].do = "absent" =>
           \E j \in DOMAIN todo[p] : todo[p][j].do = "absent" /\ j > 1
  BY <1>1, FitsThen
<1>3. todo' = [todo EXCEPT ![p] = z]
  BY DEF Then
<1> HIDE DEF z
<1>4. /\ todo' \in [Procs -> Seq(Steps)] /\ todo'[p] = z
      /\ \A q \in Procs \ {p} : todo'[q] = todo[q]
  BY <1>1, <1>2, <1>3
<1>5. ASSUME NEW q \in Procs PROVE Fits(todo'[q]) /\ Asked(q)'
  <2>1. CASE q = p
    BY <2>1, <1>1, <1>2, <1>4 DEF Asked
  <2>2. CASE q # p
    BY <2>2, <1>1, <1>4 DEF Asked
  <2> QED BY <2>1, <2>2
<1> QED BY <1>4, <1>5

\* A new call, or none.
LEMMA FreshTypes ==
  ASSUME TypeInv, NEW p \in Procs, NEW g \in Seq(PlainSteps), todo' = [todo EXCEPT ![p] = g],
         \A q \in Procs \ {p} : arg'[q] = arg[q]
  PROVE  /\ todo' \in [Procs -> Seq(Steps)]
         /\ \A q \in Procs : Fits(todo'[q]) /\ Asked(q)'
<1>1. todo \in [Procs -> Seq(Steps)] /\ \A q \in Procs : Fits(todo[q]) /\ Asked(q)
  BY DEF TypeInv, TypeOK
<1>2. g \in Seq(Steps) /\ \A i \in DOMAIN g : g[i] \in PlainSteps
  BY WidenIs DEF PlainSteps
<1>3. /\ todo' \in [Procs -> Seq(Steps)] /\ todo'[p] = g
      /\ \A q \in Procs \ {p} : todo'[q] = todo[q]
  BY <1>1, <1>2
<1>4. ASSUME NEW q \in Procs PROVE Fits(todo'[q]) /\ Asked(q)'
  <2>1. CASE q = p
    <3>1. \A i \in DOMAIN todo'[p] : todo'[p][i] \in PlainSteps /\ todo'[p][i].do # "absent"
      BY <1>2, <1>3, PlainIs
    <3> QED BY <2>1, <3>1 DEF Asked, Fits
  <2>2. CASE q # p
    BY <2>2, <1>1, <1>3 DEF Asked
  <2> QED BY <2>1, <2>2
<1> QED BY <1>3, <1>4

\* What the process that takes a step finds at the head of its program.
LEMMA NowIs ==
  ASSUME TypeInv, NEW p \in Procs, todo[p] # <<>>
  PROVE  /\ Now(p) = todo[p][1] /\ 1 \in DOMAIN todo[p]
         /\ Now(p) \in Steps /\ Now(p).table \in Tables /\ Now(p).file \in Files
         /\ Now(p) \in PlainSteps \/ (Now(p).do = "absent" /\ Len(todo[p]) = 1)
<1>1. todo[p] \in Seq(Steps) /\ Fits(todo[p])
  BY DEF TypeInv, TypeOK
<1>2. Len(todo[p]) \in Nat \ {0} /\ DOMAIN todo[p] = 1 .. Len(todo[p])
  BY <1>1, LenProperties, EmptySeq
<1>3. Now(p) = todo[p][1] /\ Now(p) \in Steps
  BY <1>1, <1>2, ElementOfSeq DEF Now
<1>4. Now(p) \in PlainSteps \/ (Now(p).do = "absent" /\ Len(todo[p]) = 1)
  <2>1. todo[p][1] \in PlainSteps \/ (todo[p][1].do = "absent" /\ 1 = Len(todo[p]))
    <3> DEFINE s == todo[p]
    <3>1. Fits(s) /\ 1 \in DOMAIN s
      BY <1>1, <1>2
    <3> HIDE DEF s
    <3>2. s[1] \in PlainSteps \/ (s[1].do = "absent" /\ 1 = Len(s))
      BY <3>1 DEF Fits
    <3> QED BY <3>2 DEF s
  <2> QED BY <1>3, <2>1
<1> QED BY <1>2, <1>3, <1>4, StepIs

\* The end of a process keeps the types.
LEMMA GoneTypes ==
  ASSUME TypeInv, NEW p \in Procs, Gone(p)
  PROVE  TypeInv'
<1>1. <<>> \in Seq(PlainSteps) /\ \A q \in Procs \ {p} : arg'[q] = arg[q]
  BY DEF Gone, TypeInv, TypeOK
<1>2. /\ todo' \in [Procs -> Seq(Steps)]
      /\ \A q \in Procs : Fits(todo'[q]) /\ Asked(q)'
  BY <1>1, FreshTypes DEF Gone
<1>3. NoneRead \in [columns : Content, relations : Content]
      /\ NoneHeld \in [Tables -> Def \cup {None}]
  BY DEF NoneRead, NoneHeld, Content
<1> QED BY <1>2, <1>3 DEF Gone, TypeInv, TypeOK

\* An exception keeps the types.
LEMMA ThrowTypes ==
  ASSUME TypeInv, NEW p \in Procs, Throw(p)
  PROVE  TypeInv'
<1>1. CASE phase[p] = "starting"
  BY <1>1, GoneTypes DEF Throw
<1>2. CASE phase[p] # "starting"
  <2>1. <<>> \in Seq(PlainSteps)
    OBVIOUS
  <2>2. /\ todo' \in [Procs -> Seq(Steps)]
        /\ \A q \in Procs : Fits(todo'[q]) /\ Asked(q)'
    BY <1>2, <2>1, FreshTypes DEF Throw
  <2>3. NoneRead \in [columns : Content, relations : Content]
    BY DEF NoneRead, Content
  <2> QED BY <1>2, <2>2, <2>3 DEF Throw, TypeInv, TypeOK
<1> QED BY <1>1, <1>2

\* The start of a process, its shutdown and its end keep the types.
LEMMA LifeTypes ==
  ASSUME TypeInv, NEW p \in Procs, Life(p)
  PROVE  TypeInv'
<1>1. CASE Start(p)
  <2>1. /\ todo' \in [Procs -> Seq(Steps)]
        /\ \A q \in Procs : Fits(todo'[q]) /\ Asked(q)'
    BY <1>1, FreshTypes, ProgramsPlain, TablesAssumption DEF Start
  <2> QED BY <1>1, <2>1 DEF Start, TypeInv, TypeOK
<1>2. CASE Opened(p)
  BY <1>2 DEF Opened, TypeInv, TypeOK, Asked
<1>3. CASE Exit(p)
  <2>1. /\ todo' \in [Procs -> Seq(Steps)]
        /\ \A q \in Procs : Fits(todo'[q]) /\ Asked(q)'
    BY <1>3, FreshTypes, ProgramsPlain, TablesAssumption DEF Exit
  <2> QED BY <1>3, <2>1 DEF Exit, TypeInv, TypeOK
<1>4. CASE Ended(p)
  BY <1>4, GoneTypes DEF Ended
<1>5. CASE Kill(p)
  BY <1>5, GoneTypes DEF Kill
<1> QED BY <1>1, <1>2, <1>3, <1>4, <1>5 DEF Life

\* The calls of clients.
LEMMA CallTypes ==
  ASSUME TypeInv, NEW p \in Procs, NEW t \in Tables,
         \/ GetTable(p, t) \/ InsertRow(p, t) \/ DeleteTable(p, t)
         \/ \E d \in Def : CreateTable(p, t, d) \/ SaveTable(p, t, d)
  PROVE  TypeInv'
<1>1. CASE GetTable(p, t)
  <2>1. /\ todo' \in [Procs -> Seq(Steps)]
        /\ \A q \in Procs : Fits(todo'[q]) /\ Asked(q)'
    BY <1>1, FreshTypes, ProgramsPlain DEF GetTable, Call
  <2> QED BY <1>1, <2>1 DEF GetTable, Call, TypeInv, TypeOK
<1>2. CASE DeleteTable(p, t)
  <2>1. /\ todo' \in [Procs -> Seq(Steps)]
        /\ \A q \in Procs : Fits(todo'[q]) /\ Asked(q)'
    BY <1>2, FreshTypes, ProgramsPlain DEF DeleteTable, Call
  <2> QED BY <1>2, <2>1 DEF DeleteTable, Call, TypeInv, TypeOK
<1>3. CASE InsertRow(p, t)
  <2>1. Columns \in Content /\ "data" \in Files
    BY DEF Content, Files
  <2>2. disk' \in [Tables -> [Files -> Content]]
    BY <1>3, <2>1, WrittenIs DEF InsertRow, Written, TypeInv, TypeOK
  <2> QED BY <1>3, <2>2 DEF InsertRow, TypeInv, TypeOK, Asked
<1>4. ASSUME NEW d \in Def, CreateTable(p, t, d) PROVE TypeInv'
  <2> DEFINE g == <<Do("new", t), Do("absent", t)>>
  <2>1. /\ g \in Seq(Steps) /\ DOMAIN g = {1, 2} /\ Len(g) = 2
        /\ g[1] \in PlainSteps /\ g[2].do = "absent"
    BY DoIs, PairIs, PlainAre
  <2>2. todo' = [todo EXCEPT ![p] = g] /\ arg' = [arg EXCEPT ![p] = d]
    BY <1>4 DEF CreateTable, Call
  <2> HIDE DEF g
  <2>3. todo \in [Procs -> Seq(Steps)] /\ arg \in [Procs -> Def \cup {None}]
    BY DEF TypeInv, TypeOK
  <2>4. /\ todo' \in [Procs -> Seq(Steps)] /\ arg' \in [Procs -> Def \cup {None}]
        /\ todo'[p] = g /\ arg'[p] = d
        /\ \A q \in Procs \ {p} : todo'[q] = todo[q] /\ arg'[q] = arg[q]
    BY <2>1, <2>2, <2>3
  <2>5. ASSUME NEW q \in Procs PROVE Fits(todo'[q]) /\ Asked(q)'
    <3>1. CASE q = p
      <4>1. \A i \in {1, 2} : g[i] \in PlainSteps \/ (g[i].do = "absent" /\ i = 2)
        BY <2>1
      <4>2. Fits(todo'[p])
        BY <2>1, <2>4, <4>1 DEF Fits
      <4> QED BY <3>1, <4>2, <2>4 DEF Asked
    <3>2. CASE q # p
      BY <3>2, <2>4 DEF Asked, TypeInv
    <3> QED BY <3>1, <3>2
  <2> QED BY <1>4, <2>4, <2>5 DEF CreateTable, Call, TypeInv, TypeOK
<1>5. ASSUME NEW d \in Def, SaveTable(p, t, d) PROVE TypeInv'
  <2>1. /\ todo' \in [Procs -> Seq(Steps)]
        /\ \A q \in Procs : Fits(todo'[q]) /\ Asked(q)'
    BY <1>5, FreshTypes, ProgramsPlain DEF SaveTable, Call
  <2>2. held' \in [Procs -> [Tables -> Def \cup {None}]]
    <3>1. held \in [Procs -> [Tables -> Def \cup {None}]]
      BY DEF TypeInv, TypeOK
    <3> DEFINE z == [held[p] EXCEPT ![t] = d]
    <3>2. z \in [Tables -> Def \cup {None}]
      BY <3>1
    <3>3. held' = [held EXCEPT ![p] = z]
      BY <1>5 DEF SaveTable
    <3> HIDE DEF z
    <3> QED BY <3>1, <3>2, <3>3
  <2> QED BY <1>5, <2>1, <2>2 DEF SaveTable, Call, TypeInv, TypeOK
<1> QED BY <1>1, <1>2, <1>3, <1>4, <1>5

\* The steps of calls.  Those that change nothing but the program come first.
LEMMA PathTypes ==
  ASSUME TypeInv, NEW p \in Procs, Check(p) \/ CheckPresent(p) \/ Save(p)
  PROVE  TypeInv'
<1> DEFINE t == Now(p).table
<1>1. todo[p] # <<>>
  BY DEF Check, CheckPresent, Save, At
<1>2. t \in Tables
  BY <1>1, NowIs
<1>3. <<>> \in Seq(PlainSteps) /\ Load(t) \in Seq(PlainSteps) /\ Delete(t) \in Seq(PlainSteps)
      /\ \A d \in Def : SetFiles(t, d) \in Seq(PlainSteps)
  BY <1>2, ProgramsPlain
<1>4. held[p][t] # None => held[p][t] \in Def
  BY <1>2 DEF TypeInv, TypeOK
<1>5. \E g \in Seq(PlainSteps) : Then(p, g)
  BY <1>3, <1>4 DEF Check, CheckPresent, Save
<1>6. arg' = arg
  BY DEF Check, CheckPresent, Save
<1>7. /\ todo' \in [Procs -> Seq(Steps)]
      /\ \A q \in Procs : Fits(todo'[q]) /\ Asked(q)'
  BY <1>1, <1>5, <1>6, ThenTypes
<1>8. UNCHANGED <<disk, dirs, phase, arg, read, held, given>>
  BY DEF Check, CheckPresent, Save
<1> QED BY <1>7, <1>8 DEF TypeInv, TypeOK

\* The check that a table is not there keeps the types.
LEMMA AbsentTypes ==
  ASSUME TypeInv, NEW p \in Procs, CheckAbsent(p)
  PROVE  TypeInv'
<1> DEFINE t == Now(p).table
<1>1. todo[p] # <<>> /\ Now(p).do = "absent"
  BY DEF CheckAbsent, At
<1>2. t \in Tables /\ Len(todo[p]) = 1 /\ Now(p) = todo[p][1] /\ 1 \in DOMAIN todo[p]
  BY <1>1, NowIs, PlainIs
<1>3. arg[p] \in Def
  BY <1>1, <1>2 DEF TypeInv, Asked
<1>4. Load(t) \in Seq(PlainSteps) /\ Create(t, arg[p]) \in Seq(PlainSteps)
  BY <1>2, <1>3, ProgramsPlain
<1>5. \E g \in Seq(PlainSteps) : Then(p, g)
  BY <1>4 DEF CheckAbsent
<1>6. PICK g \in Seq(PlainSteps) : Then(p, g)
  BY <1>5
<1>7. todo \in [Procs -> Seq(Steps)] /\ todo[p] \in Seq(Steps)
  BY DEF TypeInv, TypeOK
<1>8. todo' = [todo EXCEPT ![p] = g]
  <2>1. Tail(todo[p]) = <<>>
    <3>1. Tail(todo[p]) \in Seq(Steps) /\ Len(Tail(todo[p])) = 0
      BY <1>2, <1>7, <1>1, HeadTailProperties
    <3> QED BY <3>1, EmptySeq
  <2>2. g \o <<>> = g
    OBVIOUS
  <2> QED BY <1>6, <2>1, <2>2 DEF Then
<1>9. \A q \in Procs \ {p} : arg'[q] = arg[q]
  BY DEF CheckAbsent, TypeInv, TypeOK
<1>10. /\ todo' \in [Procs -> Seq(Steps)]
       /\ \A q \in Procs : Fits(todo'[q]) /\ Asked(q)'
  BY <1>8, <1>9, FreshTypes
<1>11. /\ arg' \in [Procs -> Def \cup {None}]
       /\ given' \in [Tables -> Def \cup {None}]
       /\ UNCHANGED <<disk, dirs, phase, read, held>>
  BY <1>2, <1>3 DEF CheckAbsent, TypeInv, TypeOK
<1> QED BY <1>10, <1>11 DEF TypeInv, TypeOK

\* The reading of a file keeps the types.
LEMMA ReadTypes ==
  ASSUME TypeInv, NEW p \in Procs, Read(p)
  PROVE  TypeInv'
<1> DEFINE e == Now(p)
<1>1. todo[p] # <<>> /\ e.do = "read"
  BY DEF Read, At
<1>2. e \in PlainSteps /\ e.table \in Tables /\ e.file \in Files
  BY <1>1, NowIs
<1>3. e.file \in {"columns", "relations"}
  BY <1>1, <1>2, PlainIs
<1>4. disk[e.table][e.file] \in Content
  BY <1>2 DEF TypeInv, TypeOK
<1>5. read' = [read EXCEPT ![p][e.file] = disk[e.table][e.file]]
  BY DEF Read
<1>6. read \in [Procs -> [columns : Content, relations : Content]]
  BY DEF TypeInv, TypeOK
<1> DEFINE v == disk[e.table][e.file]
           f == e.file
<1> HIDE DEF v, f
<1>7. read' = [read EXCEPT ![p][f] = v]
  BY <1>5 DEF v, f
<1>8. read' \in [Procs -> [columns : Content, relations : Content]]
  <2> DEFINE z == [read[p] EXCEPT ![f] = v]
  <2>1. z \in [columns : Content, relations : Content]
    <3>1. v \in Content /\ read[p] \in [columns : Content, relations : Content]
      BY <1>4, <1>6 DEF v
    <3>2. CASE f = "columns"
      BY <3>1, <3>2
    <3>3. CASE f = "relations"
      BY <3>1, <3>3
    <3> QED BY <3>2, <3>3, <1>3 DEF f
  <2>2. read' = [read EXCEPT ![p] = z]
    BY <1>7
  <2> HIDE DEF z
  <2> QED BY <1>6, <2>1, <2>2
<1>9. /\ todo' \in [Procs -> Seq(Steps)]
      /\ \A q \in Procs : Fits(todo'[q]) /\ Asked(q)'
  <2>1. <<>> \in Seq(PlainSteps) /\ Then(p, <<>>) /\ arg' = arg
    BY DEF Read, Proceed
  <2> QED BY <1>1, <2>1, ThenTypes
<1> QED BY <1>8, <1>9 DEF Read, TypeInv, TypeOK

\* What the constructor of a table accepts is a definition.
LEMMA FoundIs ==
  ASSUME NEW r \in [columns : Content, relations : Content],
         Part(r.columns) \notin Procs, Part(r.relations) \notin Procs,
         Part(r.relations) \subseteq Part(r.columns)
  PROVE  [columns |-> Part(r.columns), relations |-> Part(r.relations)] \in Def
<1>1. ASSUME NEW c \in Content, Part(c) \notin Procs PROVE Part(c) \in SUBSET Columns
  BY <1>1 DEF Content, Part
<1>2. Part(r.columns) \in SUBSET Columns /\ Part(r.relations) \in SUBSET Columns
  BY <1>1
<1> QED BY <1>2 DEF Def

\* The constructor of Table keeps the types.
LEMMA BuildTypes ==
  ASSUME TypeInv, NEW p \in Procs, Build(p)
  PROVE  TypeInv'
<1> DEFINE t == Now(p).table
<1>1. todo[p] # <<>>
  BY DEF Build, At
<1>2. t \in Tables /\ "data" \in Files
  BY <1>1, NowIs DEF Files
<1>3. CASE ~IsDef(Found(p))
  BY <1>3, ThrowTypes DEF Build
<1>4. CASE IsDef(Found(p))
  <2>1. Found(p) \in Def
    <3>1. read[p] \in [columns : Content, relations : Content]
      BY DEF TypeInv, TypeOK
    <3>2. /\ Part(read[p].columns) \notin Procs /\ Part(read[p].relations) \notin Procs
          /\ Part(read[p].relations) \subseteq Part(read[p].columns)
      BY <1>4 DEF IsDef, Found
    <3> QED BY <3>1, <3>2, FoundIs DEF Found
  <2>2. /\ held' = [held EXCEPT ![p][t] = Found(p)] /\ Touched(t, "data")
        /\ dirs' = dirs \cup {t} /\ read' = [read EXCEPT ![p] = NoneRead] /\ Then(p, <<>>)
        /\ UNCHANGED <<phase, arg, given>>
    BY <1>4 DEF Build, MakeDir, Proceed
  <2>3. held' \in [Procs -> [Tables -> Def \cup {None}]]
    <3>1. held \in [Procs -> [Tables -> Def \cup {None}]]
      BY DEF TypeInv, TypeOK
    <3> DEFINE z == [held[p] EXCEPT ![t] = Found(p)]
    <3>2. z \in [Tables -> Def \cup {None}]
      BY <3>1, <2>1
    <3>3. held' = [held EXCEPT ![p] = z]
      BY <2>2
    <3> HIDE DEF z
    <3> QED BY <3>1, <3>2, <3>3
  <2>4. disk' \in [Tables -> [Files -> Content]]
    BY <2>2, <1>2, TouchedIs DEF TypeInv, TypeOK
  <2>5. NoneRead \in [columns : Content, relations : Content]
    BY DEF NoneRead, Content
  <2>6. /\ todo' \in [Procs -> Seq(Steps)]
        /\ \A q \in Procs : Fits(todo'[q]) /\ Asked(q)'
    <3>1. <<>> \in Seq(PlainSteps)
      OBVIOUS
    <3> QED BY <1>1, <2>2, <3>1, ThenTypes
  <2> QED BY <1>2, <2>2, <2>3, <2>4, <2>5, <2>6 DEF TypeInv, TypeOK
<1> QED BY <1>3, <1>4

\* The steps that write, and go on.
LEMMA WriteTypes ==
  ASSUME TypeInv, NEW p \in Procs,
         New(p) \/ Make(p) \/ OpenFile(p) \/ PutFile(p) \/ Touch(p) \/ Unlink(p)
  PROVE  TypeInv'
<1> DEFINE e == Now(p)
<1>1. todo[p] # <<>>
  BY DEF New, Make, OpenFile, PutFile, Touch, Unlink, At
<1>2. e \in Steps /\ e.table \in Tables /\ e.file \in Files /\ e.part \in Content
      /\ {"data", "marker"} \subseteq Files /\ p \in Content /\ Absent \in Content
  BY <1>1, NowIs, StepIs DEF Files, Content
<1>3. disk \in [Tables -> [Files -> Content]] /\ dirs \subseteq Tables
  BY DEF TypeInv, TypeOK
<1>4. Then(p, <<>>) /\ UNCHANGED <<phase, arg, read, held, given>>
  BY DEF New, Make, OpenFile, PutFile, Touch, Unlink, Proceed
<1>5. dirs' \subseteq Tables
  BY <1>2, <1>3 DEF New, Make, OpenFile, PutFile, Touch, Unlink, MakeDir
<1>6. disk' \in [Tables -> [Files -> Content]]
  BY <1>2, <1>3, WrittenIs, TouchedIs DEF New, Make, OpenFile, PutFile, Touch, Unlink
<1>7. /\ todo' \in [Procs -> Seq(Steps)]
      /\ \A q \in Procs : Fits(todo'[q]) /\ Asked(q)'
  <2>1. <<>> \in Seq(PlainSteps) /\ arg' = arg
    BY <1>4
  <2> QED BY <1>1, <1>4, <2>1, ThenTypes
<1> QED BY <1>4, <1>5, <1>6, <1>7 DEF TypeInv, TypeOK

\* The loop of refresh() keeps the types.
LEMMA ScanTypes ==
  ASSUME TypeInv, NEW p \in Procs, Scan(p)
  PROVE  TypeInv'
<1>1. todo[p] # <<>>
  BY DEF Scan, At
<1>2. dirs \in SUBSET Tables
  BY DEF TypeInv, TypeOK
<1>3. Each("check", dirs) \in Seq(PlainSteps) /\ Then(p, Each("check", dirs)) /\ arg' = arg
  BY <1>2, TablesAssumption, ProgramsPlain DEF Scan
<1>4. /\ todo' \in [Procs -> Seq(Steps)]
      /\ \A q \in Procs : Fits(todo'[q]) /\ Asked(q)'
  BY <1>1, <1>3, ThenTypes
<1>5. NoneHeld \in [Tables -> Def \cup {None}]
  BY DEF NoneHeld
<1> QED BY <1>4, <1>5 DEF Scan, TypeInv, TypeOK

-----------------------------------------------------------------------------
(* The removal of a directory.                                             *)

\* The steps that remove the files of a table.
Removing(t) == {e \in Steps : e.do \in {"unlink", "rmdir"} /\ e.table = t}

Listed(t) ==
  Removal(t, "marker") \o Removal(t, "columns") \o Removal(t, "data")
    \o Removal(t, "increment") \o Removal(t, "relations") \o <<Do("rmdir", t)>>

\* A directory is taken away file by file, the marker first.
LEMMA ListedIs ==
  ASSUME NEW t \in Tables
  PROVE  /\ Listed(t) \in Seq(Removing(t))
         /\ Has(t, "marker") => Listed(t)[1] = On("unlink", t, "marker", Absent)
<1> DEFINE R == Removing(t)
<1>1. ASSUME NEW f \in Files PROVE On("unlink", t, f, Absent) \in R
  <2>1. Absent \in Content
    BY DEF Content
  <2> QED BY <2>1, OnIs DEF Removing
<1>2. Do("rmdir", t) \in R
  BY DoIs DEF Removing
<1>3. \A f \in Files : Removal(t, f) \in Seq(R)
  <2> HIDE DEF R
  <2>1. \A f \in Files : <<On("unlink", t, f, Absent)>> \in Seq(R)
    BY <1>1, SingleIs
  <2> QED BY <2>1 DEF Removal
<1>4. <<Do("rmdir", t)>> \in Seq(R)
  <2> HIDE DEF R
  <2> QED BY <1>2, SingleIs
<1> DEFINE a == Removal(t, "marker")
           b == Removal(t, "columns")
           c == Removal(t, "data")
           d == Removal(t, "increment")
           e == Removal(t, "relations")
           z == <<Do("rmdir", t)>>
<1>5. a \in Seq(R) /\ b \in Seq(R) /\ c \in Seq(R) /\ d \in Seq(R) /\ e \in Seq(R) /\ z \in Seq(R)
  BY <1>3, <1>4 DEF Files
<1>6. Listed(t) = a \o (b \o (c \o (d \o (e \o z)))) \/ Listed(t) = ((((a \o b) \o c) \o d) \o e) \o z
  BY DEF Listed
<1>7. Has(t, "marker") => Len(a) = 1 /\ a[1] = On("unlink", t, "marker", Absent)
  BY DEF Removal
<1>8. Listed(t) = ((((a \o b) \o c) \o d) \o e) \o z
  BY DEF Listed
<1> HIDE DEF a, b, c, d, e, z, R
<1>9. Listed(t) \in Seq(R)
  BY <1>5, <1>8
<1>10. ASSUME NEW s \in Seq(R), NEW r \in Seq(R), Len(s) > 0
       PROVE  s \o r \in Seq(R) /\ Len(s \o r) > 0 /\ (s \o r)[1] = s[1]
  <2>1. /\ s \o r \in Seq(R) /\ Len(s) \in Nat /\ Len(r) \in Nat
        /\ Len(s \o r) = Len(s) + Len(r)
        /\ \A i \in 1 .. Len(s) : (s \o r)[i] = s[i]
    BY JoinIs
  <2> QED BY <2>1, <1>10
<1>11. ASSUME Len(a) > 0 PROVE Listed(t)[1] = a[1]
  <2> DEFINE ab == a \o b
  <2>1. ab \in Seq(R) /\ Len(ab) > 0 /\ ab[1] = a[1]
    BY <1>5, <1>10, <1>11
  <2> HIDE DEF ab
  <2> DEFINE abc == ab \o c
  <2>2. abc \in Seq(R) /\ Len(abc) > 0 /\ abc[1] = a[1]
    BY <1>5, <1>10, <2>1
  <2> HIDE DEF abc
  <2> DEFINE abcd == abc \o d
  <2>3. abcd \in Seq(R) /\ Len(abcd) > 0 /\ abcd[1] = a[1]
    BY <1>5, <1>10, <2>2
  <2> HIDE DEF abcd
  <2> DEFINE abcde == abcd \o e
  <2>4. abcde \in Seq(R) /\ Len(abcde) > 0 /\ abcde[1] = a[1]
    BY <1>5, <1>10, <2>3
  <2> HIDE DEF abcde
  <2>5. (abcde \o z)[1] = a[1]
    BY <1>5, <1>10, <2>4
  <2> QED BY <2>5, <1>8 DEF ab, abc, abcd, abcde
<1> QED BY <1>7, <1>9, <1>11 DEF R

\* The listing and the removal of a directory keep the types.
LEMMA DirTypes ==
  ASSUME TypeInv, NEW p \in Procs, ListDir(p) \/ RemoveDir(p)
  PROVE  TypeInv'
<1> DEFINE t == Now(p).table
<1>1. todo[p] # <<>>
  BY DEF ListDir, RemoveDir, At
<1>2. t \in Tables
  BY <1>1, NowIs
<1>3. CASE ListDir(p)
  <2>1. Removing(t) \subseteq PlainSteps
    BY DEF Removing, PlainSteps
  <2>2. Listed(t) \in Seq(PlainSteps) /\ <<>> \in Seq(PlainSteps)
    BY <1>2, <2>1, ListedIs, WidenIs
  <2>3. Then(p, Listed(t)) \/ Then(p, <<>>)
    BY <1>3 DEF ListDir, Listed
  <2>4. arg' = arg
    BY <1>3 DEF ListDir
  <2>5. /\ todo' \in [Procs -> Seq(Steps)]
        /\ \A q \in Procs : Fits(todo'[q]) /\ Asked(q)'
    BY <1>1, <2>2, <2>3, <2>4, ThenTypes
  <2> QED BY <1>3, <2>5 DEF ListDir, TypeInv, TypeOK
<1>4. CASE RemoveDir(p) /\ t \in dirs
  <2>1. <<>> \in Seq(PlainSteps) /\ Then(p, <<>>) /\ arg' = arg
    BY <1>4 DEF RemoveDir, Proceed
  <2>2. /\ todo' \in [Procs -> Seq(Steps)]
        /\ \A q \in Procs : Fits(todo'[q]) /\ Asked(q)'
    BY <1>1, <2>1, ThenTypes
  <2>3. dirs' \subseteq Tables
    BY <1>4 DEF RemoveDir, TypeInv, TypeOK
  <2> QED BY <1>4, <2>2, <2>3 DEF RemoveDir, TypeInv, TypeOK
<1>5. CASE RemoveDir(p) /\ t \notin dirs
  BY <1>5, ThrowTypes DEF RemoveDir
<1> QED BY <1>3, <1>4, <1>5

\* Every step keeps the types.
LEMMA StepTypes == TypeInv /\ [Next]_vars => TypeInv'
<1> SUFFICES ASSUME TypeInv, [Next]_vars PROVE TypeInv'
  OBVIOUS
<1>1. CASE UNCHANGED vars
  BY <1>1 DEF vars, TypeInv, TypeOK, Asked
<1>2. CASE Next
  <2>1. PICK p \in Procs :
          \/ Life(p) \/ CallStep(p)
          \/ \E t \in Tables : GetTable(p, t) \/ InsertRow(p, t) \/ DeleteTable(p, t)
          \/ \E t \in Tables, d \in Def : CreateTable(p, t, d) \/ SaveTable(p, t, d)
    BY <1>2 DEF Next
  <2>2. CASE Life(p)
    BY <2>2, LifeTypes
  <2>3. CASE CallStep(p)
    BY <2>3, PathTypes, AbsentTypes, ReadTypes, BuildTypes, WriteTypes, ScanTypes, DirTypes
       DEF CallStep
  <2>4. CASE \E t \in Tables : GetTable(p, t) \/ InsertRow(p, t) \/ DeleteTable(p, t)
    BY <2>4, CallTypes
  <2>5. CASE \E t \in Tables, d \in Def : CreateTable(p, t, d) \/ SaveTable(p, t, d)
    BY <2>5, CallTypes
  <2> QED BY <2>1, <2>2, <2>3, <2>4, <2>5
<1> QED BY <1>1, <1>2

\* The variables have their types, whatever the clients do and whoever is killed.
THEOREM TypeCorrect == Spec => []TypeOK
<1>1. Spec => []TypeInv
  BY InitTypes, StepTypes, PTL DEF Spec
<1>2. TypeInv => TypeOK
  BY DEF TypeInv
<1> QED BY <1>1, <1>2, PTL
-----------------------------------------------------------------------------
(* Tables that are created once, by one client.                            *)

\* What tells the stages of a table apart.
Tracked == {"read", "build", "list", "unlink", "open", "put", "touch"}

\* No step of a program does one of some things to a table.
Free(s, t, W) == \A i \in DOMAIN s : s[i].table = t => s[i].do \notin W

\* A program writes nothing to the files of a table but its definition.
Puts(s, t, d) ==
  \A i \in DOMAIN s :
    s[i].table = t /\ s[i].do \in {"open", "put"} => s[i].part = PartOf(d, s[i].file)

\* A program that removes files of a table removes its marker first.
Drops(s, t) ==
  \A i \in DOMAIN s :
    s[i].table = t /\ s[i].do = "unlink" /\ s[i].file # "marker" =>
      s[1].table = t /\ s[1].do = "unlink" /\ s[1].file = "marker"

\* What is or was in a file: its part of the definition, or a process has emptied it.
Good(c, d, f) == c \in Procs \/ c = PartOf(d, f)

Reads(e, t, f) == e.table = t /\ e.do = "read" /\ e.file = f

\* A program that makes a table of what it reads has read it, or is about to.
LoadsWell(s, t, r, d) ==
  \A i \in DOMAIN s :
    s[i].table = t /\ s[i].do = "build" =>
      \/ i = 1 /\ Good(r.columns, d, "columns") /\ Good(r.relations, d, "relations")
      \/ i = 2 /\ Reads(s[1], t, "relations") /\ Good(r.columns, d, "columns")
      \/ i = 3 /\ Reads(s[1], t, "columns") /\ Reads(s[2], t, "relations")

\* Before a program touches the marker of a table, once, it opens its files.
Finishes(s, t, F) ==
  \E j \in DOMAIN s :
    /\ s[j].table = t /\ s[j].do = "touch"
    /\ \A i \in DOMAIN s : s[i].table = t /\ s[i].do = "touch" => i = j
    /\ \A f \in F : \E i \in DOMAIN s :
         i < j /\ s[i].table = t /\ s[i].do = "open" /\ s[i].file = f

\* Nobody has created it; p creates it; it exists; it will not exist again.
Unmade(t) ==
  /\ given[t] = None
  /\ \A f \in Files \ {"data"} : ~Has(t, f)
  /\ \A q \in Procs : /\ held[q][t] = None
                      /\ Free(todo[q], t, Tracked)

Unopened(t) == {f \in Whole : ~Has(t, f)}

Making(p, t) ==
  /\ given[t] # None
  /\ ~Has(t, "marker")
  /\ \A f \in Whole : Has(t, f) => Good(disk[t][f], given[t], f)
  /\ \A q \in Procs : /\ held[q][t] = None
                      /\ Free(todo[q], t, {"read", "build", "list", "unlink"})
                      /\ q # p => Free(todo[q], t, {"open", "put", "touch"})
  /\ Puts(todo[p], t, given[t])
  /\ Finishes(todo[p], t, Unopened(t))

Made(t) ==
  /\ given[t] # None
  /\ Has(t, "marker")
  /\ \A f \in Whole : Good(disk[t][f], given[t], f)
  /\ \A q \in Procs : /\ held[q][t] \in {None, given[t]}
                      /\ Free(todo[q], t, {"touch"})
                      /\ Puts(todo[q], t, given[t])
                      /\ Drops(todo[q], t)
                      /\ LoadsWell(todo[q], t, read[q], given[t])

Dead(t) ==
  /\ given[t] # None
  /\ ~Has(t, "marker")
  /\ \A q \in Procs : Free(todo[q], t, {"touch"})

\* One client at a time is about to create a table, and one nobody has created.
OneCreates ==
  /\ \A p, q \in Procs : arg[p] # None /\ arg[q] # None => p = q
  /\ \A p \in Procs : \A i \in DOMAIN todo[p] :
       todo[p][i].do = "absent" => arg[p] # None /\ given[todo[p][i].table] = None

Stage(t) == Unmade(t) \/ (\E p \in Procs : Making(p, t)) \/ Made(t) \/ Dead(t)

OnceInv == TypeInv /\ OneCreates /\ \A t \in Tables : Stage(t)

-----------------------------------------------------------------------------
(* What a step of a call leaves of its program.                            *)

\* Where the steps of a program come from.
LEMMA ThenFrom ==
  ASSUME NEW s \in Seq(Steps), s # <<>>, NEW g \in Seq(Steps), NEW i \in DOMAIN (g \o Tail(s))
  PROVE  \/ i \in DOMAIN g /\ (g \o Tail(s))[i] = g[i]
         \/ /\ i - Len(g) + 1 \in DOMAIN s /\ i - Len(g) + 1 > 1 /\ i > Len(g)
            /\ (g \o Tail(s))[i] = s[i - Len(g) + 1]
<1>1. /\ Len(s) \in Nat \ {0} /\ DOMAIN s = 1 .. Len(s)
      /\ Len(g) \in Nat /\ DOMAIN g = 1 .. Len(g)
  BY LenProperties, EmptySeq
<1> DEFINE z == g \o Tail(s)
<1>2. /\ DOMAIN z = 1 .. Len(g) + Len(s) - 1
      /\ \A k \in 1 .. Len(g) : z[k] = g[k]
      /\ \A k \in Len(g) + 1 .. Len(g) + Len(s) - 1 : z[k] = s[k - Len(g) + 1]
  BY ThenSteps
<1>3. i \in DOMAIN z
  OBVIOUS
<1> HIDE DEF z
<1>4. CASE i <= Len(g)
  <2>1. i \in 1 .. Len(g)
    BY <1>1, <1>2, <1>3, <1>4
  <2> QED BY <2>1, <1>1, <1>2 DEF z
<1>5. CASE ~(i <= Len(g))
  <2>1. i \in Int /\ i \in Len(g) + 1 .. Len(g) + Len(s) - 1
    BY <1>1, <1>2, <1>3, <1>5
  <2>2. i - Len(g) + 1 \in 1 .. Len(s) /\ i - Len(g) + 1 > 1 /\ i > Len(g)
    BY <2>1, <1>1
  <2>3. z[i] = s[i - Len(g) + 1]
    BY <2>1, <1>2
  <2> QED BY <2>2, <2>3, <1>1 DEF z
<1> QED BY <1>4, <1>5

\* A program stays free of some steps on a table.
LEMMA FreeThen ==
  ASSUME NEW s \in Seq(Steps), s # <<>>, NEW g \in Seq(Steps), NEW t, NEW W,
         Free(s, t, W), Free(g, t, W)
  PROVE  Free(g \o Tail(s), t, W)
<1> DEFINE z == g \o Tail(s)
<1>1. ASSUME NEW i \in DOMAIN z, z[i].table = t PROVE z[i].do \notin W
  <2>1. \/ i \in DOMAIN g /\ z[i] = g[i]
        \/ i - Len(g) + 1 \in DOMAIN s /\ z[i] = s[i - Len(g) + 1]
    BY <1>1, ThenFrom
  <2> HIDE DEF z
  <2> QED BY <1>1, <2>1 DEF Free
<1> HIDE DEF z
<1>2. Free(z, t, W)
  BY <1>1 DEF Free
<1> QED BY <1>2 DEF z

\* A program still puts only what was given into the files of a table.
LEMMA PutsThen ==
  ASSUME NEW s \in Seq(Steps), s # <<>>, NEW g \in Seq(Steps), NEW t, NEW d,
         Puts(s, t, d), Puts(g, t, d)
  PROVE  Puts(g \o Tail(s), t, d)
<1> DEFINE z == g \o Tail(s)
<1>1. ASSUME NEW i \in DOMAIN z, z[i].table = t, z[i].do \in {"open", "put"}
      PROVE  z[i].part = PartOf(d, z[i].file)
  <2>1. \/ i \in DOMAIN g /\ z[i] = g[i]
        \/ i - Len(g) + 1 \in DOMAIN s /\ z[i] = s[i - Len(g) + 1]
    BY <1>1, ThenFrom
  <2> HIDE DEF z
  <2> QED BY <1>1, <2>1 DEF Puts
<1> HIDE DEF z
<1>2. Puts(z, t, d)
  BY <1>1 DEF Puts
<1> QED BY <1>2 DEF z

\* A program still takes the marker away before anything else.
LEMMA DropsThen ==
  ASSUME NEW s \in Seq(Steps), s # <<>>, NEW g \in Seq(Steps), NEW t,
         Drops(s, t), ~(s[1].table = t /\ s[1].do = "unlink"),
         \/ Free(g, t, {"unlink"})
         \/ 1 \in DOMAIN g /\ g[1].table = t /\ g[1].do = "unlink" /\ g[1].file = "marker"
  PROVE  Drops(g \o Tail(s), t)
<1> DEFINE z == g \o Tail(s)
<1>1. \A i \in DOMAIN s : s[i].table = t /\ s[i].do = "unlink" => s[i].file = "marker"
  BY DEF Drops
<1>2. ASSUME NEW i \in DOMAIN z, z[i].table = t, z[i].do = "unlink", z[i].file # "marker"
      PROVE  z[1].table = t /\ z[1].do = "unlink" /\ z[1].file = "marker"
  <2>1. \/ i \in DOMAIN g /\ z[i] = g[i]
        \/ i - Len(g) + 1 \in DOMAIN s /\ z[i] = s[i - Len(g) + 1]
    BY <1>2, ThenFrom
  <2>2. 1 \in DOMAIN g => z[1] = g[1]
    BY ThenSteps, LenProperties
  <2> HIDE DEF z
  <2>3. i \in DOMAIN g /\ z[i] = g[i]
    BY <1>1, <1>2, <2>1
  <2>4. ~Free(g, t, {"unlink"})
    BY <1>2, <2>3 DEF Free
  <2> QED BY <2>2, <2>4
<1> HIDE DEF z
<1>3. Drops(z, t)
  BY <1>2 DEF Drops
<1> QED BY <1>3 DEF z

\* A program still makes a Table only of what it has read.
LEMMA LoadsThen ==
  ASSUME NEW s \in Seq(Steps), s # <<>>, NEW g \in Seq(Steps), NEW t, NEW d, NEW r, NEW r2,
         LoadsWell(s, t, r, d), s[1].table = t => s[1].do \notin {"read", "build"},
         LoadsWell(g, t, r2, d)
  PROVE  LoadsWell(g \o Tail(s), t, r2, d)
<1> DEFINE z == g \o Tail(s)
<1>1. \A i \in DOMAIN s : s[i].table = t => s[i].do # "build"
  BY DEF LoadsWell, Reads
<1>2. ASSUME NEW i \in DOMAIN z, z[i].table = t, z[i].do = "build"
      PROVE  \/ i = 1 /\ Good(r2.columns, d, "columns") /\ Good(r2.relations, d, "relations")
             \/ i = 2 /\ Reads(z[1], t, "relations") /\ Good(r2.columns, d, "columns")
             \/ i = 3 /\ Reads(z[1], t, "columns") /\ Reads(z[2], t, "relations")
  <2>1. \/ i \in DOMAIN g /\ z[i] = g[i]
        \/ i - Len(g) + 1 \in DOMAIN s /\ z[i] = s[i - Len(g) + 1]
    BY <1>2, ThenFrom
  <2>2. \A k \in DOMAIN g : z[k] = g[k]
    BY ThenSteps, LenProperties
  <2>3. DOMAIN g = 1 .. Len(g) /\ Len(g) \in Nat
    BY LenProperties
  <2> HIDE DEF z
  <2>4. i \in DOMAIN g /\ z[i] = g[i]
    BY <1>1, <1>2, <2>1
  <2>5. \/ i = 1 /\ Good(r2.columns, d, "columns") /\ Good(r2.relations, d, "relations")
        \/ i = 2 /\ Reads(g[1], t, "relations") /\ Good(r2.columns, d, "columns")
        \/ i = 3 /\ Reads(g[1], t, "columns") /\ Reads(g[2], t, "relations")
    BY <1>2, <2>4 DEF LoadsWell
  <2>6. (i = 2 => 1 \in DOMAIN g) /\ (i = 3 => 1 \in DOMAIN g /\ 2 \in DOMAIN g)
    BY <2>3, <2>4
  <2> QED BY <2>2, <2>5, <2>6
<1> HIDE DEF z
<1>3. LoadsWell(z, t, r2, d)
  BY <1>2 DEF LoadsWell
<1> QED BY <1>3 DEF z

\* A program still opens what is not there yet before it touches the marker.
LEMMA FinishesThen ==
  ASSUME NEW s \in Seq(Steps), s # <<>>, NEW g \in Seq(Steps), NEW t, NEW F, NEW G,
         Finishes(s, t, F), ~(s[1].table = t /\ s[1].do = "touch"), Free(g, t, {"touch"}),
         \A f \in G : f \in F /\ ~(s[1].table = t /\ s[1].do = "open" /\ s[1].file = f)
  PROVE  Finishes(g \o Tail(s), t, G)
<1> DEFINE z == g \o Tail(s)
<1>1. PICK j \in DOMAIN s :
        /\ s[j].table = t /\ s[j].do = "touch"
        /\ \A i \in DOMAIN s : s[i].table = t /\ s[i].do = "touch" => i = j
        /\ \A f \in F : \E i \in DOMAIN s :
             i < j /\ s[i].table = t /\ s[i].do = "open" /\ s[i].file = f
  BY DEF Finishes
<1>2. /\ Len(s) \in Nat \ {0} /\ DOMAIN s = 1 .. Len(s) /\ Len(g) \in Nat
  BY LenProperties, EmptySeq
<1>3. /\ DOMAIN z = 1 .. Len(g) + Len(s) - 1
      /\ \A k \in Len(g) + 1 .. Len(g) + Len(s) - 1 : z[k] = s[k - Len(g) + 1]
  BY ThenSteps
<1>4. \A i \in DOMAIN z :
        \/ i \in DOMAIN g /\ z[i] = g[i]
        \/ /\ i - Len(g) + 1 \in DOMAIN s /\ i - Len(g) + 1 > 1 /\ i > Len(g)
           /\ z[i] = s[i - Len(g) + 1]
  BY ThenFrom
<1> HIDE DEF z
<1>5. ASSUME NEW k \in DOMAIN s, k # 1
      PROVE  k + Len(g) - 1 \in DOMAIN z /\ z[k + Len(g) - 1] = s[k]
  <2>1. k \in Int /\ k + Len(g) - 1 \in Len(g) + 1 .. Len(g) + Len(s) - 1
        /\ (k + Len(g) - 1) - Len(g) + 1 = k
    BY <1>2, <1>5
  <2>2. z[k + Len(g) - 1] = s[(k + Len(g) - 1) - Len(g) + 1]
    BY <2>1, <1>3
  <2> QED BY <2>1, <2>2, <1>2, <1>3
<1> DEFINE m == j + Len(g) - 1
<1>6. m \in DOMAIN z /\ z[m] = s[j]
  BY <1>1, <1>5
<1>7. ASSUME NEW i \in DOMAIN z, z[i].table = t, z[i].do = "touch" PROVE i = m
  <2>1. ~(i \in DOMAIN g /\ z[i] = g[i])
    BY <1>7 DEF Free
  <2>2. i - Len(g) + 1 \in DOMAIN s /\ z[i] = s[i - Len(g) + 1]
    BY <2>1, <1>4
  <2>3. i - Len(g) + 1 = j
    BY <2>2, <1>1, <1>7
  <2>4. i \in Int /\ j \in Int
    BY <1>2, <1>3
  <2> QED BY <2>3, <2>4, <1>2
<1>8. ASSUME NEW f \in G
      PROVE  \E i \in DOMAIN z : i < m /\ z[i].table = t /\ z[i].do = "open" /\ z[i].file = f
  <2>1. PICK i \in DOMAIN s : i < j /\ s[i].table = t /\ s[i].do = "open" /\ s[i].file = f
    BY <1>1, <1>8
  <2>2. i # 1
    BY <2>1, <1>8
  <2>3. i + Len(g) - 1 \in DOMAIN z /\ z[i + Len(g) - 1] = s[i]
    BY <2>2, <1>5
  <2>4. i + Len(g) - 1 < m
    BY <2>1, <1>2
  <2> QED BY <2>1, <2>3, <2>4
<1> HIDE DEF m
<1>9. Finishes(z, t, G)
  BY <1>1, <1>6, <1>7, <1>8 DEF Finishes
<1> QED BY <1>9 DEF z

-----------------------------------------------------------------------------
(* Steps that do not touch what tells the stages of a table apart.         *)

\* Program z, in place of program s, does no more about a table.
Keeps(s, z, t) ==
  /\ \A W \in SUBSET Tracked : Free(s, t, W) => Free(z, t, W)
  /\ \A d : Puts(s, t, d) => Puts(z, t, d)
  /\ Drops(s, t) => Drops(z, t)
  /\ \A d, r, r2 : LoadsWell(s, t, r, d) => LoadsWell(z, t, r2, d)
  /\ \A F : Finishes(s, t, F) => Finishes(z, t, F) \/ Free(z, t, {"touch"})

\* A program that does nothing to a table does nothing wrong to it.
LEMMA FreeIs ==
  ASSUME NEW s, NEW t, Free(s, t, Tracked)
  PROVE  /\ \A W \in SUBSET Tracked : Free(s, t, W)
         /\ \A d : Puts(s, t, d)
         /\ Drops(s, t)
         /\ \A d, r : LoadsWell(s, t, r, d)
<1>1. \A i \in DOMAIN s : s[i].table = t =>
        /\ s[i].do \notin Tracked
        /\ s[i].do # "open" /\ s[i].do # "put" /\ s[i].do # "unlink" /\ s[i].do # "build"
  BY DEF Free, Tracked
<1> QED BY <1>1 DEF Free, Puts, Drops, LoadsWell

\* A step on other tables puts nothing about this one in front of the rest.
LEMMA KeepsThen ==
  ASSUME NEW s \in Seq(Steps), s # <<>>, NEW g \in Seq(Steps), NEW t,
         s[1].table = t => s[1].do \notin Tracked, Free(g, t, Tracked)
  PROVE  Keeps(s, g \o Tail(s), t)
<1> DEFINE z == g \o Tail(s)
<1>1. /\ \A W \in SUBSET Tracked : Free(g, t, W)
      /\ \A d : Puts(g, t, d)
      /\ Drops(g, t)
      /\ \A d, r : LoadsWell(g, t, r, d)
      /\ Free(g, t, {"unlink"}) /\ Free(g, t, {"touch"})
  BY FreeIs DEF Tracked
<1>2. s[1].table = t => /\ s[1].do # "unlink" /\ s[1].do \notin {"read", "build"}
                        /\ s[1].do # "touch" /\ s[1].do # "open"
  BY DEF Tracked
<1>3. \A W \in SUBSET Tracked : Free(s, t, W) => Free(z, t, W)
  BY <1>1, FreeThen
<1>4. \A d : Puts(s, t, d) => Puts(z, t, d)
  BY <1>1, PutsThen
<1>5. Drops(s, t) => Drops(z, t)
  BY <1>1, <1>2, DropsThen
<1>6. ASSUME NEW d, NEW r, NEW r2, LoadsWell(s, t, r, d) PROVE LoadsWell(z, t, r2, d)
  <2>1. LoadsWell(g, t, r2, d) /\ (s[1].table = t => s[1].do \notin {"read", "build"})
    BY <1>1, <1>2
  <2> QED BY <1>6, <2>1, LoadsThen
<1>7. ASSUME NEW F, Finishes(s, t, F) PROVE Finishes(z, t, F)
  <2>1. ~(s[1].table = t /\ s[1].do = "touch") /\ Free(g, t, {"touch"})
    BY <1>1, <1>2
  <2>2. \A f \in F : f \in F /\ ~(s[1].table = t /\ s[1].do = "open" /\ s[1].file = f)
    BY <1>2
  <2> QED BY <1>7, <2>1, <2>2, FinishesThen
<1> HIDE DEF z
<1>8. Keeps(s, z, t)
  BY <1>3, <1>4, <1>5, <1>6, <1>7 DEF Keeps
<1> QED BY <1>8 DEF z

\* A program that does nothing to a table keeps whatever was true of another.
LEMMA KeepsFree ==
  ASSUME NEW s, NEW z, NEW t, Free(z, t, Tracked)
  PROVE  Keeps(s, z, t)
<1>1. Free(z, t, {"touch"})
  BY FreeIs DEF Tracked
<1> QED BY <1>1, FreeIs DEF Keeps

\* The stage of a table stays, or a table that was being created will not exist, when
\* a process does something else.
LEMMA StageKept ==
  ASSUME TypeInv, NEW p \in Procs, NEW t \in Tables, Stage(t),
         Keeps(todo[p], todo'[p], t),
         \A q \in Procs \ {p} : todo'[q] = todo[q] /\ read'[q] = read[q],
         \A f \in Files \ {"data"} : disk'[t][f] = disk[t][f],
         \A q \in Procs : held'[q][t] \in {None, held[q][t]},
         given'[t] = given[t]
  PROVE  Stage(t)'
<1>1. Whole \subseteq Files \ {"data"} /\ "marker" \in Files \ {"data"}
  BY DEF Whole, Files
<1>2. /\ \A f \in Whole : disk'[t][f] = disk[t][f]
      /\ disk'[t]["marker"] = disk[t]["marker"]
  BY <1>1
<1>3. \A f \in Files \ {"data"} : Has(t, f)' <=> Has(t, f)
  BY DEF Has
<1>4. \A q \in Procs, W \in SUBSET Tracked : Free(todo[q], t, W) => Free(todo'[q], t, W)
  BY DEF Keeps
<1>5. \A q \in Procs : \A d : Puts(todo[q], t, d) => Puts(todo'[q], t, d)
  BY DEF Keeps
<1>6. \A q \in Procs : Drops(todo[q], t) => Drops(todo'[q], t)
  BY DEF Keeps
<1>7. \A q \in Procs : \A d : LoadsWell(todo[q], t, read[q], d) => LoadsWell(todo'[q], t, read'[q], d)
  BY DEF Keeps
<1>8. /\ Tracked \in SUBSET Tracked /\ {"touch"} \in SUBSET Tracked
      /\ {"read", "build", "list", "unlink"} \in SUBSET Tracked
      /\ {"open", "put", "touch"} \in SUBSET Tracked
  BY DEF Tracked
<1>9. CASE Unmade(t)
  <2>1. Unmade(t)'
    BY <1>3, <1>4, <1>8, <1>9 DEF Unmade
  <2> QED BY <2>1 DEF Stage
<1>10. CASE Made(t)
  <2>1. Made(t)'
    BY <1>1, <1>2, <1>3, <1>4, <1>5, <1>6, <1>7, <1>8, <1>10 DEF Made
  <2> QED BY <2>1 DEF Stage
<1>11. CASE Dead(t)
  <2>1. Dead(t)'
    BY <1>1, <1>3, <1>4, <1>8, <1>11 DEF Dead
  <2> QED BY <2>1 DEF Stage
<1>12. ASSUME NEW q \in Procs, Making(q, t) PROVE Stage(t)'
  <2>1. \A f \in Whole : Has(t, f)' <=> Has(t, f)
    BY <1>1, <1>3
  <2>3. Unopened(t)' = Unopened(t)
    BY <2>1 DEF Unopened
  <2>4. Finishes(todo[q], t, Unopened(t))
    BY <1>12 DEF Making
  <2>5. Finishes(todo'[q], t, Unopened(t)) \/ (q = p /\ Free(todo'[q], t, {"touch"}))
    BY <2>4 DEF Keeps
  <2>6. CASE Finishes(todo'[q], t, Unopened(t))
    <3>1. Finishes(todo'[q], t, Unopened(t)')
      BY <2>3, <2>6
    <3>2. /\ given'[t] # None /\ ~Has(t, "marker")'
          /\ \A f \in Whole : Has(t, f)' => Good(disk'[t][f], given'[t], f)
      BY <1>1, <1>2, <1>3, <2>1, <1>12 DEF Making
    <3>3. \A o \in Procs :
            /\ held'[o][t] = None
            /\ Free(todo'[o], t, {"read", "build", "list", "unlink"})
            /\ o # q => Free(todo'[o], t, {"open", "put", "touch"})
      BY <1>4, <1>8, <1>12 DEF Making
    <3>4. Puts(todo'[q], t, given'[t])
      BY <1>5, <1>12 DEF Making
    <3>5. Making(q, t)'
      BY <3>1, <3>2, <3>3, <3>4 DEF Making
    <3> QED BY <3>5 DEF Stage
  <2>7. CASE q = p /\ Free(todo'[q], t, {"touch"})
    <3>1. \A o \in Procs : Free(todo[o], t, {"open", "put", "touch"}) => Free(todo[o], t, {"touch"})
      BY DEF Free
    <3>2. \A o \in Procs : Free(todo'[o], t, {"touch"})
      BY <1>4, <1>8, <1>12, <2>7, <3>1 DEF Making
    <3>3. given'[t] # None /\ ~Has(t, "marker")'
      BY <1>1, <1>3, <1>12 DEF Making
    <3>4. Dead(t)'
      BY <3>2, <3>3 DEF Dead
    <3> QED BY <3>4 DEF Stage
  <2> QED BY <2>5, <2>6, <2>7
<1> QED BY <1>9, <1>10, <1>11, <1>12 DEF Stage

\* What the programs do, and to which table.
LEMMA LoadDoes ==
  ASSUME NEW u \in Tables
  PROVE  \A i \in DOMAIN Load(u) : Load(u)[i].table = u /\ Load(u)[i].do \in {"read", "build"}
<1>1. DOMAIN Load(u) = 1 .. 3
  BY LoadIs, LenProperties
<1>2. Absent \in Content /\ {"columns", "relations"} \subseteq Files
  BY DEF Content, Files
<1>3. /\ Load(u)[1].table = u /\ Load(u)[1].do = "read"
      /\ Load(u)[2].table = u /\ Load(u)[2].do = "read"
      /\ Load(u)[3].table = u /\ Load(u)[3].do = "build"
  BY <1>2, LoadIs, OnIs, DoIs
<1>4. \A i \in 1 .. 3 : i = 1 \/ i = 2 \/ i = 3
  OBVIOUS
<1> QED BY <1>1, <1>3, <1>4

\* The steps of writing a definition.
LEMMA SetFilesDo ==
  ASSUME NEW u \in Tables, NEW d \in Def
  PROVE  \A i \in DOMAIN SetFiles(u, d) :
           /\ SetFiles(u, d)[i].table = u /\ SetFiles(u, d)[i].do \in {"open", "put"}
           /\ SetFiles(u, d)[i].part = PartOf(d, SetFiles(u, d)[i].file)
<1> DEFINE g == SetFiles(u, d)
<1>1. DOMAIN g = 1 .. 6
  BY SetFilesIs, LenProperties
<1>2. /\ d.columns \in Content /\ d.relations \in Content /\ Blank \in Content
      /\ {"columns", "relations", "increment"} \subseteq Files
  BY DefIs, ContentIs DEF Blank, Files
<1>3. /\ g[1] = On("open", u, "columns", d.columns)
      /\ g[2] = On("put", u, "columns", d.columns)
      /\ g[3] = On("open", u, "relations", d.relations)
      /\ g[4] = On("put", u, "relations", d.relations)
      /\ g[5] = On("open", u, "increment", Blank)
      /\ g[6] = On("put", u, "increment", Blank)
  BY SetFilesIs
<1> HIDE DEF g
<1>4. /\ g[1].table = u /\ g[1].do = "open" /\ g[1].file = "columns" /\ g[1].part = d.columns
      /\ g[2].table = u /\ g[2].do = "put" /\ g[2].file = "columns" /\ g[2].part = d.columns
      /\ g[3].table = u /\ g[3].do = "open" /\ g[3].file = "relations" /\ g[3].part = d.relations
      /\ g[4].table = u /\ g[4].do = "put" /\ g[4].file = "relations" /\ g[4].part = d.relations
      /\ g[5].table = u /\ g[5].do = "open" /\ g[5].file = "increment" /\ g[5].part = Blank
      /\ g[6].table = u /\ g[6].do = "put" /\ g[6].file = "increment" /\ g[6].part = Blank
  BY <1>2, <1>3, OnIs
<1>5. \A i \in 1 .. 6 : i = 1 \/ i = 2 \/ i = 3 \/ i = 4 \/ i = 5 \/ i = 6
  OBVIOUS
<1>6. ASSUME NEW i \in DOMAIN g
      PROVE  g[i].table = u /\ g[i].do \in {"open", "put"} /\ g[i].part = PartOf(d, g[i].file)
  BY <1>1, <1>4, <1>5 DEF PartOf
<1> QED BY <1>6 DEF g

\* The steps of createTable().
LEMMA CreateDoes ==
  ASSUME NEW u \in Tables, NEW d \in Def
  PROVE  \A i \in DOMAIN Create(u, d) :
           \/ i = 1 /\ Create(u, d)[i].table = u /\ Create(u, d)[i].do = "make"
           \/ i \in 2 .. 7 /\ i - 1 \in DOMAIN SetFiles(u, d) /\ Create(u, d)[i] = SetFiles(u, d)[i - 1]
           \/ i = 8 /\ Create(u, d)[i].table = u /\ Create(u, d)[i].do = "touch"
           \/ i > 8 /\ Create(u, d)[i].do \in {"save", "scan"}
<1> DEFINE g == Create(u, d)
           b == SetFiles(u, d)
<1>1. /\ g \in Seq(Steps) /\ Len(g) > 8 /\ g[1] = Do("make", u)
      /\ \A i \in 1 .. 6 : g[i + 1] = b[i]
      /\ g[8] = Do("touch", u)
      /\ \A i \in 9 .. Len(g) : g[i].do \in {"save", "scan"}
  BY CreateIs
<1>2. DOMAIN b = 1 .. 6
  BY SetFilesIs, LenProperties
<1> HIDE DEF g, b
<1>3. DOMAIN g = 1 .. Len(g) /\ Len(g) \in Nat
  BY <1>1, LenProperties
<1>4. g[1].table = u /\ g[1].do = "make" /\ g[8].table = u /\ g[8].do = "touch"
  BY <1>1, DoIs
<1>5. ASSUME NEW i \in DOMAIN g
      PROVE  \/ i = 1 /\ g[i].table = u /\ g[i].do = "make"
             \/ i \in 2 .. 7 /\ i - 1 \in DOMAIN b /\ g[i] = b[i - 1]
             \/ i = 8 /\ g[i].table = u /\ g[i].do = "touch"
             \/ i > 8 /\ g[i].do \in {"save", "scan"}
  <2>1. i = 1 \/ i \in 2 .. 7 \/ i = 8 \/ i \in 9 .. Len(g)
    BY <1>3
  <2>2. CASE i \in 2 .. 7
    <3>1. i - 1 \in 1 .. 6 /\ (i - 1) + 1 = i
      BY <2>2
    <3>2. g[(i - 1) + 1] = b[i - 1]
      BY <3>1, <1>1
    <3> QED BY <2>2, <3>1, <3>2, <1>2
  <2>3. CASE i \in 9 .. Len(g)
    BY <2>3, <1>1, <1>3
  <2> QED BY <1>4, <2>1, <2>2, <2>3
<1> QED BY <1>5 DEF g, b

\* The steps of deleteTable().
LEMMA DeleteDoes ==
  ASSUME NEW u \in Tables
  PROVE  \A i \in DOMAIN Delete(u) :
           \/ i \in 1 .. 3 /\ i \in DOMAIN Load(u) /\ Delete(u)[i] = Load(u)[i]
           \/ i = 4 /\ Delete(u)[i].table = u /\ Delete(u)[i].do = "list"
           \/ i > 4 /\ Delete(u)[i].do \in {"save", "scan"}
<1> DEFINE g == Delete(u)
           b == Load(u)
<1>1. /\ g \in Seq(Steps) /\ Len(g) > 4 /\ g[4] = Do("list", u)
      /\ \A i \in 1 .. 3 : g[i] = b[i]
      /\ \A i \in 5 .. Len(g) : g[i].do \in {"save", "scan"}
  BY DeleteIs
<1>2. DOMAIN b = 1 .. 3
  BY LoadIs, LenProperties
<1> HIDE DEF g, b
<1>3. DOMAIN g = 1 .. Len(g) /\ Len(g) \in Nat
  BY <1>1, LenProperties
<1>4. g[4].table = u /\ g[4].do = "list"
  BY <1>1, DoIs
<1>5. ASSUME NEW i \in DOMAIN g
      PROVE  \/ i \in 1 .. 3 /\ i \in DOMAIN b /\ g[i] = b[i]
             \/ i = 4 /\ g[i].table = u /\ g[i].do = "list"
             \/ i > 4 /\ g[i].do \in {"save", "scan"}
  <2>1. i \in 1 .. 3 \/ i = 4 \/ i \in 5 .. Len(g)
    BY <1>3
  <2>2. CASE i \in 5 .. Len(g)
    BY <2>2, <1>1, <1>3
  <2> QED BY <1>1, <1>2, <1>4, <2>1, <2>2
<1> QED BY <1>5 DEF g, b

\* What programs do not do: to any table, and to other tables.
LEMMA CalmIs ==
  ASSUME NEW t, NEW S \in SUBSET Tables, NEW u \in Tables
  PROVE  /\ Free(<<>>, t, Tracked) /\ Free(SaveAll, t, Tracked) /\ Free(Refresh, t, Tracked)
         /\ Free(Each("check", S), t, Tracked)
         /\ \A w \in {"check", "present"} : Free(<<Do(w, u)>>, t, Tracked)
         /\ Free(<<Do("new", u), Do("absent", u)>>, t, Tracked)
<1>1. \A w \in {"save", "scan", "check", "present", "new", "absent"} : w \notin Tracked
  BY DEF Tracked
<1>2. Free(<<>>, t, Tracked)
  BY DEF Free
<1>3. Free(SaveAll, t, Tracked)
  BY <1>1, EndIs DEF Free
<1>4. Free(Refresh, t, Tracked)
  <2>1. DOMAIN Refresh = 1 .. 1 /\ \A i \in 1 .. 1 : i = 1
    BY EndIs, LenProperties
  <2> QED BY <1>1, <2>1, EndIs DEF Free
<1>5. Free(Each("check", S), t, Tracked)
  BY <1>1, EachIs DEF Free
<1>6. ASSUME NEW w \in {"check", "present"} PROVE Free(<<Do(w, u)>>, t, Tracked)
  <2> DEFINE g == <<Do(w, u)>>
  <2>1. DOMAIN g = {1} /\ g[1].do = w
    BY DoIs, SingleIs
  <2> HIDE DEF g
  <2>2. Free(g, t, Tracked)
    BY <1>1, <2>1 DEF Free
  <2> QED BY <2>2 DEF g
<1>7. Free(<<Do("new", u), Do("absent", u)>>, t, Tracked)
  <2> DEFINE g == <<Do("new", u), Do("absent", u)>>
  <2>1. DOMAIN g = {1, 2} /\ g[1].do = "new" /\ g[2].do = "absent"
    BY DoIs, PairIs
  <2> HIDE DEF g
  <2>2. Free(g, t, Tracked)
    BY <1>1, <2>1 DEF Free
  <2> QED BY <2>2 DEF g
<1> QED BY <1>2, <1>3, <1>4, <1>5, <1>6, <1>7

\* Programs on one table do nothing to another.
LEMMA ElsewhereIs ==
  ASSUME NEW u \in Tables, NEW t, t # u
  PROVE  /\ Free(Load(u), t, Tracked) /\ Free(Delete(u), t, Tracked) /\ Free(Listed(u), t, Tracked)
         /\ \A d \in Def : Free(SetFiles(u, d), t, Tracked) /\ Free(Create(u, d), t, Tracked)
<1>1. "save" \notin Tracked /\ "scan" \notin Tracked
  BY DEF Tracked
<1>2. Free(Load(u), t, Tracked)
  BY LoadDoes DEF Free
<1>3. Free(Delete(u), t, Tracked)
  BY <1>1, LoadDoes, DeleteDoes DEF Free
<1>4. Free(Listed(u), t, Tracked)
  <2>1. \A i \in DOMAIN Listed(u) : Listed(u)[i] \in Removing(u)
    BY ListedIs, ElementOfSeq, LenProperties
  <2> QED BY <2>1 DEF Free, Removing
<1>5. ASSUME NEW d \in Def PROVE Free(SetFiles(u, d), t, Tracked)
  BY SetFilesDo DEF Free
<1>6. ASSUME NEW d \in Def PROVE Free(Create(u, d), t, Tracked)
  BY <1>1, SetFilesDo, CreateDoes DEF Free
<1> QED BY <1>2, <1>3, <1>4, <1>5, <1>6

-----------------------------------------------------------------------------
(* The stages of a table.                                                  *)

\* What Then() makes of the programs.
LEMMA ThenIs ==
  ASSUME TypeInv, NEW p \in Procs, todo[p] # <<>>, NEW g \in Seq(PlainSteps), Then(p, g)
  PROVE  /\ todo[p] \in Seq(Steps) /\ g \in Seq(Steps)
         /\ todo'[p] = g \o Tail(todo[p])
         /\ \A q \in Procs \ {p} : todo'[q] = todo[q]
<1>1. todo \in [Procs -> Seq(Steps)]
  BY DEF TypeInv, TypeOK
<1>2. g \in Seq(Steps)
  BY WidenIs DEF PlainSteps
<1> QED BY <1>1, <1>2 DEF Then

\* A step that is not about what tells the stages of a table apart.
LEMMA OtherStep ==
  ASSUME TypeInv, NEW p \in Procs, NEW t \in Tables, Stage(t),
         todo[p] # <<>>, NEW g \in Seq(PlainSteps), Then(p, g),
         Now(p).table = t => Now(p).do \notin Tracked, Free(g, t, Tracked),
         \A q \in Procs \ {p} : read'[q] = read[q],
         \A f \in Files \ {"data"} : disk'[t][f] = disk[t][f],
         \A q \in Procs : held'[q][t] \in {None, held[q][t]},
         given'[t] = given[t]
  PROVE  Stage(t)'
<1>1. /\ todo[p] \in Seq(Steps) /\ g \in Seq(Steps)
      /\ todo'[p] = g \o Tail(todo[p])
      /\ \A q \in Procs \ {p} : todo'[q] = todo[q]
  BY ThenIs
<1>2. Now(p) = todo[p][1]
  BY NowIs
<1>3. Keeps(todo[p], todo'[p], t)
  BY <1>1, <1>2, KeepsThen
<1> QED BY <1>1, <1>3, StageKept

\* A process that begins a call, or is done with one.
LEMMA FreshStage ==
  ASSUME TypeInv, NEW p \in Procs, NEW t \in Tables, Stage(t),
         NEW g, Free(g, t, Tracked), todo' = [todo EXCEPT ![p] = g],
         \A q \in Procs \ {p} : read'[q] = read[q],
         \A f \in Files \ {"data"} : disk'[t][f] = disk[t][f],
         \A q \in Procs : held'[q][t] \in {None, held[q][t]},
         given'[t] = given[t]
  PROVE  Stage(t)'
<1>1. todo \in [Procs -> Seq(Steps)]
  BY DEF TypeInv, TypeOK
<1>2. todo'[p] = g /\ \A q \in Procs \ {p} : todo'[q] = todo[q]
  BY <1>1
<1>3. Keeps(todo[p], todo'[p], t)
  BY <1>2, KeepsFree
<1> QED BY <1>2, <1>3, StageKept

\* A process that ends or is killed leaves each table in a stage.
LEMMA GoneStage ==
  ASSUME TypeInv, NEW p \in Procs, NEW t \in Tables, Stage(t), Gone(p)
  PROVE  Stage(t)'
<1>1. /\ todo' = [todo EXCEPT ![p] = <<>>] /\ Free(<<>>, t, Tracked)
      /\ \A q \in Procs \ {p} : read'[q] = read[q]
      /\ \A f \in Files \ {"data"} : disk'[t][f] = disk[t][f]
      /\ \A q \in Procs : held'[q][t] \in {None, held[q][t]}
      /\ given'[t] = given[t]
  BY DEF Gone, Free, NoneHeld, TypeInv, TypeOK
<1> QED BY <1>1, FreshStage

\* So does an exception.
LEMMA ThrowStage ==
  ASSUME TypeInv, NEW p \in Procs, NEW t \in Tables, Stage(t), Throw(p)
  PROVE  Stage(t)'
<1>1. CASE phase[p] = "starting"
  BY <1>1, GoneStage DEF Throw
<1>2. CASE phase[p] # "starting"
  <2>1. /\ todo' = [todo EXCEPT ![p] = <<>>] /\ Free(<<>>, t, Tracked)
        /\ \A q \in Procs \ {p} : read'[q] = read[q]
        /\ disk' = disk /\ held' = held /\ given' = given
    BY <1>2 DEF Throw, Free, TypeInv, TypeOK
  <2> QED BY <2>1, FreshStage
<1> QED BY <1>1, <1>2

\* So does a process that starts.
LEMMA LifeStage ==
  ASSUME TypeInv, NEW p \in Procs, NEW t \in Tables, Stage(t), Life(p)
  PROVE  Stage(t)'
<1>1. CASE Start(p)
  <2>1. /\ todo' = [todo EXCEPT ![p] = Refresh] /\ Free(Refresh, t, Tracked)
        /\ read' = read /\ disk' = disk /\ held' = held /\ given' = given
    BY <1>1, CalmIs DEF Start
  <2> QED BY <2>1, FreshStage
<1>2. CASE Opened(p)
  <2>1. /\ todo' = [todo EXCEPT ![p] = <<>>] /\ Free(<<>>, t, Tracked)
        /\ read' = read /\ disk' = disk /\ held' = held /\ given' = given
    BY <1>2, CalmIs DEF Opened, TypeInv, TypeOK
  <2> QED BY <2>1, FreshStage
<1>3. CASE Exit(p)
  <2>1. /\ todo' = [todo EXCEPT ![p] = SaveAll] /\ Free(SaveAll, t, Tracked)
        /\ read' = read /\ disk' = disk /\ held' = held /\ given' = given
    BY <1>3, CalmIs DEF Exit
  <2> QED BY <2>1, FreshStage
<1>4. CASE Ended(p)
  BY <1>4, GoneStage DEF Ended
<1>5. CASE Kill(p)
  BY <1>5, GoneStage DEF Kill
<1> QED BY <1>1, <1>2, <1>3, <1>4, <1>5 DEF Life

\* So does a call that begins.
LEMMA CallStage ==
  ASSUME TypeInv, NEW p \in Procs, NEW t \in Tables, Stage(t), NEW u \in Tables,
         \/ GetTable(p, u) \/ InsertRow(p, u) \/ DeleteTable(p, u)
         \/ \E d \in Def : CreateTable(p, u, d)
  PROVE  Stage(t)'
<1>1. CASE InsertRow(p, u)
  <2>1. todo' = [todo EXCEPT ![p] = <<>>] /\ Free(<<>>, t, Tracked)
    BY <1>1, CalmIs DEF InsertRow, Ready, TypeInv, TypeOK
  <2>2. \A f \in Files \ {"data"} : disk'[t][f] = disk[t][f]
    <3>1. Columns \in Content /\ "data" \in Files
      BY DEF Content, Files
    <3>2. Written(u, "data", Columns) /\ disk \in [Tables -> [Files -> Content]]
      BY <1>1 DEF InsertRow, Written, TypeInv, TypeOK
    <3> QED BY <3>1, <3>2, WrittenIs
  <2>3. read' = read /\ held' = held /\ given' = given
    BY <1>1 DEF InsertRow
  <2> QED BY <2>1, <2>2, <2>3, FreshStage
<1>2. CASE ~InsertRow(p, u)
  <2>1. \E g \in {<<Do("check", u)>>, <<Do("present", u)>>, <<Do("new", u), Do("absent", u)>>} :
          todo' = [todo EXCEPT ![p] = g]
    BY <1>2 DEF GetTable, DeleteTable, CreateTable, Call
  <2>2. PICK g : todo' = [todo EXCEPT ![p] = g] /\ Free(g, t, Tracked)
    BY <2>1, CalmIs
  <2>3. disk' = disk /\ read' = read /\ held' = held /\ given' = given
    BY <1>2 DEF GetTable, DeleteTable, CreateTable, Call
  <2> QED BY <2>2, <2>3, FreshStage
<1> QED BY <1>1, <1>2

\* A table that exists goes on to exist.
LEMMA MadeThen ==
  ASSUME TypeInv, NEW p \in Procs, NEW t \in Tables, Made(t),
         todo[p] # <<>>, NEW g \in Seq(PlainSteps), Then(p, g),
         Now(p).table = t => Now(p).do \notin {"read", "build", "unlink"},
         Free(g, t, {"touch"}), Puts(g, t, given[t]),
         \/ Free(g, t, {"unlink"})
         \/ 1 \in DOMAIN g /\ g[1].table = t /\ g[1].do = "unlink" /\ g[1].file = "marker",
         LoadsWell(g, t, read[p], given[t]),
         read' = read, held' = held, given' = given,
         Has(t, "marker")', \A f \in Whole : Good(disk'[t][f], given[t], f)
  PROVE  Stage(t)'
<1>1. /\ todo[p] \in Seq(Steps) /\ g \in Seq(Steps)
      /\ todo'[p] = g \o Tail(todo[p])
      /\ \A q \in Procs \ {p} : todo'[q] = todo[q]
  BY ThenIs
<1>2. Now(p) = todo[p][1]
  BY NowIs
<1> DEFINE s == todo[p]
           z == todo'[p]
           d == given[t]
<1>3. /\ Free(s, t, {"touch"}) /\ Puts(s, t, d) /\ Drops(s, t) /\ LoadsWell(s, t, read[p], d)
      /\ s[1].table = t => s[1].do \notin {"read", "build"}
      /\ ~(s[1].table = t /\ s[1].do = "unlink")
  BY <1>2 DEF Made
<1>4. z = g \o Tail(s) /\ s \in Seq(Steps) /\ g \in Seq(Steps) /\ s # <<>>
  BY <1>1
<1>5. /\ Free(g, t, {"touch"}) /\ Puts(g, t, d)
      /\ LoadsWell(g, t, read[p], d)
  OBVIOUS
<1> HIDE DEF s, z, d
<1>6. Free(z, t, {"touch"})
  BY <1>3, <1>4, <1>5, FreeThen
<1>7. Puts(z, t, d)
  BY <1>3, <1>4, <1>5, PutsThen
<1>8. Drops(z, t)
  BY <1>3, <1>4, DropsThen
<1>9. LoadsWell(z, t, read[p], d)
  BY <1>3, <1>4, <1>5, LoadsThen
<1>10. \A q \in Procs : /\ Free(todo'[q], t, {"touch"}) /\ Puts(todo'[q], t, given[t])
                        /\ Drops(todo'[q], t) /\ LoadsWell(todo'[q], t, read[q], given[t])
  BY <1>1, <1>6, <1>7, <1>8, <1>9 DEF Made, z, d
<1>11. Made(t)'
  BY <1>10 DEF Made
<1> QED BY <1>11 DEF Stage

\* A table that will not exist again.
LEMMA DeadThen ==
  ASSUME TypeInv, NEW p \in Procs, NEW t \in Tables, Made(t) \/ Dead(t),
         todo[p] # <<>>, NEW g \in Seq(PlainSteps), Then(p, g), Free(g, t, {"touch"}),
         given' = given, ~Has(t, "marker")'
  PROVE  Stage(t)'
<1>1. /\ todo[p] \in Seq(Steps) /\ g \in Seq(Steps)
      /\ todo'[p] = g \o Tail(todo[p])
      /\ \A q \in Procs \ {p} : todo'[q] = todo[q]
  BY ThenIs
<1>2. given[t] # None /\ \A q \in Procs : Free(todo[q], t, {"touch"})
  BY DEF Made, Dead
<1>3. Free(todo'[p], t, {"touch"})
  BY <1>1, <1>2, FreeThen
<1>4. Dead(t)'
  BY <1>1, <1>2, <1>3 DEF Dead
<1> QED BY <1>4 DEF Stage

\* Nothing is done to the files of a table nobody has created, and only its creator
\* does something to those of a table it creates.
LEMMA StageHead ==
  ASSUME TypeInv, NEW p \in Procs, NEW t \in Tables, Stage(t), todo[p] # <<>>, Now(p).table = t,
         Now(p).do \in Tracked
  PROVE  \/ Made(t)
         \/ Dead(t)
         \/ Now(p).do \in {"open", "put", "touch"} /\ Making(p, t)
<1>1. Now(p) = todo[p][1] /\ 1 \in DOMAIN todo[p]
  BY NowIs
<1>2. ~Unmade(t)
  BY <1>1 DEF Unmade, Free
<1>3. ASSUME NEW q \in Procs, Making(q, t)
      PROVE  Now(p).do \in {"open", "put", "touch"} /\ p = q
  BY <1>1, <1>3 DEF Making, Free, Tracked
<1> QED BY <1>2, <1>3 DEF Stage

\* Definitions of a table are in memory only once it exists.
LEMMA HeldMeans ==
  ASSUME NEW p \in Procs, NEW t \in Tables, Stage(t), held[p][t] # None
  PROVE  (Made(t) /\ held[p][t] = given[t]) \/ Dead(t)
BY DEF Stage, Unmade, Making, Made

\* A table with its marker exists.
LEMMA MarkerMeans ==
  ASSUME NEW t \in Tables, Stage(t), Has(t, "marker")
  PROVE  Made(t)
<1>1. "marker" \in Files \ {"data"}
  BY DEF Files
<1> QED BY <1>1 DEF Stage, Unmade, Making, Dead

\* Loading reads both files before the Table is made.
LEMMA LoadIsWell ==
  ASSUME NEW t \in Tables, NEW d, NEW r, NEW g, DOMAIN Load(t) \subseteq DOMAIN g,
         \A i \in DOMAIN Load(t) : g[i] = Load(t)[i],
         \A i \in DOMAIN g \ DOMAIN Load(t) : g[i].table = t => g[i].do # "build"
  PROVE  LoadsWell(g, t, r, d)
<1>1. /\ DOMAIN Load(t) = 1 .. 3 /\ Load(t)[1] = On("read", t, "columns", Absent)
      /\ Load(t)[2] = On("read", t, "relations", Absent)
  BY LoadIs, LenProperties
<1>2. Absent \in Content /\ {"columns", "relations"} \subseteq Files
  BY DEF Content, Files
<1>3. Reads(g[1], t, "columns") /\ Reads(g[2], t, "relations")
  BY <1>1, <1>2, OnIs DEF Reads
<1>4. g[1].do # "build" /\ g[2].do # "build"
  BY <1>3 DEF Reads
<1>5. ASSUME NEW i \in DOMAIN g, g[i].table = t, g[i].do = "build" PROVE i = 3
  <2>1. i \in 1 .. 3
    BY <1>1, <1>5
  <2>2. i = 1 \/ i = 2 \/ i = 3
    BY <2>1
  <2> QED BY <2>2, <1>4, <1>5
<1> QED BY <1>3, <1>5 DEF LoadsWell

\* The looks at a path, and the save, leave each table in a stage.
LEMMA PathStage ==
  ASSUME TypeInv, NEW p \in Procs, NEW t \in Tables, Stage(t),
         Check(p) \/ CheckPresent(p) \/ Save(p)
  PROVE  Stage(t)'
<1> DEFINE u == Now(p).table
<1>1. todo[p] # <<>> /\ Now(p).do \in {"check", "present", "save"}
  BY DEF Check, CheckPresent, Save, At
<1>2. u \in Tables
  BY <1>1, NowIs
<1>3. Now(p).do \notin Tracked
  BY <1>1 DEF Tracked
<1>4. UNCHANGED <<disk, dirs, phase, arg, read, held, given>>
  BY DEF Check, CheckPresent, Save
<1>5. ASSUME NEW g \in Seq(PlainSteps), Then(p, g), Free(g, t, Tracked) PROVE Stage(t)'
  BY <1>1, <1>3, <1>4, <1>5, OtherStep
<1>6. <<>> \in Seq(PlainSteps) /\ Load(u) \in Seq(PlainSteps) /\ Delete(u) \in Seq(PlainSteps)
      /\ \A d \in Def : SetFiles(u, d) \in Seq(PlainSteps)
  BY <1>2, ProgramsPlain
<1>7. held[p][u] # None => held[p][u] \in Def
  BY <1>2 DEF TypeInv, TypeOK
<1>8. Free(<<>>, t, Tracked)
  BY <1>2, CalmIs
<1>9. CASE t # u
  <2>1. /\ Free(Load(u), t, Tracked) /\ Free(Delete(u), t, Tracked)
        /\ \A d \in Def : Free(SetFiles(u, d), t, Tracked)
    BY <1>2, <1>9, ElsewhereIs
  <2>2. \E g \in Seq(PlainSteps) : Then(p, g) /\ Free(g, t, Tracked)
    BY <2>1, <1>6, <1>7, <1>8 DEF Check, CheckPresent, Save
  <2> QED BY <2>2, <1>5
<1>10. CASE t = u /\ Then(p, <<>>)
  BY <1>5, <1>6, <1>8, <1>10
<1>11. ASSUME Made(t), t = u, NEW g \in Seq(PlainSteps), Then(p, g), Free(g, t, {"touch"}),
              Free(g, t, {"unlink"}), Puts(g, t, given[t]), LoadsWell(g, t, read[p], given[t])
       PROVE  Stage(t)'
  <2>1. Has(t, "marker")' /\ \A f \in Whole : Good(disk'[t][f], given[t], f)
    BY <1>4, <1>11 DEF Made, Has
  <2>2. Now(p).table = t => Now(p).do \notin {"read", "build", "unlink"}
    BY <1>1
  <2> QED BY <1>1, <1>4, <1>11, <2>1, <2>2, MadeThen
<1>12. CASE t = u /\ Check(p) /\ Then(p, Load(t)) /\ Has(t, "marker")
  <2> DEFINE g == Load(t)
  <2>1. \A i \in DOMAIN g : g[i].table = u /\ g[i].do \in {"read", "build"}
    BY LoadDoes, <1>12
  <2>2. LoadsWell(g, t, read[p], given[t])
    BY LoadIsWell
  <2>3. g \in Seq(PlainSteps) /\ Then(p, g)
    BY <1>6, <1>12
  <2> HIDE DEF g
  <2>4. Free(g, t, {"touch"}) /\ Free(g, t, {"unlink"}) /\ Puts(g, t, given[t])
    BY <2>1 DEF Free, Puts
  <2> QED BY <1>11, <1>12, <2>2, <2>3, <2>4, MarkerMeans
<1>13. CASE t = u /\ CheckPresent(p) /\ Then(p, Delete(t)) /\ Has(t, "marker")
  <2> DEFINE g == Delete(t)
             b == Load(t)
  <2>1. \A i \in DOMAIN b : b[i].table = u /\ b[i].do \in {"read", "build"}
    BY LoadDoes, <1>13
  <2>2. \A i \in DOMAIN g :
          \/ i \in 1 .. 3 /\ i \in DOMAIN b /\ g[i] = b[i]
          \/ i = 4 /\ g[i].table = u /\ g[i].do = "list"
          \/ i > 4 /\ g[i].do \in {"save", "scan"}
    BY DeleteDoes, <1>13
  <2>3. DOMAIN b = 1 .. 3 /\ 1 .. 3 \subseteq DOMAIN g
    BY LoadIs, DeleteIs, LenProperties
  <2>4. g \in Seq(PlainSteps) /\ Then(p, g)
    BY <1>6, <1>13
  <2>5. LoadsWell(g, t, read[p], given[t])
    <3>1. \A i \in DOMAIN b : g[i] = b[i]
      <4> HIDE DEF g, b
      <4>1. \A i \in 1 .. 3 : ~(i = 4) /\ ~(i > 4)
        OBVIOUS
      <4> QED BY <2>2, <2>3, <4>1
    <3>2. \A i \in DOMAIN g \ DOMAIN b : g[i].do # "build"
      <4> HIDE DEF g, b
      <4> QED BY <2>2
    <3>3. DOMAIN b \subseteq DOMAIN g
      BY <2>3
    <3> QED BY <3>1, <3>2, <3>3, LoadIsWell
  <2> HIDE DEF g, b
  <2>6. Free(g, t, {"touch"}) /\ Free(g, t, {"unlink"}) /\ Puts(g, t, given[t])
    BY <2>1, <2>2 DEF Free, Puts
  <2> QED BY <1>11, <1>13, <2>4, <2>5, <2>6, MarkerMeans
<1>14. CASE t = u /\ Save(p) /\ Then(p, SetFiles(t, held[p][t])) /\ held[p][t] # None
  <2> DEFINE g == SetFiles(t, held[p][t])
  <2>1. \A i \in DOMAIN g : /\ g[i].table = t /\ g[i].do \in {"open", "put"}
                            /\ g[i].part = PartOf(held[p][t], g[i].file)
    BY SetFilesDo, <1>7, <1>14
  <2>2. g \in Seq(PlainSteps) /\ Then(p, g)
    BY <1>6, <1>7, <1>14
  <2> HIDE DEF g
  <2>3. Free(g, t, {"touch"}) /\ Free(g, t, {"unlink"})
    BY <2>1 DEF Free
  <2>4. CASE Made(t) /\ held[p][t] = given[t]
    <3>1. Puts(g, t, given[t])
      BY <2>1, <2>4 DEF Puts
    <3>2. LoadsWell(g, t, read[p], given[t])
      BY <2>1 DEF LoadsWell
    <3> QED BY <1>11, <1>14, <2>2, <2>3, <2>4, <3>1, <3>2
  <2>5. CASE Dead(t)
    <3>1. ~Has(t, "marker")' /\ given' = given
      BY <1>4, <2>5 DEF Dead, Has
    <3> QED BY <1>1, <2>2, <2>3, <2>5, <3>1, DeadThen
  <2> QED BY <1>14, <2>4, <2>5, HeldMeans
<1> QED BY <1>9, <1>10, <1>12, <1>13, <1>14 DEF Check, CheckPresent, Save

\* createTable(): the definition is given, and the files are to be written.
LEMMA AbsentStage ==
  ASSUME TypeInv, OneCreates, NEW p \in Procs, NEW t \in Tables, \A u \in Tables : Stage(u),
         CheckAbsent(p)
  PROVE  Stage(t)'
<1> DEFINE u == Now(p).table
<1>1. todo[p] # <<>> /\ Now(p).do = "absent"
  BY DEF CheckAbsent, At
<1>2. /\ u \in Tables /\ Now(p) = todo[p][1] /\ 1 \in DOMAIN todo[p] /\ Now(p) \notin PlainSteps
      /\ Len(todo[p]) = 1
  BY <1>1, NowIs, PlainIs
<1>3. arg[p] \in Def /\ arg[p] # None /\ given[u] = None
  BY <1>1, <1>2 DEF OneCreates, TypeInv, Asked
<1>4. Unmade(u)
  BY <1>2, <1>3 DEF Stage, Making, Made, Dead
<1>5. ~Has(u, "marker")
  BY <1>4 DEF Unmade, Files
<1>6. /\ Then(p, Create(u, arg[p])) /\ given' = [given EXCEPT ![u] = arg[p]]
      /\ UNCHANGED <<disk, dirs, phase, read, held>>
  BY <1>5 DEF CheckAbsent
<1>7. Create(u, arg[p]) \in Seq(PlainSteps)
  BY <1>2, <1>3, ProgramsPlain
<1>8. CASE t # u
  <2>1. Free(Create(u, arg[p]), t, Tracked)
    BY <1>2, <1>3, <1>8, ElsewhereIs
  <2>2. given'[t] = given[t]
    BY <1>6, <1>8 DEF TypeInv, TypeOK
  <2> QED BY <1>1, <1>6, <1>7, <1>8, <2>1, <2>2, OtherStep
<1>9. CASE t = u
  <2> DEFINE g == Create(u, arg[p])
             b == SetFiles(u, arg[p])
             d == arg[p]
  <2>1. given'[t] = d /\ d # None
    BY <1>2, <1>3, <1>6, <1>9 DEF TypeInv, TypeOK
  <2>2. todo'[p] = g /\ \A q \in Procs \ {p} : todo'[q] = todo[q]
    <3>1. todo[p] \in Seq(Steps)
      BY DEF TypeInv, TypeOK
    <3>2. Tail(todo[p]) \in Seq(Steps) /\ Len(Tail(todo[p])) = 0
      BY <1>1, <1>2, <3>1, HeadTailProperties
    <3>3. Tail(todo[p]) = <<>>
      BY <3>2, EmptySeq
    <3>4. g \in Seq(Steps)
      BY <1>7, WidenIs DEF PlainSteps
    <3>5. todo'[p] = g \o <<>>
      BY <1>1, <1>6, <1>7, <3>3, ThenIs
    <3>6. g \o <<>> = g
      BY <3>4, ConcatEmptySeq
    <3> QED BY <1>1, <1>6, <1>7, <3>5, <3>6, ThenIs
  <2>3. \A i \in DOMAIN b : /\ b[i].table = t /\ b[i].do \in {"open", "put"}
                            /\ b[i].part = PartOf(d, b[i].file)
    BY SetFilesDo, <1>2, <1>3, <1>9
  <2>4. \A i \in DOMAIN g :
          \/ i = 1 /\ g[i].table = t /\ g[i].do = "make"
          \/ i \in 2 .. 7 /\ i - 1 \in DOMAIN b /\ g[i] = b[i - 1]
          \/ i = 8 /\ g[i].table = t /\ g[i].do = "touch"
          \/ i > 8 /\ g[i].do \in {"save", "scan"}
    BY CreateDoes, <1>2, <1>3, <1>9
  <2>5. /\ DOMAIN b = 1 .. 6 /\ 1 .. 8 \subseteq DOMAIN g /\ DOMAIN g \subseteq Nat
        /\ g[8] = Do("touch", t)
        /\ \A i \in 1 .. 6 : g[i + 1] = b[i]
    BY SetFilesIs, CreateIs, LenProperties, <1>2, <1>3, <1>9
  <2>6. /\ b[1] = On("open", t, "columns", d.columns)
        /\ b[3] = On("open", t, "relations", d.relations)
        /\ b[5] = On("open", t, "increment", Blank)
    BY SetFilesIs, <1>2, <1>3, <1>9
  <2>7. /\ d.columns \in Content /\ d.relations \in Content /\ Blank \in Content
        /\ {"columns", "relations", "increment"} \subseteq Files
    BY <1>3, DefIs, ContentIs DEF Blank, Files
  <2> HIDE DEF g, b, d
  <2>8. Free(g, t, {"read", "build", "list", "unlink"})
    BY <2>3, <2>4 DEF Free
  <2>9. Puts(g, t, d)
    BY <2>3, <2>4 DEF Puts
  <2>10. Finishes(g, t, Whole)
    <3>1. g[2] = b[1] /\ g[4] = b[3] /\ g[6] = b[5]
      <4>1. g[1 + 1] = b[1] /\ g[3 + 1] = b[3] /\ g[5 + 1] = b[5]
        BY <2>5
      <4> QED BY <4>1
    <3>2. /\ g[2].table = t /\ g[2].do = "open" /\ g[2].file = "columns"
          /\ g[4].table = t /\ g[4].do = "open" /\ g[4].file = "relations"
          /\ g[6].table = t /\ g[6].do = "open" /\ g[6].file = "increment"
      BY <2>6, <2>7, <3>1, OnIs
    <3>3. g[8].table = t /\ g[8].do = "touch"
      BY <2>5, DoIs
    <3>4. 2 \in DOMAIN g /\ 4 \in DOMAIN g /\ 6 \in DOMAIN g /\ 8 \in DOMAIN g
      BY <2>5
    <3>5. ASSUME NEW i \in DOMAIN g, g[i].table = t, g[i].do = "touch" PROVE i = 8
      BY <2>3, <2>4, <3>5
    <3>6. \A f \in Whole : \E i \in DOMAIN g :
            i < 8 /\ g[i].table = t /\ g[i].do = "open" /\ g[i].file = f
      BY <3>2, <3>4 DEF Whole
    <3> QED BY <3>3, <3>4, <3>5, <3>6 DEF Finishes
  <2>11. Unopened(t)' = Whole
    <3>1. \A f \in Whole : ~Has(t, f)'
      BY <1>4, <1>6, <1>9 DEF Unmade, Has, Whole, Files
    <3> QED BY <3>1 DEF Unopened
  <2>12. \A q \in Procs :
           /\ held'[q][t] = None
           /\ Free(todo'[q], t, {"read", "build", "list", "unlink"})
           /\ q # p => Free(todo'[q], t, {"open", "put", "touch"})
    <3>1. \A q \in Procs : held[q][t] = None /\ Free(todo[q], t, Tracked)
      BY <1>4, <1>9 DEF Unmade
    <3>2. \A q \in Procs : /\ Free(todo[q], t, {"read", "build", "list", "unlink"})
                           /\ Free(todo[q], t, {"open", "put", "touch"})
      BY <3>1 DEF Free, Tracked
    <3> QED BY <1>6, <2>2, <2>8, <3>1, <3>2
  <2>13. ~Has(t, "marker")' /\ \A f \in Whole : ~Has(t, f)'
    BY <1>4, <1>6, <1>9 DEF Unmade, Has, Whole, Files
  <2>14. Making(p, t)'
    BY <2>1, <2>2, <2>9, <2>10, <2>11, <2>12, <2>13 DEF Making
  <2> QED BY <2>14 DEF Stage
<1> QED BY <1>8, <1>9

\* So do the steps that touch no file of a definition.
LEMMA CalmStage ==
  ASSUME TypeInv, NEW p \in Procs, NEW t \in Tables, Stage(t),
         New(p) \/ Make(p) \/ Scan(p) \/ RemoveDir(p)
  PROVE  Stage(t)'
<1> DEFINE u == Now(p).table
<1>1. todo[p] # <<>> /\ Now(p).do \in {"new", "make", "scan", "rmdir"}
  BY DEF New, Make, Scan, RemoveDir, At
<1>2. u \in Tables /\ dirs \in SUBSET Tables
  BY <1>1, NowIs DEF TypeInv, TypeOK
<1>3. Now(p).do \notin Tracked
  BY <1>1 DEF Tracked
<1>4. CASE Throw(p)
  BY <1>4, ThrowStage
<1>5. CASE ~Throw(p)
  <2>1. \E g \in {<<>>, Each("check", dirs)} : Then(p, g)
    BY <1>5 DEF New, Make, Scan, RemoveDir, Proceed
  <2>2. PICK g \in Seq(PlainSteps) : Then(p, g) /\ Free(g, t, Tracked)
    BY <1>2, <2>1, CalmIs, ProgramsPlain
  <2>3. \A f \in Files \ {"data"} : disk'[t][f] = disk[t][f]
    <3>1. CASE New(p)
      <4>1. Touched(u, "data") /\ "data" \in Files
        BY <3>1 DEF New, Files
      <4> QED BY <4>1, <1>2, TouchedIs DEF TypeInv, TypeOK
    <3>2. CASE ~New(p)
      BY <1>5, <3>2 DEF Make, Scan, RemoveDir
    <3> QED BY <3>1, <3>2
  <2>4. read' = read /\ given' = given
    BY <1>5 DEF New, Make, Scan, RemoveDir
  <2>5. \A q \in Procs : held'[q][t] \in {None, held[q][t]}
    <3>1. CASE Scan(p)
      <4>1. held' = [held EXCEPT ![p] = NoneHeld] /\ NoneHeld[t] = None
        BY <3>1 DEF Scan, NoneHeld
      <4> QED BY <4>1 DEF TypeInv, TypeOK
    <3>2. CASE ~Scan(p)
      BY <1>5, <3>2 DEF New, Make, RemoveDir
    <3> QED BY <3>1, <3>2
  <2> QED BY <1>1, <1>3, <2>2, <2>3, <2>4, <2>5, OtherStep
<1> QED BY <1>4, <1>5

\* The listing of a directory begins to remove the marker first.
LEMMA ListStage ==
  ASSUME TypeInv, NEW p \in Procs, NEW t \in Tables, Stage(t), ListDir(p)
  PROVE  Stage(t)'
<1> DEFINE u == Now(p).table
<1>1. todo[p] # <<>> /\ Now(p).do = "list"
  BY DEF ListDir, At
<1>2. u \in Tables
  BY <1>1, NowIs
<1>3. UNCHANGED <<disk, dirs, phase, arg, read, held, given>>
  BY DEF ListDir
<1>4. <<>> \in Seq(PlainSteps) /\ Listed(u) \in Seq(PlainSteps)
  <2>1. Removing(u) \subseteq PlainSteps
    BY DEF Removing, PlainSteps
  <2> QED BY <1>2, <2>1, ListedIs, WidenIs
<1>5. Then(p, <<>>) \/ Then(p, Listed(u))
  BY DEF ListDir, Listed
<1>6. CASE t # u
  <2>1. Free(<<>>, t, Tracked) /\ Free(Listed(u), t, Tracked)
    BY <1>2, <1>6, CalmIs, ElsewhereIs
  <2> QED BY <1>1, <1>3, <1>4, <1>5, <1>6, <2>1, OtherStep
<1>7. CASE t = u
  <2>1. Made(t) \/ Dead(t)
    BY <1>1, <1>7, StageHead DEF Tracked
  <2>2. PICK g \in Seq(PlainSteps) :
          Then(p, g) /\ (g = <<>> \/ g = Listed(t))
    BY <1>4, <1>5, <1>7
  <2>3. \A i \in DOMAIN g : g[i].do \in {"unlink", "rmdir"}
    <3>1. \A i \in DOMAIN Listed(t) : Listed(t)[i] \in Removing(t)
      BY <1>2, <1>7, ListedIs, ElementOfSeq, LenProperties
    <3>2. \A i \in DOMAIN Listed(t) : Listed(t)[i].do \in {"unlink", "rmdir"}
      BY <3>1 DEF Removing
    <3> QED BY <2>2, <3>2
  <2>4. Free(g, t, {"touch"}) /\ Puts(g, t, given[t]) /\ LoadsWell(g, t, read[p], given[t])
    BY <2>3 DEF Free, Puts, LoadsWell
  <2>5. CASE Dead(t)
    <3>1. ~Has(t, "marker")'
      BY <1>3, <2>5 DEF Dead, Has
    <3> QED BY <1>1, <1>3, <2>2, <2>4, <2>5, <3>1, DeadThen
  <2>6. CASE Made(t)
    <3>1. Has(t, "marker") /\ Has(t, "marker")' /\ \A f \in Whole : Good(disk'[t][f], given[t], f)
      BY <1>3, <2>6 DEF Made, Has
    <3>2. \/ Free(g, t, {"unlink"})
          \/ 1 \in DOMAIN g /\ g[1].table = t /\ g[1].do = "unlink" /\ g[1].file = "marker"
      <4>1. CASE g = <<>>
        BY <4>1 DEF Free
      <4>2. CASE g = Listed(t)
        <5>1. g[1] = On("unlink", t, "marker", Absent)
          BY <1>2, <1>7, <3>1, <4>2, ListedIs
        <5>2. "marker" \in Files /\ Absent \in Content
          BY DEF Files, Content
        <5>3. g[1].table = t /\ g[1].do = "unlink" /\ g[1].file = "marker"
          BY <5>1, <5>2, OnIs
        <5>4. CASE 1 \in DOMAIN g
          BY <5>3, <5>4
        <5>5. CASE 1 \notin DOMAIN g
          <6>1. g \in Seq(PlainSteps) /\ DOMAIN g = 1 .. Len(g) /\ Len(g) \in Nat
            BY LenProperties
          <6>2. DOMAIN g = {}
            BY <6>1, <5>5
          <6> QED BY <6>2 DEF Free
        <5> QED BY <5>4, <5>5
      <4> QED BY <2>2, <4>1, <4>2
    <3>3. Now(p).table = t => Now(p).do \notin {"read", "build", "unlink"}
      BY <1>1
    <3>4. read' = read /\ held' = held /\ given' = given
      BY <1>3
    <3> QED BY <1>1, <2>2, <2>4, <2>6, <3>1, <3>2, <3>3, <3>4, MadeThen
  <2> QED BY <2>1, <2>5, <2>6
<1> QED BY <1>6, <1>7

\* Of a table that exists, what was given is read.
LEMMA ReadStage ==
  ASSUME TypeInv, NEW p \in Procs, NEW t \in Tables, Stage(t), Read(p)
  PROVE  Stage(t)'
<1> DEFINE e == Now(p)
           s == todo[p]
<1>1. s # <<>> /\ e.do = "read"
  BY DEF Read, At
<1>2. /\ e.table \in Tables /\ e = s[1] /\ e \in PlainSteps /\ s \in Seq(Steps)
      /\ e.file \in {"columns", "relations"}
  BY <1>1, NowIs, PlainIs DEF TypeInv, TypeOK
<1>3. Then(p, <<>>) /\ <<>> \in Seq(PlainSteps) /\ Free(<<>>, t, Tracked)
  <2>1. Then(p, <<>>)
    BY DEF Read, Proceed
  <2> QED BY <2>1 DEF Free
<1>4. /\ UNCHANGED <<disk, dirs, phase, arg, held, given>>
      /\ \A q \in Procs \ {p} : read'[q] = read[q]
  BY DEF Read, TypeInv, TypeOK
<1>5. CASE e.table # t
  BY <1>1, <1>3, <1>4, <1>5, OtherStep
<1>6. CASE e.table = t
  <2>1. Made(t) \/ Dead(t)
    BY <1>1, <1>6, StageHead DEF Tracked
  <2>2. CASE Dead(t)
    <3>1. ~Has(t, "marker")'
      BY <1>4, <2>2 DEF Dead, Has
    <3>2. Free(<<>>, t, {"touch"})
      BY DEF Free
    <3> QED BY <1>1, <1>3, <1>4, <2>2, <3>1, <3>2, DeadThen
  <2>3. CASE Made(t)
    <3> DEFINE d == given[t]
               r == read[p]
               r2 == read'[p]
               z == <<>> \o Tail(s)
    <3>1. /\ r2.columns = IF e.file = "columns" THEN disk[t]["columns"] ELSE r.columns
          /\ r2.relations = IF e.file = "relations" THEN disk[t]["relations"] ELSE r.relations
      <4>1. r \in [columns : Content, relations : Content]
        BY DEF TypeInv, TypeOK
      <4> DEFINE v == disk[t][e.file]
                 f == e.file
      <4>2. r2 = [r EXCEPT ![f] = v]
        BY <1>6 DEF Read, TypeInv, TypeOK
      <4>3. f \in {"columns", "relations"} /\ v = disk[t][f]
        BY <1>2
      <4> HIDE DEF f, v, r, r2
      <4>4. /\ r2.columns = IF f = "columns" THEN v ELSE r.columns
            /\ r2.relations = IF f = "relations" THEN v ELSE r.relations
        <5>1. CASE f = "columns"
          BY <4>1, <4>2, <5>1
        <5>2. CASE f = "relations"
          BY <4>1, <4>2, <5>2
        <5> QED BY <4>3, <5>1, <5>2
      <4> QED BY <4>3, <4>4 DEF f
    <3>2. /\ Good(disk[t]["columns"], d, "columns") /\ Good(disk[t]["relations"], d, "relations")
          /\ Free(s, t, {"touch"}) /\ Puts(s, t, d) /\ Drops(s, t) /\ LoadsWell(s, t, r, d)
      BY <2>3 DEF Made, Whole
    <3>3. Free(<<>>, t, {"touch"}) /\ Free(<<>>, t, {"unlink"}) /\ Puts(<<>>, t, d)
      BY DEF Free, Puts
    <3>4. /\ <<>> \in Seq(Steps) /\ todo'[p] = z
          /\ \A q \in Procs \ {p} : todo'[q] = todo[q]
      BY <1>1, <1>3, ThenIs
    <3>5. /\ Len(s) \in Nat \ {0} /\ DOMAIN s = 1 .. Len(s)
          /\ DOMAIN z = 1 .. Len(s) - 1 /\ \A i \in 1 .. Len(s) - 1 : z[i] = s[i + 1]
      <4>1. Tail(s) \in Seq(Steps) /\ Len(Tail(s)) = Len(s) - 1
            /\ \A i \in 1 .. Len(s) - 1 : Tail(s)[i] = s[i + 1]
        BY <1>1, <1>2, HeadTailProperties
      <4>2. z = Tail(s)
        BY <4>1, ConcatEmptySeq
      <4> QED BY <1>1, <1>2, <4>1, <4>2, LenProperties, EmptySeq
    <3>6. e = s[1] /\ s \in Seq(Steps) /\ s # <<>> /\ <<>> \in Seq(Steps)
      BY <1>1, <1>2
    <3>7. Reads(s[1], t, e.file) /\ s[1].do = "read"
      BY <1>1, <1>2, <1>6 DEF Reads
    <3> HIDE DEF d, r, r2, e, s
    <3>8. Free(z, t, {"touch"}) /\ Puts(z, t, d)
      BY <3>2, <3>3, <3>6, FreeThen, PutsThen
    <3>9. Drops(z, t)
      BY <3>2, <3>3, <3>6, <3>7, DropsThen
    <3> HIDE DEF z
    <3>10. ASSUME NEW i \in DOMAIN z, z[i].table = t, z[i].do = "build"
           PROVE  \/ i = 1 /\ Good(r2.columns, d, "columns") /\ Good(r2.relations, d, "relations")
                  \/ i = 2 /\ Reads(z[1], t, "relations") /\ Good(r2.columns, d, "columns")
                  \/ i = 3 /\ Reads(z[1], t, "columns") /\ Reads(z[2], t, "relations")
      <4>1. i \in Int /\ i + 1 \in DOMAIN s /\ z[i] = s[i + 1]
        BY <3>5, <3>10
      <4>2. \/ i + 1 = 1
            \/ i + 1 = 2 /\ Reads(s[1], t, "relations") /\ Good(r.columns, d, "columns")
            \/ i + 1 = 3 /\ Reads(s[1], t, "columns") /\ Reads(s[2], t, "relations")
        BY <3>2, <3>10, <4>1 DEF LoadsWell
      <4>3. i # 0
        BY <3>5, <3>10
      <4>4. CASE i + 1 = 2 /\ Reads(s[1], t, "relations") /\ Good(r.columns, d, "columns")
        <5>1. i = 1 /\ e.file = "relations"
          BY <4>1, <4>4, <3>7 DEF Reads
        <5> QED BY <3>1, <3>2, <4>4, <5>1
      <4>5. CASE i + 1 = 3 /\ Reads(s[1], t, "columns") /\ Reads(s[2], t, "relations")
        <5>1. i = 2 /\ e.file = "columns"
          BY <4>1, <4>5, <3>7 DEF Reads
        <5>2. 1 \in 1 .. Len(s) - 1
          BY <3>5, <4>1, <5>1
        <5>3. z[1] = s[1 + 1]
          BY <3>5, <5>2
        <5>4. Reads(z[1], t, "relations")
          BY <4>5, <5>3
        <5> QED BY <3>1, <3>2, <5>1, <5>4
      <4> QED BY <4>1, <4>2, <4>3, <4>4, <4>5
    <3>11. LoadsWell(z, t, r2, d)
      BY <3>10 DEF LoadsWell
    <3>12. \A q \in Procs :
             /\ Free(todo'[q], t, {"touch"}) /\ Puts(todo'[q], t, d)
             /\ Drops(todo'[q], t) /\ LoadsWell(todo'[q], t, read'[q], d)
      BY <1>4, <2>3, <3>4, <3>8, <3>9, <3>11 DEF Made, r2, d
    <3>13. Made(t)'
      <4>1. /\ given'[t] # None /\ Has(t, "marker")'
            /\ \A f \in Whole : Good(disk'[t][f], given'[t], f)
            /\ \A q \in Procs : held'[q][t] \in {None, given'[t]}
        BY <1>4, <2>3 DEF Made, Has
      <4>2. given'[t] = d
        BY <1>4 DEF d
      <4> QED BY <3>12, <4>1, <4>2 DEF Made
    <3> QED BY <3>13 DEF Stage
  <2> QED BY <2>1, <2>2, <2>3
<1> QED BY <1>5, <1>6

\* What is read of a table that exists, and is a definition, is the one it was given.
LEMMA FoundGiven ==
  ASSUME NEW d \in Def, NEW r \in [columns : Content, relations : Content],
         Good(r.columns, d, "columns"), Good(r.relations, d, "relations"),
         Part(r.columns) \notin Procs, Part(r.relations) \notin Procs
  PROVE  [columns |-> Part(r.columns), relations |-> Part(r.relations)] = d
<1>1. d.columns # Absent /\ d.relations # Absent
  BY DefIs, ContentIs
<1>2. Absent \notin Procs
  BY ValuesAssumption
<1>3. r.columns = d.columns /\ r.relations = d.relations
  BY <1>1, <1>2 DEF Good, Part, PartOf
<1>4. Part(r.columns) = d.columns /\ Part(r.relations) = d.relations
  BY <1>1, <1>3 DEF Part
<1>5. d = [columns |-> d.columns, relations |-> d.relations]
  BY DEF Def
<1> QED BY <1>4, <1>5

\* Of a table that exists, what was given is held.
LEMMA BuildStage ==
  ASSUME TypeInv, NEW p \in Procs, NEW t \in Tables, Stage(t), Build(p)
  PROVE  Stage(t)'
<1> DEFINE u == Now(p).table
           s == todo[p]
           z == <<>> \o Tail(s)
<1>1. s # <<>> /\ Now(p).do = "build"
  BY DEF Build, At
<1>2. u \in Tables /\ Now(p) = s[1] /\ 1 \in DOMAIN s /\ s \in Seq(Steps)
  BY <1>1, NowIs DEF TypeInv, TypeOK
<1>3. CASE Throw(p)
  BY <1>3, ThrowStage
<1>4. CASE ~Throw(p)
  <2>1. /\ IsDef(Found(p)) /\ held' = [held EXCEPT ![p][u] = Found(p)]
        /\ Touched(u, "data") /\ Then(p, <<>>)
        /\ read' = [read EXCEPT ![p] = NoneRead] /\ given' = given
    BY <1>4 DEF Build, Proceed
  <2>2. "data" \in Files /\ disk \in [Tables -> [Files -> Content]]
    BY DEF Files, TypeInv, TypeOK
  <2>3. \A f \in Files \ {"data"} : disk'[t][f] = disk[t][f]
    BY <1>2, <2>1, <2>2, TouchedIs
  <2>4. \A q \in Procs \ {p} : read'[q] = read[q]
    BY <2>1 DEF TypeInv, TypeOK
  <2>5. Has(t, "marker")' <=> Has(t, "marker")
    BY <2>3 DEF Has, Files
  <2>6. \A q \in Procs : q # p \/ t # u => held'[q][t] = held[q][t]
    <3>1. held \in [Procs -> [Tables -> Def \cup {None}]]
      BY DEF TypeInv, TypeOK
    <3> DEFINE y == [held[p] EXCEPT ![u] = Found(p)]
    <3>2. t # u => y[t] = held[p][t]
      BY <3>1
    <3>3. held' = [held EXCEPT ![p] = y]
      BY <2>1
    <3> HIDE DEF y
    <3> QED BY <3>1, <3>2, <3>3
  <2>7. <<>> \in Seq(PlainSteps) /\ Free(<<>>, t, Tracked) /\ Free(<<>>, t, {"touch"})
    BY DEF Free
  <2>8. CASE t # u
    <3>1. \A q \in Procs : held'[q][t] \in {None, held[q][t]}
      BY <2>6, <2>8
    <3> QED BY <1>1, <2>1, <2>3, <2>4, <2>7, <2>8, <3>1, OtherStep
  <2>9. CASE t = u /\ Dead(t)
    <3>1. ~Has(t, "marker")'
      BY <2>5, <2>9 DEF Dead
    <3> QED BY <1>1, <2>1, <2>7, <2>9, <3>1, DeadThen
  <2>10. CASE t = u /\ Made(t)
    <3> DEFINE d == given[t]
               r == read[p]
    <3>1. d \in Def
      BY <2>10 DEF Made, TypeInv, TypeOK
    <3>2. s[1].table = t /\ s[1].do = "build" /\ 1 \in DOMAIN s
      BY <1>1, <1>2, <2>10
    <3>3. LoadsWell(s, t, r, d)
      BY <2>10 DEF Made
    <3>4. Good(r.columns, d, "columns") /\ Good(r.relations, d, "relations")
      BY <3>2, <3>3 DEF LoadsWell
    <3>5. Found(p) = d
      <4>1. r \in [columns : Content, relations : Content]
        BY DEF TypeInv, TypeOK
      <4>2. Part(r.columns) \notin Procs /\ Part(r.relations) \notin Procs
        BY <2>1 DEF IsDef, Found
      <4> HIDE DEF d, r
      <4>3. [columns |-> Part(r.columns), relations |-> Part(r.relations)] = d
        BY <3>1, <3>4, <4>1, <4>2, FoundGiven
      <4> QED BY <4>3 DEF Found, r
    <3>6. \A q \in Procs : held'[q][t] \in {None, d}
      <4>1. \A q \in Procs : held[q][t] \in {None, d}
        BY <2>10 DEF Made
      <4>2. held'[p][t] = Found(p)
        BY <2>1, <2>10 DEF TypeInv, TypeOK
      <4> QED BY <2>6, <3>5, <4>1, <4>2
    <3>7. /\ Free(s, t, {"touch"}) /\ Puts(s, t, d) /\ Drops(s, t)
      BY <2>10 DEF Made
    <3>8. /\ <<>> \in Seq(Steps) /\ todo'[p] = z
          /\ \A q \in Procs \ {p} : todo'[q] = todo[q]
      BY <1>1, <2>1, <2>7, ThenIs
    <3>9. Free(<<>>, t, {"touch"}) /\ Free(<<>>, t, {"unlink"}) /\ Puts(<<>>, t, d)
      BY DEF Free, Puts
    <3>10. s \in Seq(Steps) /\ s # <<>>
      BY <1>1, <1>2
    <3>11. \A i \in DOMAIN s : s[i].table = t /\ s[i].do = "build" => i = 1
      BY <3>2, <3>3 DEF LoadsWell, Reads
    <3> HIDE DEF d, r, s
    <3>12. Free(z, t, {"touch"}) /\ Puts(z, t, d) /\ Drops(z, t)
      BY <3>2, <3>7, <3>8, <3>9, <3>10, FreeThen, PutsThen, DropsThen
    <3>13. \A i \in DOMAIN z : i - Len(<<>>) + 1 \in DOMAIN s /\ i - Len(<<>>) + 1 > 1
                             /\ z[i] = s[i - Len(<<>>) + 1]
      <4>1. DOMAIN <<>> = {}
        OBVIOUS
      <4> QED BY <4>1, <3>8, <3>10, ThenFrom
    <3> HIDE DEF z
    <3>14. \A i \in DOMAIN z : ~(z[i].table = t /\ z[i].do = "build")
      <4>1. SUFFICES ASSUME NEW i \in DOMAIN z, z[i].table = t, z[i].do = "build" PROVE FALSE
        OBVIOUS
      <4> DEFINE k == i - Len(<<>>) + 1
      <4>2. k \in DOMAIN s /\ k > 1 /\ z[i] = s[k]
        BY <3>13
      <4> HIDE DEF k
      <4>3. k = 1
        BY <3>11, <4>1, <4>2
      <4> QED BY <4>2, <4>3
    <3>15. \A x : LoadsWell(z, t, x, d)
      BY <3>14 DEF LoadsWell
    <3>16. \A q \in Procs :
             /\ Free(todo'[q], t, {"touch"}) /\ Puts(todo'[q], t, d)
             /\ Drops(todo'[q], t) /\ LoadsWell(todo'[q], t, read'[q], d)
      BY <2>4, <2>10, <3>8, <3>12, <3>15 DEF Made, d
    <3>17. Made(t)'
      <4>1. given'[t] = d /\ d # None /\ Has(t, "marker")'
        BY <2>1, <2>5, <2>10 DEF Made, d
      <4>2. \A f \in Whole : Good(disk'[t][f], d, f)
        BY <2>3, <2>10 DEF Made, Whole, Files, d
      <4> QED BY <3>6, <3>16, <4>1, <4>2 DEF Made
    <3> QED BY <3>17 DEF Stage
  <2>11. t = u => Made(t) \/ Dead(t)
    BY <1>1, StageHead DEF Tracked
  <2> QED BY <2>8, <2>9, <2>10, <2>11
<1> QED BY <1>3, <1>4

\* The steps that write a definition: what they leave in the files, and where they go on.
LEMMA FileStage ==
  ASSUME TypeInv, NEW p \in Procs, NEW t \in Tables, Stage(t), OpenFile(p) \/ PutFile(p)
  PROVE  Stage(t)'
<1> DEFINE e == Now(p)
           f == Now(p).file
           s == todo[p]
           z == <<>> \o Tail(s)
<1>1. s # <<>> /\ e.do \in {"open", "put"}
  BY DEF OpenFile, PutFile, At
<1>2. /\ e.table \in Tables /\ e = s[1] /\ 1 \in DOMAIN s /\ s \in Seq(Steps) /\ e \in PlainSteps
      /\ f \in Whole /\ e.part \in SUBSET Columns
  BY <1>1, NowIs, PlainIs DEF TypeInv, TypeOK
<1>3. Then(p, <<>>) /\ UNCHANGED <<phase, arg, read, held, given>>
  BY DEF OpenFile, PutFile, Proceed
<1>4. <<>> \in Seq(PlainSteps) /\ Free(<<>>, t, Tracked) /\ Free(<<>>, t, {"touch"})
      /\ Free(<<>>, t, {"unlink"}) /\ Puts(<<>>, t, given[t])
      /\ LoadsWell(<<>>, t, read[p], given[t])
  BY DEF Free, Puts, LoadsWell
<1>5. Whole \subseteq Files /\ "marker" \in Files /\ "marker" \notin Whole /\ "data" \notin Whole
  BY DEF Whole, Files
<1>6. /\ \A u \in Tables, g \in Files : u # e.table \/ g # f => disk'[u][g] = disk[u][g]
      /\ \/ disk'[e.table][f] = p /\ e.do = "open"
         \/ disk'[e.table][f] = e.part /\ e.do = "put"
         \/ disk'[e.table][f] = disk[e.table][f] /\ e.do = "put"
  <2>1. /\ disk \in [Tables -> [Files -> Content]] /\ f \in Files
        /\ p \in Content /\ e.part \in Content
    BY <1>2, <1>5 DEF Content, TypeInv, TypeOK
  <2>2. CASE OpenFile(p)
    <3>1. Written(e.table, f, p) /\ e.do = "open"
      BY <2>2 DEF OpenFile, At
    <3> HIDE DEF e, f
    <3> QED BY <1>2, <2>1, <3>1, WrittenIs
  <2>3. CASE PutFile(p) /\ disk[e.table][f] = p
    <3>1. Written(e.table, f, e.part) /\ e.do = "put"
      BY <2>3 DEF PutFile, At
    <3> HIDE DEF e, f
    <3> QED BY <1>2, <2>1, <3>1, WrittenIs
  <2>4. CASE PutFile(p) /\ disk[e.table][f] # p
    BY <2>4 DEF PutFile, At
  <2> QED BY <2>2, <2>3, <2>4
<1>7. CASE e.table # t
  <2>1. \A g \in Files \ {"data"} : disk'[t][g] = disk[t][g]
    BY <1>6, <1>7
  <2> QED BY <1>1, <1>3, <1>4, <1>7, <2>1, OtherStep
<1>8. CASE e.table = t
  <2>1. Has(t, "marker")' <=> Has(t, "marker")
    BY <1>2, <1>5, <1>6, <1>8 DEF Has
  <2>2. CASE Dead(t)
    <3>1. ~Has(t, "marker")'
      BY <2>1, <2>2 DEF Dead
    <3> QED BY <1>1, <1>3, <1>4, <2>2, <3>1, DeadThen
  <2>3. CASE Made(t)
    <3>1. e.part = PartOf(given[t], f)
      BY <1>1, <1>2, <1>8, <2>3 DEF Made, Puts
    <3>2. \A g \in Whole : Good(disk'[t][g], given[t], g)
      BY <1>5, <1>6, <1>8, <2>3, <3>1 DEF Made, Good
    <3>3. Has(t, "marker")'
      BY <2>1, <2>3 DEF Made
    <3>4. Now(p).table = t => Now(p).do \notin {"read", "build", "unlink"}
      BY <1>1
    <3> QED BY <1>1, <1>3, <1>4, <2>3, <3>2, <3>3, <3>4, MadeThen
  <2>4. CASE Making(p, t)
    <3> DEFINE d == given[t]
    <3>1. e.part = PartOf(d, f)
      BY <1>1, <1>2, <1>8, <2>4 DEF Making, Puts
    <3>2. d \in Def /\ d # None
      BY <2>4 DEF Making, TypeInv, TypeOK
    <3>3. /\ <<>> \in Seq(Steps) /\ todo'[p] = z
          /\ \A q \in Procs \ {p} : todo'[q] = todo[q]
      BY <1>1, <1>3, <1>4, ThenIs
    <3>4. e.part # Absent /\ p # Absent
      BY <1>2, ContentIs, ValuesAssumption
    <3>5. /\ \A g \in Whole : g # f => (Has(t, g)' <=> Has(t, g))
          /\ e.do = "open" => disk'[t][f] # Absent
          /\ Has(t, f) => disk'[t][f] # Absent
      <4>1. \A g \in Whole : g # f => disk'[t][g] = disk[t][g]
        BY <1>5, <1>6, <1>8
      <4>2. \A g \in Whole : g # f => (Has(t, g)' <=> Has(t, g))
        BY <4>1 DEF Has
      <4>3. /\ e.do = "open" => disk'[t][f] = p
            /\ \/ disk'[t][f] = p
               \/ disk'[t][f] = e.part
               \/ disk'[t][f] = disk[t][f]
        BY <1>6, <1>8
      <4> HIDE DEF e, f
      <4>4. (e.do = "open" => disk'[t][f] # Absent) /\ (Has(t, f) => disk'[t][f] # Absent)
        BY <3>4, <4>3 DEF Has
      <4> QED BY <4>2, <4>4
    <3>6. \A g \in Whole : Has(t, g)' => Good(disk'[t][g], d, g)
      <4>1. \A g \in Whole : Has(t, g) => Good(disk[t][g], d, g)
        BY <2>4 DEF Making
      <4>2. \A g \in Whole : g # f => disk'[t][g] = disk[t][g]
        BY <1>5, <1>6, <1>8
      <4>3. \/ disk'[t][f] = p
            \/ disk'[t][f] = e.part
            \/ disk'[t][f] = disk[t][f]
        BY <1>6, <1>8
      <4>4. ASSUME NEW g \in Whole, Has(t, g)' PROVE Good(disk'[t][g], d, g)
        <5>1. CASE g # f
          BY <3>5, <4>1, <4>2, <4>4, <5>1
        <5>2. CASE g = f /\ disk'[t][f] = p
          BY <5>2 DEF Good
        <5>3. CASE g = f /\ disk'[t][f] = e.part
          BY <3>1, <5>3 DEF Good
        <5>4. CASE g = f /\ disk'[t][f] = disk[t][f]
          BY <4>1, <4>4, <5>4 DEF Has
        <5> QED BY <4>3, <5>1, <5>2, <5>3, <5>4
      <4> QED BY <4>4
    <3>7. Finishes(s, t, Unopened(t))
      BY <2>4 DEF Making
    <3>8. \A g \in Unopened(t)' :
            g \in Unopened(t) /\ ~(s[1].table = t /\ s[1].do = "open" /\ s[1].file = g)
      <4>1. ASSUME NEW g \in Unopened(t)'
            PROVE  /\ g \in Unopened(t)
                   /\ ~(s[1].table = t /\ s[1].do = "open" /\ s[1].file = g)
        <5>1. g \in Whole /\ ~Has(t, g)'
          BY <4>1 DEF Unopened
        <5>2. ~Has(t, g)
          BY <3>5, <5>1 DEF Has
        <5>3. ~(e.do = "open" /\ f = g)
          BY <3>5, <5>1 DEF Has
        <5>4. ~(s[1].do = "open" /\ s[1].file = g)
          BY <1>2, <5>3
        <5> QED BY <5>1, <5>2, <5>4 DEF Unopened
      <4> QED BY <4>1
    <3>9. ~(s[1].table = t /\ s[1].do = "touch") /\ s \in Seq(Steps) /\ s # <<>>
      BY <1>1, <1>2
    <3>10. Puts(s, t, d) /\ Free(s, t, {"read", "build", "list", "unlink"})
      BY <2>4 DEF Making
    <3>11. Puts(<<>>, t, d) /\ Free(<<>>, t, {"read", "build", "list", "unlink"})
           /\ Free(<<>>, t, {"touch"})
      BY DEF Puts, Free
    <3>12. Finishes(z, t, Unopened(t)')
      <4> HIDE DEF s
      <4> DEFINE F == Unopened(t)
                 G == Unopened(t)'
      <4>1. /\ Finishes(s, t, F)
            /\ \A g \in G : g \in F /\ ~(s[1].table = t /\ s[1].do = "open" /\ s[1].file = g)
        BY <3>7, <3>8
      <4> HIDE DEF F, G
      <4>2. Finishes(z, t, G)
        BY <3>3, <3>9, <3>11, <4>1, FinishesThen
      <4> QED BY <4>2 DEF G
    <3>13. Puts(z, t, d) /\ Free(z, t, {"read", "build", "list", "unlink"})
      <4> HIDE DEF s, d
      <4> QED BY <3>3, <3>9, <3>10, <3>11, PutsThen, FreeThen
    <3> HIDE DEF z
    <3>14. \A q \in Procs :
             /\ held'[q][t] = None
             /\ Free(todo'[q], t, {"read", "build", "list", "unlink"})
             /\ q # p => Free(todo'[q], t, {"open", "put", "touch"})
      BY <1>3, <2>4, <3>3, <3>13 DEF Making
    <3>15. given'[t] = d /\ ~Has(t, "marker")'
      BY <1>3, <2>1, <2>4 DEF Making
    <3>16. Making(p, t)'
      BY <3>2, <3>3, <3>6, <3>12, <3>13, <3>14, <3>15 DEF Making
    <3> QED BY <3>16 DEF Stage
  <2> QED BY <1>1, <1>8, <2>2, <2>3, <2>4, StageHead DEF Tracked
<1> QED BY <1>7, <1>8

\* A table exists when its marker is touched: all its files are there.
LEMMA TouchStage ==
  ASSUME TypeInv, NEW p \in Procs, NEW t \in Tables, Stage(t), Touch(p)
  PROVE  Stage(t)'
<1> DEFINE e == Now(p)
           s == todo[p]
           z == <<>> \o Tail(s)
<1>1. s # <<>> /\ e.do = "touch"
  BY DEF Touch, At
<1>2. e.table \in Tables /\ e = s[1] /\ 1 \in DOMAIN s /\ s \in Seq(Steps)
  BY <1>1, NowIs DEF TypeInv, TypeOK
<1>3. Then(p, <<>>) /\ Touched(e.table, "marker") /\ UNCHANGED <<phase, arg, read, held, given>>
  BY DEF Touch, Proceed
<1>4. <<>> \in Seq(PlainSteps) /\ Free(<<>>, t, Tracked) /\ Free(<<>>, t, {"touch"})
      /\ <<>> \in Seq(Steps)
  BY DEF Free
<1>5. Whole \subseteq Files /\ "marker" \in Files /\ "marker" \notin Whole
  BY DEF Whole, Files
<1>6. /\ \A u \in Tables, g \in Files : u # e.table \/ g # "marker" => disk'[u][g] = disk[u][g]
      /\ disk'[e.table]["marker"] # Absent
  BY <1>2, <1>3, <1>5, TouchedIs DEF TypeInv, TypeOK
<1>7. CASE e.table # t
  <2>1. \A g \in Files \ {"data"} : disk'[t][g] = disk[t][g]
    BY <1>6, <1>7
  <2> QED BY <1>1, <1>3, <1>4, <1>7, <2>1, OtherStep
<1>8. CASE e.table = t
  <2>1. Making(p, t)
    <3>1. s[1].table = t /\ s[1].do = "touch" /\ 1 \in DOMAIN s
      BY <1>1, <1>2, <1>8
    <3>2. ~Made(t) /\ ~Dead(t)
      BY <3>1 DEF Made, Dead, Free
    <3> QED BY <1>1, <1>8, <3>2, StageHead DEF Tracked
  <2> DEFINE d == given[t]
  <2>2. Finishes(s, t, Unopened(t))
    BY <2>1 DEF Making
  <2>3. /\ Unopened(t) = {}
        /\ \A i \in DOMAIN s : s[i].table = t /\ s[i].do = "touch" => i = 1
    <3> DEFINE F == Unopened(t)
    <3>1. s[1].table = t /\ s[1].do = "touch" /\ 1 \in DOMAIN s /\ DOMAIN s \subseteq Nat \ {0}
      BY <1>1, <1>2, <1>8, LenProperties
    <3>2. Finishes(s, t, F)
      BY <2>2
    <3> HIDE DEF F, s
    <3>3. PICK j \in DOMAIN s :
            /\ \A i \in DOMAIN s : s[i].table = t /\ s[i].do = "touch" => i = j
            /\ \A f \in F : \E i \in DOMAIN s : i < j
      BY <3>2 DEF Finishes
    <3>4. j = 1
      BY <3>1, <3>3
    <3>5. F = {}
      BY <3>1, <3>3, <3>4
    <3> QED BY <3>3, <3>4, <3>5 DEF F
  <2>4. \A f \in Whole : Good(disk[t][f], d, f)
    BY <2>1, <2>3 DEF Making, Unopened
  <2>5. /\ todo'[p] = z /\ \A q \in Procs \ {p} : todo'[q] = todo[q]
    BY <1>1, <1>3, <1>4, ThenIs
  <2>6. Puts(s, t, d) /\ Free(s, t, {"read", "build", "list", "unlink"})
    BY <2>1 DEF Making
  <2>7. Puts(<<>>, t, d) /\ Free(<<>>, t, {"read", "build", "list", "unlink"})
    BY DEF Puts, Free
  <2>8. Puts(z, t, d) /\ Free(z, t, {"read", "build", "list", "unlink"})
    <3>1. s \in Seq(Steps) /\ s # <<>>
      BY <1>1, <1>2
    <3> HIDE DEF s, d
    <3> QED BY <1>4, <2>6, <2>7, <3>1, PutsThen, FreeThen
  <2>9. Free(z, t, {"touch"})
    <3>1. \A i \in DOMAIN z : \E k \in DOMAIN s : k > 1 /\ z[i] = s[k]
      <4>1. DOMAIN <<>> = {} /\ s \in Seq(Steps) /\ s # <<>>
        BY <1>1, <1>2
      <4> HIDE DEF s
      <4>2. \A i \in DOMAIN z : /\ i - Len(<<>>) + 1 \in DOMAIN s /\ i - Len(<<>>) + 1 > 1
                              /\ z[i] = s[i - Len(<<>>) + 1]
        BY <1>4, <4>1, ThenFrom
      <4> HIDE DEF z
      <4> QED BY <4>2
    <3> HIDE DEF s, z
    <3> QED BY <2>3, <3>1 DEF Free
  <2> HIDE DEF z
  <2>10. ASSUME NEW q \in Procs
         PROVE  /\ held'[q][t] \in {None, d} /\ Free(todo'[q], t, {"touch"})
                /\ Puts(todo'[q], t, d) /\ Drops(todo'[q], t)
                /\ LoadsWell(todo'[q], t, read'[q], d)
    <3>1. Free(todo'[q], t, {"read", "build", "list", "unlink"}) /\ held'[q][t] = None
      BY <1>3, <2>1, <2>5, <2>8 DEF Making
    <3>2. Drops(todo'[q], t) /\ LoadsWell(todo'[q], t, read'[q], d)
      BY <3>1 DEF Free, Drops, LoadsWell
    <3>3. CASE q = p
      BY <2>5, <2>8, <2>9, <3>1, <3>2, <3>3
    <3>4. CASE q # p
      <4>1. Free(todo'[q], t, {"open", "put", "touch"})
        BY <2>1, <2>5, <3>4 DEF Making
      <4>2. Free(todo'[q], t, {"touch"}) /\ Puts(todo'[q], t, d)
        BY <4>1 DEF Free, Puts
      <4> QED BY <3>1, <3>2, <4>2
    <3> QED BY <3>3, <3>4
  <2>11. given'[t] = d /\ d # None /\ Has(t, "marker")'
    BY <1>3, <1>6, <1>8, <2>1 DEF Making, Has
  <2>12. \A f \in Whole : Good(disk'[t][f], d, f)
    BY <1>5, <1>6, <2>4
  <2> HIDE DEF d
  <2>13. Made(t)'
    BY <2>10, <2>11, <2>12 DEF Made
  <2> QED BY <2>13 DEF Stage
<1> QED BY <1>7, <1>8

\* The marker is removed before the files.
LEMMA UnlinkStage ==
  ASSUME TypeInv, NEW p \in Procs, NEW t \in Tables, Stage(t), Unlink(p)
  PROVE  Stage(t)'
<1> DEFINE e == Now(p)
           s == todo[p]
<1>1. s # <<>> /\ e.do = "unlink"
  BY DEF Unlink, At
<1>2. /\ e.table \in Tables /\ e = s[1] /\ 1 \in DOMAIN s /\ s \in Seq(Steps) /\ e.file \in Files
  BY <1>1, NowIs DEF TypeInv, TypeOK
<1>3. /\ Then(p, <<>>) /\ Written(e.table, e.file, Absent)
      /\ UNCHANGED <<phase, arg, read, held, given>>
  BY DEF Unlink, Proceed
<1>4. <<>> \in Seq(PlainSteps) /\ Free(<<>>, t, Tracked) /\ Free(<<>>, t, {"touch"})
  BY DEF Free
<1>5. \A u \in Tables, g \in Files :
        disk'[u][g] = IF u = e.table /\ g = e.file THEN Absent ELSE disk[u][g]
  <2>1. Absent \in Content /\ disk \in [Tables -> [Files -> Content]]
    BY DEF Content, TypeInv, TypeOK
  <2> HIDE DEF e
  <2> QED BY <1>2, <1>3, <2>1, WrittenIs
<1>6. CASE e.table # t
  <2>1. \A g \in Files \ {"data"} : disk'[t][g] = disk[t][g]
    BY <1>5, <1>6
  <2> QED BY <1>1, <1>3, <1>4, <1>6, <2>1, OtherStep
<1>7. CASE e.table = t
  <2>1. "marker" \in Files
    BY DEF Files
  <2>2. Made(t) \/ Dead(t)
    BY <1>1, <1>7, StageHead DEF Tracked
  <2>3. Made(t) => e.file = "marker"
    BY <1>1, <1>2, <1>7 DEF Made, Drops
  <2>4. ~Has(t, "marker")'
    <3>1. CASE Made(t)
      BY <1>5, <1>7, <2>1, <2>3, <3>1 DEF Has
    <3>2. CASE Dead(t)
      BY <1>5, <2>1, <3>2 DEF Dead, Has
    <3> QED BY <2>2, <3>1, <3>2
  <2> QED BY <1>1, <1>3, <1>4, <2>2, <2>4, DeadThen
<1> QED BY <1>6, <1>7

-----------------------------------------------------------------------------
(* One client creates a table, once.                                       *)

\* A step forward leaves at most one client about to create a table.
LEMMA AbsentFrom ==
  ASSUME TypeInv, OneCreates, NEW p \in Procs, todo[p] # <<>>, NEW g \in Seq(PlainSteps),
         Then(p, g), arg' = arg, given' = given
  PROVE  OneCreates'
<1>1. /\ todo[p] \in Seq(Steps) /\ g \in Seq(Steps)
      /\ todo'[p] = g \o Tail(todo[p])
      /\ \A q \in Procs \ {p} : todo'[q] = todo[q]
  BY ThenIs
<1>2. \A i \in DOMAIN g : g[i].do # "absent"
  <2>1. \A i \in DOMAIN g : g[i] \in PlainSteps
    BY ElementOfSeq, LenProperties
  <2> QED BY <2>1, PlainIs
<1>3. ASSUME NEW i \in DOMAIN todo'[p], todo'[p][i].do = "absent"
      PROVE  arg[p] # None /\ given[todo'[p][i].table] = None
  <2> DEFINE s == todo[p]
             z == g \o Tail(s)
  <2>1. i \in DOMAIN z /\ z[i].do = "absent" /\ z = todo'[p]
    BY <1>1, <1>3
  <2>2. \/ i \in DOMAIN g /\ z[i] = g[i]
        \/ i - Len(g) + 1 \in DOMAIN s /\ z[i] = s[i - Len(g) + 1]
    BY <1>1, <2>1, ThenFrom
  <2> HIDE DEF z
  <2>3. i - Len(g) + 1 \in DOMAIN s /\ z[i] = s[i - Len(g) + 1]
    BY <1>2, <2>1, <2>2
  <2> QED BY <2>1, <2>3 DEF OneCreates
<1>4. ASSUME NEW q \in Procs, NEW i \in DOMAIN todo'[q], todo'[q][i].do = "absent"
      PROVE  arg[q] # None /\ given[todo'[q][i].table] = None
  <2>1. CASE q = p
    BY <1>3, <1>4, <2>1
  <2>2. CASE q # p
    BY <1>1, <1>4, <2>2 DEF OneCreates
  <2> QED BY <2>1, <2>2
<1> QED BY <1>4 DEF OneCreates

\* A program that creates nothing leaves at most one client about to create a table.
LEMMA FreshCreates ==
  ASSUME TypeInv, OneCreates, NEW p \in Procs, NEW g, \A i \in DOMAIN g : g[i].do # "absent",
         todo' = [todo EXCEPT ![p] = g], arg'[p] \in {None, arg[p]},
         \A q \in Procs \ {p} : arg'[q] = arg[q], given' = given
  PROVE  OneCreates'
<1>1. todo \in [Procs -> Seq(Steps)]
  BY DEF TypeInv, TypeOK
<1>2. todo'[p] = g /\ \A q \in Procs \ {p} : todo'[q] = todo[q]
  BY <1>1
<1>3. \A q \in Procs : arg'[q] # None => arg[q] # None
  OBVIOUS
<1>4. ASSUME NEW q \in Procs, NEW i \in DOMAIN todo'[q], todo'[q][i].do = "absent"
      PROVE  arg'[q] # None /\ given[todo'[q][i].table] = None
  <2>1. q # p
    BY <1>2, <1>4
  <2> QED BY <1>2, <1>4, <2>1 DEF OneCreates
<1> QED BY <1>3, <1>4 DEF OneCreates

\* Every step leaves at most one client about to create a table.
LEMMA StepCreates ==
  ASSUME TypeInv, OneCreates, \A u \in Tables : Stage(u), [OnceNext]_vars
  PROVE  OneCreates'
<1>1. CASE UNCHANGED vars
  BY <1>1 DEF vars, OneCreates
<1>2. ASSUME NEW p \in Procs, Gone(p) PROVE OneCreates'
  <2>1. /\ todo' = [todo EXCEPT ![p] = <<>>] /\ arg'[p] = None /\ given' = given
        /\ \A q \in Procs \ {p} : arg'[q] = arg[q]
    BY <1>2 DEF Gone, TypeInv, TypeOK
  <2>2. \A i \in DOMAIN <<>> : <<>>[i].do # "absent"
    OBVIOUS
  <2> QED BY <2>1, <2>2, FreshCreates
<1>3. ASSUME NEW p \in Procs, Throw(p) PROVE OneCreates'
  <2>1. CASE phase[p] = "starting"
    BY <1>2, <1>3, <2>1 DEF Throw
  <2>2. CASE phase[p] # "starting"
    <3>1. todo' = [todo EXCEPT ![p] = <<>>] /\ arg' = arg /\ given' = given
      BY <1>3, <2>2 DEF Throw
    <3>2. \A i \in DOMAIN <<>> : <<>>[i].do # "absent"
      OBVIOUS
    <3> QED BY <3>1, <3>2, FreshCreates
  <2> QED BY <2>1, <2>2
<1>4. ASSUME NEW p \in Procs, NEW g \in Seq(PlainSteps), todo' = [todo EXCEPT ![p] = g],
             arg' = arg, given' = given
      PROVE  OneCreates'
  <2>1. \A i \in DOMAIN g : g[i].do # "absent"
    <3>1. \A i \in DOMAIN g : g[i] \in PlainSteps
      BY ElementOfSeq, LenProperties
    <3> QED BY <3>1, PlainIs
  <2> QED BY <1>4, <2>1, FreshCreates
<1>5. ASSUME NEW p \in Procs, Life(p) PROVE OneCreates'
  <2>1. SaveAll \in Seq(PlainSteps) /\ Refresh \in Seq(PlainSteps)
    BY TablesAssumption, ProgramsPlain
  <2>2. CASE Start(p)
    BY <1>4, <2>1, <2>2 DEF Start
  <2>3. CASE Opened(p)
    BY <2>3 DEF Opened, OneCreates
  <2>4. CASE Exit(p)
    BY <1>4, <2>1, <2>4 DEF Exit
  <2>5. CASE Ended(p) \/ Kill(p)
    BY <1>2, <2>5 DEF Ended, Kill
  <2> QED BY <1>5, <2>2, <2>3, <2>4, <2>5 DEF Life
<1>6. ASSUME NEW p \in Procs, CallStep(p), ~CheckAbsent(p), ~Throw(p) PROVE OneCreates'
  <2>1. todo[p] # <<>>
    BY <1>6 DEF CallStep, Check, CheckPresent, Read, Build, New, Make, OpenFile, PutFile, Touch,
                Save, Scan, ListDir, Unlink, RemoveDir, At
  <2>2. arg' = arg /\ given' = given
    BY <1>6 DEF CallStep, Check, CheckPresent, Read, Build, New, Make, OpenFile, PutFile, Touch,
                Save, Scan, ListDir, Unlink, RemoveDir
  <2> DEFINE u == Now(p).table
  <2>3. u \in Tables /\ dirs \in SUBSET Tables
    BY <2>1, NowIs DEF TypeInv, TypeOK
  <2>4. held[p][u] # None => held[p][u] \in Def
    BY <2>3 DEF TypeInv, TypeOK
  <2>5. /\ <<>> \in Seq(PlainSteps) /\ Load(u) \in Seq(PlainSteps) /\ Delete(u) \in Seq(PlainSteps)
        /\ \A d \in Def : SetFiles(u, d) \in Seq(PlainSteps)
        /\ Each("check", dirs) \in Seq(PlainSteps)
    BY <2>3, ProgramsPlain
  <2>6. Listed(u) \in Seq(PlainSteps)
    <3>1. Removing(u) \subseteq PlainSteps
      BY DEF Removing, PlainSteps
    <3> QED BY <2>3, <3>1, ListedIs, WidenIs
  <2>7. \E g \in Seq(PlainSteps) : Then(p, g)
    <3>1. CASE Check(p) \/ CheckPresent(p) \/ Save(p)
      BY <2>4, <2>5, <3>1 DEF Check, CheckPresent, Save
    <3>2. CASE ListDir(p)
      BY <2>5, <2>6, <3>2 DEF ListDir, Listed
    <3>3. CASE Scan(p)
      BY <2>5, <3>3 DEF Scan
    <3>4. CASE Read(p) \/ Build(p) \/ New(p) \/ Make(p) \/ OpenFile(p) \/ PutFile(p) \/ Touch(p)
               \/ Unlink(p) \/ RemoveDir(p)
      <4>1. Then(p, <<>>)
        BY <1>6, <3>4 DEF Read, Build, New, Make, OpenFile, PutFile, Touch, Unlink, RemoveDir, Proceed
      <4> QED BY <2>5, <4>1
    <3> QED BY <1>6, <3>1, <3>2, <3>3, <3>4 DEF CallStep
  <2> QED BY <2>1, <2>2, <2>7, AbsentFrom
<1>7. ASSUME NEW p \in Procs, CheckAbsent(p) PROVE OneCreates'
  <2> DEFINE u == Now(p).table
  <2>1. todo[p] # <<>> /\ Now(p).do = "absent"
    BY <1>7 DEF CheckAbsent, At
  <2>2. /\ u \in Tables /\ Now(p) = todo[p][1] /\ 1 \in DOMAIN todo[p] /\ Now(p) \notin PlainSteps
        /\ Len(todo[p]) = 1 /\ todo[p] \in Seq(Steps)
    BY <2>1, NowIs, PlainIs DEF TypeInv, TypeOK
  <2>3. arg[p] \in Def /\ arg[p] # None
    BY <2>1, <2>2 DEF OneCreates, TypeInv, Asked
  <2>4. arg'[p] = None /\ \A q \in Procs : arg'[q] = None
    <3>1. arg' = [arg EXCEPT ![p] = None] /\ arg \in [Procs -> Def \cup {None}]
      BY <1>7 DEF CheckAbsent, TypeInv, TypeOK
    <3>2. \A q \in Procs \ {p} : arg[q] = None
      BY <2>3 DEF OneCreates
    <3> QED BY <3>1, <3>2
  <2>5. \A q \in Procs \ {p} : \A i \in DOMAIN todo[q] : todo[q][i].do # "absent"
    BY <2>3 DEF OneCreates
  <2>6. Create(u, arg[p]) \in Seq(PlainSteps) /\ Load(u) \in Seq(PlainSteps)
    BY <2>2, <2>3, ProgramsPlain
  <2>7. PICK g \in Seq(PlainSteps) : Then(p, g)
    BY <1>7, <2>6 DEF CheckAbsent
  <2>8. /\ g \in Seq(Steps) /\ todo'[p] = g \o Tail(todo[p])
        /\ \A q \in Procs \ {p} : todo'[q] = todo[q]
    BY <2>1, <2>7, ThenIs
  <2>9. todo'[p] = g
    <3>1. Tail(todo[p]) \in Seq(Steps) /\ Len(Tail(todo[p])) = 0
      BY <2>1, <2>2, HeadTailProperties
    <3>2. Tail(todo[p]) = <<>>
      BY <3>1, EmptySeq
    <3> QED BY <2>8, <3>2, ConcatEmptySeq
  <2>10. \A i \in DOMAIN g : g[i].do # "absent"
    <3>1. \A i \in DOMAIN g : g[i] \in PlainSteps
      BY ElementOfSeq, LenProperties
    <3> QED BY <3>1, PlainIs
  <2>11. \A q \in Procs : \A i \in DOMAIN todo'[q] : todo'[q][i].do # "absent"
    BY <2>5, <2>8, <2>9, <2>10
  <2> QED BY <2>4, <2>11 DEF OneCreates
<1>8. ASSUME NEW p \in Procs, NEW t \in Tables, GetTable(p, t) \/ DeleteTable(p, t) PROVE OneCreates'
  BY <1>4, <1>8, ProgramsPlain DEF GetTable, DeleteTable, Call
<1>9. ASSUME NEW p \in Procs, NEW t \in Tables, InsertRow(p, t) PROVE OneCreates'
  BY <1>9 DEF InsertRow, OneCreates
<1>10. ASSUME NEW p \in Procs, NEW t \in Tables, NEW d \in Def, given[t] = None,
              \A q \in Procs : arg[q] = None, CreateTable(p, t, d)
       PROVE  OneCreates'
  <2> DEFINE g == <<Do("new", t), Do("absent", t)>>
  <2>1. /\ DOMAIN g = {1, 2} /\ g[1].table = t /\ g[2].table = t
    BY DoIs, PairIs
  <2>2. todo' = [todo EXCEPT ![p] = g] /\ arg' = [arg EXCEPT ![p] = d] /\ given' = given
    BY <1>10 DEF CreateTable, Call
  <2> HIDE DEF g
  <2>3. /\ todo'[p] = g /\ arg'[p] = d
        /\ \A q \in Procs \ {p} : todo'[q] = todo[q] /\ arg'[q] = None
    BY <1>10, <2>2 DEF TypeInv, TypeOK
  <2>4. d # None
    BY DefIs
  <2>5. ASSUME NEW q \in Procs, NEW i \in DOMAIN todo'[q], todo'[q][i].do = "absent"
        PROVE  arg'[q] # None /\ given'[todo'[q][i].table] = None
    <3>1. CASE q = p
      BY <1>10, <2>1, <2>2, <2>3, <2>4, <2>5, <3>1
    <3>2. CASE q # p
      BY <1>10, <2>3, <2>5, <3>2 DEF OneCreates
    <3> QED BY <3>1, <3>2
  <2> QED BY <2>3, <2>5 DEF OneCreates
<1>11. CASE OnceNext
  <2>1. PICK p \in Procs :
          \/ Life(p) \/ CallStep(p)
          \/ \E t \in Tables : GetTable(p, t) \/ InsertRow(p, t) \/ DeleteTable(p, t)
          \/ \E t \in Tables, d \in Def :
               given[t] = None /\ (\A q \in Procs : arg[q] = None) /\ CreateTable(p, t, d)
    BY <1>11 DEF OnceNext
  <2>2. CASE CallStep(p)
    BY <1>3, <1>6, <1>7, <2>2
  <2> QED BY <1>5, <1>8, <1>9, <1>10, <2>1, <2>2
<1> QED BY <1>1, <1>11

\* Every step of a call leaves each table in a stage.
LEMMA CallStepStage ==
  ASSUME TypeInv, OneCreates, \A u \in Tables : Stage(u), NEW p \in Procs, NEW t \in Tables,
         CallStep(p)
  PROVE  Stage(t)'
<1>1. Stage(t)
  OBVIOUS
<1>2. CASE Check(p) \/ CheckPresent(p) \/ Save(p)
  BY <1>1, <1>2, PathStage
<1>3. CASE CheckAbsent(p)
  BY <1>3, AbsentStage
<1>4. CASE New(p) \/ Make(p) \/ Scan(p) \/ RemoveDir(p)
  BY <1>1, <1>4, CalmStage
<1>5. CASE Read(p) \/ Build(p)
  BY <1>1, <1>5, ReadStage, BuildStage
<1>6. CASE OpenFile(p) \/ PutFile(p)
  BY <1>1, <1>6, FileStage
<1>7. CASE Touch(p) \/ Unlink(p) \/ ListDir(p)
  BY <1>1, <1>7, TouchStage, UnlinkStage, ListStage
<1> QED BY <1>2, <1>3, <1>4, <1>5, <1>6, <1>7 DEF CallStep

\* At first nobody created any table.
LEMMA InitOnce == Init => OnceInv
<1> SUFFICES ASSUME Init PROVE OnceInv
  OBVIOUS
<1>1. TypeInv
  BY InitTypes
<1>2. OneCreates
  BY DEF Init, OneCreates
<1>3. ASSUME NEW t \in Tables PROVE Unmade(t)
  BY DEF Init, Unmade, Free, Has, NoneHeld
<1> QED BY <1>1, <1>2, <1>3 DEF OnceInv, Stage

\* Every step keeps the invariant.
LEMMA StepOnce == OnceInv /\ [OnceNext]_vars => OnceInv'
<1> SUFFICES ASSUME OnceInv, [OnceNext]_vars PROVE OnceInv'
  OBVIOUS
<1>1. TypeInv /\ OneCreates /\ \A u \in Tables : Stage(u)
  BY DEF OnceInv
<1>2. TypeInv'
  <2>1. [Next]_vars
    BY DEF OnceNext, Next
  <2> QED BY <1>1, <2>1, StepTypes
<1>3. OneCreates'
  BY <1>1, StepCreates
<1>4. ASSUME NEW t \in Tables PROVE Stage(t)'
  <2>1. CASE UNCHANGED vars
    BY <1>1, <2>1 DEF vars, Stage, Unmade, Making, Made, Dead, Unopened, Has
  <2>2. CASE OnceNext
    <3>1. PICK p \in Procs :
            \/ Life(p) \/ CallStep(p)
            \/ \E u \in Tables : GetTable(p, u) \/ InsertRow(p, u) \/ DeleteTable(p, u)
            \/ \E u \in Tables, d \in Def : CreateTable(p, u, d)
      BY <2>2 DEF OnceNext
    <3>2. CASE Life(p)
      BY <1>1, <3>2, LifeStage
    <3>3. CASE CallStep(p)
      BY <1>1, <3>3, CallStepStage
    <3>4. CASE \E u \in Tables : GetTable(p, u) \/ InsertRow(p, u) \/ DeleteTable(p, u)
      BY <1>1, <3>4, CallStage
    <3>5. CASE \E u \in Tables, d \in Def : CreateTable(p, u, d)
      BY <1>1, <3>5, CallStage
    <3> QED BY <3>1, <3>2, <3>3, <3>4, <3>5
  <2> QED BY <2>1, <2>2
<1> QED BY <1>2, <1>3, <1>4 DEF OnceInv

\* The invariant of clients that create each table once.
LEMMA OnceHolds == OnceSpec => []OnceInv
BY InitOnce, StepOnce, PTL DEF OnceSpec

\* However many processes create, use and delete tables, each created once, and
\* whoever of them is killed in which step: a table that exists has all its files.
THEOREM ExistingAreWhole == OnceSpec => []ExistsWhole
<1>1. OnceInv => ExistsWhole
  <2> SUFFICES ASSUME OnceInv, NEW t \in Tables, Has(t, "marker"), NEW f \in Whole PROVE Has(t, f)
    BY DEF ExistsWhole, Whole
  <2>1. Made(t)
    BY MarkerMeans DEF OnceInv
  <2>2. given[t] \in Def
    BY <2>1 DEF Made, OnceInv, TypeInv, TypeOK
  <2>3. PartOf(given[t], f) # Absent
    BY <2>2, DefIs, ContentIs
  <2>4. Good(disk[t][f], given[t], f)
    BY <2>1 DEF Made
  <2> QED BY <2>3, <2>4, ValuesAssumption DEF Good, Has
<1> QED BY <1>1, OnceHolds, PTL

-----------------------------------------------------------------------------
(* What is left of a definition, also while a table is deleted.            *)

\* What is or was in a file: what is Good, nothing, or there is no such file.
Remains(c, d, f) == c \in {Absent, Blank} \/ Good(c, d, f)

\* A definition in memory has each list as it was given, or empty.
HoldsRemains(h, d) ==
  h # None => h.columns \in {Blank, d.columns} /\ h.relations \in {Blank, d.relations}

\* A program writes nothing to the files of a table but its definition, or empties them.
PutsRemains(s, t, d) ==
  \A i \in DOMAIN s :
    s[i].table = t /\ s[i].do \in {"open", "put"} =>
      s[i].part \in {Blank, PartOf(d, s[i].file)}

\* A program that makes a table of what is left has read it, or is about to.
LoadsRemains(s, t, r, d) ==
  \A i \in DOMAIN s :
    s[i].table = t /\ s[i].do = "build" =>
      \/ i = 1 /\ Remains(r.columns, d, "columns") /\ Remains(r.relations, d, "relations")
      \/ i = 2 /\ Reads(s[1], t, "relations") /\ Remains(r.columns, d, "columns")
      \/ i = 3 /\ Reads(s[1], t, "columns") /\ Reads(s[2], t, "relations")

\* Of a table that was given a definition, nothing else is anywhere.
Left(t) ==
  /\ \A f \in Whole : Remains(disk[t][f], given[t], f)
  /\ \A q \in Procs : /\ HoldsRemains(held[q][t], given[t])
                      /\ PutsRemains(todo[q], t, given[t])
                      /\ LoadsRemains(todo[q], t, read[q], given[t])

PartsInv == OnceInv /\ \A t \in Tables : given[t] # None => Left(t)

\* A program that does nothing to a table writes nothing else to it.
LEMMA FreeRemains ==
  ASSUME NEW s, NEW t, Free(s, t, Tracked)
  PROVE  \A d : PutsRemains(s, t, d) /\ \A r : LoadsRemains(s, t, r, d)
<1>1. \A i \in DOMAIN s : s[i].table = t =>
        s[i].do # "open" /\ s[i].do # "put" /\ s[i].do # "build"
  BY DEF Free, Tracked
<1> QED BY <1>1 DEF PutsRemains, LoadsRemains

\* A program still empties the files of a table or puts what was given into them.
LEMMA PutsRemainsThen ==
  ASSUME NEW s \in Seq(Steps), s # <<>>, NEW g \in Seq(Steps), NEW t, NEW d,
         PutsRemains(s, t, d), PutsRemains(g, t, d)
  PROVE  PutsRemains(g \o Tail(s), t, d)
<1> DEFINE z == g \o Tail(s)
<1>1. ASSUME NEW i \in DOMAIN z, z[i].table = t, z[i].do \in {"open", "put"}
      PROVE  z[i].part \in {Blank, PartOf(d, z[i].file)}
  <2>1. \/ i \in DOMAIN g /\ z[i] = g[i]
        \/ i - Len(g) + 1 \in DOMAIN s /\ z[i] = s[i - Len(g) + 1]
    BY <1>1, ThenFrom
  <2> HIDE DEF z
  <2> QED BY <1>1, <2>1 DEF PutsRemains
<1> HIDE DEF z
<1>2. PutsRemains(z, t, d)
  BY <1>1 DEF PutsRemains
<1> QED BY <1>2 DEF z

\* A program still makes a Table only of what is left, whatever was read meanwhile of
\* another table.
LEMMA LoadsRemainsThen ==
  ASSUME NEW s \in Seq(Steps), s # <<>>, NEW g \in Seq(Steps), NEW t, NEW d, NEW r, NEW r2,
         LoadsRemains(s, t, r, d), s[1].table = t => s[1].do # "read",
         LoadsRemains(g, t, r2, d)
  PROVE  LoadsRemains(g \o Tail(s), t, r2, d)
<1> DEFINE z == g \o Tail(s)
<1>1. \A i \in DOMAIN s : s[i].table = t /\ s[i].do = "build" => i = 1
  BY DEF LoadsRemains, Reads
<1>2. ASSUME NEW i \in DOMAIN z, z[i].table = t, z[i].do = "build"
      PROVE  \/ i = 1 /\ Remains(r2.columns, d, "columns") /\ Remains(r2.relations, d, "relations")
             \/ i = 2 /\ Reads(z[1], t, "relations") /\ Remains(r2.columns, d, "columns")
             \/ i = 3 /\ Reads(z[1], t, "columns") /\ Reads(z[2], t, "relations")
  <2>1. \/ i \in DOMAIN g /\ z[i] = g[i]
        \/ /\ i - Len(g) + 1 \in DOMAIN s /\ i - Len(g) + 1 > 1
           /\ z[i] = s[i - Len(g) + 1]
    BY <1>2, ThenFrom
  <2>2. \A k \in DOMAIN g : z[k] = g[k]
    BY ThenSteps, LenProperties
  <2>3. DOMAIN g = 1 .. Len(g) /\ Len(g) \in Nat
    BY LenProperties
  <2> HIDE DEF z
  <2>4. i \in DOMAIN g /\ z[i] = g[i]
    <3> DEFINE k == i - Len(g) + 1
    <3>1. (i \in DOMAIN g /\ z[i] = g[i]) \/ (k \in DOMAIN s /\ k > 1 /\ z[i] = s[k])
      BY <2>1
    <3> HIDE DEF k
    <3>2. ~(k \in DOMAIN s /\ k = 1 /\ k > 1)
      OBVIOUS
    <3> QED BY <1>1, <1>2, <3>1, <3>2
  <2>5. \/ i = 1 /\ Remains(r2.columns, d, "columns") /\ Remains(r2.relations, d, "relations")
        \/ i = 2 /\ Reads(g[1], t, "relations") /\ Remains(r2.columns, d, "columns")
        \/ i = 3 /\ Reads(g[1], t, "columns") /\ Reads(g[2], t, "relations")
    BY <1>2, <2>4 DEF LoadsRemains
  <2>6. (i = 2 => 1 \in DOMAIN g) /\ (i = 3 => 1 \in DOMAIN g /\ 2 \in DOMAIN g)
    BY <2>3, <2>4
  <2> QED BY <2>2, <2>5, <2>6
<1> HIDE DEF z
<1>3. LoadsRemains(z, t, r2, d)
  BY <1>2 DEF LoadsRemains
<1> QED BY <1>3 DEF z

\* What is left stays so in a step that puts something in front of a program.
LEMMA LeftThen ==
  ASSUME TypeInv, NEW p \in Procs, NEW t \in Tables, Left(t),
         todo[p] # <<>>, NEW g \in Seq(PlainSteps), Then(p, g),
         Now(p).table = t => Now(p).do # "read",
         PutsRemains(g, t, given[t]), LoadsRemains(g, t, read'[p], given[t]),
         \A q \in Procs \ {p} : read'[q] = read[q],
         \A f \in Whole : Remains(disk'[t][f], given[t], f),
         \A q \in Procs : HoldsRemains(held'[q][t], given[t]),
         given'[t] = given[t]
  PROVE  Left(t)'
<1>1. /\ todo[p] \in Seq(Steps) /\ g \in Seq(Steps)
      /\ todo'[p] = g \o Tail(todo[p])
      /\ \A q \in Procs \ {p} : todo'[q] = todo[q]
  BY ThenIs
<1>2. Now(p) = todo[p][1]
  BY NowIs
<1> DEFINE s == todo[p]
           z == todo'[p]
           d == given[t]
           r == read[p]
           r2 == read'[p]
<1>3. /\ PutsRemains(s, t, d) /\ LoadsRemains(s, t, r, d)
      /\ s[1].table = t => s[1].do # "read"
      /\ PutsRemains(g, t, d) /\ LoadsRemains(g, t, r2, d)
      /\ z = g \o Tail(s) /\ s \in Seq(Steps) /\ g \in Seq(Steps) /\ s # <<>>
  BY <1>1, <1>2 DEF Left
<1> HIDE DEF s, z, d, r, r2
<1>4. PutsRemains(z, t, d)
  BY <1>3, PutsRemainsThen
<1>5. LoadsRemains(z, t, r2, d)
  BY <1>3, LoadsRemainsThen
<1>6. \A q \in Procs : PutsRemains(todo'[q], t, d) /\ LoadsRemains(todo'[q], t, read'[q], d)
  BY <1>1, <1>4, <1>5 DEF Left, z, d, r2
<1> QED BY <1>6 DEF Left, d

\* It stays so when a process begins a call, or is done with one.
LEMMA LeftFresh ==
  ASSUME TypeInv, NEW p \in Procs, NEW t \in Tables, Left(t),
         NEW g, Free(g, t, Tracked), todo' = [todo EXCEPT ![p] = g],
         \A q \in Procs \ {p} : read'[q] = read[q],
         \A f \in Whole : disk'[t][f] = disk[t][f],
         \A q \in Procs : held'[q][t] \in {None, held[q][t]},
         given'[t] = given[t]
  PROVE  Left(t)'
<1>1. todo \in [Procs -> Seq(Steps)]
  BY DEF TypeInv, TypeOK
<1>2. todo'[p] = g /\ \A q \in Procs \ {p} : todo'[q] = todo[q]
  BY <1>1
<1> DEFINE d == given[t]
<1>3. PutsRemains(g, t, d) /\ LoadsRemains(g, t, read'[p], d)
  <2> HIDE DEF d
  <2>1. \A r : LoadsRemains(g, t, r, d)
    BY FreeRemains
  <2> QED BY <2>1, FreeRemains
<1>4. \A q \in Procs : HoldsRemains(held'[q][t], d)
  BY DEF Left, HoldsRemains
<1>5. \A q \in Procs : PutsRemains(todo'[q], t, d) /\ LoadsRemains(todo'[q], t, read'[q], d)
  BY <1>2, <1>3 DEF Left
<1>6. \A f \in Whole : Remains(disk'[t][f], d, f)
  BY DEF Left
<1> QED BY <1>4, <1>5, <1>6 DEF Left

\* It stays so in a step that is not about the files of the definition.
LEMMA LeftOther ==
  ASSUME TypeInv, NEW p \in Procs, NEW t \in Tables, Left(t),
         todo[p] # <<>>, NEW g \in Seq(PlainSteps), Then(p, g), Free(g, t, Tracked),
         Now(p).table = t => Now(p).do # "read",
         \A q \in Procs \ {p} : read'[q] = read[q],
         \A f \in Whole : disk'[t][f] = disk[t][f],
         \A q \in Procs : held'[q][t] \in {None, held[q][t]},
         given'[t] = given[t]
  PROVE  Left(t)'
<1> DEFINE d == given[t]
<1>1. PutsRemains(g, t, d) /\ LoadsRemains(g, t, read'[p], d)
  <2> HIDE DEF d
  <2>1. \A r : LoadsRemains(g, t, r, d)
    BY FreeRemains
  <2> QED BY <2>1, FreeRemains
<1>2. \A f \in Whole : Remains(disk'[t][f], d, f)
  BY DEF Left
<1>3. \A q \in Procs : HoldsRemains(held'[q][t], d)
  BY DEF Left, HoldsRemains
<1> QED BY <1>1, <1>2, <1>3, LeftThen

\* It stays so when a process ends or is killed.
LEMMA GoneLeft ==
  ASSUME TypeInv, NEW p \in Procs, NEW t \in Tables, Left(t), Gone(p)
  PROVE  Left(t)'
<1>1. /\ todo' = [todo EXCEPT ![p] = <<>>] /\ Free(<<>>, t, Tracked)
      /\ \A q \in Procs \ {p} : read'[q] = read[q]
      /\ \A f \in Whole : disk'[t][f] = disk[t][f]
      /\ \A q \in Procs : held'[q][t] \in {None, held[q][t]}
      /\ given'[t] = given[t]
  BY DEF Gone, Free, NoneHeld, TypeInv, TypeOK
<1> QED BY <1>1, LeftFresh

\* It stays so when an exception ends a call.
LEMMA ThrowLeft ==
  ASSUME TypeInv, NEW p \in Procs, NEW t \in Tables, Left(t), Throw(p)
  PROVE  Left(t)'
<1>1. CASE phase[p] = "starting"
  BY <1>1, GoneLeft DEF Throw
<1>2. CASE phase[p] # "starting"
  <2>1. /\ todo' = [todo EXCEPT ![p] = <<>>] /\ Free(<<>>, t, Tracked)
        /\ \A q \in Procs \ {p} : read'[q] = read[q]
        /\ disk' = disk /\ held' = held /\ given' = given
    BY <1>2 DEF Throw, Free, TypeInv, TypeOK
  <2> QED BY <2>1, LeftFresh
<1> QED BY <1>1, <1>2

\* It stays so when a process starts, is up or begins to end.
LEMMA LifeLeft ==
  ASSUME TypeInv, NEW p \in Procs, NEW t \in Tables, Left(t), Life(p)
  PROVE  Left(t)'
<1>1. CASE Start(p) \/ Opened(p) \/ Exit(p)
  <2>1. /\ \E g \in {Refresh, <<>>, SaveAll} : todo' = [todo EXCEPT ![p] = g]
        /\ read' = read /\ disk' = disk /\ held' = held /\ given' = given
    BY <1>1 DEF Start, Opened, Exit, TypeInv, TypeOK
  <2>2. PICK g : todo' = [todo EXCEPT ![p] = g] /\ Free(g, t, Tracked)
    BY <2>1, CalmIs
  <2> QED BY <2>1, <2>2, LeftFresh
<1>2. CASE Ended(p) \/ Kill(p)
  BY <1>2, GoneLeft DEF Ended, Kill
<1> QED BY <1>1, <1>2 DEF Life

\* It stays so when a call begins.
LEMMA CallLeft ==
  ASSUME TypeInv, NEW p \in Procs, NEW t \in Tables, Left(t), NEW u \in Tables,
         \/ GetTable(p, u) \/ InsertRow(p, u) \/ DeleteTable(p, u)
         \/ \E d \in Def : CreateTable(p, u, d)
  PROVE  Left(t)'
<1>1. CASE InsertRow(p, u)
  <2>1. todo' = [todo EXCEPT ![p] = <<>>] /\ Free(<<>>, t, Tracked)
    BY <1>1, CalmIs DEF InsertRow, Ready, TypeInv, TypeOK
  <2>2. \A f \in Whole : disk'[t][f] = disk[t][f]
    <3>1. Columns \in Content /\ "data" \in Files /\ Whole \subseteq Files \ {"data"}
      BY DEF Content, Files, Whole
    <3>2. Written(u, "data", Columns) /\ disk \in [Tables -> [Files -> Content]]
      BY <1>1 DEF InsertRow, Written, TypeInv, TypeOK
    <3> QED BY <3>1, <3>2, WrittenIs
  <2>3. read' = read /\ held' = held /\ given' = given
    BY <1>1 DEF InsertRow
  <2> QED BY <2>1, <2>2, <2>3, LeftFresh
<1>2. CASE ~InsertRow(p, u)
  <2>1. \E g \in {<<Do("check", u)>>, <<Do("present", u)>>, <<Do("new", u), Do("absent", u)>>} :
          todo' = [todo EXCEPT ![p] = g]
    BY <1>2 DEF GetTable, DeleteTable, CreateTable, Call
  <2>2. PICK g : todo' = [todo EXCEPT ![p] = g] /\ Free(g, t, Tracked)
    BY <2>1, CalmIs
  <2>3. disk' = disk /\ read' = read /\ held' = held /\ given' = given
    BY <1>2 DEF GetTable, DeleteTable, CreateTable, Call
  <2> QED BY <2>2, <2>3, LeftFresh
<1> QED BY <1>1, <1>2

\* Loading reads both files before the Table is made, whatever is left in them.
LEMMA LoadIsRemains ==
  ASSUME NEW t \in Tables, NEW d, NEW r, NEW g, DOMAIN Load(t) \subseteq DOMAIN g,
         \A i \in DOMAIN Load(t) : g[i] = Load(t)[i],
         \A i \in DOMAIN g \ DOMAIN Load(t) : g[i].table = t => g[i].do # "build"
  PROVE  LoadsRemains(g, t, r, d)
<1>1. /\ DOMAIN Load(t) = 1 .. 3 /\ Load(t)[1] = On("read", t, "columns", Absent)
      /\ Load(t)[2] = On("read", t, "relations", Absent)
  BY LoadIs, LenProperties
<1>2. Absent \in Content /\ {"columns", "relations"} \subseteq Files
  BY DEF Content, Files
<1>3. Reads(g[1], t, "columns") /\ Reads(g[2], t, "relations")
  BY <1>1, <1>2, OnIs DEF Reads
<1>4. g[1].do # "build" /\ g[2].do # "build"
  BY <1>3 DEF Reads
<1>5. ASSUME NEW i \in DOMAIN g, g[i].table = t, g[i].do = "build" PROVE i = 3
  <2>1. i \in 1 .. 3
    BY <1>1, <1>5
  <2>2. i = 1 \/ i = 2 \/ i = 3
    BY <2>1
  <2> QED BY <2>2, <1>4, <1>5
<1> QED BY <1>3, <1>5 DEF LoadsRemains

\* The programs on a table that was given a definition: its loading and deletion, and
\* the saving of what is left of it.
LEMMA ProgramsRemain ==
  ASSUME NEW t \in Tables, NEW d, NEW r
  PROVE  /\ PutsRemains(Load(t), t, d) /\ LoadsRemains(Load(t), t, r, d)
         /\ PutsRemains(Delete(t), t, d) /\ LoadsRemains(Delete(t), t, r, d)
         /\ \A h \in Def : HoldsRemains(h, d) =>
              PutsRemains(SetFiles(t, h), t, d) /\ LoadsRemains(SetFiles(t, h), t, r, d)
<1> DEFINE g == Delete(t)
           b == Load(t)
<1>1. \A i \in DOMAIN b : b[i].table = t /\ b[i].do \in {"read", "build"}
  BY LoadDoes
<1>2. \A i \in DOMAIN g :
        \/ i \in 1 .. 3 /\ i \in DOMAIN b /\ g[i] = b[i]
        \/ i = 4 /\ g[i].table = t /\ g[i].do = "list"
        \/ i > 4 /\ g[i].do \in {"save", "scan"}
  BY DeleteDoes
<1>3. DOMAIN b = 1 .. 3 /\ 1 .. 3 \subseteq DOMAIN g
  BY LoadIs, DeleteIs, LenProperties
<1>4. LoadsRemains(b, t, r, d)
  BY LoadIsRemains
<1>5. LoadsRemains(g, t, r, d)
  <2>1. \A i \in DOMAIN b : g[i] = b[i]
    <3> HIDE DEF g, b
    <3>1. \A i \in 1 .. 3 : ~(i = 4) /\ ~(i > 4)
      OBVIOUS
    <3> QED BY <1>2, <1>3, <3>1
  <2>2. \A i \in DOMAIN g \ DOMAIN b : g[i].do # "build"
    <3> HIDE DEF g, b
    <3> QED BY <1>2
  <2>3. DOMAIN b \subseteq DOMAIN g
    BY <1>3
  <2> QED BY <2>1, <2>2, <2>3, LoadIsRemains
<1> HIDE DEF g, b
<1>6. PutsRemains(b, t, d)
  BY <1>1 DEF PutsRemains
<1>7. PutsRemains(g, t, d)
  BY <1>1, <1>2 DEF PutsRemains
<1>8. ASSUME NEW h \in Def, HoldsRemains(h, d)
      PROVE  PutsRemains(SetFiles(t, h), t, d) /\ LoadsRemains(SetFiles(t, h), t, r, d)
  <2> DEFINE y == SetFiles(t, h)
  <2>1. \A i \in DOMAIN y : /\ y[i].table = t /\ y[i].do \in {"open", "put"}
                            /\ y[i].part = PartOf(h, y[i].file)
    BY SetFilesDo
  <2>2. h # None
    BY DefIs
  <2>3. \A f : PartOf(h, f) \in {Blank, PartOf(d, f)}
    BY <1>8, <2>2 DEF HoldsRemains, PartOf
  <2> HIDE DEF y
  <2>4. PutsRemains(y, t, d)
    BY <2>1, <2>3 DEF PutsRemains
  <2>5. LoadsRemains(y, t, r, d)
    BY <2>1 DEF LoadsRemains
  <2> QED BY <2>4, <2>5 DEF y
<1> QED BY <1>4, <1>5, <1>6, <1>7, <1>8 DEF g, b

\* It stays so when a path is looked at, and when a definition is about to be saved.
LEMMA PathLeft ==
  ASSUME TypeInv, NEW p \in Procs, NEW t \in Tables, Left(t),
         Check(p) \/ CheckPresent(p) \/ Save(p)
  PROVE  Left(t)'
<1> DEFINE u == Now(p).table
           d == given[t]
<1>1. todo[p] # <<>> /\ Now(p).do \in {"check", "present", "save"}
  BY DEF Check, CheckPresent, Save, At
<1>2. u \in Tables
  BY <1>1, NowIs
<1>3. UNCHANGED <<disk, dirs, phase, arg, read, held, given>>
  BY DEF Check, CheckPresent, Save
<1>4. held[p][u] # None => held[p][u] \in Def
  BY <1>2 DEF TypeInv, TypeOK
<1>5. /\ <<>> \in Seq(PlainSteps) /\ Load(u) \in Seq(PlainSteps) /\ Delete(u) \in Seq(PlainSteps)
      /\ \A h \in Def : SetFiles(u, h) \in Seq(PlainSteps)
  BY <1>2, ProgramsPlain
<1>6. \E g \in Seq(PlainSteps) :
        /\ Then(p, g)
        /\ \/ g \in {<<>>, Load(u), Delete(u)}
           \/ held[p][u] # None /\ g = SetFiles(u, held[p][u])
  BY <1>4, <1>5 DEF Check, CheckPresent, Save
<1>7. PICK g \in Seq(PlainSteps) :
        /\ Then(p, g)
        /\ \/ g \in {<<>>, Load(u), Delete(u)}
           \/ held[p][u] # None /\ g = SetFiles(u, held[p][u])
  BY <1>6
<1>8. PutsRemains(g, t, d) /\ LoadsRemains(g, t, read'[p], d)
  <2>1. CASE t # u \/ g = <<>>
    <3>1. /\ Free(Load(u), t, Tracked) \/ t = u
          /\ Free(Delete(u), t, Tracked) \/ t = u
          /\ (\A h \in Def : Free(SetFiles(u, h), t, Tracked)) \/ t = u
      BY <1>2, ElsewhereIs
    <3>2. Free(<<>>, t, Tracked)
      BY DEF Free
    <3>3. Free(g, t, Tracked)
      BY <1>4, <1>7, <2>1, <3>1, <3>2
    <3> HIDE DEF d
    <3>4. \A r : LoadsRemains(g, t, r, d)
      BY <3>3, FreeRemains
    <3> QED BY <3>3, <3>4, FreeRemains
  <2>2. CASE t = u /\ g # <<>>
    <3> DEFINE r == read'[p]
    <3>1. held[p][t] # None => held[p][t] \in Def /\ HoldsRemains(held[p][t], d)
      BY <1>4, <2>2 DEF Left
    <3> HIDE DEF d, r
    <3>2. /\ PutsRemains(Load(t), t, d) /\ LoadsRemains(Load(t), t, r, d)
          /\ PutsRemains(Delete(t), t, d) /\ LoadsRemains(Delete(t), t, r, d)
          /\ \A h \in Def : HoldsRemains(h, d) =>
               PutsRemains(SetFiles(t, h), t, d) /\ LoadsRemains(SetFiles(t, h), t, r, d)
      BY ProgramsRemain
    <3>3. PutsRemains(g, t, d) /\ LoadsRemains(g, t, r, d)
      BY <1>7, <2>2, <3>1, <3>2
    <3> QED BY <3>3 DEF r
  <2> QED BY <2>1, <2>2
<1>9. \A f \in Whole : Remains(disk'[t][f], d, f)
  BY <1>3 DEF Left
<1>10. \A q \in Procs : HoldsRemains(held'[q][t], d)
  BY <1>3 DEF Left
<1> QED BY <1>1, <1>3, <1>7, <1>8, <1>9, <1>10, LeftThen

\* It stays so when another table is created.
LEMMA AbsentLeft ==
  ASSUME TypeInv, OneCreates, NEW p \in Procs, NEW t \in Tables, Left(t), given[t] # None,
         CheckAbsent(p)
  PROVE  Left(t)'
<1> DEFINE u == Now(p).table
<1>1. todo[p] # <<>> /\ Now(p).do = "absent"
  BY DEF CheckAbsent, At
<1>2. u \in Tables /\ Now(p) = todo[p][1] /\ 1 \in DOMAIN todo[p]
  BY <1>1, NowIs
<1>3. arg[p] \in Def /\ given[u] = None
  BY <1>1, <1>2 DEF OneCreates, TypeInv, Asked
<1>4. t # u
  BY <1>3
<1>5. Load(u) \in Seq(PlainSteps) /\ Create(u, arg[p]) \in Seq(PlainSteps)
  BY <1>2, <1>3, ProgramsPlain
<1>6. Free(Load(u), t, Tracked) /\ Free(Create(u, arg[p]), t, Tracked)
  BY <1>2, <1>3, <1>4, ElsewhereIs
<1>7. \E g \in Seq(PlainSteps) : Then(p, g) /\ Free(g, t, Tracked)
  BY <1>5, <1>6 DEF CheckAbsent
<1>8. UNCHANGED <<disk, read, held>> /\ given'[t] = given[t]
  BY <1>4 DEF CheckAbsent, TypeInv, TypeOK
<1>9. Now(p).do # "read"
  BY <1>1
<1> QED BY <1>1, <1>7, <1>8, <1>9, LeftOther

\* It is so when a table is created: nothing else is there of it.
LEMMA AbsentBegins ==
  ASSUME TypeInv, OneCreates, NEW p \in Procs, NEW t \in Tables, \A u \in Tables : Stage(u),
         given[t] = None, given'[t] # None, CheckAbsent(p)
  PROVE  Left(t)'
<1> DEFINE u == Now(p).table
<1>1. todo[p] # <<>> /\ Now(p).do = "absent"
  BY DEF CheckAbsent, At
<1>2. /\ u \in Tables /\ Now(p) = todo[p][1] /\ 1 \in DOMAIN todo[p] /\ Now(p) \notin PlainSteps
      /\ todo[p] \in Seq(Steps)
  BY <1>1, NowIs, PlainIs DEF TypeInv, TypeOK
<1>3. arg[p] \in Def
  BY <1>1, <1>2 DEF OneCreates, TypeInv, Asked
<1>4. u = t /\ given'[t] = arg[p] /\ Then(p, Create(t, arg[p])) /\ UNCHANGED <<disk, read, held>>
  BY DEF CheckAbsent, TypeInv, TypeOK
<1>5. Unmade(t)
  BY DEF Stage, Making, Made, Dead
<1>6. Create(t, arg[p]) \in Seq(PlainSteps)
  BY <1>3, ProgramsPlain
<1> DEFINE d == arg[p]
           g == Create(t, d)
           b == SetFiles(t, d)
           s == todo[p]
           z == todo'[p]
<1>7. /\ s \in Seq(Steps) /\ g \in Seq(Steps) /\ z = g \o Tail(s) /\ s # <<>>
      /\ \A q \in Procs \ {p} : todo'[q] = todo[q]
  BY <1>1, <1>4, <1>6, ThenIs
<1>8. \A q \in Procs : /\ held[q][t] = None /\ Free(todo[q], t, Tracked)
  BY <1>5 DEF Unmade
<1>9. \A i \in DOMAIN b : /\ b[i].table = t /\ b[i].do \in {"open", "put"}
                          /\ b[i].part = PartOf(d, b[i].file)
  BY <1>3, SetFilesDo
<1>10. \A i \in DOMAIN g :
         \/ i = 1 /\ g[i].table = t /\ g[i].do = "make"
         \/ i \in 2 .. 7 /\ i - 1 \in DOMAIN b /\ g[i] = b[i - 1]
         \/ i = 8 /\ g[i].table = t /\ g[i].do = "touch"
         \/ i > 8 /\ g[i].do \in {"save", "scan"}
  BY <1>3, CreateDoes
<1>11. Free(s, t, Tracked)
  BY <1>8
<1> HIDE DEF d, g, b, s, z
<1>12. PutsRemains(g, t, d)
  BY <1>9, <1>10 DEF PutsRemains
<1>13. ASSUME NEW r PROVE LoadsRemains(g, t, r, d)
  BY <1>9, <1>10 DEF LoadsRemains
<1>14. /\ PutsRemains(s, t, d) /\ \A r : LoadsRemains(s, t, r, d)
       /\ s[1].table = t => s[1].do # "read"
  <2>1. s[1].do # "read"
    BY <1>1, <1>2 DEF s
  <2> QED BY <1>11, <2>1, FreeRemains
<1>15. PutsRemains(z, t, d)
  BY <1>7, <1>12, <1>14, PutsRemainsThen
<1>16. ASSUME NEW r PROVE LoadsRemains(z, t, r, d)
  BY <1>7, <1>13, <1>14, LoadsRemainsThen
<1>17. ASSUME NEW q \in Procs
       PROVE  /\ HoldsRemains(held'[q][t], d) /\ PutsRemains(todo'[q], t, d)
              /\ LoadsRemains(todo'[q], t, read'[q], d)
  <2>1. HoldsRemains(held'[q][t], d)
    BY <1>4, <1>8 DEF HoldsRemains
  <2>2. CASE q = p
    BY <1>15, <1>16, <2>1, <2>2 DEF z
  <2>3. CASE q # p
    <3> DEFINE y == todo[q]
    <3>1. Free(y, t, Tracked) /\ y = todo'[q]
      BY <1>7, <1>8, <2>3
    <3> HIDE DEF y
    <3>2. PutsRemains(y, t, d) /\ \A r : LoadsRemains(y, t, r, d)
      BY <3>1, FreeRemains
    <3> QED BY <2>1, <3>1, <3>2
  <2> QED BY <2>2, <2>3
<1>18. \A f \in Whole : Remains(disk'[t][f], d, f)
  BY <1>4, <1>5 DEF Unmade, Has, Whole, Files, Remains
<1>19. given'[t] = d
  BY <1>4 DEF d
<1> QED BY <1>17, <1>18, <1>19 DEF Left

\* It stays so in the steps that touch no file of a definition.
LEMMA CalmLeft ==
  ASSUME TypeInv, NEW p \in Procs, NEW t \in Tables, Left(t),
         New(p) \/ Make(p) \/ Scan(p) \/ RemoveDir(p) \/ Touch(p)
  PROVE  Left(t)'
<1> DEFINE u == Now(p).table
<1>1. todo[p] # <<>> /\ Now(p).do \in {"new", "make", "scan", "rmdir", "touch"}
  BY DEF New, Make, Scan, RemoveDir, Touch, At
<1>2. u \in Tables /\ dirs \in SUBSET Tables
  BY <1>1, NowIs DEF TypeInv, TypeOK
<1>3. CASE Throw(p)
  BY <1>3, ThrowLeft
<1>4. CASE ~Throw(p)
  <2>1. \E g \in {<<>>, Each("check", dirs)} : Then(p, g)
    BY <1>4 DEF New, Make, Scan, RemoveDir, Touch, Proceed
  <2>2. PICK g \in Seq(PlainSteps) : Then(p, g) /\ Free(g, t, Tracked)
    BY <1>2, <2>1, CalmIs, ProgramsPlain
  <2>3. \A f \in Whole : disk'[t][f] = disk[t][f]
    <3>1. CASE New(p) \/ Touch(p)
      <4>1. (Touched(u, "data") \/ Touched(u, "marker")) /\ {"data", "marker"} \subseteq Files
        BY <3>1 DEF New, Touch, Files
      <4>2. Whole \subseteq Files \ {"data", "marker"}
        BY DEF Whole, Files
      <4> QED BY <4>1, <4>2, <1>2, TouchedIs DEF TypeInv, TypeOK
    <3>2. CASE ~New(p) /\ ~Touch(p)
      BY <1>4, <3>2 DEF Make, Scan, RemoveDir
    <3> QED BY <3>1, <3>2
  <2>4. read' = read /\ given' = given
    BY <1>4 DEF New, Make, Scan, RemoveDir, Touch
  <2>5. \A q \in Procs : held'[q][t] \in {None, held[q][t]}
    <3>1. CASE Scan(p)
      <4>1. held' = [held EXCEPT ![p] = NoneHeld] /\ NoneHeld[t] = None
        BY <3>1 DEF Scan, NoneHeld
      <4> QED BY <4>1 DEF TypeInv, TypeOK
    <3>2. CASE ~Scan(p)
      BY <1>4, <3>2 DEF New, Make, RemoveDir, Touch
    <3> QED BY <3>1, <3>2
  <2>6. Now(p).do # "read"
    BY <1>1
  <2> QED BY <1>1, <2>2, <2>3, <2>4, <2>5, <2>6, LeftOther
<1> QED BY <1>3, <1>4

\* It stays so when the files are listed that are to be removed.
LEMMA ListLeft ==
  ASSUME TypeInv, NEW p \in Procs, NEW t \in Tables, Left(t), ListDir(p)
  PROVE  Left(t)'
<1> DEFINE u == Now(p).table
           d == given[t]
<1>1. todo[p] # <<>> /\ Now(p).do = "list"
  BY DEF ListDir, At
<1>2. u \in Tables
  BY <1>1, NowIs
<1>3. UNCHANGED <<disk, dirs, phase, arg, read, held, given>>
  BY DEF ListDir
<1>4. <<>> \in Seq(PlainSteps) /\ Listed(u) \in Seq(PlainSteps)
  <2>1. Removing(u) \subseteq PlainSteps
    BY DEF Removing, PlainSteps
  <2> QED BY <1>2, <2>1, ListedIs, WidenIs
<1>5. Then(p, <<>>) \/ Then(p, Listed(u))
  BY DEF ListDir, Listed
<1>6. PICK g \in Seq(PlainSteps) : Then(p, g) /\ (g = <<>> \/ g = Listed(u))
  BY <1>4, <1>5
<1>7. \A i \in DOMAIN g : g[i].do \in {"unlink", "rmdir"}
  <2>1. \A i \in DOMAIN Listed(u) : Listed(u)[i] \in Removing(u)
    BY <1>2, ListedIs, ElementOfSeq, LenProperties
  <2>2. \A i \in DOMAIN Listed(u) : Listed(u)[i].do \in {"unlink", "rmdir"}
    BY <2>1 DEF Removing
  <2> QED BY <1>6, <2>2
<1>8. PutsRemains(g, t, d) /\ LoadsRemains(g, t, read'[p], d)
  BY <1>7 DEF PutsRemains, LoadsRemains
<1>9. \A f \in Whole : Remains(disk'[t][f], d, f)
  BY <1>3 DEF Left
<1>10. \A q \in Procs : HoldsRemains(held'[q][t], d)
  BY <1>3 DEF Left
<1> QED BY <1>1, <1>3, <1>6, <1>8, <1>9, <1>10, LeftThen

\* It stays so when files are emptied, written or removed.
LEMMA FileLeft ==
  ASSUME TypeInv, NEW p \in Procs, NEW t \in Tables, Left(t),
         OpenFile(p) \/ PutFile(p) \/ Unlink(p)
  PROVE  Left(t)'
<1> DEFINE e == Now(p)
           f == Now(p).file
           d == given[t]
<1>1. todo[p] # <<>> /\ e.do \in {"open", "put", "unlink"}
  BY DEF OpenFile, PutFile, Unlink, At
<1>2. /\ e.table \in Tables /\ e = todo[p][1] /\ 1 \in DOMAIN todo[p] /\ f \in Files
      /\ e \in PlainSteps
  BY <1>1, NowIs
<1>3. Then(p, <<>>) /\ UNCHANGED <<phase, arg, read, held, given>>
  BY DEF OpenFile, PutFile, Unlink, Proceed
<1>4. /\ <<>> \in Seq(PlainSteps) /\ PutsRemains(<<>>, t, d)
      /\ LoadsRemains(<<>>, t, read'[p], d)
  BY DEF PutsRemains, LoadsRemains
<1>5. /\ \A u \in Tables, g \in Files : u # e.table \/ g # f => disk'[u][g] = disk[u][g]
      /\ \/ disk'[e.table][f] \in {p, Absent}
         \/ disk'[e.table][f] = e.part /\ e.do = "put"
         \/ disk'[e.table][f] = disk[e.table][f]
  <2>1. disk \in [Tables -> [Files -> Content]] /\ p \in Content /\ Absent \in Content
        /\ e.part \in Content
    BY <1>2, StepIs DEF Content, TypeInv, TypeOK, PlainSteps
  <2>2. CASE OpenFile(p) \/ Unlink(p)
    <3>1. PICK v \in {p, Absent} : Written(e.table, f, v)
      BY <2>2 DEF OpenFile, Unlink
    <3> HIDE DEF e, f
    <3>2. v \in Content
      BY <2>1
    <3> QED BY <1>2, <2>1, <3>1, <3>2, WrittenIs
  <2>3. CASE PutFile(p) /\ disk[e.table][f] = p
    <3>1. Written(e.table, f, e.part) /\ e.do = "put"
      BY <2>3 DEF PutFile, At
    <3> HIDE DEF e, f
    <3> QED BY <1>2, <2>1, <3>1, WrittenIs
  <2>4. CASE PutFile(p) /\ disk[e.table][f] # p
    BY <2>4 DEF PutFile
  <2> QED BY <2>2, <2>3, <2>4
<1>6. Whole \subseteq Files
  BY DEF Whole, Files
<1>7. ASSUME NEW g \in Whole PROVE Remains(disk'[t][g], d, g)
  <2>1. Remains(disk[t][g], d, g)
    BY DEF Left
  <2>2. CASE e.table # t \/ g # f
    BY <1>5, <1>6, <2>1, <2>2
  <2>3. CASE e.table = t /\ g = f /\ disk'[t][f] \in {p, Absent}
    BY <2>3 DEF Remains, Good
  <2>4. CASE e.table = t /\ g = f /\ disk'[t][f] = e.part /\ e.do = "put"
    <3>1. e.part \in {Blank, PartOf(d, f)}
      BY <1>2, <2>4 DEF Left, PutsRemains
    <3> QED BY <2>4, <3>1 DEF Remains, Good
  <2>5. CASE e.table = t /\ g = f /\ disk'[t][f] = disk[t][f]
    BY <2>1, <2>5
  <2> QED BY <1>5, <2>2, <2>3, <2>4, <2>5
<1>8. \A q \in Procs : HoldsRemains(held'[q][t], d)
  BY <1>3 DEF Left
<1>9. Now(p).do # "read"
  BY <1>1
<1> QED BY <1>1, <1>3, <1>4, <1>7, <1>8, <1>9, LeftThen

\* What is left of a definition, and is one, has each list as it was given, or empty.
LEMMA FoundRemains ==
  ASSUME NEW d, NEW r, Remains(r.columns, d, "columns"), Remains(r.relations, d, "relations"),
         Part(r.columns) \notin Procs, Part(r.relations) \notin Procs
  PROVE  HoldsRemains([columns |-> Part(r.columns), relations |-> Part(r.relations)], d)
<1>1. Part(Absent) = Blank /\ Part(Blank) = Blank /\ Absent \notin Procs
  BY ValuesAssumption DEF Part, Blank
<1>2. ASSUME NEW c, NEW f, Remains(c, d, f), Part(c) \notin Procs
      PROVE  Part(c) \in {Blank, PartOf(d, f)}
  <2>1. CASE c \in {Absent, Blank}
    BY <1>1, <2>1
  <2>2. CASE c \in Procs
    BY <1>1, <1>2, <2>2 DEF Part
  <2>3. CASE c = PartOf(d, f)
    BY <2>3 DEF Part, Blank
  <2> QED BY <1>2, <2>1, <2>2, <2>3 DEF Remains, Good
<1>3. Part(r.columns) \in {Blank, PartOf(d, "columns")}
      /\ Part(r.relations) \in {Blank, PartOf(d, "relations")}
  BY <1>2
<1> QED BY <1>3 DEF HoldsRemains, PartOf

\* It stays so when a Table is made of what was read.
LEMMA BuildLeft ==
  ASSUME TypeInv, NEW p \in Procs, NEW t \in Tables, Left(t), Build(p)
  PROVE  Left(t)'
<1> DEFINE u == Now(p).table
           d == given[t]
<1>1. todo[p] # <<>> /\ Now(p).do = "build"
  BY DEF Build, At
<1>2. u \in Tables /\ Now(p) = todo[p][1] /\ 1 \in DOMAIN todo[p]
  BY <1>1, NowIs
<1>3. CASE Throw(p)
  BY <1>3, ThrowLeft
<1>4. CASE ~Throw(p)
  <2>1. /\ IsDef(Found(p)) /\ held' = [held EXCEPT ![p][u] = Found(p)]
        /\ Touched(u, "data") /\ Then(p, <<>>)
        /\ read' = [read EXCEPT ![p] = NoneRead] /\ given' = given
    BY <1>4 DEF Build, Proceed
  <2>2. "data" \in Files /\ Whole \subseteq Files \ {"data"} /\ disk \in [Tables -> [Files -> Content]]
    BY DEF Files, Whole, TypeInv, TypeOK
  <2>3. \A f \in Whole : disk'[t][f] = disk[t][f]
    BY <1>2, <2>1, <2>2, TouchedIs
  <2>4. \A q \in Procs \ {p} : read'[q] = read[q]
    BY <2>1 DEF TypeInv, TypeOK
  <2>5. \A q \in Procs : held'[q][t] = IF q = p /\ t = u THEN Found(p) ELSE held[q][t]
    <3>1. held \in [Procs -> [Tables -> Def \cup {None}]]
      BY DEF TypeInv, TypeOK
    <3> DEFINE w == Found(p)
               y == [held[p] EXCEPT ![u] = w]
    <3>2. y[t] = IF t = u THEN w ELSE held[p][t]
      <4> HIDE DEF w
      <4> QED BY <3>1
    <3>3. held' = [held EXCEPT ![p] = y]
      BY <2>1
    <3> HIDE DEF y, w
    <3>4. \A q \in Procs : held'[q] = IF q = p THEN y ELSE held[q]
      BY <3>1, <3>3
    <3> QED BY <3>2, <3>4 DEF w
  <2>6. t = u => HoldsRemains(Found(p), d)
    <3> DEFINE r == read[p]
    <3>1. SUFFICES ASSUME t = u PROVE HoldsRemains(Found(p), d)
      OBVIOUS
    <3>2. LoadsRemains(todo[p], t, r, d)
      BY DEF Left
    <3>3. Remains(r.columns, d, "columns") /\ Remains(r.relations, d, "relations")
      BY <1>1, <1>2, <3>1, <3>2 DEF LoadsRemains, Reads
    <3>4. Part(r.columns) \notin Procs /\ Part(r.relations) \notin Procs
      BY <2>1 DEF IsDef, Found
    <3> HIDE DEF d, r
    <3>5. HoldsRemains([columns |-> Part(r.columns), relations |-> Part(r.relations)], d)
      BY <3>3, <3>4, FoundRemains
    <3> QED BY <3>5 DEF Found, r
  <2>7. \A q \in Procs : HoldsRemains(held'[q][t], d)
    BY <2>5, <2>6 DEF Left
  <2>8. \A f \in Whole : Remains(disk'[t][f], d, f)
    BY <2>3 DEF Left
  <2>9. /\ <<>> \in Seq(PlainSteps) /\ PutsRemains(<<>>, t, d)
        /\ LoadsRemains(<<>>, t, read'[p], d) /\ given'[t] = given[t]
    BY <2>1 DEF PutsRemains, LoadsRemains
  <2>10. Now(p).do # "read"
    BY <1>1
  <2> QED BY <1>1, <2>1, <2>4, <2>7, <2>8, <2>9, <2>10, LeftThen
<1> QED BY <1>3, <1>4

\* It stays so when a file is read.
LEMMA ReadLeft ==
  ASSUME TypeInv, NEW p \in Procs, NEW t \in Tables, Left(t), Read(p)
  PROVE  Left(t)'
<1> DEFINE e == Now(p)
           s == todo[p]
           d == given[t]
           r == read[p]
           r2 == read'[p]
           z == todo'[p]
<1>1. s # <<>> /\ e.do = "read"
  BY DEF Read, At
<1>2. /\ e.table \in Tables /\ e = s[1] /\ e \in PlainSteps /\ s \in Seq(Steps)
      /\ e.file \in {"columns", "relations"}
  BY <1>1, NowIs, PlainIs DEF TypeInv, TypeOK
<1>3. Then(p, <<>>) /\ <<>> \in Seq(PlainSteps) /\ Free(<<>>, t, Tracked)
  <2>1. Then(p, <<>>)
    BY DEF Read, Proceed
  <2> QED BY <2>1 DEF Free
<1>4. /\ UNCHANGED <<disk, dirs, phase, arg, held, given>>
      /\ \A q \in Procs \ {p} : read'[q] = read[q]
  BY DEF Read, TypeInv, TypeOK
<1>5. CASE e.table # t
  BY <1>1, <1>3, <1>4, <1>5, LeftOther
<1>6. CASE e.table = t
  <2>1. /\ r2.columns = IF e.file = "columns" THEN disk[t]["columns"] ELSE r.columns
        /\ r2.relations = IF e.file = "relations" THEN disk[t]["relations"] ELSE r.relations
    <3>1. r \in [columns : Content, relations : Content]
      BY DEF TypeInv, TypeOK
    <3> DEFINE v == disk[t][e.file]
               f == e.file
    <3>2. r2 = [r EXCEPT ![f] = v]
      BY <1>6 DEF Read, TypeInv, TypeOK
    <3>3. f \in {"columns", "relations"} /\ v = disk[t][f]
      BY <1>2
    <3> HIDE DEF f, v, r, r2
    <3>4. /\ r2.columns = IF f = "columns" THEN v ELSE r.columns
          /\ r2.relations = IF f = "relations" THEN v ELSE r.relations
      <4>1. CASE f = "columns"
        BY <3>1, <3>2, <4>1
      <4>2. CASE f = "relations"
        BY <3>1, <3>2, <4>2
      <4> QED BY <3>3, <4>1, <4>2
    <3> QED BY <3>3, <3>4 DEF f
  <2>2. /\ Remains(disk[t]["columns"], d, "columns") /\ Remains(disk[t]["relations"], d, "relations")
        /\ PutsRemains(s, t, d) /\ LoadsRemains(s, t, r, d)
    BY DEF Left, Whole
  <2>3. /\ <<>> \in Seq(Steps) /\ z = <<>> \o Tail(s) /\ \A q \in Procs \ {p} : todo'[q] = todo[q]
    BY <1>1, <1>3, ThenIs
  <2>4. /\ Len(s) \in Nat \ {0} /\ DOMAIN s = 1 .. Len(s)
        /\ DOMAIN z = 1 .. Len(s) - 1 /\ \A i \in 1 .. Len(s) - 1 : z[i] = s[i + 1]
    <3>1. Tail(s) \in Seq(Steps) /\ Len(Tail(s)) = Len(s) - 1
          /\ \A i \in 1 .. Len(s) - 1 : Tail(s)[i] = s[i + 1]
      BY <1>1, <1>2, HeadTailProperties
    <3>2. z = Tail(s)
      BY <2>3, <3>1, ConcatEmptySeq
    <3> QED BY <1>1, <1>2, <3>1, <3>2, LenProperties, EmptySeq
  <2>5. Reads(s[1], t, e.file)
    BY <1>1, <1>2, <1>6 DEF Reads
  <2>6. s \in Seq(Steps) /\ s # <<>>
    BY <1>1, <1>2
  <2>7. PutsRemains(<<>>, t, d)
    BY DEF PutsRemains
  <2> HIDE DEF d, r, r2, e, s, z
  <2>8. PutsRemains(z, t, d)
    BY <2>2, <2>3, <2>6, <2>7, PutsRemainsThen
  <2>9. ASSUME NEW i \in DOMAIN z, z[i].table = t, z[i].do = "build"
        PROVE  \/ i = 1 /\ Remains(r2.columns, d, "columns") /\ Remains(r2.relations, d, "relations")
               \/ i = 2 /\ Reads(z[1], t, "relations") /\ Remains(r2.columns, d, "columns")
               \/ i = 3 /\ Reads(z[1], t, "columns") /\ Reads(z[2], t, "relations")
    <3>1. i \in Int /\ i + 1 \in DOMAIN s /\ z[i] = s[i + 1]
      BY <2>4, <2>9
    <3>2. \/ i + 1 = 1
          \/ i + 1 = 2 /\ Reads(s[1], t, "relations") /\ Remains(r.columns, d, "columns")
          \/ i + 1 = 3 /\ Reads(s[1], t, "columns") /\ Reads(s[2], t, "relations")
      BY <2>2, <2>9, <3>1 DEF LoadsRemains
    <3>3. i # 0
      BY <2>4, <2>9
    <3>4. CASE i + 1 = 2 /\ Reads(s[1], t, "relations") /\ Remains(r.columns, d, "columns")
      <4>1. i = 1 /\ e.file = "relations"
        BY <3>1, <3>4, <2>5 DEF Reads
      <4> QED BY <2>1, <2>2, <3>4, <4>1
    <3>5. CASE i + 1 = 3 /\ Reads(s[1], t, "columns") /\ Reads(s[2], t, "relations")
      <4>1. i = 2 /\ e.file = "columns"
        BY <3>1, <3>5, <2>5 DEF Reads
      <4>2. 1 \in 1 .. Len(s) - 1
        BY <2>4, <3>1, <4>1
      <4>3. z[1] = s[1 + 1]
        BY <2>4, <4>2
      <4>4. Reads(z[1], t, "relations")
        BY <3>5, <4>3
      <4> QED BY <2>1, <2>2, <4>1, <4>4
    <3> QED BY <3>1, <3>2, <3>3, <3>4, <3>5
  <2>10. LoadsRemains(z, t, r2, d)
    BY <2>9 DEF LoadsRemains
  <2>11. \A q \in Procs : PutsRemains(todo'[q], t, d) /\ LoadsRemains(todo'[q], t, read'[q], d)
    BY <1>4, <2>3, <2>8, <2>10 DEF Left, r2, d, z
  <2> QED BY <1>4, <2>11 DEF Left, d
<1> QED BY <1>5, <1>6

\* Every step of every client keeps what is left of each definition.
LEMMA StepParts == PartsInv /\ [OnceNext]_vars => PartsInv'
<1> SUFFICES ASSUME PartsInv, [OnceNext]_vars PROVE PartsInv'
  OBVIOUS
<1>1. OnceInv /\ TypeInv /\ OneCreates /\ \A u \in Tables : Stage(u)
  BY DEF PartsInv, OnceInv
<1>2. OnceInv'
  BY <1>1, StepOnce
<1>3. ASSUME NEW t \in Tables, given'[t] # None PROVE Left(t)'
  <2>1. given[t] # None => Left(t)
    BY DEF PartsInv
  <2>2. CASE UNCHANGED vars
    BY <1>3, <2>1, <2>2 DEF vars, Left
  <2>3. CASE OnceNext
    <3>1. PICK p \in Procs :
            \/ Life(p) \/ CallStep(p)
            \/ \E u \in Tables : GetTable(p, u) \/ InsertRow(p, u) \/ DeleteTable(p, u)
            \/ \E u \in Tables, d \in Def : CreateTable(p, u, d)
      BY <2>3 DEF OnceNext
    <3>2. CASE given[t] = None
      <4>1. given' # given
        BY <1>3, <3>2
      <4>2. CheckAbsent(p)
        BY <3>1, <4>1 DEF Life, Start, Opened, Exit, Ended, Kill, Gone, CallStep, Check,
           CheckPresent, Read, Build, Throw, New, Make, OpenFile, PutFile, Touch, Save, Scan,
           ListDir, Unlink, RemoveDir, GetTable, InsertRow, DeleteTable, CreateTable
      <4> QED BY <1>1, <1>3, <3>2, <4>2, AbsentBegins
    <3>3. CASE given[t] # None /\ Life(p)
      BY <1>1, <2>1, <3>3, LifeLeft
    <3>4. CASE given[t] # None /\ CallStep(p)
      <4>1. Left(t)
        BY <2>1, <3>4
      <4>2. CASE Check(p) \/ CheckPresent(p) \/ Save(p)
        BY <1>1, <4>1, <4>2, PathLeft
      <4>3. CASE CheckAbsent(p)
        BY <1>1, <3>4, <4>1, <4>3, AbsentLeft
      <4>4. CASE New(p) \/ Make(p) \/ Scan(p) \/ RemoveDir(p) \/ Touch(p)
        BY <1>1, <4>1, <4>4, CalmLeft
      <4>5. CASE ListDir(p)
        BY <1>1, <4>1, <4>5, ListLeft
      <4>6. CASE OpenFile(p) \/ PutFile(p) \/ Unlink(p)
        BY <1>1, <4>1, <4>6, FileLeft
      <4>7. CASE Read(p) \/ Build(p)
        BY <1>1, <4>1, <4>7, ReadLeft, BuildLeft
      <4> QED BY <3>4, <4>2, <4>3, <4>4, <4>5, <4>6, <4>7 DEF CallStep
    <3>5. CASE given[t] # None /\ ~Life(p) /\ ~CallStep(p)
      <4>1. PICK u \in Tables :
              \/ GetTable(p, u) \/ InsertRow(p, u) \/ DeleteTable(p, u)
              \/ \E d \in Def : CreateTable(p, u, d)
        BY <3>1, <3>5
      <4> QED BY <1>1, <2>1, <3>5, <4>1, CallLeft
    <3> QED BY <3>2, <3>3, <3>4, <3>5
  <2> QED BY <2>2, <2>3
<1> QED BY <1>2, <1>3 DEF PartsInv

\* Nobody ever holds anything else than what a table was created with: of a table that
\* exists the whole definition, and of one that is being deleted each of its lists, or
\* an empty one where the file was gone.
THEOREM HeldAreGiven == OnceSpec => []HeldIsGiven
<1>1. Init => PartsInv
  <2>1. Init => \A t \in Tables : given[t] = None
    BY DEF Init
  <2> QED BY <2>1, InitOnce DEF PartsInv
<1>2. PartsInv => HeldIsGiven
  <2> SUFFICES ASSUME PartsInv, NEW p \in Procs, NEW t \in Tables, held[p][t] # None
               PROVE  /\ held[p][t].columns \in {Blank, given[t].columns}
                      /\ held[p][t].relations \in {Blank, given[t].relations}
                      /\ Has(t, "marker") => held[p][t] = given[t]
    BY DEF HeldIsGiven
  <2>1. Stage(t)
    BY DEF PartsInv, OnceInv
  <2>2. (Made(t) /\ held[p][t] = given[t]) \/ Dead(t)
    BY <2>1, HeldMeans
  <2>3. given[t] # None
    BY <2>2 DEF Made, Dead
  <2>4. HoldsRemains(held[p][t], given[t])
    BY <2>3 DEF PartsInv, Left
  <2>5. Has(t, "marker") => held[p][t] = given[t]
    BY <2>2 DEF Dead
  <2> QED BY <2>4, <2>5 DEF HoldsRemains
<1>3. OnceSpec => []PartsInv
  BY <1>1, StepParts, PTL DEF OnceSpec
<1> QED BY <1>2, <1>3, PTL

-----------------------------------------------------------------------------
(***************************************************************************)
(* One process that is alone with the tables and is not killed, whatever   *)
(* it calls in which order.                                                *)
(***************************************************************************)
-----------------------------------------------------------------------------
(* Where a process is in the call it is in.                                *)

\* The steps of a program that are about one table, which no other step may come
\* between, and those of them that nothing more for the table may follow.
Busy == {"new", "absent", "present", "read", "build", "make", "open", "put", "touch", "list",
         "unlink", "rmdir"}
Ends == {"absent", "present", "touch", "list", "rmdir"}

\* A program works on one table, to the end, before it goes on with others.
Unmixed(s) ==
  \A i, j \in DOMAIN s :
    i < j /\ s[j].do \in Busy => s[i].do \in Busy \ Ends /\ s[i].table = s[j].table

\* A program saves before it loads.
Saves(s) ==
  \A i, j \in DOMAIN s : s[i].do = "save" /\ s[j].do \in {"scan", "check"} => i < j

Pending(s, t, what) == \E i \in DOMAIN s : s[i].table = t /\ s[i].do = what
Pends(s, t, what, f) ==
  \E i \in DOMAIN s : s[i].table = t /\ s[i].do = what /\ s[i].file = f
Forgets(s) == \E i \in DOMAIN s : s[i].do = "scan"

\* Every file that is opened for writing is written to next.
Pairs(s, t, files, p) ==
  \A i \in DOMAIN s : s[i].table = t =>
    /\ s[i].do = "open" => /\ i + 1 \in DOMAIN s /\ s[i + 1].table = t
                           /\ s[i + 1].do = "put" /\ s[i + 1].file = s[i].file
    /\ s[i].do = "put" => \/ i = 1 /\ files[s[i].file] = p
                          \/ /\ i > 1 /\ s[i - 1].table = t
                             /\ s[i - 1].do = "open" /\ s[i - 1].file = s[i].file

-----------------------------------------------------------------------------
Exists(t) == given[t] # None /\ Has(t, "marker") /\ Has(t, "data") /\ t \in dirs

Kept(t, f) == disk[t][f] = PartOf(given[t], f)
Stored(t) == Kept(t, "columns") /\ Kept(t, "relations")

\* The table is there; what was saved last is in its files, or about to be.
In(p, t) ==
  /\ Exists(t) /\ held[p][t] \in {None, given[t]}
  /\ Stored(t) \/ (held[p][t] = given[t] /\ Pending(todo[p], t, "save"))

\* There is no such table, nor any file of it.
Out(p, t) ==
  /\ t \notin dirs /\ \A f \in Files : ~Has(t, f)
  /\ held[p][t] = None \/ Forgets(todo[p])

Rest(p, t) == Free(todo[p], t, Busy) /\ (In(p, t) \/ Out(p, t))

Fresh(p, t) ==
  /\ t \in dirs /\ disk[t]["data"] = Blank /\ \A f \in Files \ {"data"} : ~Has(t, f)
  /\ held[p][t] = None

Asking(p, t) ==
  \/ todo[p] \in {<<Do("new", t), Do("absent", t)>>, <<Do("present", t)>>}
       /\ (In(p, t) \/ Out(p, t))
  \/ todo[p] = <<Do("absent", t)>> /\ (In(p, t) \/ Fresh(p, t))

Loading(p, t) ==
  /\ Free(todo[p], t, Busy \ {"read", "build", "list"})
  /\ Exists(t) /\ Stored(t) /\ held[p][t] \in {None, given[t]}
  /\ LoadsWell(todo[p], t, read[p], given[t])
  /\ Pending(todo[p], t, "list") => Forgets(todo[p])

\* What the definition says is in the files, or about to be put there.
Settling(p, t) ==
  /\ Puts(todo[p], t, given[t]) /\ Pairs(todo[p], t, disk[t], p)
  /\ \A f \in {"columns", "relations"} : Kept(t, f) \/ Pends(todo[p], t, "put", f)

Creating(p, t) ==
  /\ Free(todo[p], t, Busy \ {"make", "open", "put", "touch"})
  /\ Pending(todo[p], t, "touch")
  /\ given[t] # None /\ ~Has(t, "marker") /\ disk[t]["data"] = Blank /\ t \in dirs
  /\ held[p][t] = None
  /\ Settling(p, t)

Writing(p, t) ==
  /\ Free(todo[p], t, Busy \ {"open", "put"})
  /\ Exists(t) /\ held[p][t] \in {None, given[t]}
  /\ Settling(p, t)

Clearing(p, t) ==
  /\ Free(todo[p], t, Busy \ {"unlink", "rmdir"})
  /\ Pending(todo[p], t, "rmdir") /\ Forgets(todo[p])
  /\ t \in dirs /\ \A f \in Files : Has(t, f) => Pends(todo[p], t, "unlink", f)

Where(p, t) ==
  \/ Rest(p, t) \/ Asking(p, t) \/ Loading(p, t)
  \/ Creating(p, t) \/ Writing(p, t) \/ Clearing(p, t)

Orderly(p) ==
  /\ Unmixed(todo[p]) /\ Saves(todo[p])
  /\ phase[p] = "down" => todo[p] = <<>>
  /\ read[p].columns \notin Procs /\ read[p].relations \notin Procs

AloneInv == TypeInv /\ \A p \in Procs : Orderly(p) /\ \A t \in Tables : Where(p, t)

-----------------------------------------------------------------------------
(* What a step leaves of its program.                                      *)

\* z is the program g and then what s has behind its first step.
Follows(z, g, s) ==
  /\ Len(g) \in Nat /\ DOMAIN g = 1 .. Len(g)
  /\ DOMAIN s \subseteq Nat \ {0} /\ DOMAIN z \subseteq Nat \ {0} /\ 1 \in DOMAIN s
  /\ \A i \in DOMAIN z : i > 1 => i - 1 \in DOMAIN z
  /\ \A i \in DOMAIN g : i \in DOMAIN z /\ z[i] = g[i]
  /\ \A i \in DOMAIN s : i > 1 => i + Len(g) - 1 \in DOMAIN z /\ z[i + Len(g) - 1] = s[i]
  /\ \A i \in DOMAIN z : \/ i \in DOMAIN g
                         \/ /\ i > Len(g) /\ i - Len(g) + 1 \in DOMAIN s /\ i - Len(g) + 1 > 1
                            /\ z[i] = s[i - Len(g) + 1]

\* A step goes on with a program and then with the rest.
LEMMA ThenFollows ==
  ASSUME TypeInv, NEW p \in Procs, todo[p] # <<>>, NEW g \in Seq(PlainSteps), Then(p, g)
  PROVE  Follows(todo'[p], g, todo[p]) /\ \A q \in Procs \ {p} : todo'[q] = todo[q]
<1> DEFINE s == todo[p]
           z == g \o Tail(s)
<1>1. /\ s \in Seq(Steps) /\ g \in Seq(Steps) /\ todo'[p] = z
      /\ \A q \in Procs \ {p} : todo'[q] = todo[q]
  BY ThenIs
<1>2. s # <<>>
  OBVIOUS
<1> HIDE DEF s
<1>3. /\ DOMAIN z = 1 .. Len(g) + Len(s) - 1
      /\ \A i \in 1 .. Len(g) : z[i] = g[i]
      /\ \A i \in Len(g) + 1 .. Len(g) + Len(s) - 1 : z[i] = s[i - Len(g) + 1]
  BY <1>1, <1>2, ThenSteps
<1>4. /\ Len(s) \in Nat \ {0} /\ DOMAIN s = 1 .. Len(s)
      /\ Len(g) \in Nat /\ DOMAIN g = 1 .. Len(g)
  BY <1>1, <1>2, LenProperties, EmptySeq
<1> DEFINE n == Len(g)
           m == Len(s)
<1> HIDE DEF z
<1>5. ASSUME NEW i \in DOMAIN s, i > 1
      PROVE  i + Len(g) - 1 \in DOMAIN z /\ z[i + Len(g) - 1] = s[i]
  <2>1. i + n - 1 \in n + 1 .. n + m - 1 /\ (i + n - 1) - n + 1 = i /\ i + n - 1 \in 1 .. n + m - 1
    BY <1>4, <1>5
  <2> QED BY <1>3, <2>1
<1>6. ASSUME NEW i \in DOMAIN z
      PROVE  \/ i \in DOMAIN g
             \/ /\ i > Len(g) /\ i - Len(g) + 1 \in DOMAIN s /\ i - Len(g) + 1 > 1
                /\ z[i] = s[i - Len(g) + 1]
  <2>1. i \in 1 .. n + m - 1 /\ n \in Nat /\ m \in Nat
    BY <1>3, <1>4
  <2>2. CASE i <= n
    BY <1>4, <2>1, <2>2
  <2>3. CASE i > n
    BY <1>3, <1>4, <2>1, <2>3
  <2> QED BY <2>1, <2>2, <2>3
<1>7. \A i \in DOMAIN g : i \in DOMAIN z /\ z[i] = g[i]
  BY <1>3, <1>4
<1>8. DOMAIN s \subseteq Nat \ {0} /\ DOMAIN z \subseteq Nat \ {0} /\ 1 \in DOMAIN s
  BY <1>3, <1>4
<1>9. \A i \in DOMAIN z : i > 1 => i - 1 \in DOMAIN z
  BY <1>3, <1>4
<1>10. Follows(z, g, s)
  BY <1>9, <1>4, <1>5, <1>6, <1>7, <1>8 DEF Follows
<1> QED BY <1>1, <1>10 DEF s

\* The rest of a program, when nothing is put before it.
LEMMA FollowsTail ==
  ASSUME NEW z, NEW s, Follows(z, <<>>, s)
  PROVE  /\ \A i \in DOMAIN s : i > 1 => i - 1 \in DOMAIN z /\ z[i - 1] = s[i]
         /\ \A i \in DOMAIN z : i + 1 \in DOMAIN s /\ z[i] = s[i + 1]
<1>1. Len(<<>>) = 0 /\ DOMAIN <<>> = {}
  OBVIOUS
<1>2. DOMAIN s \subseteq Nat /\ DOMAIN z \subseteq Nat
  BY DEF Follows
<1>3. ASSUME NEW i \in DOMAIN s, i > 1 PROVE i - 1 \in DOMAIN z /\ z[i - 1] = s[i]
  <2>1. i + 0 - 1 = i - 1
    BY <1>2
  <2> QED BY <1>1, <1>3, <2>1 DEF Follows
<1>4. ASSUME NEW i \in DOMAIN z PROVE i + 1 \in DOMAIN s /\ z[i] = s[i + 1]
  <2>1. i - 0 + 1 = i + 1
    BY <1>2
  <2> QED BY <1>1, <2>1 DEF Follows
<1> QED BY <1>3, <1>4

\* Programs stay unmixed when steps are put in front of the rest.
LEMMA UnmixedFollows ==
  ASSUME NEW z, NEW g, NEW s, Follows(z, g, s), Unmixed(s), Unmixed(g),
         g = <<>> \/ s[1].do \notin Busy \ Ends
  PROVE  Unmixed(z)
<1> SUFFICES ASSUME NEW i \in DOMAIN z, NEW j \in DOMAIN z, i < j, z[j].do \in Busy
             PROVE  z[i].do \in Busy \ Ends /\ z[i].table = z[j].table
  BY DEF Unmixed
<1>1. i \in Nat \ {0} /\ j \in Nat /\ 1 \in DOMAIN s /\ Len(g) \in Nat /\ DOMAIN g = 1 .. Len(g)
  BY DEF Follows
<1>2. CASE j \in DOMAIN g
  <2>1. i \in DOMAIN g
    BY <1>1, <1>2
  <2>2. z[i] = g[i] /\ z[j] = g[j]
    BY <1>2, <2>1 DEF Follows
  <2> QED BY <1>2, <2>1, <2>2 DEF Unmixed
<1>3. CASE j \notin DOMAIN g /\ g = <<>>
  <2>1. j + 1 \in DOMAIN s /\ z[j] = s[j + 1] /\ i + 1 \in DOMAIN s /\ z[i] = s[i + 1]
    BY <1>3, FollowsTail
  <2>2. i + 1 < j + 1
    BY <1>1
  <2> QED BY <2>1, <2>2 DEF Unmixed
<1>4. CASE j \notin DOMAIN g /\ g # <<>>
  <2> DEFINE k == j - Len(g) + 1
  <2>1. k \in DOMAIN s /\ k > 1 /\ z[j] = s[k]
    BY <1>4 DEF Follows
  <2> HIDE DEF k
  <2>2. s[1].do \in Busy \ Ends
    BY <1>1, <2>1 DEF Unmixed
  <2> QED BY <1>4, <2>2
<1> QED BY <1>2, <1>3, <1>4

\* After the steps about one table only calm ones follow.
LEMMA UnmixedRest ==
  ASSUME NEW s, 1 \in DOMAIN s, DOMAIN s \subseteq Nat \ {0}, Unmixed(s)
  PROVE  /\ s[1].do \notin Busy => \A t : Free(s, t, Busy)
         /\ \A t : t # s[1].table => Free(s, t, Busy)
         /\ s[1].do \in Ends => \A i \in DOMAIN s : i > 1 => s[i].do \notin Busy
<1>1. ASSUME NEW i \in DOMAIN s, s[i].do \in Busy, i # 1
      PROVE  s[1].do \in Busy \ Ends /\ s[1].table = s[i].table
  <2>1. 1 < i
    BY <1>1
  <2> QED BY <1>1, <2>1 DEF Unmixed
<1>2. Ends \subseteq Busy
  BY DEF Ends, Busy
<1> QED BY <1>1, <1>2 DEF Free

\* Nothing is loaded before the save, when steps are put in front of the rest.
LEMMA SavesFollows ==
  ASSUME NEW z, NEW g, NEW s, Follows(z, g, s), Saves(s), Saves(g),
         \/ \A i \in DOMAIN g : g[i].do \notin {"scan", "check"}
         \/ \A i \in DOMAIN s : i > 1 => s[i].do # "save"
  PROVE  Saves(z)
<1> SUFFICES ASSUME NEW i \in DOMAIN z, NEW j \in DOMAIN z, z[i].do = "save",
                    z[j].do \in {"scan", "check"}
             PROVE  i < j
  BY DEF Saves
<1> DEFINE k == i - Len(g) + 1
           l == j - Len(g) + 1
<1>1. i \in Nat \ {0} /\ j \in Nat \ {0} /\ Len(g) \in Nat /\ DOMAIN g = 1 .. Len(g)
  BY DEF Follows
<1>2. \/ i \in DOMAIN g /\ z[i] = g[i]
      \/ i > Len(g) /\ k \in DOMAIN s /\ k > 1 /\ z[i] = s[k]
  BY DEF Follows
<1>3. \/ j \in DOMAIN g /\ z[j] = g[j]
      \/ j > Len(g) /\ l \in DOMAIN s /\ l > 1 /\ z[j] = s[l]
  BY DEF Follows
<1>4. k < l => i < j
  BY <1>1
<1> HIDE DEF k, l
<1>5. CASE j \in DOMAIN g /\ z[j] = g[j]
  <2>1. i \in DOMAIN g /\ z[i] = g[i]
    BY <1>2, <1>5
  <2> QED BY <1>5, <2>1 DEF Saves
<1>6. CASE j > Len(g) /\ l \in DOMAIN s /\ l > 1 /\ z[j] = s[l]
  <2>1. CASE i \in DOMAIN g
    BY <1>1, <1>6, <2>1
  <2>2. CASE k \in DOMAIN s /\ k > 1 /\ z[i] = s[k]
    BY <1>4, <1>6, <2>2 DEF Saves
  <2> QED BY <1>2, <2>1, <2>2
<1> QED BY <1>3, <1>5, <1>6

\* Behind its first step a program does none of some things to a table.
FreeRest(s, t, W) == \A i \in DOMAIN s : i > 1 /\ s[i].table = t => s[i].do \notin W

\* A program stays free of some steps on a table.
LEMMA FreeFollows ==
  ASSUME NEW z, NEW g, NEW s, Follows(z, g, s), NEW t, NEW W, FreeRest(s, t, W), Free(g, t, W)
  PROVE  Free(z, t, W)
<1> SUFFICES ASSUME NEW i \in DOMAIN z, z[i].table = t PROVE z[i].do \notin W
  BY DEF Free
<1>1. \/ i \in DOMAIN g /\ z[i] = g[i]
      \/ i - Len(g) + 1 \in DOMAIN s /\ i - Len(g) + 1 > 1 /\ z[i] = s[i - Len(g) + 1]
  BY DEF Follows
<1> QED BY <1>1 DEF Free, FreeRest

\* What is pending, and is not the step that is made, stays so.
LEMMA StaysPending ==
  ASSUME NEW z, NEW g, NEW s, Follows(z, g, s)
  PROVE  /\ \A t, w : Pending(s, t, w) /\ ~(s[1].table = t /\ s[1].do = w) => Pending(z, t, w)
         /\ \A t, w, f : Pends(s, t, w, f) /\ ~(s[1].table = t /\ s[1].do = w /\ s[1].file = f)
                           => Pends(z, t, w, f)
         /\ Forgets(s) /\ s[1].do # "scan" => Forgets(z)
<1>1. ASSUME NEW i \in DOMAIN s, i # 1 PROVE \E j \in DOMAIN z : z[j] = s[i]
  <2>1. i > 1
    BY <1>1 DEF Follows
  <2> QED BY <2>1 DEF Follows
<1> QED BY <1>1 DEF Pending, Pends, Forgets

\* What the program that is gone on with does is pending.
LEMMA GetsPending ==
  ASSUME NEW z, NEW g, NEW s, Follows(z, g, s)
  PROVE  /\ \A t, w : Pending(g, t, w) => Pending(z, t, w)
         /\ \A t, w, f : Pends(g, t, w, f) => Pends(z, t, w, f)
         /\ Forgets(g) => Forgets(z)
<1>1. \A i \in DOMAIN g : i \in DOMAIN z /\ z[i] = g[i]
  BY DEF Follows
<1> QED BY <1>1 DEF Pending, Pends, Forgets

\* A program still puts only what was given into the files of a table.
LEMMA PutsFollows ==
  ASSUME NEW z, NEW g, NEW s, Follows(z, g, s), NEW t, NEW d, Puts(g, t, d),
         Puts(s, t, d) \/ FreeRest(s, t, {"open", "put"})
  PROVE  Puts(z, t, d)
<1> SUFFICES ASSUME NEW i \in DOMAIN z, z[i].table = t, z[i].do \in {"open", "put"}
             PROVE  z[i].part = PartOf(d, z[i].file)
  BY DEF Puts
<1> DEFINE k == i - Len(g) + 1
<1>1. \/ i \in DOMAIN g /\ z[i] = g[i]
      \/ k \in DOMAIN s /\ k > 1 /\ z[i] = s[k]
  BY DEF Follows
<1> HIDE DEF k
<1> QED BY <1>1 DEF Puts, FreeRest

-----------------------------------------------------------------------------
(* The programs of the calls.                                              *)

\* A program does none of some things.
Lacks(s, W) == \A i \in DOMAIN s : s[i].do \notin W

Calls == {"save", "scan", "check"}

\* Two programs without some kinds of steps, one after the other.
LEMMA LacksJoin ==
  ASSUME NEW s \in Seq(Steps), NEW r \in Seq(Steps), NEW W, Lacks(s, W), Lacks(r, W)
  PROVE  s \o r \in Seq(Steps) /\ Lacks(s \o r, W)
<1>1. /\ s \o r \in Seq(Steps) /\ Len(s) \in Nat /\ Len(r) \in Nat
      /\ Len(s \o r) = Len(s) + Len(r)
      /\ \A i \in 1 .. Len(s) : (s \o r)[i] = s[i]
      /\ \A i \in Len(s) + 1 .. Len(s) + Len(r) : (s \o r)[i] = r[i - Len(s)]
  BY JoinIs
<1> DEFINE z == s \o r
<1>2. DOMAIN z = 1 .. Len(s) + Len(r) /\ DOMAIN s = 1 .. Len(s) /\ DOMAIN r = 1 .. Len(r)
  BY <1>1, LenProperties
<1>3. ASSUME NEW i \in DOMAIN z PROVE z[i].do \notin W
  <2>1. CASE i \in 1 .. Len(s)
    BY <1>1, <1>2, <2>1 DEF Lacks
  <2>2. CASE i \in Len(s) + 1 .. Len(s) + Len(r)
    <3>1. i - Len(s) \in DOMAIN r
      BY <1>1, <1>2, <2>2
    <3> QED BY <1>1, <2>2, <3>1 DEF Lacks
  <2> QED BY <1>1, <1>2, <2>1, <2>2
<1> QED BY <1>1, <1>3 DEF Lacks

\* A program that does not save, or does not load, does not load before it saves.
LEMMA SavesIs ==
  ASSUME NEW s, Lacks(s, {"save"}) \/ Lacks(s, {"scan", "check"})
  PROVE  Saves(s)
BY DEF Saves, Lacks

\* A call that ends with the save of all and the refresh forgets, after it saved.
LEMMA EndSaves ==
  ASSUME NEW g \in Seq(Steps), Lacks(g, {"scan", "check"})
  PROVE  /\ g \o Refresh \in Seq(Steps) /\ Saves(g \o Refresh) /\ Forgets(g \o Refresh)
         /\ \A t, w : Pending(g, t, w) => Pending(g \o Refresh, t, w)
<1> DEFINE z == g \o Refresh
<1>0. Refresh \in Seq(Steps) /\ Len(Refresh) = 1 /\ Refresh[1].do = "scan"
  BY EndIs
<1>1. /\ g \o Refresh \in Seq(Steps) /\ Len(g) \in Nat /\ Len(Refresh) \in Nat
      /\ Len(g \o Refresh) = Len(g) + Len(Refresh)
      /\ \A i \in 1 .. Len(g) : (g \o Refresh)[i] = g[i]
      /\ \A i \in Len(g) + 1 .. Len(g) + Len(Refresh) : (g \o Refresh)[i] = Refresh[i - Len(g)]
  BY <1>0, JoinIs
<1> DEFINE n == Len(g) + 1
<1>2. /\ DOMAIN z = 1 .. n /\ DOMAIN g = 1 .. Len(g) /\ n \in Nat /\ n \in DOMAIN z
      /\ z[n].do = "scan" /\ \A i \in DOMAIN z : i # n => i < n /\ i \in DOMAIN g /\ z[i] = g[i]
      /\ \A i \in DOMAIN g : i \in DOMAIN z /\ z[i] = g[i]
  <2>1. DOMAIN z = 1 .. n /\ DOMAIN g = 1 .. Len(g) /\ n \in Nat
    BY <1>0, <1>1, LenProperties
  <2>2. n \in Len(g) + 1 .. Len(g) + Len(Refresh) /\ n - Len(g) = 1
    BY <1>0, <1>1
  <2>3. z[n] = Refresh[1]
    BY <1>1, <2>2
  <2> HIDE DEF z
  <2>4. \A i \in DOMAIN z : i # n => i < n /\ i \in DOMAIN g
    BY <2>1, <1>1
  <2> QED BY <1>0, <1>1, <2>1, <2>3, <2>4 DEF z
<1> HIDE DEF z, n
<1>3. Saves(z)
  <2> SUFFICES ASSUME NEW i \in DOMAIN z, NEW j \in DOMAIN z, z[i].do = "save",
                      z[j].do \in {"scan", "check"}
               PROVE  i < j
    BY DEF Saves
  <2>1. j = n
    BY <1>2 DEF Lacks
  <2>2. i # n
    BY <1>2
  <2> QED BY <1>2, <2>1, <2>2
<1>4. Forgets(z)
  BY <1>2 DEF Forgets
<1>5. \A t, w : Pending(g, t, w) => Pending(z, t, w)
  BY <1>2 DEF Pending
<1> QED BY <1>1, <1>3, <1>4, <1>5 DEF z

\* Each() has a step for every table.
LEMMA EachCovers ==
  ASSUME NEW w \in {"save", "check"}, NEW S \in SUBSET Tables, NEW t \in S
  PROVE  Pending(Each(w, S), t, w)
<1>1. IsFiniteSet(S)
  BY TablesAssumption, FS_Subset
<1>2. Cardinality(S) \in Nat /\ ExistsBijection(1 .. Cardinality(S), S)
  BY <1>1, FS_CardinalityType
<1> DEFINE n == Cardinality(S)
           o == SetToSeq(S)
<1>3. \E f \in [1 .. n -> S] : IsInjective(f)
  <2>1. PICK f \in Bijection(1 .. n, S) : TRUE
    BY <1>2 DEF ExistsBijection
  <2> QED BY <2>1 DEF Bijection, Injection, IsInjective
<1>4. o \in [1 .. n -> S] /\ IsInjective(o)
  BY <1>3 DEF SetToSeq
<1>5. Each(w, S) = [i \in 1 .. n |-> Do(w, o[i])]
  BY <1>4 DEF Each
<1> HIDE DEF o
<1>6. o \in Surjection(1 .. n, S)
  <2>1. o \in Injection(1 .. n, S)
    BY <1>4 DEF Injection, IsInjective
  <2>2. Cardinality(1 .. n) = n
    <3> HIDE DEF n
    <3>1. n \in Nat
      BY <1>2 DEF n
    <3>2. 1 \in Int /\ n \in Int
      BY <3>1
    <3> QED BY <3>1, <3>2, FS_Interval
  <2> QED BY <1>1, <2>1, <2>2, FS_Injection
<1>7. PICK i \in 1 .. n : o[i] = t
  BY <1>6 DEF Surjection
<1>8. Each(w, S)[i] = Do(w, t) /\ i \in DOMAIN Each(w, S)
  BY <1>5, <1>7
<1>9. Do(w, t).do = w /\ Do(w, t).table = t
  BY DoIs
<1> QED BY <1>8, <1>9 DEF Pending

\* A program that is about one table up to a step, and calm behind it.
LEMMA UnmixedIs ==
  ASSUME NEW s, NEW u, NEW n \in Int, DOMAIN s \subseteq Nat \ {0},
         \A i \in DOMAIN s : /\ i <= n => s[i].do \in Busy /\ s[i].table = u
                             /\ i < n => s[i].do \notin Ends
                             /\ i > n => s[i].do \notin Busy
  PROVE  Unmixed(s)
<1> SUFFICES ASSUME NEW i \in DOMAIN s, NEW j \in DOMAIN s, i < j, s[j].do \in Busy
             PROVE  s[i].do \in Busy \ Ends /\ s[i].table = s[j].table
  BY DEF Unmixed
<1>1. i \in Int /\ j \in Int
  OBVIOUS
<1>2. j <= n
  BY <1>1
<1>3. i < n /\ i <= n
  BY <1>1, <1>2
<1> QED BY <1>2, <1>3

\* What the removal of a directory does: it takes away all it found, and then the directory.
LEMMA ListedDoes ==
  ASSUME NEW t \in Tables
  PROVE  /\ Unmixed(Listed(t)) /\ Saves(Listed(t)) /\ Lacks(Listed(t), Calls)
         /\ Pending(Listed(t), t, "rmdir")
         /\ \A f \in Files : Has(t, f) => Pends(Listed(t), t, "unlink", f)
         /\ Free(Listed(t), t, Busy \ {"unlink", "rmdir"})
<1> DEFINE R == {e \in Steps : e.do = "unlink" /\ e.table = t}
<1>1. ASSUME NEW f \in Files
      PROVE  /\ Removal(t, f) \in Seq(R)
             /\ Has(t, f) => Pends(Removal(t, f), t, "unlink", f)
  <2> DEFINE e == On("unlink", t, f, Absent)
  <2>1. Absent \in Content
    BY DEF Content
  <2>2. e \in R /\ e.do = "unlink" /\ e.table = t /\ e.file = f
    BY <2>1, OnIs
  <2> HIDE DEF e, R
  <2>3. <<e>> \in Seq(R) /\ DOMAIN <<e>> = {1} /\ <<e>>[1] = e
    BY <2>2, SingleIs
  <2>4. <<>> \in Seq(R)
    BY EmptySeq
  <2>5. Pends(<<e>>, t, "unlink", f)
    BY <2>2, <2>3 DEF Pends
  <2>6. Removal(t, f) = IF Has(t, f) THEN <<e>> ELSE <<>>
    BY DEF Removal, e
  <2> QED BY <2>3, <2>4, <2>5, <2>6
<1>2. ASSUME NEW s \in Seq(R), NEW r \in Seq(R)
      PROVE  /\ s \o r \in Seq(R)
             /\ \A f : Pends(s, t, "unlink", f) => Pends(s \o r, t, "unlink", f)
             /\ \A f : Pends(r, t, "unlink", f) => Pends(s \o r, t, "unlink", f)
  <2> HIDE DEF R
  <2>1. /\ s \o r \in Seq(R) /\ Len(s) \in Nat /\ Len(r) \in Nat
        /\ Len(s \o r) = Len(s) + Len(r)
        /\ \A i \in 1 .. Len(s) : (s \o r)[i] = s[i]
        /\ \A i \in Len(s) + 1 .. Len(s) + Len(r) : (s \o r)[i] = r[i - Len(s)]
    BY JoinIs
  <2> DEFINE z == s \o r
             n == Len(s)
  <2>2. DOMAIN z = 1 .. n + Len(r) /\ DOMAIN s = 1 .. n /\ DOMAIN r = 1 .. Len(r)
    BY <2>1, LenProperties
  <2>3. \A i \in DOMAIN s : i \in DOMAIN z /\ z[i] = s[i]
    BY <2>1, <2>2
  <2>4. \A i \in DOMAIN r : n + i \in DOMAIN z /\ z[n + i] = r[i]
    <3>1. \A i \in DOMAIN r : n + i \in Len(s) + 1 .. Len(s) + Len(r) /\ (n + i) - Len(s) = i
      BY <2>1, <2>2
    <3> QED BY <2>1, <2>2, <3>1
  <2> HIDE DEF z, n
  <2>5. \A f : Pends(s, t, "unlink", f) => Pends(z, t, "unlink", f)
    BY <2>3 DEF Pends
  <2>6. \A f : Pends(r, t, "unlink", f) => Pends(z, t, "unlink", f)
    BY <2>4 DEF Pends
  <2> QED BY <2>1, <2>5, <2>6 DEF z
<1> DEFINE a == Removal(t, "marker")
           b == Removal(t, "columns")
           c == Removal(t, "data")
           d == Removal(t, "increment")
           e == Removal(t, "relations")
           y == <<Do("rmdir", t)>>
           h == (((a \o b) \o c) \o d) \o e
           x == h \o y
<1>3. Listed(t) = x
  BY DEF Listed
<1>4. \A f \in Files : f \in {"marker", "columns", "data", "increment", "relations"}
  BY DEF Files
<1>5. /\ a \in Seq(R) /\ b \in Seq(R) /\ c \in Seq(R) /\ d \in Seq(R) /\ e \in Seq(R)
      /\ Has(t, "marker") => Pends(a, t, "unlink", "marker")
      /\ Has(t, "columns") => Pends(b, t, "unlink", "columns")
      /\ Has(t, "data") => Pends(c, t, "unlink", "data")
      /\ Has(t, "increment") => Pends(d, t, "unlink", "increment")
      /\ Has(t, "relations") => Pends(e, t, "unlink", "relations")
  BY <1>1 DEF Files
<1> HIDE DEF a, b, c, d, e
<1>6. h \in Seq(R) /\ \A f \in Files : Has(t, f) => Pends(h, t, "unlink", f)
  <2> HIDE DEF R
  <2> DEFINE ab == a \o b
  <2>1. /\ ab \in Seq(R)
        /\ Has(t, "marker") => Pends(ab, t, "unlink", "marker")
        /\ Has(t, "columns") => Pends(ab, t, "unlink", "columns")
    BY <1>2, <1>5
  <2> HIDE DEF ab
  <2> DEFINE abc == ab \o c
  <2>2. /\ abc \in Seq(R)
        /\ Has(t, "marker") => Pends(abc, t, "unlink", "marker")
        /\ Has(t, "columns") => Pends(abc, t, "unlink", "columns")
        /\ Has(t, "data") => Pends(abc, t, "unlink", "data")
    BY <1>2, <1>5, <2>1
  <2> HIDE DEF abc
  <2> DEFINE abcd == abc \o d
  <2>3. /\ abcd \in Seq(R)
        /\ Has(t, "marker") => Pends(abcd, t, "unlink", "marker")
        /\ Has(t, "columns") => Pends(abcd, t, "unlink", "columns")
        /\ Has(t, "data") => Pends(abcd, t, "unlink", "data")
        /\ Has(t, "increment") => Pends(abcd, t, "unlink", "increment")
    BY <1>2, <1>5, <2>2
  <2> HIDE DEF abcd
  <2> DEFINE k == abcd \o e
  <2>4. /\ k \in Seq(R)
        /\ Has(t, "marker") => Pends(k, t, "unlink", "marker")
        /\ Has(t, "columns") => Pends(k, t, "unlink", "columns")
        /\ Has(t, "data") => Pends(k, t, "unlink", "data")
        /\ Has(t, "increment") => Pends(k, t, "unlink", "increment")
        /\ Has(t, "relations") => Pends(k, t, "unlink", "relations")
    BY <1>2, <1>5, <2>3
  <2>5. h = k
    BY DEF k, abcd, abc, ab
  <2> HIDE DEF k, h
  <2> QED BY <1>4, <2>4, <2>5
<1> HIDE DEF h
<1>7. /\ Len(h) \in Nat /\ DOMAIN h = 1 .. Len(h)
      /\ \A i \in DOMAIN h : h[i].do = "unlink" /\ h[i].table = t
  BY <1>6, LenProperties, ElementOfSeq
<1> DEFINE v == Do("rmdir", t)
           n == Len(h) + 1
<1>8. /\ DOMAIN x = 1 .. n /\ n \in Nat /\ n \in DOMAIN x /\ x[n] = v /\ v.do = "rmdir" /\ v.table = t
      /\ \A i \in DOMAIN h : i \in DOMAIN x /\ x[i] = h[i]
      /\ \A i \in DOMAIN x : i # n => i < n /\ i \in DOMAIN h
  <2>1. h \in Seq(Steps)
    <3>1. R \subseteq Steps
      OBVIOUS
    <3> HIDE DEF R
    <3> QED BY <1>6, <3>1, WidenIs
  <2>2. v \in Steps /\ v.do = "rmdir" /\ v.table = t
    BY DoIs
  <2> HIDE DEF v
  <2>3. y \in Seq(Steps) /\ Len(y) = 1 /\ y[1] = v
    BY <2>2, SingleIs DEF v
  <2> HIDE DEF y
  <2>4. /\ h \o y \in Seq(Steps) /\ Len(h) \in Nat /\ Len(y) \in Nat
        /\ Len(h \o y) = Len(h) + Len(y)
        /\ \A i \in 1 .. Len(h) : (h \o y)[i] = h[i]
        /\ \A i \in Len(h) + 1 .. Len(h) + Len(y) : (h \o y)[i] = y[i - Len(h)]
    BY <2>1, <2>3, JoinIs
  <2>5. DOMAIN x = 1 .. n /\ n \in Nat /\ n \in DOMAIN x
    BY <2>3, <2>4, LenProperties
  <2>6. n \in Len(h) + 1 .. Len(h) + Len(y) /\ n - Len(h) = 1
    BY <2>3, <2>4
  <2>7. x[n] = v
    BY <2>3, <2>4, <2>6
  <2>8. \A i \in DOMAIN h : i \in DOMAIN x /\ x[i] = h[i]
    BY <1>7, <2>4, <2>5
  <2> HIDE DEF x
  <2>9. \A i \in DOMAIN x : i # n => i < n /\ i \in DOMAIN h
    BY <1>7, <2>5
  <2> QED BY <2>2, <2>5, <2>7, <2>8, <2>9
<1> HIDE DEF x, v, n
<1>9. /\ \A f \in Files : Has(t, f) => Pends(x, t, "unlink", f)
      /\ Pending(x, t, "rmdir")
  <2>1. \A f \in Files : Has(t, f) => Pends(x, t, "unlink", f)
    BY <1>6, <1>8 DEF Pends
  <2>2. n \in DOMAIN x /\ x[n].table = t /\ x[n].do = "rmdir"
    BY <1>8
  <2> QED BY <2>1, <2>2 DEF Pending
<1>10. \A i \in DOMAIN x : /\ x[i].do \in {"unlink", "rmdir"} /\ x[i].table = t
                           /\ i # n => x[i].do = "unlink"
  BY <1>7, <1>8
<1>11. Unmixed(x)
  <2>1. DOMAIN x \subseteq Nat \ {0} /\ n \in Int /\ \A i \in DOMAIN x : i <= n /\ ~(i > n)
    BY <1>8
  <2>2. \A i \in DOMAIN x : x[i].do \in Busy /\ (i < n => x[i].do \notin Ends)
    BY <1>8, <1>10 DEF Busy, Ends
  <2> QED BY <1>10, <2>1, <2>2, UnmixedIs
<1>12. Lacks(x, Calls) /\ Lacks(x, {"save"})
  BY <1>10 DEF Lacks, Calls
<1>13. Free(x, t, Busy \ {"unlink", "rmdir"})
  BY <1>10 DEF Free
<1> QED BY <1>3, <1>9, <1>11, <1>12, <1>13, SavesIs

\* Every file that a program opens for writing it writes to next.
Paired(s, t) ==
  \A i \in DOMAIN s : s[i].table = t =>
    /\ s[i].do = "open" => /\ i + 1 \in DOMAIN s /\ s[i + 1].table = t
                           /\ s[i + 1].do = "put" /\ s[i + 1].file = s[i].file
    /\ s[i].do = "put" => /\ i > 1 /\ s[i - 1].table = t
                          /\ s[i - 1].do = "open" /\ s[i - 1].file = s[i].file

\* What the programs do, in which order, and what they leave pending.
LEMMA CalmPrograms ==
  ASSUME NEW S \in SUBSET Tables, NEW t
  PROVE  /\ Unmixed(<<>>) /\ Saves(<<>>) /\ Lacks(<<>>, Calls) /\ Free(<<>>, t, Busy)
         /\ Unmixed(SaveAll) /\ Saves(SaveAll) /\ Free(SaveAll, t, Busy)
         /\ Unmixed(Refresh) /\ Saves(Refresh) /\ Free(Refresh, t, Busy) /\ Forgets(Refresh)
         /\ Unmixed(Each("check", S)) /\ Saves(Each("check", S)) /\ Free(Each("check", S), t, Busy)
         /\ Unmixed(SaveAll \o Refresh) /\ Saves(SaveAll \o Refresh)
         /\ Free(SaveAll \o Refresh, t, Busy)
         /\ t \in Tables => Pending(SaveAll \o Refresh, t, "save")
<1>1. ASSUME NEW s \in Seq(Steps), Lacks(s, Busy) PROVE Unmixed(s) /\ \A u : Free(s, u, Busy)
  BY <1>1 DEF Lacks, Unmixed, Free
<1>2. /\ SaveAll \in Seq(Steps) /\ \A i \in DOMAIN SaveAll : SaveAll[i].do = "save"
      /\ Refresh \in Seq(Steps) /\ \A i \in DOMAIN Refresh : Refresh[i].do = "scan"
      /\ Forgets(Refresh)
  <2>1. DOMAIN Refresh = {1}
    BY EndIs, LenProperties
  <2> QED BY <2>1, EndIs DEF Forgets
<1>3. Each("check", S) \in Seq(Steps) /\ \A i \in DOMAIN Each("check", S) : Each("check", S)[i].do = "check"
  BY EachIs
<1>4. /\ Lacks(SaveAll, Busy) /\ Lacks(Refresh, Busy) /\ Lacks(Each("check", S), Busy)
      /\ Lacks(SaveAll, {"scan", "check"}) /\ Lacks(Refresh, {"save"})
      /\ Lacks(Each("check", S), {"save"})
  BY <1>2, <1>3 DEF Lacks, Busy
<1>5. <<>> \in Seq(Steps) /\ Lacks(<<>>, Busy) /\ Lacks(<<>>, {"save"}) /\ Lacks(<<>>, Calls)
  BY DEF Lacks
<1>6. SaveAll \o Refresh \in Seq(Steps) /\ Lacks(SaveAll \o Refresh, Busy)
  BY <1>2, <1>4, LacksJoin
<1>7. Saves(SaveAll \o Refresh) /\ \A w : Pending(SaveAll, t, w) => Pending(SaveAll \o Refresh, t, w)
  BY <1>2, <1>4, EndSaves
<1>8. t \in Tables => Pending(SaveAll, t, "save")
  BY EachCovers DEF SaveAll
<1> QED BY <1>1, <1>2, <1>3, <1>4, <1>5, <1>6, <1>7, <1>8, SavesIs

\* Loading does nothing to files.
LEMMA LoadDoesMore ==
  ASSUME NEW u \in Tables
  PROVE  /\ Unmixed(Load(u)) /\ Saves(Load(u)) /\ Lacks(Load(u), Calls)
         /\ \A i \in DOMAIN Load(u) : Load(u)[i].do # "list"
<1> DEFINE g == Load(u)
<1>1. \A i \in DOMAIN g : g[i].table = u /\ g[i].do \in {"read", "build"}
  BY LoadDoes
<1>2. g \in Seq(Steps) /\ Len(g) = 3 /\ DOMAIN g = 1 .. 3
  BY LoadIs, LenProperties
<1> HIDE DEF g
<1>3. Lacks(g, Calls) /\ Lacks(g, {"save"}) /\ \A i \in DOMAIN g : g[i].do # "list"
  BY <1>1 DEF Lacks, Calls
<1>4. Unmixed(g)
  <2>1. \A i \in DOMAIN g : g[i].do \in Busy \ Ends /\ i <= 3 /\ ~(i > 3)
    BY <1>1, <1>2 DEF Busy, Ends
  <2>2. DOMAIN g \subseteq Nat \ {0} /\ 3 \in Int
    BY <1>2
  <2> QED BY <1>1, <2>1, <2>2, UnmixedIs
<1> QED BY <1>3, <1>4, SavesIs DEF g

\* Writing a definition puts each of its parts, each right after the file was opened.
LEMMA SetFilesDoMore ==
  ASSUME NEW u \in Tables, NEW d \in Def
  PROVE  /\ Unmixed(SetFiles(u, d)) /\ Saves(SetFiles(u, d)) /\ Lacks(SetFiles(u, d), Calls)
         /\ Puts(SetFiles(u, d), u, d) /\ Free(SetFiles(u, d), u, Busy \ {"open", "put"})
         /\ Paired(SetFiles(u, d), u)
         /\ \A f \in {"columns", "relations"} : Pends(SetFiles(u, d), u, "put", f)
<1> DEFINE g == SetFiles(u, d)
<1>1. \A i \in DOMAIN g : /\ g[i].table = u /\ g[i].do \in {"open", "put"}
                          /\ g[i].part = PartOf(d, g[i].file)
  BY SetFilesDo
<1>2. /\ g \in Seq(Steps) /\ DOMAIN g = 1 .. 6
      /\ g[1].do = "open" /\ g[1].file = "columns" /\ g[2].do = "put" /\ g[2].file = "columns"
      /\ g[3].do = "open" /\ g[3].file = "relations" /\ g[4].do = "put" /\ g[4].file = "relations"
      /\ g[5].do = "open" /\ g[5].file = "increment" /\ g[6].do = "put" /\ g[6].file = "increment"
  <2>1. g \in Seq(Steps) /\ DOMAIN g = 1 .. 6
    BY SetFilesIs, LenProperties
  <2>2. /\ g[1] = On("open", u, "columns", d.columns) /\ g[2] = On("put", u, "columns", d.columns)
        /\ g[3] = On("open", u, "relations", d.relations)
        /\ g[4] = On("put", u, "relations", d.relations)
        /\ g[5] = On("open", u, "increment", Blank) /\ g[6] = On("put", u, "increment", Blank)
    BY SetFilesIs
  <2>3. \A w, f, v : On(w, u, f, v).do = w /\ On(w, u, f, v).file = f
    BY DEF On
  <2> HIDE DEF g
  <2> QED BY <2>1, <2>2, <2>3
<1> HIDE DEF g
<1>3. Lacks(g, Calls) /\ Lacks(g, {"save"})
  BY <1>1 DEF Lacks, Calls
<1>4. Unmixed(g)
  <2>1. \A i \in DOMAIN g : g[i].do \in Busy \ Ends /\ i <= 6 /\ ~(i > 6)
    BY <1>1, <1>2 DEF Busy, Ends
  <2>2. DOMAIN g \subseteq Nat \ {0} /\ 6 \in Int
    BY <1>2
  <2> QED BY <1>1, <2>1, <2>2, UnmixedIs
<1>5. Puts(g, u, d) /\ Free(g, u, Busy \ {"open", "put"})
  BY <1>1 DEF Puts, Free
<1>6. Paired(g, u)
  <2>1. \A i \in DOMAIN g : i = 1 \/ i = 2 \/ i = 3 \/ i = 4 \/ i = 5 \/ i = 6
    BY <1>2
  <2>2. ASSUME NEW i \in DOMAIN g, g[i].do = "open"
        PROVE  /\ i + 1 \in DOMAIN g /\ g[i + 1].table = u
               /\ g[i + 1].do = "put" /\ g[i + 1].file = g[i].file
    <3>1. i = 1 \/ i = 3 \/ i = 5
      BY <1>2, <2>1, <2>2
    <3> QED BY <1>1, <1>2, <3>1
  <2>3. ASSUME NEW i \in DOMAIN g, g[i].do = "put"
        PROVE  /\ i > 1 /\ g[i - 1].table = u
               /\ g[i - 1].do = "open" /\ g[i - 1].file = g[i].file
    <3>1. i = 2 \/ i = 4 \/ i = 6
      BY <1>2, <2>1, <2>3
    <3> QED BY <1>1, <1>2, <3>1
  <2> QED BY <2>2, <2>3 DEF Paired
<1>7. \A f \in {"columns", "relations"} : Pends(g, u, "put", f)
  <2>1. 2 \in DOMAIN g /\ 4 \in DOMAIN g
    BY <1>2
  <2> QED BY <1>1, <1>2, <2>1 DEF Pends
<1> QED BY <1>3, <1>4, <1>5, <1>6, <1>7, SavesIs DEF g

\* Deleting loads, lists, saves and then forgets.
LEMMA DeleteDoesMore ==
  ASSUME NEW u \in Tables
  PROVE  /\ Unmixed(Delete(u)) /\ Saves(Delete(u)) /\ Forgets(Delete(u))
         /\ Free(Delete(u), u, Busy \ {"read", "build", "list"})
<1> DEFINE a == Load(u)
           b == <<Do("list", u)>>
           c == a \o b
           h == c \o SaveAll
           g == Delete(u)
<1>1. g = h \o Refresh
  BY DEF Delete
<1>2. a \in Seq(Steps) /\ \A i \in DOMAIN a : a[i].do \in {"read", "build"} /\ a[i].table = u
  BY LoadIs, LoadDoes
<1>3. b \in Seq(Steps) /\ \A i \in DOMAIN b : b[i].do = "list"
  BY DoIs, SingleIs
<1>4. \A i \in DOMAIN g : \/ i \in 1 .. 3 /\ g[i].table = u /\ g[i].do \in {"read", "build"}
                          \/ i = 4 /\ g[i].table = u /\ g[i].do = "list"
                          \/ i > 4 /\ g[i].do \in {"save", "scan"}
  <2> HIDE DEF a, g
  <2>1. \A i \in DOMAIN g : \/ i \in 1 .. 3 /\ i \in DOMAIN a /\ g[i] = a[i]
                            \/ i = 4 /\ g[i].table = u /\ g[i].do = "list"
                            \/ i > 4 /\ g[i].do \in {"save", "scan"}
    BY DeleteDoes DEF a, g
  <2> QED BY <1>2, <2>1
<1>5. DOMAIN g \subseteq Nat \ {0}
  BY DeleteIs, LenProperties
<1> HIDE DEF a, b, g
<1>6. Lacks(a, {"scan", "check"}) /\ Lacks(b, {"scan", "check"}) /\ Lacks(SaveAll, {"scan", "check"})
  BY <1>2, <1>3, EndIs DEF Lacks
<1>7. c \in Seq(Steps) /\ Lacks(c, {"scan", "check"})
  BY <1>2, <1>3, <1>6, LacksJoin
<1> HIDE DEF c
<1>8. h \in Seq(Steps) /\ Lacks(h, {"scan", "check"})
  BY <1>6, <1>7, EndIs, LacksJoin
<1> HIDE DEF h
<1>9. Saves(h \o Refresh) /\ Forgets(h \o Refresh)
  BY <1>8, EndSaves
<1>10. Unmixed(g)
  <2>1. \A i \in 1 .. 3 : i <= 4 /\ i < 4 /\ ~(i > 4)
    OBVIOUS
  <2>2. ASSUME NEW i \in DOMAIN g
        PROVE  /\ i <= 4 => g[i].do \in Busy /\ g[i].table = u
               /\ i < 4 => g[i].do \notin Ends
               /\ i > 4 => g[i].do \notin Busy
    <3>1. CASE i \in 1 .. 3 /\ g[i].table = u /\ g[i].do \in {"read", "build"}
      BY <2>1, <3>1 DEF Busy, Ends
    <3>2. CASE i = 4 /\ g[i].table = u /\ g[i].do = "list"
      BY <3>2 DEF Busy
    <3>3. CASE i > 4 /\ g[i].do \in {"save", "scan"}
      <4>1. ~(i <= 4) /\ ~(i < 4)
        BY <1>5, <3>3
      <4> QED BY <3>3, <4>1 DEF Busy
    <3> QED BY <1>4, <3>1, <3>2, <3>3
  <2>3. 4 \in Int
    OBVIOUS
  <2> QED BY <1>5, <2>2, <2>3, UnmixedIs
<1>11. Free(g, u, Busy \ {"read", "build", "list"})
  BY <1>4 DEF Free, Busy
<1> QED BY <1>1, <1>9, <1>10, <1>11 DEF g

\* Creating makes the directory, writes the definition and then the marker.
LEMMA CreateDoesMore ==
  ASSUME NEW u \in Tables, NEW d \in Def
  PROVE  /\ Unmixed(Create(u, d)) /\ Saves(Create(u, d)) /\ Pending(Create(u, d), u, "touch")
         /\ Puts(Create(u, d), u, d) /\ Free(Create(u, d), u, Busy \ {"make", "open", "put", "touch"})
         /\ Paired(Create(u, d), u)
         /\ \A f \in {"columns", "relations"} : Pends(Create(u, d), u, "put", f)
<1> DEFINE a == <<Do("make", u)>>
           b == SetFiles(u, d)
           c == <<Do("touch", u)>>
           k == a \o b
           l == k \o c
           h == l \o SaveAll
           g == Create(u, d)
<1>1. g = h \o Refresh
  BY DEF Create
<1>2. a \in Seq(Steps) /\ Lacks(a, Calls) /\ c \in Seq(Steps) /\ Lacks(c, Calls)
  BY DoIs, SingleIs DEF Lacks, Calls
<1>3. /\ b \in Seq(Steps) /\ DOMAIN b = 1 .. 6 /\ Lacks(b, Calls) /\ Puts(b, u, d)
      /\ \A i \in DOMAIN b : b[i].table = u /\ b[i].do \in {"open", "put"}
      /\ Paired(b, u)
      /\ \A f \in {"columns", "relations"} : Pends(b, u, "put", f)
  <2>1. b \in Seq(Steps) /\ DOMAIN b = 1 .. 6
    BY SetFilesIs, LenProperties
  <2> QED BY <2>1, SetFilesDo, SetFilesDoMore
<1>4. Do("make", u).table = u /\ Do("make", u).do = "make"
      /\ Do("touch", u).table = u /\ Do("touch", u).do = "touch"
  BY DoIs
<1>5. /\ g \in Seq(Steps) /\ DOMAIN g = 1 .. Len(g) /\ Len(g) \in Nat /\ Len(g) > 8
      /\ g[1].table = u /\ g[1].do = "make"
      /\ \A i \in 1 .. 6 : g[i + 1] = b[i]
      /\ g[8].table = u /\ g[8].do = "touch"
      /\ \A i \in 9 .. Len(g) : g[i].do \in {"save", "scan"}
  BY <1>4, CreateIs, LenProperties
<1> HIDE DEF a, b, c, g
<1>6. Saves(h \o Refresh)
  <2> DEFINE W == {"scan", "check"}
  <2>1. Lacks(a, W) /\ Lacks(b, W) /\ Lacks(c, W) /\ Lacks(SaveAll, W)
    BY <1>2, <1>3, EndIs DEF Lacks, Calls
  <2> HIDE DEF W
  <2>2. k \in Seq(Steps) /\ Lacks(k, W)
    BY <1>2, <1>3, <2>1, LacksJoin
  <2> HIDE DEF k
  <2>3. l \in Seq(Steps) /\ Lacks(l, W)
    BY <1>2, <2>1, <2>2, LacksJoin
  <2> HIDE DEF l
  <2>4. h \in Seq(Steps) /\ Lacks(h, W)
    BY <2>1, <2>3, EndIs, LacksJoin
  <2> HIDE DEF h
  <2> QED BY <2>4, EndSaves DEF W
<1>7. \A i \in DOMAIN g : i = 1 \/ i \in 2 .. 7 \/ i = 8 \/ i \in 9 .. Len(g)
  BY <1>5
<1>8. \A i \in 2 .. 7 : i - 1 \in DOMAIN b /\ g[i] = b[i - 1]
  <2>1. \A i \in 2 .. 7 : i - 1 \in 1 .. 6 /\ (i - 1) + 1 = i
    OBVIOUS
  <2> QED BY <1>3, <1>5, <2>1
<1>9. \A j \in DOMAIN b : j + 1 \in DOMAIN g /\ g[j + 1] = b[j]
  BY <1>3, <1>5
<1>10. Unmixed(g)
  <2>1. ASSUME NEW i \in DOMAIN g
        PROVE  /\ i <= 8 => g[i].do \in Busy /\ g[i].table = u
               /\ i < 8 => g[i].do \notin Ends
               /\ i > 8 => g[i].do \notin Busy
    <3>1. CASE i = 1
      BY <1>5, <3>1 DEF Busy, Ends
    <3>2. CASE i \in 2 .. 7
      <4>1. g[i].table = u /\ g[i].do \in {"open", "put"}
        BY <1>3, <1>8, <3>2
      <4> QED BY <3>2, <4>1 DEF Busy, Ends
    <3>3. CASE i = 8
      BY <1>5, <3>3 DEF Busy
    <3>4. CASE i \in 9 .. Len(g)
      BY <1>5, <3>4 DEF Busy
    <3> QED BY <1>7, <3>1, <3>2, <3>3, <3>4
  <2>2. DOMAIN g \subseteq Nat \ {0} /\ 8 \in Int
    BY <1>5
  <2> QED BY <2>1, <2>2, UnmixedIs
<1>11. \A i \in DOMAIN g : g[i].do \in {"open", "put"} => i - 1 \in DOMAIN b /\ g[i] = b[i - 1]
  BY <1>5, <1>7, <1>8
<1>12. Puts(g, u, d)
  BY <1>3, <1>11 DEF Puts
<1>13. Free(g, u, Busy \ {"make", "open", "put", "touch"})
  <2>1. ASSUME NEW i \in DOMAIN g PROVE g[i].do \in {"make", "open", "put", "touch", "save", "scan"}
    BY <1>3, <1>5, <1>7, <1>8
  <2> QED BY <2>1 DEF Free, Busy
<1>14. Paired(g, u)
  <2>3. ASSUME NEW i \in DOMAIN g, g[i].do = "open"
        PROVE  /\ i + 1 \in DOMAIN g /\ g[i + 1].table = u
               /\ g[i + 1].do = "put" /\ g[i + 1].file = g[i].file
    <3>1. i - 1 \in DOMAIN b /\ g[i] = b[i - 1] /\ i \in Nat
      BY <1>5, <1>11, <2>3
    <3>2. /\ (i - 1) + 1 \in DOMAIN b /\ b[(i - 1) + 1].table = u
          /\ b[(i - 1) + 1].do = "put" /\ b[(i - 1) + 1].file = b[i - 1].file
      BY <1>3, <2>3, <3>1 DEF Paired
    <3>3. (i - 1) + 1 = i
      BY <3>1
    <3> QED BY <1>9, <3>1, <3>2, <3>3
  <2>4. ASSUME NEW i \in DOMAIN g, g[i].do = "put"
        PROVE  /\ i > 1 /\ g[i - 1].table = u
               /\ g[i - 1].do = "open" /\ g[i - 1].file = g[i].file
    <3>1. i - 1 \in DOMAIN b /\ g[i] = b[i - 1] /\ i \in Nat
      BY <1>5, <1>11, <2>4
    <3> DEFINE j == i - 1
    <3>2. /\ j > 1 /\ b[j - 1].table = u /\ b[j - 1].do = "open" /\ b[j - 1].file = b[j].file
          /\ j - 1 \in DOMAIN b
      BY <1>3, <2>4, <3>1 DEF Paired
    <3>3. (j - 1) + 1 = i - 1 /\ i > 1
      BY <3>1, <3>2
    <3>4. g[(j - 1) + 1] = b[j - 1]
      BY <1>9, <3>2
    <3> QED BY <3>1, <3>2, <3>3, <3>4
  <2> QED BY <2>3, <2>4 DEF Paired
<1>15. \A f \in {"columns", "relations"} : Pends(g, u, "put", f)
  BY <1>3, <1>9 DEF Pends
<1>16. Pending(g, u, "touch")
  <2>1. 8 \in DOMAIN g
    BY <1>5
  <2> QED BY <1>5, <2>1 DEF Pending
<1> QED BY <1>1, <1>6, <1>10, <1>12, <1>13, <1>14, <1>15, <1>16 DEF g

-----------------------------------------------------------------------------
(* A table that the process does nothing to just now.                      *)

\* Files stay opened right before they are written, when steps are put in front.
LEMMA PairsFollows ==
  ASSUME NEW z, NEW g, NEW s, Follows(z, g, s), NEW t, NEW files, NEW p,
         Paired(g, t), FreeRest(s, t, {"open", "put"})
  PROVE  Pairs(z, t, files, p)
<1>1. ASSUME NEW i \in DOMAIN z, z[i].table = t, z[i].do \in {"open", "put"}
      PROVE  i \in DOMAIN g /\ z[i] = g[i]
  <2> DEFINE k == i - Len(g) + 1
  <2>1. \/ i \in DOMAIN g /\ z[i] = g[i]
        \/ k \in DOMAIN s /\ k > 1 /\ z[i] = s[k]
    BY DEF Follows
  <2> HIDE DEF k
  <2> QED BY <1>1, <2>1 DEF FreeRest
<1>2. Len(g) \in Nat /\ DOMAIN g = 1 .. Len(g) /\ \A i \in DOMAIN g : i \in DOMAIN z /\ z[i] = g[i]
  BY DEF Follows
<1>3. \A i \in DOMAIN g : i > 1 => i - 1 \in DOMAIN g
  BY <1>2
<1>4. ASSUME NEW i \in DOMAIN z, z[i].table = t, z[i].do = "open"
      PROVE  i + 1 \in DOMAIN z /\ z[i + 1].table = t /\ z[i + 1].do = "put" /\ z[i + 1].file = z[i].file
  BY <1>1, <1>2, <1>4 DEF Paired
<1>5. ASSUME NEW i \in DOMAIN z, z[i].table = t, z[i].do = "put"
      PROVE  /\ i > 1 /\ z[i - 1].table = t
             /\ z[i - 1].do = "open" /\ z[i - 1].file = z[i].file
  BY <1>1, <1>2, <1>3, <1>5 DEF Paired
<1> QED BY <1>4, <1>5 DEF Pairs

\* After an opening comes the writing of the file that was opened.
LEMMA PairsTail ==
  ASSUME NEW z, NEW s, Follows(z, <<>>, s), NEW t, NEW files, NEW after, NEW p,
         Pairs(s, t, files, p),
         s[1].table = t /\ s[1].do = "open" => after[s[1].file] = p
  PROVE  Pairs(z, t, after, p)
<1>1. /\ DOMAIN s \subseteq Nat \ {0} /\ DOMAIN z \subseteq Nat \ {0}
      /\ \A i \in DOMAIN z : i > 1 => i - 1 \in DOMAIN z
  BY DEF Follows
<1>2. /\ \A i \in DOMAIN s : i > 1 => i - 1 \in DOMAIN z /\ z[i - 1] = s[i]
      /\ \A i \in DOMAIN z : i + 1 \in DOMAIN s /\ z[i] = s[i + 1]
  BY FollowsTail
<1>3. ASSUME NEW i \in DOMAIN z, z[i].table = t, z[i].do = "open"
      PROVE  i + 1 \in DOMAIN z /\ z[i + 1].table = t /\ z[i + 1].do = "put" /\ z[i + 1].file = z[i].file
  <2>1. /\ i + 1 \in DOMAIN s /\ z[i] = s[i + 1] /\ (i + 1) + 1 \in DOMAIN s
        /\ s[(i + 1) + 1].table = t /\ s[(i + 1) + 1].do = "put" /\ s[(i + 1) + 1].file = z[i].file
    BY <1>2, <1>3 DEF Pairs
  <2>2. (i + 1) + 1 > 1 /\ ((i + 1) + 1) - 1 = i + 1
    BY <1>1
  <2> QED BY <1>2, <2>1, <2>2
<1>4. ASSUME NEW i \in DOMAIN z, z[i].table = t, z[i].do = "put"
      PROVE  \/ i = 1 /\ after[z[i].file] = p
             \/ /\ i > 1 /\ z[i - 1].table = t
                /\ z[i - 1].do = "open" /\ z[i - 1].file = z[i].file
  <2>1. i + 1 \in DOMAIN s /\ z[i] = s[i + 1] /\ i + 1 # 1 /\ (i + 1) - 1 = i
    BY <1>1, <1>2
  <2>2. s[i].table = t /\ s[i].do = "open" /\ s[i].file = z[i].file
    BY <1>4, <2>1 DEF Pairs
  <2>3. CASE i = 1
    BY <2>2, <2>3
  <2>4. CASE i > 1
    <3>1. i - 1 \in DOMAIN z
      BY <1>1, <2>4
    <3>2. z[i - 1] = s[(i - 1) + 1] /\ (i - 1) + 1 = i
      BY <1>1, <1>2, <3>1
    <3> QED BY <2>2, <2>4, <3>2
  <2> QED BY <1>1, <2>3, <2>4
<1> QED BY <1>3, <1>4 DEF Pairs

\* What the head of the program says of its table.
LEMMA HeadMeans ==
  ASSUME NEW p, NEW t, Where(p, t), 1 \in DOMAIN todo[p], todo[p][1].table = t
  PROVE  /\ todo[p][1].do = "new" => /\ todo[p] = <<Do("new", t), Do("absent", t)>>
                                     /\ In(p, t) \/ Out(p, t)
         /\ todo[p][1].do = "present" => /\ todo[p] = <<Do("present", t)>>
                                         /\ In(p, t) \/ Out(p, t)
         /\ todo[p][1].do = "absent" => /\ todo[p] = <<Do("absent", t)>>
                                        /\ In(p, t) \/ Fresh(p, t)
         /\ todo[p][1].do \in {"read", "build", "list"} => Loading(p, t)
         /\ todo[p][1].do \in {"make", "touch"} => Creating(p, t)
         /\ todo[p][1].do \in {"open", "put"} => Creating(p, t) \/ Writing(p, t)
         /\ todo[p][1].do \in {"unlink", "rmdir"} => Clearing(p, t)
<1> DEFINE w == todo[p][1].do
<1>1. Rest(p, t) => w \notin Busy
  BY DEF Rest, Free
<1>2. Asking(p, t) => w \in {"new", "absent", "present"}
  BY DEF Asking, Do
<1>3. Loading(p, t) => w \notin Busy \ {"read", "build", "list"}
  BY DEF Loading, Free
<1>4. Creating(p, t) => w \notin Busy \ {"make", "open", "put", "touch"}
  BY DEF Creating, Free
<1>5. Writing(p, t) => w \notin Busy \ {"open", "put"}
  BY DEF Writing, Free
<1>6. Clearing(p, t) => w \notin Busy \ {"unlink", "rmdir"}
  BY DEF Clearing, Free
<1>7. Asking(p, t) =>
        /\ w = "new" => todo[p] = <<Do("new", t), Do("absent", t)>> /\ (In(p, t) \/ Out(p, t))
        /\ w = "present" => todo[p] = <<Do("present", t)>> /\ (In(p, t) \/ Out(p, t))
        /\ w = "absent" => todo[p] = <<Do("absent", t)>> /\ (In(p, t) \/ Fresh(p, t))
  BY DEF Asking, Do
<1> HIDE DEF w
<1>8. w \in {"new", "absent", "present"} => Asking(p, t)
  BY <1>1, <1>3, <1>4, <1>5, <1>6 DEF Where, Busy
<1>9. w \in {"read", "build", "list"} => Loading(p, t)
  BY <1>1, <1>2, <1>4, <1>5, <1>6 DEF Where, Busy
<1>10. w \in {"make", "touch"} => Creating(p, t)
  BY <1>1, <1>2, <1>3, <1>5, <1>6 DEF Where, Busy
<1>11. w \in {"open", "put"} => Creating(p, t) \/ Writing(p, t)
  BY <1>1, <1>2, <1>3, <1>6 DEF Where, Busy
<1>12. w \in {"unlink", "rmdir"} => Clearing(p, t)
  BY <1>1, <1>2, <1>3, <1>4, <1>5 DEF Where, Busy
<1> QED BY <1>7, <1>8, <1>9, <1>10, <1>11, <1>12 DEF w

\* A table that no step is about but those that save and load is there, or it is not.
LEMMA RestMeans ==
  ASSUME NEW p, NEW t, Where(p, t), Free(todo[p], t, Busy)
  PROVE  Rest(p, t)
<1> DEFINE s == todo[p]
<1>1. \A w \in Busy : ~Pending(s, t, w) /\ \A f : ~Pends(s, t, w, f)
  BY DEF Free, Pending, Pends
<1>2. CASE Asking(p, t)
  <2>1. s[1].table = t /\ s[1].do \in {"new", "absent", "present"} /\ 1 \in DOMAIN s
    BY <1>2 DEF Asking, Do
  <2> QED BY <2>1 DEF Free, Busy
<1>3. CASE Loading(p, t)
  BY <1>3 DEF Loading, Rest, In
<1>4. CASE Creating(p, t)
  <2>1. Pending(s, t, "touch")
    BY <1>4 DEF Creating
  <2> QED BY <1>1, <2>1 DEF Busy
<1>5. CASE Clearing(p, t)
  <2>1. Pending(s, t, "rmdir")
    BY <1>5 DEF Clearing
  <2> QED BY <1>1, <2>1 DEF Busy
<1>6. CASE Writing(p, t)
  <2>1. \A f \in {"columns", "relations"} : Kept(t, f) \/ Pends(s, t, "put", f)
    BY <1>6 DEF Writing, Settling
  <2>2. Stored(t)
    BY <1>1, <2>1 DEF Busy, Stored
  <2> QED BY <1>6, <2>2 DEF Writing, Rest, In
<1> QED BY <1>2, <1>3, <1>4, <1>5, <1>6 DEF Where

\* It stays so when nothing happens to it.
LEMMA RestThen ==
  ASSUME NEW p, NEW t, Rest(p, t), NEW g, Follows(todo'[p], g, todo[p]), Free(g, t, Busy),
         todo[p][1].do # "scan",
         ~(todo[p][1].do = "save" /\ todo[p][1].table = t) \/ Stored(t) \/ Out(p, t),
         held'[p][t] = held[p][t], disk'[t] = disk[t], t \in dirs' <=> t \in dirs,
         given'[t] = given[t]
  PROVE  Where(p, t)'
<1> DEFINE s == todo[p]
           z == todo'[p]
<1>1. Free(z, t, Busy)
  <2>1. FreeRest(s, t, Busy)
    BY DEF Rest, Free, FreeRest
  <2> QED BY <2>1, FreeFollows
<1>2. /\ Pending(s, t, "save") /\ ~(s[1].table = t /\ s[1].do = "save") => Pending(z, t, "save")
      /\ Forgets(s) => Forgets(z)
  BY StaysPending
<1>3. /\ Exists(t)' <=> Exists(t)
      /\ Stored(t)' <=> Stored(t)
      /\ \A f : Has(t, f)' <=> Has(t, f)
  BY DEF Exists, Stored, Kept, Has
<1>4. In(p, t) => In(p, t)' \/ Out(p, t)
  BY <1>2, <1>3 DEF In
<1>5. Out(p, t) => Out(p, t)'
  BY <1>2, <1>3 DEF Out
<1> QED BY <1>1, <1>4, <1>5 DEF Rest, Where

\* Between two calls the table is there as it was saved, or it is not there at all.
LEMMA IdleMeans ==
  ASSUME NEW p, NEW t, Where(p, t), todo[p] = <<>>
  PROVE  \/ Exists(t) /\ Stored(t) /\ held[p][t] \in {None, given[t]}
         \/ t \notin dirs /\ (\A f \in Files : ~Has(t, f)) /\ held[p][t] = None
<1>1. \A w : ~Pending(todo[p], t, w) /\ ~Forgets(todo[p]) /\ Free(todo[p], t, Busy)
  BY DEF Pending, Forgets, Free
<1>2. Rest(p, t)
  BY <1>1, RestMeans
<1> QED BY <1>1, <1>2 DEF Rest, In, Out

\* It is as well where a call begins that does nothing to it at first.
LEMMA RestFresh ==
  ASSUME NEW p, NEW t, Where(p, t), todo[p] = <<>>, Free(todo'[p], t, Busy),
         held'[p][t] \in {None, held[p][t]}, disk'[t] = disk[t], t \in dirs' <=> t \in dirs,
         given'[t] = given[t]
  PROVE  Where(p, t)'
<1>1. \/ Exists(t) /\ Stored(t) /\ held[p][t] \in {None, given[t]}
      \/ t \notin dirs /\ (\A f \in Files : ~Has(t, f)) /\ held[p][t] = None
  BY IdleMeans
<1>2. /\ Exists(t)' <=> Exists(t)
      /\ Stored(t)' <=> Stored(t)
      /\ \A f : Has(t, f)' <=> Has(t, f)
  BY DEF Exists, Stored, Kept, Has
<1>3. In(p, t)' \/ Out(p, t)'
  BY <1>1, <1>2 DEF In, Out
<1> QED BY <1>3 DEF Rest, Where

-----------------------------------------------------------------------------
(* The life of the process, and the calls.                                 *)

\* A step on one table leaves the files of the others.
LEMMA ElsewhereSame ==
  ASSUME TypeInv, NEW u \in Tables, NEW t \in Tables, t # u
  PROVE  /\ \A f, v : Written(u, f, v) => disk'[t] = disk[t]
         /\ \A f : Touched(u, f) => disk'[t] = disk[t]
         /\ MakeDir(u) => (t \in dirs' <=> t \in dirs)
<1>1. disk \in [Tables -> [Files -> Content]]
  BY DEF TypeInv, TypeOK
<1> QED BY <1>1 DEF Written, Touched, MakeDir

\* A process that starts or ends leaves every table as it was saved, or saves it.
LEMMA LifeAlone ==
  ASSUME TypeInv, NEW p \in Procs, NEW t \in Tables, Orderly(p), Where(p, t), ~Killed, Life(p)
  PROVE  Where(p, t)'
<1>1. todo[p] = <<>>
  BY DEF Life, Start, Opened, Exit, Ended, Kill, Ready, Orderly
<1>2. UNCHANGED <<disk, dirs, given>>
  BY DEF Life, Start, Opened, Exit, Ended, Kill, Gone
<1>3. \/ todo'[p] = <<>> \/ todo'[p] = Refresh \/ todo'[p] = SaveAll
  BY <1>1 DEF Life, Start, Opened, Exit, Ended, Kill, Gone, TypeInv, TypeOK
<1>4. Free(<<>>, t, Busy) /\ Free(Refresh, t, Busy) /\ Free(SaveAll, t, Busy)
  BY CalmPrograms
<1>5. held'[p][t] \in {None, held[p][t]}
  BY DEF Life, Start, Opened, Exit, Ended, Kill, Gone, NoneHeld, TypeInv, TypeOK
<1>6. Free(todo'[p], t, Busy)
  BY <1>3, <1>4
<1> QED BY <1>1, <1>2, <1>5, <1>6, RestFresh

\* A call begins where nothing was begun.
LEMMA CallAlone ==
  ASSUME TypeInv, NEW p \in Procs, NEW t \in Tables, Where(p, t), NEW u \in Tables,
         \/ GetTable(p, u) \/ DeleteTable(p, u)
         \/ \E d \in Def : CreateTable(p, u, d)
  PROVE  Where(p, t)'
<1>1. todo[p] = <<>> /\ UNCHANGED <<disk, dirs, held, given>>
  BY DEF GetTable, DeleteTable, CreateTable, Call, Ready
<1>2. todo'[p] \in {<<Do("check", u)>>, <<Do("present", u)>>, <<Do("new", u), Do("absent", u)>>}
  BY DEF GetTable, DeleteTable, CreateTable, Call, TypeInv, TypeOK
<1>3. CASE t # u \/ todo'[p] = <<Do("check", u)>>
  <2>1. Free(todo'[p], t, Busy)
    <3>1. \A w : Do(w, u).do = w /\ Do(w, u).table = u
      BY DEF Do
    <3>2. "check" \notin Busy
      BY DEF Busy
    <3>3. CASE todo'[p] = <<Do("check", u)>>
      <4> DEFINE e == Do("check", u)
      <4>1. e.do \notin Busy
        BY <3>1, <3>2
      <4> HIDE DEF e
      <4> QED BY <3>3, <4>1 DEF Free, e
    <3>4. CASE t # u
      <4> DEFINE e == Do("new", u)
                 f == Do("absent", u)
                 h == Do("check", u)
                 k == Do("present", u)
      <4>1. e.table = u /\ f.table = u /\ h.table = u /\ k.table = u
        BY <3>1
      <4>2. todo'[p] \in {<<h>>, <<k>>, <<e, f>>}
        BY <1>2
      <4> HIDE DEF e, f, h, k
      <4>3. \A i \in DOMAIN todo'[p] : todo'[p][i].table = u
        BY <4>1, <4>2
      <4> QED BY <3>4, <4>3 DEF Free
    <3> QED BY <1>3, <3>3, <3>4
  <2> QED BY <1>1, <2>1, RestFresh
<1>4. CASE t = u /\ todo'[p] # <<Do("check", u)>>
  <2>1. \/ Exists(t) /\ Stored(t) /\ held[p][t] \in {None, given[t]}
        \/ t \notin dirs /\ (\A f \in Files : ~Has(t, f)) /\ held[p][t] = None
    BY <1>1, IdleMeans
  <2>2. In(p, t)' \/ Out(p, t)'
    <3>1. /\ Exists(t)' <=> Exists(t)
          /\ Stored(t)' <=> Stored(t)
          /\ \A f : Has(t, f)' <=> Has(t, f)
      BY <1>1 DEF Exists, Stored, Kept, Has
    <3> QED BY <1>1, <2>1, <3>1 DEF In, Out
  <2>3. Asking(p, t)'
    BY <1>2, <1>4, <2>2 DEF Asking
  <2> QED BY <2>3 DEF Where
<1> QED BY <1>3, <1>4, <1>2

\* A query changes the rows of a table only, and then it exists.
LEMMA InsertAlone ==
  ASSUME TypeInv, NEW p \in Procs, NEW t \in Tables, Where(p, t), NEW u \in Tables, InsertRow(p, u)
  PROVE  Where(p, t)'
<1>1. /\ todo[p] = <<>> /\ held[p][u] # None /\ Written(u, "data", Columns)
      /\ UNCHANGED <<dirs, todo, held, given>>
  BY DEF InsertRow, Ready, Written
<1>2. Free(todo'[p], t, Busy)
  BY <1>1, CalmPrograms
<1>3. CASE t # u
  <2>1. disk'[t] = disk[t]
    BY <1>1, <1>3, ElsewhereSame
  <2> QED BY <1>1, <1>2, <2>1, RestFresh
<1>4. CASE t = u
  <2>1. Exists(t) /\ Stored(t) /\ held[p][t] \in {None, given[t]}
    BY <1>1, <1>4, IdleMeans
  <2>2. \A f \in Files : disk'[t][f] = IF f = "data" THEN Columns ELSE disk[t][f]
    <3>1. "data" \in Files /\ Columns \in Content
      BY DEF Files, Content
    <3> QED BY <1>1, <1>4, <3>1, WrittenIs DEF TypeInv, TypeOK
  <2>3. Columns # Absent
    BY ContentIs
  <2>4. Exists(t)' /\ Stored(t)'
    BY <1>1, <2>1, <2>2, <2>3 DEF Exists, Stored, Kept, Has, Files
  <2>5. In(p, t)'
    BY <1>1, <2>1, <2>4 DEF In
  <2> QED BY <1>2, <2>5 DEF Rest, Where
<1> QED BY <1>3, <1>4

\* saveTable() gives a new definition and begins to write it.
LEMMA SaveAlone ==
  ASSUME TypeInv, NEW p \in Procs, NEW t \in Tables, Where(p, t), NEW u \in Tables, NEW d \in Def,
         SaveTable(p, u, d)
  PROVE  Where(p, t)'
<1>1. /\ todo[p] = <<>> /\ held[p][u] # None /\ UNCHANGED <<disk, dirs>>
      /\ held' = [held EXCEPT ![p][u] = d] /\ given' = [given EXCEPT ![u] = d]
      /\ todo' = [todo EXCEPT ![p] = SaveAll \o Refresh]
  BY DEF SaveTable, Call, Ready
<1>2. /\ todo'[p] = SaveAll \o Refresh
      /\ Free(todo'[p], t, Busy) /\ Pending(todo'[p], t, "save")
  <2>1. todo'[p] = SaveAll \o Refresh
    BY <1>1 DEF TypeInv, TypeOK
  <2> QED BY <2>1, CalmPrograms
<1>3. CASE t # u
  <2>1. given'[t] = given[t]
    BY <1>1, <1>3 DEF TypeInv, TypeOK
  <2>2. held'[p][t] = held[p][t]
    BY <1>1, <1>3 DEF TypeInv, TypeOK
  <2> QED BY <1>1, <1>2, <2>1, <2>2, RestFresh
<1>4. CASE t = u
  <2>1. Exists(t)
    BY <1>1, <1>4, IdleMeans
  <2>2. given'[t] = d /\ held'[p][t] = d /\ d # None
    BY <1>1, <1>4, DefIs DEF TypeInv, TypeOK
  <2>3. Exists(t)'
    BY <1>1, <2>1, <2>2 DEF Exists, Has
  <2>4. In(p, t)'
    BY <1>2, <2>2, <2>3 DEF In
  <2> QED BY <1>2, <2>4 DEF Rest, Where
<1> QED BY <1>3, <1>4

-----------------------------------------------------------------------------
(* The steps of a call.                                                    *)

\* The step a process is at.
LEMMA HeadIs ==
  ASSUME TypeInv, NEW p \in Procs, todo[p] # <<>>
  PROVE  /\ Now(p) = todo[p][1] /\ 1 \in DOMAIN todo[p] /\ DOMAIN todo[p] \subseteq Nat \ {0}
         /\ Now(p).table \in Tables /\ Now(p) \in Steps
<1>1. todo[p] \in Seq(Steps)
  BY DEF TypeInv, TypeOK
<1> QED BY <1>1, NowIs, LenProperties

\* A step does nothing to the other tables.
LEMMA OthersAlone ==
  ASSUME TypeInv, NEW p \in Procs, NEW t \in Tables, Orderly(p), Where(p, t),
         todo[p] # <<>>, Now(p).table # t, Now(p).do # "scan",
         NEW g \in Seq(PlainSteps), Then(p, g), Free(g, t, Busy),
         held'[p][t] = held[p][t], disk'[t] = disk[t], t \in dirs' <=> t \in dirs,
         given'[t] = given[t]
  PROVE  Where(p, t)'
<1>1. Follows(todo'[p], g, todo[p])
  BY ThenFollows
<1>2. Now(p) = todo[p][1] /\ 1 \in DOMAIN todo[p] /\ DOMAIN todo[p] \subseteq Nat \ {0}
  BY HeadIs
<1>3. Free(todo[p], t, Busy)
  BY <1>2, UnmixedRest DEF Orderly
<1>4. Rest(p, t)
  BY <1>3, RestMeans
<1> QED BY <1>1, <1>2, <1>4, RestThen

\* When it is the turn of a step that saves or loads, no table is worked on.
LEMMA CalmHead ==
  ASSUME TypeInv, NEW p \in Procs, Orderly(p), todo[p] # <<>>, Now(p).do \notin Busy
  PROVE  /\ \A t : Free(todo[p], t, Busy)
         /\ Now(p).do \in {"scan", "check"} => \A t : ~Pending(todo[p], t, "save")
<1> DEFINE s == todo[p]
<1>1. Now(p) = s[1] /\ 1 \in DOMAIN s /\ DOMAIN s \subseteq Nat \ {0}
  BY HeadIs
<1>2. \A t : Free(s, t, Busy)
  BY <1>1, UnmixedRest DEF Orderly
<1>3. ASSUME Now(p).do \in {"scan", "check"}, NEW i \in DOMAIN s, s[i].do = "save" PROVE FALSE
  <2>1. i < 1
    BY <1>1, <1>3 DEF Orderly, Saves
  <2> QED BY <1>1, <2>1
<1> QED BY <1>2, <1>3 DEF Pending

\* A program that loads a table, behind which nothing is to do for it.
LEMMA LoadsNow ==
  ASSUME NEW t \in Tables, NEW z, NEW g, NEW s, Follows(z, g, s), FreeRest(s, t, Busy),
         g = Load(t) \/ g = Delete(t)
  PROVE  /\ Free(z, t, Busy \ {"read", "build", "list"})
         /\ \A r, d : LoadsWell(z, t, r, d)
         /\ Pending(z, t, "list") => Forgets(z)
<1> DEFINE b == Load(t)
<1>1. b \in Seq(Steps) /\ DOMAIN b = 1 .. 3 /\ Unmixed(b)
      /\ \A i \in DOMAIN b : b[i].table = t /\ b[i].do \in {"read", "build"}
  BY LoadIs, LoadDoes, LoadDoesMore, LenProperties
<1>2. CASE g = b
  <2>1. Free(g, t, Busy \ {"read", "build", "list"}) /\ Free(g, t, {"list"})
    BY <1>1, <1>2 DEF Free
  <2>2. FreeRest(s, t, Busy \ {"read", "build", "list"}) /\ FreeRest(s, t, {"list"})
    BY DEF FreeRest, Busy
  <2>3. Free(z, t, Busy \ {"read", "build", "list"}) /\ Free(z, t, {"list"})
    BY <2>1, <2>2, FreeFollows
  <2>4. DOMAIN b \subseteq DOMAIN z /\ \A i \in DOMAIN b : z[i] = b[i]
    BY <1>2 DEF Follows
  <2>5. \A i \in DOMAIN z \ DOMAIN b : z[i].table = t => z[i].do # "build"
    <3> SUFFICES ASSUME NEW i \in DOMAIN z, i \notin DOMAIN b, z[i].table = t PROVE z[i].do # "build"
      OBVIOUS
    <3> DEFINE k == i - Len(g) + 1
    <3>1. k \in DOMAIN s /\ k > 1 /\ z[i] = s[k]
      BY <1>2 DEF Follows
    <3> HIDE DEF k
    <3> QED BY <3>1 DEF FreeRest, Busy
  <2>6. ~Pending(z, t, "list")
    BY <2>3 DEF Free, Pending
  <2> QED BY <2>3, <2>4, <2>5, <2>6, LoadIsWell
<1>3. CASE g = Delete(t)
  <2>1. Free(g, t, Busy \ {"read", "build", "list"}) /\ Forgets(g)
    BY <1>3, DeleteDoesMore
  <2>2. FreeRest(s, t, Busy \ {"read", "build", "list"})
    BY DEF FreeRest, Busy
  <2>3. Free(z, t, Busy \ {"read", "build", "list"}) /\ Forgets(z)
    BY <2>1, <2>2, FreeFollows, GetsPending
  <2>4. \A i \in DOMAIN g :
          \/ i \in 1 .. 3 /\ i \in DOMAIN b /\ g[i] = b[i]
          \/ i = 4 /\ g[i].table = t /\ g[i].do = "list"
          \/ i > 4 /\ g[i].do \in {"save", "scan"}
    BY <1>3, DeleteDoes
  <2>5. 1 .. 3 \subseteq DOMAIN g
    BY <1>3, DeleteIs, LenProperties
  <2> HIDE DEF b
  <2>6. DOMAIN b \subseteq DOMAIN z /\ \A i \in DOMAIN b : z[i] = b[i]
    <3>1. \A i \in 1 .. 3 : ~(i = 4) /\ ~(i > 4)
      OBVIOUS
    <3>2. \A i \in DOMAIN b : i \in DOMAIN g /\ g[i] = b[i]
      BY <1>1, <2>4, <2>5, <3>1
    <3> QED BY <3>2 DEF Follows
  <2>7. \A i \in DOMAIN z \ DOMAIN b : z[i].table = t => z[i].do # "build"
    <3> SUFFICES ASSUME NEW i \in DOMAIN z, i \notin DOMAIN b, z[i].table = t PROVE z[i].do # "build"
      OBVIOUS
    <3> DEFINE k == i - Len(g) + 1
    <3>1. \/ i \in DOMAIN g /\ z[i] = g[i]
          \/ k \in DOMAIN s /\ k > 1 /\ z[i] = s[k]
      BY DEF Follows
    <3> HIDE DEF k
    <3>2. CASE i \in DOMAIN g /\ z[i] = g[i]
      BY <2>4, <3>2
    <3>3. CASE k \in DOMAIN s /\ k > 1 /\ z[i] = s[k]
      BY <3>3 DEF FreeRest, Busy
    <3> QED BY <3>1, <3>2, <3>3
  <2> QED BY <2>3, <2>6, <2>7, LoadIsWell DEF b
<1> QED BY <1>2, <1>3

\* A table that is there gets loaded.
LEMMA CheckAlone ==
  ASSUME TypeInv, NEW p \in Procs, NEW t \in Tables, Orderly(p), Where(p, t), Check(p)
  PROVE  Where(p, t)'
<1> DEFINE u == Now(p).table
           s == todo[p]
           z == todo'[p]
<1>1. /\ s # <<>> /\ Now(p).do = "check" /\ UNCHANGED <<disk, dirs, held, given, read>>
      /\ Then(p, IF Has(u, "marker") THEN Load(u) ELSE <<>>)
  BY DEF Check, At
<1>2. Now(p).do \notin Busy
  BY <1>1 DEF Busy
<1>3. u \in Tables /\ Now(p) = s[1] /\ 1 \in DOMAIN s
  BY <1>1, HeadIs
<1>4. /\ Load(u) \in Seq(PlainSteps) /\ <<>> \in Seq(PlainSteps) /\ Free(<<>>, t, Busy)
  BY <1>3, ProgramsPlain, CalmPrograms
<1>5. Free(s, t, Busy) /\ ~Pending(s, t, "save")
  BY <1>1, <1>2, CalmHead
<1>6. Rest(p, t)
  BY <1>5, RestMeans
<1>7. CASE Then(p, <<>>)
  <2>1. Follows(z, <<>>, s)
    BY <1>1, <1>4, <1>7, ThenFollows
  <2> QED BY <1>1, <1>3, <1>4, <1>6, <2>1, RestThen
<1>8. CASE Then(p, Load(u)) /\ t # u
  <2>1. Free(Load(u), t, Busy)
    BY <1>3, <1>8, LoadDoes DEF Free
  <2>2. Follows(z, Load(u), s)
    BY <1>1, <1>4, <1>8, ThenFollows
  <2> QED BY <1>1, <1>3, <1>6, <2>1, <2>2, RestThen
<1>9. CASE Then(p, Load(u)) /\ t = u /\ Has(u, "marker")
  <2>1. Exists(t) /\ Stored(t) /\ held[p][t] \in {None, given[t]}
    BY <1>5, <1>6, <1>9 DEF Rest, In, Out, Files
  <2>2. Follows(z, Load(u), s)
    BY <1>1, <1>4, <1>9, ThenFollows
  <2>3. FreeRest(s, t, Busy)
    BY <1>5 DEF Free, FreeRest
  <2>4. /\ Free(z, t, Busy \ {"read", "build", "list"})
        /\ \A r, d : LoadsWell(z, t, r, d)
        /\ Pending(z, t, "list") => Forgets(z)
    BY <1>9, <2>2, <2>3, LoadsNow
  <2>5. Exists(t)' /\ Stored(t)' /\ held'[p][t] \in {None, given'[t]}
    BY <1>1, <2>1 DEF Exists, Stored, Kept, Has
  <2>6. Loading(p, t)'
    BY <2>4, <2>5 DEF Loading
  <2> QED BY <2>6 DEF Where
<1> QED BY <1>1, <1>7, <1>8, <1>9

\* save() writes what is held of a table that is there, which is what it was given.
LEMMA SaveStepAlone ==
  ASSUME TypeInv, NEW p \in Procs, NEW t \in Tables, Orderly(p), Where(p, t), Save(p)
  PROVE  Where(p, t)'
<1> DEFINE u == Now(p).table
           s == todo[p]
           z == todo'[p]
           d == held[p][u]
<1>1. /\ s # <<>> /\ Now(p).do = "save" /\ UNCHANGED <<disk, dirs, held, given, read>>
      /\ Then(p, IF d # None /\ u \in dirs THEN SetFiles(u, d) ELSE <<>>)
  BY DEF Save, At
<1>2. Now(p).do \notin Busy
  BY <1>1 DEF Busy
<1>3. u \in Tables /\ Now(p) = s[1] /\ 1 \in DOMAIN s
  BY <1>1, HeadIs
<1>4. d # None => d \in Def
  BY <1>3 DEF TypeInv, TypeOK
<1>5. /\ d # None => SetFiles(u, d) \in Seq(PlainSteps)
      /\ <<>> \in Seq(PlainSteps) /\ Free(<<>>, t, Busy)
  BY <1>3, <1>4, ProgramsPlain, CalmPrograms
<1>6. Free(s, t, Busy)
  BY <1>1, <1>2, CalmHead
<1>7. Rest(p, t)
  BY <1>6, RestMeans
<1>8. CASE t # u
  <2> DEFINE g == IF d # None /\ u \in dirs THEN SetFiles(u, d) ELSE <<>>
  <2>1. d # None => Free(SetFiles(u, d), t, Busy)
    BY <1>3, <1>4, <1>8, SetFilesDo DEF Free
  <2>2. g \in Seq(PlainSteps) /\ Free(g, t, Busy) /\ Then(p, g)
    BY <1>1, <1>5, <2>1
  <2> HIDE DEF g
  <2>3. Follows(z, g, s)
    BY <1>1, <2>2, ThenFollows
  <2> QED BY <1>1, <1>3, <1>7, <1>8, <2>2, <2>3, RestThen
<1>9. CASE t = u /\ ~(d # None /\ u \in dirs)
  <2>1. Stored(t) \/ Out(p, t)
    BY <1>7, <1>9 DEF Rest, In, Exists
  <2>2. Follows(z, <<>>, s)
    BY <1>1, <1>5, <1>9, ThenFollows
  <2> QED BY <1>1, <1>3, <1>5, <1>7, <2>1, <2>2, RestThen
<1>10. CASE t = u /\ d # None /\ u \in dirs
  <2> DEFINE g == SetFiles(u, d)
  <2>1. Exists(t) /\ given[t] = d
    BY <1>7, <1>10 DEF Rest, In, Out
  <2>2. Follows(z, g, s)
    BY <1>1, <1>5, <1>10, ThenFollows
  <2>3. /\ Puts(g, t, d) /\ Free(g, t, Busy \ {"open", "put"}) /\ Paired(g, t)
        /\ \A f \in {"columns", "relations"} : Pends(g, t, "put", f)
    BY <1>3, <1>4, <1>10, SetFilesDoMore
  <2> HIDE DEF g
  <2>4. FreeRest(s, t, Busy \ {"open", "put"}) /\ FreeRest(s, t, {"open", "put"})
    BY <1>6 DEF Free, FreeRest, Busy
  <2>5. Free(z, t, Busy \ {"open", "put"})
    BY <2>2, <2>3, <2>4, FreeFollows
  <2>6. Puts(z, t, d) /\ Pairs(z, t, disk'[t], p)
    BY <2>2, <2>3, <2>4, PutsFollows, PairsFollows
  <2>7. \A f \in {"columns", "relations"} : Pends(z, t, "put", f)
    BY <2>2, <2>3, GetsPending
  <2>8. Exists(t)' /\ given'[t] = d /\ held'[p][t] = d
    BY <1>1, <1>10, <2>1 DEF Exists, Has
  <2>9. Settling(p, t)'
    BY <2>6, <2>7, <2>8 DEF Settling
  <2>10. Writing(p, t)'
    BY <2>5, <2>8, <2>9 DEF Writing
  <2> QED BY <2>10 DEF Where
<1> QED BY <1>8, <1>9, <1>10

\* The refresh after a save loads what is saved.
LEMMA ScanAlone ==
  ASSUME TypeInv, NEW p \in Procs, NEW t \in Tables, Orderly(p), Where(p, t), Scan(p)
  PROVE  Where(p, t)'
<1> DEFINE s == todo[p]
           z == todo'[p]
           g == Each("check", dirs)
<1>1. /\ s # <<>> /\ Now(p).do = "scan" /\ UNCHANGED <<disk, dirs, given, read>>
      /\ Then(p, g) /\ held' = [held EXCEPT ![p] = NoneHeld]
  BY DEF Scan, At
<1>2. Now(p).do \notin Busy
  BY <1>1 DEF Busy
<1>3. dirs \in SUBSET Tables
  BY DEF TypeInv, TypeOK
<1>4. g \in Seq(PlainSteps) /\ Free(g, t, Busy)
  BY <1>3, ProgramsPlain, CalmPrograms
<1>5. Free(s, t, Busy) /\ ~Pending(s, t, "save")
  BY <1>1, <1>2, CalmHead
<1>6. Rest(p, t)
  BY <1>5, RestMeans
<1>7. Follows(z, g, s)
  BY <1>1, <1>4, ThenFollows
<1>8. Free(z, t, Busy)
  <2>1. FreeRest(s, t, Busy)
    BY <1>5 DEF Free, FreeRest
  <2> QED BY <1>4, <1>7, <2>1, FreeFollows
<1>9. held'[p][t] = None
  BY <1>1 DEF NoneHeld, TypeInv, TypeOK
<1>10. (Exists(t) /\ Stored(t)) \/ Out(p, t)
  BY <1>5, <1>6 DEF Rest, In
<1>11. /\ Exists(t)' <=> Exists(t)
       /\ Stored(t)' <=> Stored(t)
       /\ \A f : Has(t, f)' <=> Has(t, f)
  BY <1>1 DEF Exists, Stored, Kept, Has
<1>12. In(p, t)' \/ Out(p, t)'
  BY <1>1, <1>9, <1>10, <1>11 DEF In, Out
<1> QED BY <1>8, <1>12 DEF Rest, Where

\* The first steps of createTable() and deleteTable(), on a table the schema may have.
LEMMA PresentAlone ==
  ASSUME TypeInv, NEW p \in Procs, NEW t \in Tables, Orderly(p), \A v \in Tables : Where(p, v),
         CheckPresent(p)
  PROVE  Where(p, t)'
<1> DEFINE u == Now(p).table
           s == todo[p]
           z == todo'[p]
<1>1. /\ s # <<>> /\ Now(p).do = "present" /\ UNCHANGED <<disk, dirs, held, given, read>>
      /\ Then(p, IF Has(u, "marker") THEN Delete(u) ELSE <<>>)
  BY DEF CheckPresent, At
<1>2. u \in Tables /\ Now(p) = s[1] /\ 1 \in DOMAIN s
  BY <1>1, HeadIs
<1>3. s = <<Do("present", u)>> /\ (In(p, u) \/ Out(p, u))
  BY <1>1, <1>2, HeadMeans
<1>4. \A v, w : ~Pending(s, v, "save") /\ ~Forgets(s) /\ FreeRest(s, v, Busy)
  <2> DEFINE e == Do("present", u)
  <2>1. e.do = "present"
    BY DEF Do
  <2> HIDE DEF e
  <2>2. DOMAIN s = {1} /\ s[1] = e
    BY <1>3 DEF e
  <2> HIDE DEF s
  <2> QED BY <2>1, <2>2 DEF Pending, Forgets, FreeRest
<1>5. Delete(u) \in Seq(PlainSteps) /\ <<>> \in Seq(PlainSteps) /\ Free(<<>>, t, Busy)
  BY <1>2, ProgramsPlain, CalmPrograms
<1>6. CASE t # u
  <2> DEFINE g == IF Has(u, "marker") THEN Delete(u) ELSE <<>>
  <2>1. Free(Delete(u), t, Busy)
    <3> DEFINE b == Load(u)
               h == Delete(u)
    <3>1. \A i \in DOMAIN h : h[i].table = u \/ h[i].do \in {"save", "scan"}
      <4>1. \A i \in DOMAIN b : b[i].table = u
        BY <1>2, LoadDoes
      <4>2. \A i \in DOMAIN h :
              \/ i \in 1 .. 3 /\ i \in DOMAIN b /\ h[i] = b[i]
              \/ i = 4 /\ h[i].table = u /\ h[i].do = "list"
              \/ i > 4 /\ h[i].do \in {"save", "scan"}
        BY <1>2, DeleteDoes
      <4> HIDE DEF b, h
      <4> QED BY <4>1, <4>2
    <3> QED BY <1>6, <3>1 DEF Free, Busy
  <2>2. g \in Seq(PlainSteps) /\ Free(g, t, Busy) /\ Then(p, g)
    BY <1>1, <1>5, <2>1
  <2> HIDE DEF g
  <2> QED BY <1>1, <1>6, <2>2, OthersAlone
<1>7. CASE t = u /\ Has(u, "marker")
  <2>1. Exists(t) /\ Stored(t) /\ held[p][t] \in {None, given[t]}
    BY <1>3, <1>4, <1>7 DEF In, Out, Files
  <2>2. Follows(z, Delete(u), s)
    BY <1>1, <1>5, <1>7, ThenFollows
  <2>3. /\ Free(z, t, Busy \ {"read", "build", "list"})
        /\ \A r, d : LoadsWell(z, t, r, d)
        /\ Pending(z, t, "list") => Forgets(z)
    BY <1>4, <1>7, <2>2, LoadsNow
  <2>4. Exists(t)' /\ Stored(t)' /\ held'[p][t] \in {None, given'[t]}
    BY <1>1, <2>1 DEF Exists, Stored, Kept, Has
  <2>5. Loading(p, t)'
    BY <2>3, <2>4 DEF Loading
  <2> QED BY <2>5 DEF Where
<1>8. CASE t = u /\ ~Has(u, "marker")
  <2>1. Out(p, t) /\ held[p][t] = None
    BY <1>3, <1>4, <1>8 DEF In, Out, Exists
  <2>2. Follows(z, <<>>, s)
    BY <1>1, <1>5, <1>8, ThenFollows
  <2>3. Free(z, t, Busy)
    BY <1>4, <1>5, <2>2, FreeFollows
  <2>4. Out(p, t)'
    BY <1>1, <2>1 DEF Out, Has
  <2> QED BY <2>3, <2>4 DEF Rest, Where
<1> QED BY <1>6, <1>7, <1>8

\* A table that is not there gets created.
LEMMA AbsentAlone ==
  ASSUME TypeInv, NEW p \in Procs, NEW t \in Tables, Orderly(p), \A v \in Tables : Where(p, v),
         CheckAbsent(p)
  PROVE  Where(p, t)'
<1> DEFINE u == Now(p).table
           s == todo[p]
           z == todo'[p]
           d == arg[p]
<1>1. /\ s # <<>> /\ Now(p).do = "absent" /\ UNCHANGED <<disk, dirs, held, read>>
      /\ Then(p, IF Has(u, "marker") THEN Load(u) ELSE Create(u, d))
      /\ Has(u, "marker") => given' = given
      /\ ~Has(u, "marker") => given' = [given EXCEPT ![u] = d]
  BY DEF CheckAbsent, At
<1>2. u \in Tables /\ Now(p) = s[1] /\ 1 \in DOMAIN s
  BY <1>1, HeadIs
<1>3. s = <<Do("absent", u)>> /\ (In(p, u) \/ Fresh(p, u))
  BY <1>1, <1>2, HeadMeans
<1>4. \A v, w : ~Pending(s, v, "save") /\ ~Forgets(s) /\ FreeRest(s, v, w)
  <2> DEFINE e == Do("absent", u)
  <2>1. e.do = "absent"
    BY DEF Do
  <2> HIDE DEF e
  <2>2. DOMAIN s = {1} /\ s[1] = e
    BY <1>3 DEF e
  <2> HIDE DEF s
  <2> QED BY <2>1, <2>2 DEF Pending, Forgets, FreeRest
<1>5. d \in Def
  BY <1>1, <1>2 DEF TypeInv, Asked
<1>6. Load(u) \in Seq(PlainSteps) /\ Create(u, d) \in Seq(PlainSteps)
  BY <1>2, <1>5, ProgramsPlain
<1>7. CASE t # u
  <2> DEFINE g == IF Has(u, "marker") THEN Load(u) ELSE Create(u, d)
  <2>1. Free(Load(u), t, Busy)
    BY <1>2, <1>7, LoadDoes DEF Free
  <2>2. Free(Create(u, d), t, Busy)
    <3> DEFINE b == SetFiles(u, d)
               h == Create(u, d)
    <3>1. \A i \in DOMAIN h : h[i].table = u \/ h[i].do \in {"save", "scan"}
      <4>1. \A i \in DOMAIN b : b[i].table = u
        BY <1>2, <1>5, SetFilesDo
      <4>2. \A i \in DOMAIN h :
              \/ i = 1 /\ h[i].table = u /\ h[i].do = "make"
              \/ i \in 2 .. 7 /\ i - 1 \in DOMAIN b /\ h[i] = b[i - 1]
              \/ i = 8 /\ h[i].table = u /\ h[i].do = "touch"
              \/ i > 8 /\ h[i].do \in {"save", "scan"}
        BY <1>2, <1>5, CreateDoes
      <4> HIDE DEF b, h
      <4> QED BY <4>1, <4>2
    <3> QED BY <1>7, <3>1 DEF Free, Busy
  <2>3. g \in Seq(PlainSteps) /\ Free(g, t, Busy) /\ Then(p, g)
    BY <1>1, <1>6, <2>1, <2>2
  <2> HIDE DEF g
  <2>4. given'[t] = given[t]
    BY <1>1, <1>7 DEF TypeInv, TypeOK
  <2> QED BY <1>1, <1>7, <2>3, <2>4, OthersAlone
<1>8. CASE t = u /\ Has(u, "marker")
  <2>1. Exists(t) /\ Stored(t) /\ held[p][t] \in {None, given[t]}
    BY <1>3, <1>4, <1>8 DEF In, Fresh, Files
  <2>2. Follows(z, Load(u), s)
    BY <1>1, <1>6, <1>8, ThenFollows
  <2>3. /\ Free(z, t, Busy \ {"read", "build", "list"})
        /\ \A r, x : LoadsWell(z, t, r, x)
        /\ Pending(z, t, "list") => Forgets(z)
    BY <1>4, <1>8, <2>2, LoadsNow
  <2>4. Exists(t)' /\ Stored(t)' /\ held'[p][t] \in {None, given'[t]}
    BY <1>1, <1>8, <2>1 DEF Exists, Stored, Kept, Has
  <2>5. Loading(p, t)'
    BY <2>3, <2>4 DEF Loading
  <2> QED BY <2>5 DEF Where
<1>9. CASE t = u /\ ~Has(u, "marker")
  <2> DEFINE g == Create(u, d)
  <2>1. Fresh(p, t)
    BY <1>3, <1>9 DEF In, Exists
  <2>2. Follows(z, g, s)
    BY <1>1, <1>6, <1>9, ThenFollows
  <2>3. /\ Pending(g, t, "touch") /\ Puts(g, t, d) /\ Paired(g, t)
        /\ Free(g, t, Busy \ {"make", "open", "put", "touch"})
        /\ \A f \in {"columns", "relations"} : Pends(g, t, "put", f)
    BY <1>2, <1>5, <1>9, CreateDoesMore
  <2> HIDE DEF g
  <2>4. Free(z, t, Busy \ {"make", "open", "put", "touch"})
    BY <1>4, <2>2, <2>3, FreeFollows
  <2>5. Puts(z, t, d) /\ Pairs(z, t, disk'[t], p)
    BY <1>4, <2>2, <2>3, PutsFollows, PairsFollows
  <2>6. Pending(z, t, "touch") /\ \A f \in {"columns", "relations"} : Pends(z, t, "put", f)
    BY <2>2, <2>3, GetsPending
  <2>7. given'[t] = d /\ d # None
    BY <1>1, <1>5, <1>9, DefIs DEF TypeInv, TypeOK
  <2>8. Settling(p, t)'
    BY <2>5, <2>6, <2>7 DEF Settling
  <2>9. ~Has(t, "marker")' /\ disk'[t]["data"] = Blank /\ t \in dirs' /\ held'[p][t] = None
    BY <1>1, <1>9, <2>1 DEF Fresh, Has
  <2>10. Creating(p, t)'
    BY <2>4, <2>6, <2>7, <2>8, <2>9 DEF Creating
  <2> QED BY <2>10 DEF Where
<1> QED BY <1>7, <1>8, <1>9

\* The client makes the Table: a table that is not there is its directory and no rows.
LEMMA NewAlone ==
  ASSUME TypeInv, NEW p \in Procs, NEW t \in Tables, Orderly(p), \A v \in Tables : Where(p, v),
         New(p)
  PROVE  Where(p, t)'
<1> DEFINE u == Now(p).table
           s == todo[p]
           z == todo'[p]
<1>1. /\ s # <<>> /\ Now(p).do = "new" /\ UNCHANGED <<held, given, read>>
      /\ Then(p, <<>>) /\ MakeDir(u) /\ Touched(u, "data")
  BY DEF New, At, Proceed
<1>2. u \in Tables /\ Now(p) = s[1] /\ 1 \in DOMAIN s
  BY <1>1, HeadIs
<1>3. s = <<Do("new", u), Do("absent", u)>> /\ (In(p, u) \/ Out(p, u))
  BY <1>1, <1>2, HeadMeans
<1>4. <<>> \in Seq(PlainSteps) /\ Free(<<>>, t, Busy)
  BY <1>2, ProgramsPlain, CalmPrograms
<1>5. CASE t # u
  <2>1. disk'[t] = disk[t] /\ (t \in dirs' <=> t \in dirs)
    BY <1>1, <1>2, <1>5, ElsewhereSame
  <2> QED BY <1>1, <1>4, <1>5, <2>1, OthersAlone
<1>6. CASE t = u
  <2>1. z = <<Do("absent", t)>> /\ ~Pending(s, t, "save") /\ ~Forgets(s)
    <3> DEFINE a == Do("new", t)
               b == Do("absent", t)
    <3>1. a \in Steps /\ a.do = "new" /\ b.do = "absent"
      BY DoIs DEF Do
    <3>2. b \in Steps
      <4>1. "marker" \in Files /\ Absent \in Content
        BY DEF Files, Content
      <4> QED BY <4>1 DEF Do, Steps
    <3>3. s = <<a, b>>
      BY <1>3, <1>6
    <3>4. z = <<>> \o Tail(s)
      BY <1>1, <1>4, ThenIs
    <3> HIDE DEF a, b, s, z
    <3>5. Tail(<<a, b>>) = <<b>> /\ <<b>> \in Seq(Steps)
      BY <3>1, <3>2
    <3>6. z = <<b>>
      <4> DEFINE y == <<b>>
      <4>1. y \in Seq(Steps) /\ z = <<>> \o y
        BY <3>3, <3>4, <3>5
      <4> HIDE DEF y
      <4>2. z = y
        BY <4>1, ConcatEmptySeq
      <4> QED BY <4>2 DEF y
    <3>7. \A i \in DOMAIN s : s[i].do \in {"new", "absent"}
      BY <3>1, <3>3
    <3> QED BY <3>6, <3>7 DEF b, Pending, Forgets
  <2>2. \A f \in Files : disk'[t][f] = IF f = "data" /\ ~Has(t, f) THEN Blank ELSE disk[t][f]
    <3> DEFINE v == IF Has(t, "data") THEN disk[t]["data"] ELSE Blank
    <3>1. "data" \in Files /\ v \in Content /\ Written(t, "data", v)
      BY <1>1, <1>6 DEF Touched, Files, Blank, Content, TypeInv, TypeOK
    <3> HIDE DEF v
    <3>2. \A f \in Files : disk'[t][f] = IF f = "data" THEN v ELSE disk[t][f]
      BY <3>1, WrittenIs DEF TypeInv, TypeOK
    <3> QED BY <3>2 DEF v
  <2>3. t \in dirs'
    BY <1>1, <1>6 DEF MakeDir
  <2>4. CASE In(p, t)
    <3>1. Exists(t) /\ Stored(t) /\ held[p][t] \in {None, given[t]}
      BY <2>1, <2>4 DEF In
    <3>2. \A f \in Files : disk'[t][f] = disk[t][f]
      BY <2>2, <3>1 DEF Exists
    <3>3. Exists(t)' /\ Stored(t)'
      BY <1>1, <2>3, <3>1, <3>2 DEF Exists, Stored, Kept, Has, Files
    <3>4. In(p, t)'
      BY <1>1, <3>1, <3>3 DEF In
    <3> QED BY <2>1, <3>4 DEF Asking, Where
  <2>5. CASE Out(p, t)
    <3>1. held[p][t] = None /\ \A f \in Files : ~Has(t, f)
      BY <2>1, <2>5 DEF Out
    <3>2. disk'[t]["data"] = Blank /\ \A f \in Files \ {"data"} : ~Has(t, f)'
      BY <2>2, <3>1 DEF Files, Has
    <3>3. Fresh(p, t)'
      BY <1>1, <2>3, <3>1, <3>2 DEF Fresh
    <3> QED BY <2>1, <3>3 DEF Asking, Where
  <2> QED BY <1>3, <1>6, <2>4, <2>5
<1> QED BY <1>5, <1>6

\* What is left of what a table is worked on with, when a step of it is done.
LEMMA TailFree ==
  ASSUME NEW z, NEW s, Follows(z, <<>>, s), NEW t
  PROVE  /\ \A W : Free(s, t, W) => Free(z, t, W)
         /\ \A d : Puts(s, t, d) => Puts(z, t, d)
<1>1. \A i \in DOMAIN z : i + 1 \in DOMAIN s /\ z[i] = s[i + 1]
  BY FollowsTail
<1> QED BY <1>1 DEF Free, Puts

\* A directory is made where none was.
LEMMA MakeAlone ==
  ASSUME TypeInv, NEW p \in Procs, NEW t \in Tables, Orderly(p), \A v \in Tables : Where(p, v),
         Make(p)
  PROVE  Where(p, t)'
<1> DEFINE u == Now(p).table
           s == todo[p]
           z == todo'[p]
<1>1. /\ s # <<>> /\ Now(p).do = "make" /\ UNCHANGED <<disk, held, given, read>>
      /\ Then(p, <<>>) /\ MakeDir(u)
  BY DEF Make, At, Proceed
<1>2. u \in Tables /\ Now(p) = s[1] /\ 1 \in DOMAIN s
  BY <1>1, HeadIs
<1>3. <<>> \in Seq(PlainSteps) /\ Free(<<>>, t, Busy)
  BY <1>2, ProgramsPlain, CalmPrograms
<1>4. CASE t # u
  <2>1. t \in dirs' <=> t \in dirs
    BY <1>1, <1>2, <1>4, ElsewhereSame
  <2> QED BY <1>1, <1>3, <1>4, <2>1, OthersAlone
<1>5. CASE t = u
  <2>1. Creating(p, t)
    BY <1>1, <1>2, <1>5, HeadMeans
  <2>2. Follows(z, <<>>, s)
    BY <1>1, <1>3, ThenFollows
  <2>3. Free(z, t, Busy \ {"make", "open", "put", "touch"}) /\ Puts(z, t, given[t])
    BY <2>1, <2>2, TailFree DEF Creating, Settling
  <2>4. /\ Pending(z, t, "touch")
        /\ \A f \in {"columns", "relations"} : Kept(t, f) \/ Pends(z, t, "put", f)
    BY <1>1, <1>2, <2>1, <2>2, StaysPending DEF Creating, Settling
  <2>5. Pairs(z, t, disk[t], p)
    <3>1. Pairs(s, t, disk[t], p) /\ s[1].do # "open"
      BY <1>1, <1>2, <2>1 DEF Creating, Settling
    <3> DEFINE F == disk[t]
    <3> HIDE DEF F, s, z
    <3> QED BY <2>2, <3>1, PairsTail DEF F
  <2>6. Settling(p, t)'
    BY <1>1, <2>3, <2>4, <2>5 DEF Settling, Kept
  <2>7. Creating(p, t)'
    BY <1>1, <2>1, <2>3, <2>4, <2>6 DEF Creating, Has, MakeDir
  <2> QED BY <2>7 DEF Where
<1> QED BY <1>4, <1>5

\* A file of a definition is emptied, and then written: what it gets is what was given.
LEMMA FileAlone ==
  ASSUME TypeInv, NEW p \in Procs, NEW t \in Tables, Orderly(p), \A v \in Tables : Where(p, v),
         OpenFile(p) \/ PutFile(p)
  PROVE  Where(p, t)'
<1> DEFINE u == Now(p).table
           e == Now(p)
           f == Now(p).file
           s == todo[p]
           z == todo'[p]
<1>1. /\ s # <<>> /\ e.do \in {"open", "put"} /\ UNCHANGED <<held, given, read>>
      /\ Then(p, <<>>)
  BY DEF OpenFile, PutFile, At, Proceed
<1>2. u \in Tables /\ e = s[1] /\ 1 \in DOMAIN s
  BY <1>1, HeadIs
<1>3. <<>> \in Seq(PlainSteps) /\ Free(<<>>, t, Busy)
  BY <1>2, ProgramsPlain, CalmPrograms
<1>4. /\ f \in Whole /\ e.part \in SUBSET Columns
  BY <1>1, NowIs, PlainIs
<1>5. Whole \subseteq Files /\ "marker" \notin Whole /\ "data" \notin Whole
      /\ "marker" \in Files /\ "data" \in Files
  BY DEF Whole, Files
<1>6. p \in Content /\ e.part \in Content /\ disk \in [Tables -> [Files -> Content]]
  BY <1>4 DEF Content, TypeInv, TypeOK
<1>7. CASE t # u
  <2>1. disk'[t] = disk[t]
    BY <1>2, <1>7, ElsewhereSame DEF OpenFile, PutFile
  <2>2. t \in dirs' <=> t \in dirs
    BY <1>7 DEF OpenFile, PutFile, MakeDir
  <2> QED BY <1>1, <1>3, <1>7, <2>1, <2>2, OthersAlone
<1>8. CASE t = u
  <2> DEFINE d == given[t]
  <2>1. Creating(p, t) \/ Writing(p, t)
    BY <1>1, <1>2, <1>8, HeadMeans
  <2>2. Settling(p, t)
    BY <2>1 DEF Creating, Writing
  <2>3. Follows(z, <<>>, s)
    BY <1>1, <1>3, ThenFollows
  <2>4. e.part = PartOf(d, f)
    BY <1>1, <1>2, <1>8, <2>2 DEF Settling, Puts
  <2>5. /\ \A g \in Files : g # f => disk'[t][g] = disk[t][g]
        /\ e.do = "open" => disk'[t][f] = p
        /\ e.do = "put" => disk'[t][f] = e.part
        /\ t \in dirs => t \in dirs'
    <3>1. CASE OpenFile(p)
      <4>1. Written(t, f, p) /\ e.do = "open" /\ dirs' = dirs \cup {t}
        BY <1>8, <3>1 DEF OpenFile, At, MakeDir
      <4> HIDE DEF e, f
      <4> QED BY <1>4, <1>5, <1>6, <4>1, WrittenIs
    <3>2. CASE PutFile(p)
      <4>1. e.do = "put" /\ dirs' = dirs
            /\ (disk[t][f] = p => Written(t, f, e.part))
        BY <1>8, <3>2 DEF PutFile, At
      <4>2. disk[t][f] = p
        BY <1>1, <1>2, <1>8, <2>2, <4>1 DEF Settling, Pairs
      <4> HIDE DEF e, f
      <4> QED BY <1>4, <1>5, <1>6, <4>1, <4>2, WrittenIs
    <3> QED BY <3>1, <3>2
  <2>6. (Has(t, "marker")' <=> Has(t, "marker")) /\ disk'[t]["data"] = disk[t]["data"]
    BY <1>4, <1>5, <2>5 DEF Has
  <2>7. /\ Puts(z, t, d)
        /\ \A W : Free(s, t, W) => Free(z, t, W)
    BY <2>2, <2>3, TailFree DEF Settling
  <2>8. Pairs(z, t, disk'[t], p)
    <3> DEFINE F == disk[t]
               G == disk'[t]
    <3>1. Pairs(s, t, F, p) /\ (s[1].table = t /\ s[1].do = "open" => G[s[1].file] = p)
      BY <1>2, <2>2, <2>5 DEF Settling
    <3> HIDE DEF F, G, s, z
    <3>2. Pairs(z, t, G, p)
      BY <2>3, <3>1, PairsTail
    <3> QED BY <3>2 DEF G
  <2>9. \A g \in {"columns", "relations"} : disk'[t][g] = PartOf(d, g) \/ Pends(z, t, "put", g)
    <3> SUFFICES ASSUME NEW g \in {"columns", "relations"}
                 PROVE  disk'[t][g] = PartOf(d, g) \/ Pends(z, t, "put", g)
      OBVIOUS
    <3>1. disk[t][g] = PartOf(d, g) \/ Pends(s, t, "put", g)
      BY <2>2 DEF Settling, Kept
    <3>2. g \in Files
      BY DEF Files
    <3>3. CASE g # f
      <4>1. Pends(s, t, "put", g) => Pends(z, t, "put", g)
        BY <1>2, <2>3, <3>3, StaysPending
      <4> QED BY <2>5, <3>1, <3>2, <3>3, <4>1
    <3>4. CASE g = f /\ e.do = "put"
      BY <2>4, <2>5, <3>4
    <3>5. CASE g = f /\ e.do = "open"
      <4>1. /\ 1 + 1 \in DOMAIN s /\ s[1 + 1].table = t
            /\ s[1 + 1].do = "put" /\ s[1 + 1].file = g
        BY <1>2, <1>8, <2>2, <3>5 DEF Settling, Pairs
      <4>2. Pends(s, t, "put", g)
        BY <4>1 DEF Pends
      <4>3. Pends(z, t, "put", g)
        BY <1>2, <2>3, <3>5, <4>2, StaysPending
      <4> QED BY <4>3
    <3> QED BY <1>1, <3>3, <3>4, <3>5
  <2>10. Settling(p, t)'
    BY <1>1, <2>7, <2>8, <2>9 DEF Settling, Kept
  <2>11. CASE Creating(p, t)
    <3>1. Pending(z, t, "touch")
      BY <1>1, <1>2, <2>3, <2>11, StaysPending DEF Creating
    <3>2. Creating(p, t)'
      BY <1>1, <2>5, <2>6, <2>7, <2>10, <2>11, <3>1 DEF Creating
    <3> QED BY <3>2 DEF Where
  <2>12. CASE Writing(p, t)
    <3>1. Exists(t)'
      BY <1>1, <2>5, <2>6, <2>12 DEF Writing, Exists, Has
    <3>2. Writing(p, t)'
      BY <1>1, <2>7, <2>10, <2>12, <3>1 DEF Writing
    <3> QED BY <3>2 DEF Where
  <2> QED BY <2>1, <2>11, <2>12
<1> QED BY <1>7, <1>8

\* The marker is touched when the definition is in the files, and there are no rows.
LEMMA TouchAlone ==
  ASSUME TypeInv, NEW p \in Procs, NEW t \in Tables, Orderly(p), \A v \in Tables : Where(p, v),
         Touch(p)
  PROVE  Where(p, t)'
<1> DEFINE u == Now(p).table
           s == todo[p]
           z == todo'[p]
<1>1. /\ s # <<>> /\ Now(p).do = "touch" /\ UNCHANGED <<held, given, read>>
      /\ Then(p, <<>>) /\ MakeDir(u) /\ Touched(u, "marker")
  BY DEF Touch, At, Proceed
<1>2. u \in Tables /\ Now(p) = s[1] /\ 1 \in DOMAIN s /\ DOMAIN s \subseteq Nat \ {0}
  BY <1>1, HeadIs
<1>3. <<>> \in Seq(PlainSteps) /\ Free(<<>>, t, Busy)
  BY <1>2, ProgramsPlain, CalmPrograms
<1>4. CASE t # u
  <2>1. disk'[t] = disk[t] /\ (t \in dirs' <=> t \in dirs)
    BY <1>1, <1>2, <1>4, ElsewhereSame
  <2> QED BY <1>1, <1>3, <1>4, <2>1, OthersAlone
<1>5. CASE t = u
  <2>1. Creating(p, t)
    BY <1>1, <1>2, <1>5, HeadMeans
  <2>2. Follows(z, <<>>, s)
    BY <1>1, <1>3, ThenFollows
  <2>3. \A i \in DOMAIN s : i > 1 => s[i].do \notin Busy
    BY <1>1, <1>2, UnmixedRest DEF Orderly, Ends
  <2>4. Free(z, t, Busy)
    <3>1. FreeRest(s, t, Busy)
      BY <2>3 DEF FreeRest
    <3> QED BY <1>3, <1>5, <2>2, <3>1, FreeFollows
  <2>5. Kept(t, "columns") /\ Kept(t, "relations")
    <3>1. \A f : ~Pends(s, t, "put", f)
      <4> SUFFICES ASSUME NEW i \in DOMAIN s, s[i].do = "put" PROVE FALSE
        BY DEF Pends
      <4>1. i # 1
        BY <1>1, <1>2
      <4>2. i > 1
        BY <1>2, <4>1
      <4> QED BY <2>3, <4>2 DEF Busy
    <3> QED BY <2>1, <3>1 DEF Creating, Settling
  <2>6. /\ \A f \in Files : f # "marker" => disk'[t][f] = disk[t][f]
        /\ disk'[t]["marker"] # Absent
    <3>1. "marker" \in Files
      BY DEF Files
    <3> QED BY <1>1, <1>5, <3>1, TouchedIs DEF TypeInv, TypeOK
  <2>7. Exists(t)'
    <3>1. disk[t]["data"] # Absent /\ given[t] # None /\ t \in dirs
      <4>1. Blank # Absent
        BY ContentIs DEF Blank
      <4> QED BY <2>1, <4>1 DEF Creating
    <3> QED BY <1>1, <2>6, <3>1 DEF Exists, Has, Files, MakeDir
  <2>8. Stored(t)' /\ held'[p][t] = None
    BY <1>1, <2>1, <2>5, <2>6 DEF Stored, Kept, Files, Creating
  <2>9. In(p, t)'
    BY <2>7, <2>8 DEF In
  <2> QED BY <2>4, <2>9 DEF Rest, Where
<1> QED BY <1>4, <1>5

\* What was read before a step that reads stays right behind it.
LEMMA ReadsFollows ==
  ASSUME NEW z, NEW s, Follows(z, <<>>, s), NEW t, NEW d, NEW r, NEW r2, NEW f,
         LoadsWell(s, t, r, d), Reads(s[1], t, f),
         f = "columns" => Good(r2.columns, d, "columns"),
         f = "relations" => r2.columns = r.columns /\ Good(r2.relations, d, "relations")
  PROVE  LoadsWell(z, t, r2, d)
<1>1. /\ \A i \in DOMAIN s : i > 1 => i - 1 \in DOMAIN z /\ z[i - 1] = s[i]
      /\ \A i \in DOMAIN z : i + 1 \in DOMAIN s /\ z[i] = s[i + 1]
      /\ DOMAIN s \subseteq Nat \ {0} /\ DOMAIN z \subseteq Nat \ {0}
  BY FollowsTail DEF Follows
<1> SUFFICES ASSUME NEW i \in DOMAIN z, z[i].table = t, z[i].do = "build"
             PROVE  \/ i = 1 /\ Good(r2.columns, d, "columns") /\ Good(r2.relations, d, "relations")
                    \/ i = 2 /\ Reads(z[1], t, "relations") /\ Good(r2.columns, d, "columns")
                    \/ i = 3 /\ Reads(z[1], t, "columns") /\ Reads(z[2], t, "relations")
  BY DEF LoadsWell
<1>2. i \in Nat \ {0} /\ i + 1 \in DOMAIN s /\ s[i + 1] = z[i]
  BY <1>1
<1>3. \/ i + 1 = 1
      \/ i + 1 = 2 /\ Reads(s[1], t, "relations") /\ Good(r.columns, d, "columns")
      \/ i + 1 = 3 /\ Reads(s[1], t, "columns") /\ Reads(s[2], t, "relations")
  BY <1>2 DEF LoadsWell
<1>4. CASE i + 1 = 2 /\ Reads(s[1], t, "relations") /\ Good(r.columns, d, "columns")
  <2>1. i = 1 /\ f = "relations"
    BY <1>2, <1>4 DEF Reads
  <2> QED BY <1>4, <2>1
<1>5. CASE i + 1 = 3 /\ Reads(s[1], t, "columns") /\ Reads(s[2], t, "relations")
  <2>1. i = 2 /\ f = "columns"
    BY <1>2, <1>5 DEF Reads
  <2>2. 1 \in DOMAIN z
    BY <2>1 DEF Follows
  <2>3. z[1] = s[1 + 1]
    BY <1>1, <2>2
  <2>4. Reads(z[1], t, "relations")
    BY <1>5, <2>3
  <2> QED BY <2>1, <2>4
<1> QED BY <1>2, <1>3, <1>4, <1>5

\* A step that reads a file of a definition.
LEMMA ReadIs ==
  ASSUME TypeInv, NEW p \in Procs, Read(p)
  PROVE  LET e == Now(p) IN
         /\ e.file \in {"columns", "relations"} /\ e.do = "read"
         /\ read'[p].columns = IF e.file = "columns" THEN disk[e.table]["columns"]
                                                     ELSE read[p].columns
         /\ read'[p].relations = IF e.file = "relations" THEN disk[e.table]["relations"]
                                                         ELSE read[p].relations
<1> DEFINE e == Now(p)
           f == e.file
           v == disk[e.table][e.file]
           r == read[p]
           y == read'[p]
<1>1. todo[p] # <<>> /\ e.do = "read"
  BY DEF Read, At
<1>2. f \in {"columns", "relations"}
  BY <1>1, NowIs, PlainIs
<1>3. r \in [columns : Content, relations : Content]
  BY DEF TypeInv, TypeOK
<1>4. y = [r EXCEPT ![f] = v]
  BY DEF Read, TypeInv, TypeOK
<1>5. v = disk[e.table][f]
  OBVIOUS
<1> HIDE DEF f, v, r, y, e
<1>6. /\ y.columns = IF f = "columns" THEN v ELSE r.columns
      /\ y.relations = IF f = "relations" THEN v ELSE r.relations
  <2>1. CASE f = "columns"
    BY <1>3, <1>4, <2>1
  <2>2. CASE f = "relations"
    BY <1>3, <1>4, <2>2
  <2> QED BY <1>2, <2>1, <2>2
<1>7. /\ f = "columns" => v = disk[e.table]["columns"]
      /\ f = "relations" => v = disk[e.table]["relations"]
  BY <1>5
<1>8. /\ y.columns = IF f = "columns" THEN disk[e.table]["columns"] ELSE r.columns
      /\ y.relations = IF f = "relations" THEN disk[e.table]["relations"] ELSE r.relations
  BY <1>6, <1>7
<1> QED BY <1>1, <1>2, <1>8 DEF e, f, r, y

\* What is read of a definition file is what was given.
LEMMA ReadAlone ==
  ASSUME TypeInv, NEW p \in Procs, NEW t \in Tables, Orderly(p), Where(p, t), Read(p)
  PROVE  Where(p, t)'
<1> DEFINE u == Now(p).table
           f == Now(p).file
           s == todo[p]
           z == todo'[p]
<1>1. /\ s # <<>> /\ Now(p).do = "read" /\ UNCHANGED <<disk, dirs, held, given>>
      /\ Then(p, <<>>)
  BY DEF Read, At, Proceed
<1>2. u \in Tables /\ Now(p) = s[1] /\ 1 \in DOMAIN s
  BY <1>1, HeadIs
<1>3. <<>> \in Seq(PlainSteps) /\ Free(<<>>, t, Busy)
  BY <1>2, ProgramsPlain, CalmPrograms
<1>4. CASE t # u
  BY <1>1, <1>3, <1>4, OthersAlone
<1>5. CASE t = u
  <2>1. Loading(p, t)
    BY <1>1, <1>2, <1>5, HeadMeans
  <2>2. Follows(z, <<>>, s)
    BY <1>1, <1>3, ThenFollows
  <2> DEFINE d == given[t]
             r == read[p]
             r2 == read'[p]
  <2>3. Free(z, t, Busy \ {"read", "build", "list"})
    BY <2>1, <2>2, TailFree DEF Loading
  <2>4. LoadsWell(z, t, r2, d)
    <3>1. LoadsWell(s, t, r, d) /\ Reads(s[1], t, f) /\ f \in {"columns", "relations"}
      BY <1>1, <1>2, <1>5, <2>1, ReadIs DEF Loading, Reads
    <3>2. Good(disk[t]["columns"], d, "columns") /\ Good(disk[t]["relations"], d, "relations")
      BY <2>1 DEF Loading, Stored, Kept, Good
    <3>3. /\ f = "columns" => Good(r2.columns, d, "columns")
          /\ f = "relations" => r2.columns = r.columns /\ Good(r2.relations, d, "relations")
      BY <1>5, <3>2, ReadIs
    <3> HIDE DEF r, r2, d, s, z, f
    <3> QED BY <2>2, <3>1, <3>3, ReadsFollows
  <2>5. Pending(z, t, "list") => Forgets(z)
    <3>1. Pending(z, t, "list") => Pending(s, t, "list")
      <4>1. \A i \in DOMAIN z : i + 1 \in DOMAIN s /\ z[i] = s[i + 1]
        BY <2>2, FollowsTail
      <4> QED BY <4>1 DEF Pending
    <3>2. Forgets(s) => Forgets(z)
      BY <1>1, <1>2, <2>2, StaysPending
    <3> QED BY <2>1, <3>1, <3>2 DEF Loading
  <2>6. Exists(t)' /\ Stored(t)' /\ held'[p][t] \in {None, given'[t]}
    BY <1>1, <2>1 DEF Loading, Exists, Stored, Kept, Has
  <2>7. Loading(p, t)'
    BY <1>1, <2>3, <2>4, <2>5, <2>6 DEF Loading
  <2> QED BY <2>7 DEF Where
<1> QED BY <1>4, <1>5

\* What is read of a table that is there is its definition.
LEMMA ReadsGiven ==
  ASSUME TypeInv, NEW p \in Procs, Orderly(p), \A v \in Tables : Where(p, v),
         At(p, "build")
  PROVE  /\ IsDef(Found(p)) /\ Found(p) = given[Now(p).table]
         /\ Loading(p, Now(p).table)
<1> DEFINE t == Now(p).table
           d == given[t]
           r == read[p]
           s == todo[p]
<1>1. s # <<>> /\ Now(p).do = "build"
  BY DEF At
<1>2. t \in Tables /\ Now(p) = s[1] /\ 1 \in DOMAIN s
  BY <1>1, HeadIs
<1>3. Loading(p, t)
  BY <1>1, <1>2, HeadMeans
<1>4. d \in Def
  BY <1>2, <1>3 DEF Loading, Exists, TypeInv, TypeOK
<1>5. Good(r.columns, d, "columns") /\ Good(r.relations, d, "relations")
  BY <1>1, <1>2, <1>3 DEF Loading, LoadsWell
<1>6. r \in [columns : Content, relations : Content]
  BY DEF TypeInv, TypeOK
<1>7. Part(r.columns) \notin Procs /\ Part(r.relations) \notin Procs
  <2>1. r.columns \notin Procs /\ r.relations \notin Procs
    BY DEF Orderly
  <2>2. {} \notin Procs
    BY ContentIs
  <2> QED BY <2>1, <2>2 DEF Part
<1>8. [columns |-> Part(r.columns), relations |-> Part(r.relations)] = d
  <2> HIDE DEF d, r
  <2> QED BY <1>4, <1>5, <1>6, <1>7, FoundGiven
<1>9. Found(p) = d
  BY <1>8 DEF Found
<1>10. IsDef(d)
  <2>1. d.columns \in SUBSET Columns /\ d.relations \in SUBSET Columns
        /\ d.relations \subseteq d.columns
    BY <1>4 DEF Def
  <2> HIDE DEF d
  <2> QED BY <2>1, ContentIs DEF IsDef
<1> QED BY <1>3, <1>9, <1>10

\* A Table is made of what was given.
LEMMA BuildAlone ==
  ASSUME TypeInv, NEW p \in Procs, NEW t \in Tables, Orderly(p), \A v \in Tables : Where(p, v),
         Build(p)
  PROVE  Where(p, t)'
<1> DEFINE u == Now(p).table
           s == todo[p]
           z == todo'[p]
<1>1. s # <<>> /\ Now(p).do = "build" /\ At(p, "build")
  BY DEF Build, At
<1>2. u \in Tables /\ Now(p) = s[1] /\ 1 \in DOMAIN s
  BY <1>1, HeadIs
<1>3. IsDef(Found(p)) /\ Found(p) = given[u] /\ Loading(p, u)
  BY <1>1, ReadsGiven
<1>4. /\ held' = [held EXCEPT ![p][u] = given[u]]
      /\ MakeDir(u) /\ Touched(u, "data")
      /\ read' = [read EXCEPT ![p] = NoneRead]
      /\ Then(p, <<>>) /\ given' = given
  BY <1>3 DEF Build, Proceed
<1>5. <<>> \in Seq(PlainSteps) /\ Free(<<>>, t, Busy)
  BY <1>2, ProgramsPlain, CalmPrograms
<1>6. held'[p][t] = IF t = u THEN given[u] ELSE held[p][t]
  <2>1. held \in [Procs -> [Tables -> Def \cup {None}]]
    BY DEF TypeInv, TypeOK
  <2> DEFINE g == given[u]
             y == [held[p] EXCEPT ![u] = g]
  <2>2. y[t] = IF t = u THEN g ELSE held[p][t]
    BY <2>1
  <2>3. held' = [held EXCEPT ![p] = y]
    BY <1>4
  <2> HIDE DEF y, g
  <2>4. held'[p] = y
    BY <2>1, <2>3
  <2> QED BY <2>2, <2>4 DEF g
<1>7. CASE t # u
  <2>1. disk'[t] = disk[t] /\ (t \in dirs' <=> t \in dirs)
    BY <1>2, <1>4, <1>7, ElsewhereSame
  <2> QED BY <1>1, <1>4, <1>5, <1>6, <1>7, <2>1, OthersAlone
<1>8. CASE t = u
  <2> DEFINE d == given[t]
             r == read[p]
             r2 == read'[p]
  <2>1. Follows(z, <<>>, s)
    BY <1>1, <1>4, <1>5, ThenFollows
  <2>2. /\ \A i \in DOMAIN z : i + 1 \in DOMAIN s /\ z[i] = s[i + 1]
        /\ DOMAIN z \subseteq Nat \ {0}
    BY <2>1, FollowsTail DEF Follows
  <2>3. Free(z, t, Busy \ {"read", "build", "list"})
    BY <1>3, <1>8, <2>1, TailFree DEF Loading
  <2>4. LoadsWell(z, t, r2, d)
    <3>1. \A i \in DOMAIN s : s[i].table = t /\ s[i].do = "build" => i = 1
      BY <1>1, <1>2, <1>3, <1>8 DEF Loading, LoadsWell, Reads
    <3>2. \A i \in DOMAIN z : ~(z[i].table = t /\ z[i].do = "build")
      BY <2>2, <3>1
    <3> QED BY <3>2 DEF LoadsWell
  <2>5. Pending(z, t, "list") => Forgets(z)
    <3>1. Pending(z, t, "list") => Pending(s, t, "list")
      BY <2>2 DEF Pending
    <3>2. Forgets(s) => Forgets(z)
      BY <1>1, <1>2, <2>1, StaysPending
    <3> QED BY <1>3, <1>8, <3>1, <3>2 DEF Loading
  <2>6. \A f \in Files : f # "data" => disk'[t][f] = disk[t][f]
    <3>1. "data" \in Files
      BY DEF Files
    <3> QED BY <1>4, <1>8, <3>1, TouchedIs DEF TypeInv, TypeOK
  <2>7. Has(t, "data")'
    <3>1. "data" \in Files
      BY DEF Files
    <3> QED BY <1>4, <1>8, <3>1, TouchedIs DEF TypeInv, TypeOK, Has
  <2>8. Exists(t)' /\ Stored(t)'
    BY <1>3, <1>4, <1>8, <2>6, <2>7 DEF Loading, Exists, Stored, Kept, Has, Files, MakeDir
  <2>9. held'[p][t] = given'[t]
    BY <1>4, <1>6, <1>8
  <2>10. Loading(p, t)'
    BY <1>4, <2>3, <2>4, <2>5, <2>8, <2>9 DEF Loading
  <2> QED BY <2>10 DEF Where
<1> QED BY <1>7, <1>8

\* deleteTable() removes all files of the table, and then its directory.
LEMMA ListAlone ==
  ASSUME TypeInv, NEW p \in Procs, NEW t \in Tables, Orderly(p), \A v \in Tables : Where(p, v),
         ListDir(p)
  PROVE  Where(p, t)'
<1> DEFINE u == Now(p).table
           s == todo[p]
           z == todo'[p]
           g == Listed(u)
<1>1. s # <<>> /\ Now(p).do = "list" /\ UNCHANGED <<disk, dirs, held, read, given>>
  BY DEF ListDir, At
<1>2. u \in Tables /\ Now(p) = s[1] /\ 1 \in DOMAIN s /\ DOMAIN s \subseteq Nat \ {0}
  BY <1>1, HeadIs
<1>3. Loading(p, u)
  BY <1>1, <1>2, HeadMeans
<1>4. Then(p, g)
  BY <1>3 DEF ListDir, Listed, Loading, Exists
<1>5. g \in Seq(PlainSteps)
  <2>1. Removing(u) \subseteq PlainSteps
    BY DEF Removing, PlainSteps
  <2> QED BY <1>2, <2>1, ListedIs, WidenIs
<1>6. CASE t # u
  <2>1. Free(g, t, Busy)
    <3>1. \A i \in DOMAIN g : g[i] \in Removing(u)
      BY <1>2, ListedIs, ElementOfSeq, LenProperties
    <3>2. \A i \in DOMAIN g : g[i].table = u
      BY <3>1 DEF Removing
    <3> QED BY <1>6, <3>2 DEF Free
  <2> QED BY <1>1, <1>4, <1>5, <1>6, <2>1, OthersAlone
<1>7. CASE t = u
  <2>1. Follows(z, g, s)
    BY <1>1, <1>4, <1>5, ThenFollows
  <2>2. /\ Pending(g, t, "rmdir") /\ Free(g, t, Busy \ {"unlink", "rmdir"})
        /\ \A f \in Files : Has(t, f) => Pends(g, t, "unlink", f)
    BY <1>2, <1>7, ListedDoes
  <2>3. Free(z, t, Busy \ {"unlink", "rmdir"})
    <3>1. \A i \in DOMAIN s : i > 1 => s[i].do \notin Busy
      BY <1>1, <1>2, UnmixedRest DEF Orderly, Ends
    <3>2. FreeRest(s, t, Busy \ {"unlink", "rmdir"})
      BY <3>1 DEF FreeRest
    <3> HIDE DEF g, s, z
    <3> QED BY <2>1, <2>2, <3>2, FreeFollows
  <2>4. Forgets(s)
    <3>1. Pending(s, t, "list")
      BY <1>1, <1>2, <1>7 DEF Pending
    <3> QED BY <1>3, <1>7, <3>1 DEF Loading
  <2>5. Forgets(z)
    BY <1>1, <1>2, <2>1, <2>4, StaysPending
  <2>6. Pending(z, t, "rmdir") /\ \A f \in Files : Has(t, f) => Pends(z, t, "unlink", f)
    BY <2>1, <2>2, GetsPending
  <2>7. t \in dirs
    BY <1>3, <1>7 DEF Loading, Exists
  <2>8. Clearing(p, t)'
    BY <1>1, <2>3, <2>5, <2>6, <2>7 DEF Clearing, Has
  <2> QED BY <2>8 DEF Where
<1> QED BY <1>6, <1>7

\* A file that was found is taken away.
LEMMA UnlinkAlone ==
  ASSUME TypeInv, NEW p \in Procs, NEW t \in Tables, Orderly(p), \A v \in Tables : Where(p, v),
         Unlink(p)
  PROVE  Where(p, t)'
<1> DEFINE u == Now(p).table
           s == todo[p]
           z == todo'[p]
           f == Now(p).file
<1>1. /\ s # <<>> /\ Now(p).do = "unlink" /\ UNCHANGED <<dirs, held, read, given>>
      /\ Then(p, <<>>) /\ Written(u, f, Absent)
  BY DEF Unlink, At, Proceed
<1>2. u \in Tables /\ Now(p) = s[1] /\ 1 \in DOMAIN s /\ f \in Files
  BY <1>1, NowIs
<1>3. <<>> \in Seq(PlainSteps) /\ Free(<<>>, t, Busy)
  BY <1>2, ProgramsPlain, CalmPrograms
<1>4. CASE t # u
  <2>1. disk'[t] = disk[t]
    BY <1>1, <1>2, <1>4, ElsewhereSame
  <2> QED BY <1>1, <1>3, <1>4, <2>1, OthersAlone
<1>5. CASE t = u
  <2>1. Clearing(p, t)
    BY <1>1, <1>2, <1>5, HeadMeans
  <2>2. Follows(z, <<>>, s)
    BY <1>1, <1>3, ThenFollows
  <2>3. Free(z, t, Busy \ {"unlink", "rmdir"})
    BY <2>1, <2>2, TailFree DEF Clearing
  <2>4. Pending(z, t, "rmdir") /\ Forgets(z)
    BY <1>1, <1>2, <2>1, <2>2, StaysPending DEF Clearing
  <2>5. \A h \in Files : disk'[t][h] = IF h = f THEN Absent ELSE disk[t][h]
    <3>1. Absent \in Content
      BY DEF Content
    <3> HIDE DEF f
    <3> QED BY <1>1, <1>2, <1>5, <3>1, WrittenIs DEF TypeInv, TypeOK
  <2>6. ASSUME NEW h \in Files, Has(t, h)' PROVE Pends(z, t, "unlink", h)
    <3>1. h # f /\ Has(t, h)
      BY <2>5, <2>6 DEF Has
    <3>2. Pends(s, t, "unlink", h)
      BY <2>1, <3>1 DEF Clearing
    <3> QED BY <1>2, <2>2, <3>1, <3>2, StaysPending
  <2>7. Clearing(p, t)'
    BY <1>1, <2>1, <2>3, <2>4, <2>6 DEF Clearing
  <2> QED BY <2>7 DEF Where
<1> QED BY <1>4, <1>5

\* When the directory is to be removed it is there, and has no files.
LEMMA RemovesEmpty ==
  ASSUME TypeInv, NEW p \in Procs, Orderly(p), \A v \in Tables : Where(p, v), At(p, "rmdir")
  PROVE  LET t == Now(p).table IN
           t \in dirs /\ (\A f \in Files : ~Has(t, f)) /\ Clearing(p, t)
<1> DEFINE t == Now(p).table
           s == todo[p]
<1>1. s # <<>> /\ Now(p).do = "rmdir"
  BY DEF At
<1>2. t \in Tables /\ Now(p) = s[1] /\ 1 \in DOMAIN s /\ DOMAIN s \subseteq Nat \ {0}
  BY <1>1, HeadIs
<1>3. Clearing(p, t)
  BY <1>1, <1>2, HeadMeans
<1>4. \A i \in DOMAIN s : i > 1 => s[i].do \notin Busy
  BY <1>1, <1>2, UnmixedRest DEF Orderly, Ends
<1>5. \A f : ~Pends(s, t, "unlink", f)
  <2> SUFFICES ASSUME NEW i \in DOMAIN s, s[i].do = "unlink" PROVE FALSE
    BY DEF Pends
  <2>1. i > 1
    BY <1>1, <1>2
  <2> QED BY <1>4, <2>1 DEF Busy
<1> QED BY <1>3, <1>5 DEF Clearing

\* The directory is taken away when it is empty.
LEMMA RmdirAlone ==
  ASSUME TypeInv, NEW p \in Procs, NEW t \in Tables, Orderly(p), \A v \in Tables : Where(p, v),
         RemoveDir(p)
  PROVE  Where(p, t)'
<1> DEFINE u == Now(p).table
           s == todo[p]
           z == todo'[p]
<1>1. s # <<>> /\ Now(p).do = "rmdir" /\ At(p, "rmdir")
  BY DEF RemoveDir, At
<1>2. u \in Tables /\ Now(p) = s[1] /\ 1 \in DOMAIN s /\ DOMAIN s \subseteq Nat \ {0}
  BY <1>1, HeadIs
<1>3. u \in dirs /\ (\A f \in Files : ~Has(u, f)) /\ Clearing(p, u)
  BY <1>1, RemovesEmpty
<1>4. dirs' = dirs \ {u} /\ UNCHANGED <<disk, held, read, given>> /\ Then(p, <<>>)
  BY <1>3 DEF RemoveDir, Proceed
<1>5. <<>> \in Seq(PlainSteps) /\ Free(<<>>, t, Busy)
  BY <1>2, ProgramsPlain, CalmPrograms
<1>6. CASE t # u
  <2>1. t \in dirs' <=> t \in dirs
    BY <1>4, <1>6
  <2> QED BY <1>1, <1>4, <1>5, <1>6, <2>1, OthersAlone
<1>7. CASE t = u
  <2>1. Follows(z, <<>>, s)
    BY <1>1, <1>4, <1>5, ThenFollows
  <2>2. Free(z, t, Busy)
    <3>1. \A i \in DOMAIN s : i > 1 => s[i].do \notin Busy
      BY <1>1, <1>2, UnmixedRest DEF Orderly, Ends
    <3>2. FreeRest(s, t, Busy)
      BY <3>1 DEF FreeRest
    <3> QED BY <1>5, <2>1, <3>2, FreeFollows
  <2>3. Forgets(z)
    BY <1>1, <1>2, <1>3, <1>7, <2>1, StaysPending DEF Clearing
  <2>4. Out(p, t)'
    BY <1>3, <1>4, <1>7, <2>3 DEF Out, Has
  <2> QED BY <2>2, <2>4 DEF Rest, Where
<1> QED BY <1>6, <1>7

-----------------------------------------------------------------------------
(* The order in which the process does its steps.                          *)

\* A process stays orderly when a step puts an orderly program in front of the rest.
LEMMA OrderlyThen ==
  ASSUME TypeInv, NEW p \in Procs, Orderly(p), todo[p] # <<>>, NEW g \in Seq(PlainSteps),
         Then(p, g), Unmixed(g), Saves(g), g = <<>> \/ Now(p).do \notin Busy \ Ends,
         \/ Lacks(g, {"scan", "check"})
         \/ \A i \in DOMAIN todo[p] : i > 1 => todo[p][i].do # "save",
         phase'[p] = phase[p], read'[p].columns \notin Procs, read'[p].relations \notin Procs
  PROVE  Orderly(p)'
<1> DEFINE s == todo[p]
           z == todo'[p]
<1>1. Follows(z, g, s) /\ Now(p) = s[1]
  BY ThenFollows, HeadIs
<1>2. Unmixed(s) /\ Saves(s) /\ phase'[p] # "down"
  BY DEF Orderly
<1>3. Unmixed(z)
  <2> HIDE DEF s, z
  <2> QED BY <1>1, <1>2, UnmixedFollows
<1>4. Saves(z)
  <2> HIDE DEF z
  <2> QED BY <1>1, <1>2, SavesFollows DEF Lacks
<1> QED BY <1>2, <1>3, <1>4 DEF Orderly

\* A step that is just done.
LEMMA OrderlyTail ==
  ASSUME TypeInv, NEW p \in Procs, Orderly(p), todo[p] # <<>>, Then(p, <<>>),
         phase'[p] = phase[p], read'[p].columns \notin Procs, read'[p].relations \notin Procs
  PROVE  Orderly(p)'
<1>1. <<>> \in Seq(PlainSteps)
  OBVIOUS
<1>2. Unmixed(<<>>) /\ Saves(<<>>) /\ Lacks(<<>>, {"scan", "check"})
  BY DEF Unmixed, Saves, Lacks
<1> QED BY <1>1, <1>2, OrderlyThen

\* A program that is begun.
LEMMA OrderlyFresh ==
  ASSUME NEW p \in Procs, Orderly(p), Unmixed(todo'[p]), Saves(todo'[p]), phase'[p] # "down",
         read' = read
  PROVE  Orderly(p)'
BY DEF Orderly

\* A process stays orderly when it starts or ends.
LEMMA LifeOrderly ==
  ASSUME TypeInv, NEW p \in Procs, Orderly(p), ~Killed, Life(p)
  PROVE  Orderly(p)'
<1>1. Unmixed(<<>>) /\ Saves(<<>>) /\ Unmixed(SaveAll) /\ Saves(SaveAll)
      /\ Unmixed(Refresh) /\ Saves(Refresh)
  BY CalmPrograms
<1>2. CASE Ended(p)
  <2>1. todo'[p] = <<>> /\ read'[p].columns = Absent /\ read'[p].relations = Absent
    BY <1>2 DEF Ended, Gone, NoneRead, TypeInv, TypeOK
  <2> QED BY <1>1, <2>1, ValuesAssumption DEF Orderly
<1>3. CASE Start(p) \/ Opened(p) \/ Exit(p)
  <2>1. todo'[p] \in {<<>>, Refresh, SaveAll} /\ phase'[p] # "down" /\ read' = read
    BY <1>3 DEF Start, Opened, Exit, Ready, TypeInv, TypeOK
  <2> QED BY <1>1, <2>1, OrderlyFresh
<1> QED BY <1>2, <1>3 DEF Life, Kill

\* Every call is an orderly program.
LEMMA CallOrderly ==
  ASSUME TypeInv, NEW p \in Procs, Orderly(p), NEW u \in Tables,
         \/ GetTable(p, u) \/ DeleteTable(p, u) \/ InsertRow(p, u)
         \/ \E d \in Def : CreateTable(p, u, d) \/ SaveTable(p, u, d)
  PROVE  Orderly(p)'
<1>1. phase[p] = "up" /\ phase' = phase /\ read' = read
  BY DEF GetTable, DeleteTable, InsertRow, CreateTable, SaveTable, Call, Ready
<1>2. Unmixed(SaveAll \o Refresh) /\ Saves(SaveAll \o Refresh)
  BY CalmPrograms
<1>3. CASE InsertRow(p, u)
  BY <1>3 DEF InsertRow, Orderly
<1>4. CASE \E d \in Def : SaveTable(p, u, d)
  <2>1. todo'[p] = SaveAll \o Refresh
    BY <1>4 DEF SaveTable, Call, TypeInv, TypeOK
  <2> QED BY <1>1, <1>2, <2>1, OrderlyFresh
<1>5. CASE GetTable(p, u) \/ DeleteTable(p, u) \/ \E d \in Def : CreateTable(p, u, d)
  <2>1. todo'[p] \in {<<Do("check", u)>>, <<Do("present", u)>>, <<Do("new", u), Do("absent", u)>>}
    BY <1>5 DEF GetTable, DeleteTable, CreateTable, Call, TypeInv, TypeOK
  <2> DEFINE a == Do("new", u)
             b == Do("absent", u)
             c == Do("check", u)
             e == Do("present", u)
             z == todo'[p]
  <2>2. /\ a.do = "new" /\ a.table = u /\ b.do = "absent" /\ b.table = u
        /\ c.do = "check" /\ e.do = "present"
    BY DEF Do
  <2>3. z \in {<<c>>, <<e>>, <<a, b>>}
    BY <2>1
  <2> HIDE DEF a, b, c, e, z
  <2>4. "new" \in Busy \ Ends
    BY DEF Busy, Ends
  <2>5. CASE z = <<a, b>>
    <3>1. DOMAIN z = 1 .. 2 /\ z[1] = a /\ z[2] = b
      BY <2>5
    <3>2. \A i, j \in DOMAIN z : i < j => i = 1 /\ j = 2
      BY <3>1
    <3>3. Unmixed(z)
      BY <2>2, <2>4, <3>1, <3>2 DEF Unmixed
    <3>4. \A i \in DOMAIN z : z[i].do # "save"
      BY <2>2, <3>1
    <3> QED BY <3>3, <3>4, <1>1, OrderlyFresh DEF Saves, z
  <2>6. CASE z = <<c>> \/ z = <<e>>
    <3>1. DOMAIN z = {1} /\ z[1].do # "save"
      BY <2>2, <2>6
    <3>2. Unmixed(z) /\ Saves(z)
      BY <3>1 DEF Unmixed, Saves
    <3> QED BY <3>2, <1>1, OrderlyFresh DEF z
  <2> QED BY <2>3, <2>5, <2>6
<1> QED BY <1>3, <1>4, <1>5

\* The steps that do not go on with another program.
LEMMA TailOrderly ==
  ASSUME TypeInv, NEW p \in Procs, Orderly(p), \A v \in Tables : Where(p, v),
         \/ Read(p) \/ Build(p) \/ New(p) \/ Make(p) \/ OpenFile(p) \/ PutFile(p)
         \/ Touch(p) \/ Unlink(p) \/ RemoveDir(p)
  PROVE  Orderly(p)'
<1>1. read[p].columns \notin Procs /\ read[p].relations \notin Procs
  BY DEF Orderly
<1>2. CASE New(p) \/ Make(p) \/ OpenFile(p) \/ PutFile(p) \/ Touch(p) \/ Unlink(p)
  <2>1. todo[p] # <<>> /\ Then(p, <<>>) /\ phase' = phase /\ read' = read
    BY <1>2 DEF New, Make, OpenFile, PutFile, Touch, Unlink, At, Proceed
  <2> QED BY <1>1, <2>1, OrderlyTail
<1>3. CASE Read(p)
  <2> DEFINE t == Now(p).table
  <2>1. todo[p] # <<>> /\ Then(p, <<>>) /\ phase' = phase /\ Now(p).do = "read"
    BY <1>3 DEF Read, At, Proceed
  <2>2. t \in Tables /\ Now(p) = todo[p][1] /\ 1 \in DOMAIN todo[p]
    BY <2>1, HeadIs
  <2>3. Loading(p, t)
    BY <2>1, <2>2, HeadMeans
  <2>4. disk[t]["columns"] = given[t].columns /\ disk[t]["relations"] = given[t].relations
    BY <2>3 DEF Loading, Stored, Kept, PartOf
  <2>5. given[t] \in Def
    BY <2>2, <2>3 DEF Loading, Exists, TypeInv, TypeOK
  <2>6. disk[t]["columns"] \notin Procs /\ disk[t]["relations"] \notin Procs
    BY <2>4, <2>5, DefIs, ContentIs
  <2>7. read'[p].columns \notin Procs /\ read'[p].relations \notin Procs
    BY <1>1, <1>3, <2>6, ReadIs
  <2> QED BY <2>1, <2>7, OrderlyTail
<1>4. CASE Build(p)
  <2>1. At(p, "build")
    BY <1>4 DEF Build
  <2>2. IsDef(Found(p))
    BY <2>1, ReadsGiven
  <2>3. /\ todo[p] # <<>> /\ Then(p, <<>>) /\ phase' = phase
        /\ read' = [read EXCEPT ![p] = NoneRead]
    BY <1>4, <2>2 DEF Build, At, Proceed
  <2>4. read'[p].columns = Absent /\ read'[p].relations = Absent
    BY <2>3 DEF NoneRead, TypeInv, TypeOK
  <2> QED BY <2>3, <2>4, ValuesAssumption, OrderlyTail
<1>5. CASE RemoveDir(p)
  <2>1. At(p, "rmdir")
    BY <1>5 DEF RemoveDir
  <2>2. Now(p).table \in dirs
    BY <2>1, RemovesEmpty
  <2>3. todo[p] # <<>> /\ Then(p, <<>>) /\ phase' = phase /\ read' = read
    BY <1>5, <2>2 DEF RemoveDir, At, Proceed
  <2> QED BY <1>1, <2>3, OrderlyTail
<1> QED BY <1>2, <1>3, <1>4, <1>5

\* The steps that do.
LEMMA ThenOrderly ==
  ASSUME TypeInv, NEW p \in Procs, Orderly(p), \A v \in Tables : Where(p, v),
         \/ Check(p) \/ CheckAbsent(p) \/ CheckPresent(p) \/ Save(p) \/ Scan(p) \/ ListDir(p)
  PROVE  Orderly(p)'
<1> DEFINE u == Now(p).table
           s == todo[p]
<1>1. /\ s # <<>> /\ phase' = phase /\ read' = read
  BY DEF Check, CheckAbsent, CheckPresent, Save, Scan, ListDir, At
<1>2. u \in Tables /\ Now(p) = s[1] /\ 1 \in DOMAIN s
  BY <1>1, HeadIs
<1>3. read'[p].columns \notin Procs /\ read'[p].relations \notin Procs /\ phase'[p] = phase[p]
  BY <1>1 DEF Orderly
<1>4. /\ <<>> \in Seq(PlainSteps) /\ Load(u) \in Seq(PlainSteps)
      /\ Unmixed(Load(u)) /\ Saves(Load(u)) /\ Lacks(Load(u), {"scan", "check"})
  BY <1>2, ProgramsPlain, LoadDoesMore DEF Lacks, Calls
<1>5. CASE Then(p, <<>>)
  BY <1>1, <1>3, <1>5, OrderlyTail
<1>6. CASE Check(p) /\ Then(p, Load(u))
  <2>1. Now(p).do \notin Busy
    BY <1>6 DEF Check, At, Busy
  <2> QED BY <1>1, <1>3, <1>4, <1>6, <2>1, OrderlyThen
<1>7. CASE CheckAbsent(p)
  <2>1. Now(p).do = "absent" /\ arg[p] \in Def
    BY <1>2, <1>7 DEF CheckAbsent, At, TypeInv, Asked
  <2>2. s = <<Do("absent", u)>>
    BY <1>1, <1>2, <2>1, HeadMeans
  <2>3. \A i \in DOMAIN s : i > 1 => s[i].do # "save"
    BY <2>2
  <2>4. Now(p).do \notin Busy \ Ends
    BY <2>1 DEF Ends
  <2> DEFINE h == Create(u, arg[p])
  <2>5. h \in Seq(PlainSteps) /\ Unmixed(h) /\ Saves(h)
    BY <1>2, <2>1, ProgramsPlain, CreateDoesMore
  <2>6. Then(p, Load(u)) \/ Then(p, h)
    BY <1>7 DEF CheckAbsent
  <2> HIDE DEF h
  <2> QED BY <1>1, <1>3, <1>4, <2>3, <2>4, <2>5, <2>6, OrderlyThen
<1>8. CASE CheckPresent(p) /\ Then(p, Delete(u))
  <2>1. Now(p).do = "present"
    BY <1>8 DEF CheckPresent, At
  <2>2. s = <<Do("present", u)>>
    BY <1>1, <1>2, <2>1, HeadMeans
  <2>3. \A i \in DOMAIN s : i > 1 => s[i].do # "save"
    BY <2>2
  <2>4. Now(p).do \notin Busy \ Ends
    BY <2>1 DEF Ends
  <2>5. Delete(u) \in Seq(PlainSteps) /\ Unmixed(Delete(u)) /\ Saves(Delete(u))
    BY <1>2, ProgramsPlain, DeleteDoesMore
  <2> QED BY <1>1, <1>3, <1>8, <2>3, <2>4, <2>5, OrderlyThen
<1>9. CASE Save(p) /\ held[p][u] # None /\ Then(p, SetFiles(u, held[p][u]))
  <2> DEFINE h == SetFiles(u, held[p][u])
  <2>1. Now(p).do \notin Busy
    BY <1>9 DEF Save, At, Busy
  <2>2. held[p][u] \in Def
    BY <1>2, <1>9 DEF TypeInv, TypeOK
  <2>3. h \in Seq(PlainSteps) /\ Unmixed(h) /\ Saves(h) /\ Lacks(h, {"scan", "check"})
    BY <1>2, <2>2, ProgramsPlain, SetFilesDoMore DEF Lacks, Calls
  <2>4. Then(p, h)
    BY <1>9
  <2> HIDE DEF h
  <2> QED BY <1>1, <1>3, <2>1, <2>3, <2>4, OrderlyThen
<1>10. CASE Scan(p)
  <2> DEFINE h == Each("check", dirs)
  <2>1. Now(p).do = "scan" /\ Now(p).do \notin Busy /\ Then(p, h)
    BY <1>10 DEF Scan, At, Busy
  <2>2. \A t : ~Pending(s, t, "save")
    BY <1>1, <2>1, CalmHead
  <2>3. \A i \in DOMAIN s : i > 1 => s[i].do # "save"
    BY <2>2 DEF Pending
  <2>4. dirs \in SUBSET Tables
    BY DEF TypeInv, TypeOK
  <2>5. h \in Seq(PlainSteps) /\ Unmixed(h) /\ Saves(h)
    <3>1. h \in Seq(PlainSteps)
      BY <1>2, <2>4, ProgramsPlain
    <3>2. Unmixed(h) /\ Saves(h)
      BY <2>4, CalmPrograms
    <3> QED BY <3>1, <3>2
  <2> HIDE DEF h
  <2> QED BY <1>1, <1>3, <2>1, <2>3, <2>5, OrderlyThen
<1>11. CASE ListDir(p) /\ Then(p, Listed(u))
  <2>1. Now(p).do \notin Busy \ Ends
    BY <1>11 DEF ListDir, At, Ends
  <2>2. Listed(u) \in Seq(PlainSteps)
    <3>1. Removing(u) \subseteq PlainSteps
      BY DEF Removing, PlainSteps
    <3> QED BY <1>2, <3>1, ListedIs, WidenIs
  <2>3. Unmixed(Listed(u)) /\ Saves(Listed(u)) /\ Lacks(Listed(u), {"scan", "check"})
    BY <1>2, ListedDoes DEF Lacks, Calls
  <2> QED BY <1>1, <1>3, <1>11, <2>1, <2>2, <2>3, OrderlyThen
<1>12. CASE Check(p)
  BY <1>5, <1>6, <1>12 DEF Check
<1>13. CASE CheckPresent(p)
  BY <1>5, <1>8, <1>13 DEF CheckPresent
<1>14. CASE Save(p)
  BY <1>5, <1>9, <1>14 DEF Save
<1>15. CASE ListDir(p)
  BY <1>5, <1>11, <1>15 DEF ListDir, Listed
<1> QED BY <1>7, <1>10, <1>12, <1>13, <1>14, <1>15

-----------------------------------------------------------------------------
(* What holds of a process that is alone, and not killed.                  *)

\* At first there are no tables and no process.
LEMMA InitAlone == Init => AloneInv
<1> SUFFICES ASSUME Init PROVE AloneInv
  OBVIOUS
<1>1. TypeInv
  BY InitTypes
<1>2. ASSUME NEW p \in Procs PROVE Orderly(p) /\ \A t \in Tables : Where(p, t)
  <2>1. todo[p] = <<>> /\ phase[p] = "down" /\ read[p] = NoneRead /\ held[p] = NoneHeld
    BY DEF Init
  <2>2. Orderly(p)
    <3>1. Unmixed(<<>>) /\ Saves(<<>>)
      BY DEF Unmixed, Saves
    <3> QED BY <2>1, <3>1, ValuesAssumption DEF Orderly, NoneRead
  <2>3. ASSUME NEW t \in Tables PROVE Where(p, t)
    <3>1. Out(p, t)
      BY <2>1 DEF Init, Out, Has, NoneHeld
    <3> QED BY <2>1, <3>1, CalmPrograms DEF Where, Rest
  <2> QED BY <2>2, <2>3
<1> QED BY <1>1, <1>2 DEF AloneInv

\* Every step of the only process keeps the invariant.
LEMMA StepAlone ==
  ASSUME NEW p, Procs = {p}, ~Killed, AloneInv, [Next]_vars
  PROVE  AloneInv'
<1>1. p \in Procs /\ TypeInv /\ Orderly(p) /\ \A t \in Tables : Where(p, t)
  BY DEF AloneInv
<1>2. TypeInv'
  BY <1>1, StepTypes
<1>3. CASE UNCHANGED vars
  <2>1. UNCHANGED <<disk, dirs, phase, todo, read, held, given>>
    BY <1>3 DEF vars
  <2>2. Orderly(p)'
    BY <1>1, <2>1 DEF Orderly
  <2>3. ASSUME NEW t \in Tables PROVE Where(p, t)'
    <3>1. Where(p, t)
      BY <1>1
    <3> QED BY <2>1, <3>1 DEF Where, Rest, Asking, Loading, Creating, Writing, Clearing, In, Out,
                Fresh, Settling, Exists, Stored, Kept, Has
  <2> QED BY <1>2, <2>2, <2>3 DEF AloneInv
<1>4. CASE Next
  <2>1. \/ Life(p) \/ CallStep(p)
        \/ \E t \in Tables : GetTable(p, t) \/ InsertRow(p, t) \/ DeleteTable(p, t)
        \/ \E t \in Tables, d \in Def : CreateTable(p, t, d) \/ SaveTable(p, t, d)
    BY <1>4 DEF Next
  <2>2. CASE Life(p)
    BY <1>1, <1>2, <2>2, LifeOrderly, LifeAlone DEF AloneInv
  <2>3. CASE CallStep(p)
    <3>1. Orderly(p)'
      BY <1>1, <2>3, TailOrderly, ThenOrderly DEF CallStep
    <3>2. \A t \in Tables : Where(p, t)'
      BY <1>1, <2>3, CheckAlone, AbsentAlone, PresentAlone, ReadAlone, BuildAlone, NewAlone,
         MakeAlone, FileAlone, TouchAlone, SaveStepAlone, ScanAlone, ListAlone, UnlinkAlone,
         RmdirAlone DEF CallStep
    <3> QED BY <1>2, <3>1, <3>2 DEF AloneInv
  <2>4. CASE \E t \in Tables : GetTable(p, t) \/ InsertRow(p, t) \/ DeleteTable(p, t)
    BY <1>1, <1>2, <2>4, CallOrderly, CallAlone, InsertAlone DEF AloneInv
  <2>5. CASE \E t \in Tables, d \in Def : CreateTable(p, t, d) \/ SaveTable(p, t, d)
    BY <1>1, <1>2, <2>5, CallOrderly, CallAlone, SaveAlone DEF AloneInv
  <2> QED BY <2>1, <2>2, <2>3, <2>4, <2>5
<1> QED BY <1>3, <1>4

\* The invariant of a process that is alone and not killed.
LEMMA AloneHolds ==
  ASSUME NEW p, Procs = {p}, ~Killed
  PROVE  Spec => []AloneInv
<1>1. AloneInv /\ [Next]_vars => AloneInv'
  BY StepAlone
<1> QED BY <1>1, InitAlone, PTL DEF Spec

\* What createTable() or saveTable() was last given of a table that exists is in its
\* files whenever the process is in no call, whatever it called before.
THEOREM FilesAreGiven ==
  ASSUME NEW p, Procs = {p}, ~Killed
  PROVE  Spec => []GivenStays
<1>1. AloneInv => GivenStays
  <2> SUFFICES ASSUME AloneInv, NEW t \in Tables, todo[p] = <<>>, Has(t, "marker")
               PROVE  /\ disk[t]["columns"] = given[t].columns
                      /\ disk[t]["relations"] = given[t].relations
    BY DEF GivenStays
  <2>1. Stored(t)
    <3>1. Where(p, t) /\ "marker" \in Files
      BY DEF AloneInv, Files
    <3> QED BY <3>1, IdleMeans
  <2> QED BY <2>1 DEF Stored, Kept, PartOf
<1> QED BY <1>1, AloneHolds, PTL

\* The step that makes a table, the marker, is made where there is none, and no rows
\* are left of an earlier table of the name.
THEOREM CreatesEmpty ==
  ASSUME NEW p, Procs = {p}, ~Killed
  PROVE  Spec => [](CreatedEmpty /\ CreatedOnce)
<1>1. AloneInv => CreatedEmpty /\ CreatedOnce
  <2> SUFFICES ASSUME AloneInv, At(p, "touch")
               PROVE  disk[Now(p).table]["data"] = Blank /\ ~Has(Now(p).table, "marker")
    BY DEF CreatedEmpty, CreatedOnce
  <2>1. todo[p] # <<>> /\ Now(p).do = "touch" /\ TypeInv /\ p \in Procs
    BY DEF At, AloneInv
  <2>2. Now(p).table \in Tables /\ Now(p) = todo[p][1] /\ 1 \in DOMAIN todo[p]
    BY <2>1, HeadIs
  <2>3. Where(p, Now(p).table)
    BY <2>1, <2>2 DEF AloneInv
  <2>4. Creating(p, Now(p).table)
    BY <2>1, <2>2, <2>3, HeadMeans
  <2> QED BY <2>4 DEF Creating
<1> QED BY <1>1, AloneHolds, PTL

\* What getTable() reads of a table that exists is a definition: it never throws.
THEOREM LoadsSucceed ==
  ASSUME NEW p, Procs = {p}, ~Killed
  PROVE  Spec => []LoadsAnswer
<1>1. AloneInv => LoadsAnswer
  <2> SUFFICES ASSUME AloneInv, At(p, "build") PROVE IsDef(Found(p))
    BY DEF LoadsAnswer
  <2>1. p \in Procs /\ TypeInv /\ Orderly(p) /\ \A t \in Tables : Where(p, t)
    BY DEF AloneInv
  <2> QED BY <2>1, ReadsGiven
<1> QED BY <1>1, AloneHolds, PTL
=============================================================================

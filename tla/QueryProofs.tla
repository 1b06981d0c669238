---------------------------- MODULE QueryProofs ----------------------------
(***************************************************************************)
(* Theorems about queries, for every table, whatever PHP makes of its      *)
(* cells, and any calls in any order: types, that max() and min() find the *)
(* extremes, that done() finds the rows asked for, and that only those are *)
(* deleted or changed; each for the clients that look after what it needs. *)
(*                                                                         *)
(* What a loop over the rows or over a pattern computes is proved by the   *)
(* number of the round: the loop is a recursive function, it exists by     *)
(* Stepwise, and what holds after each round by Inductive (Lists).         *)
(***************************************************************************)
EXTENDS Query, Lists, FiniteSetTheorems

-----------------------------------------------------------------------------
(* Like conditions.                                                        *)

\* A sign of the regular expression takes a text from its place b to its place e.
Takes(sign, t, b, e) ==
  IF sign = "(.*)" THEN b <= e
  ELSE e = b + 1 /\ (sign \in {"(.)", "."} \/ sign = t[e])

EndsAfter(sign, t, B) == {e \in 0 .. Len(t) : \E b \in B : Takes(sign, t, b, e)}

\* Where the signs may end, sign by sign.
LEMMA EndsAre ==
  ASSUME NEW regex, Len(regex) \in Nat, NEW t \in Seq(STRING)
  PROVE  LET ends == Ends(regex, t) IN
           /\ ends[0] = {0}
           /\ \A i \in 1 .. Len(regex) : ends[i] = EndsAfter(regex[i], t, ends[i - 1])
           /\ \A i \in 0 .. Len(regex) : ends[i] \subseteq 0 .. Len(t)
<1> DEFINE n == Len(regex)
           S == SUBSET (0 .. Len(t))
           After(i, B) ==
             IF regex[i] = "(.*)" THEN {e \in 0 .. Len(t) : \E b \in B : b <= e}
             ELSE {e \in 1 .. Len(t) : e - 1 \in B /\ (regex[i] \in {"(.)", "."} \/ regex[i] = t[e])}
           step == [i \in 1 .. n |-> [B \in S |-> After(i, B)]]
           a == {0}
           P(h) == h = [i \in 0 .. n |-> IF i = 0 THEN a ELSE After(i, h[i - 1])]
<1>1. n \in Nat /\ Len(t) \in Nat
  BY LenProperties
<1>2. \A i \in 1 .. n, B \in S : After(i, B) \in S
  BY <1>1
<1>3. \A i \in 1 .. n, B \in S : After(i, B) = EndsAfter(regex[i], t, B)
  <2> SUFFICES ASSUME NEW i \in 1 .. n, NEW B \in S
               PROVE  After(i, B) = EndsAfter(regex[i], t, B)
    OBVIOUS
  <2>1. CASE regex[i] = "(.*)"
    BY <2>1 DEF EndsAfter, Takes
  <2>2. CASE regex[i] # "(.*)"
    <3>1. \A e \in 0 .. Len(t) : (\E b \in B : Takes(regex[i], t, b, e)) <=>
            (e \in 1 .. Len(t) /\ e - 1 \in B /\ (regex[i] \in {"(.)", "."} \/ regex[i] = t[e]))
      BY <1>1, <2>2 DEF Takes
    <3> QED BY <3>1, <2>2, <1>1 DEF EndsAfter
  <2> QED BY <2>1, <2>2
<1>4. a \in S
  BY <1>1
<1> HIDE DEF S
<1>5. Ends(regex, t) = CHOOSE h : P(h)
  BY DEF Ends
<1> HIDE DEF After, a
<1>6. step \in [1 .. n -> [S -> S]] /\ \A i \in 1 .. n, B \in S : step[i][B] = After(i, B)
  BY <1>2
<1> HIDE DEF step, n
<1>7. PICK f : Rounds(f, n, S, a, step)
  <2>1. step \in [1 .. n -> [S -> S]]
    BY <1>6
  <2> QED BY <2>1, <1>1, <1>4, Stepwise
<1>8. P(f)
  <2>0. f \in [0 .. n -> S] /\ f[0] = a /\ \A i \in 1 .. n : f[i] = step[i][f[i - 1]]
    BY <1>7 DEF Rounds
  <2>1. \A i \in 1 .. n : i - 1 \in 0 .. n /\ f[i - 1] \in S /\ f[i] = After(i, f[i - 1])
    BY <1>1, <1>6, <2>0
  <2>2. \A i \in 0 .. n : i = 0 \/ i \in 1 .. n
    BY <1>1
  <2>3. \A i \in 0 .. n : f[i] = IF i = 0 THEN a ELSE After(i, f[i - 1])
    BY <2>0, <2>1, <2>2
  <2>4. f = [i \in 0 .. n |-> f[i]]
    BY <2>0
  <2> QED BY <2>3, <2>4
<1> DEFINE g == Ends(regex, t)
<1>9. P(g)
  <2> HIDE DEF P
  <2> QED BY <1>5, <1>8
<1> HIDE DEF g
<1>10. /\ g[0] = a
       /\ \A i \in 1 .. n : g[i] = After(i, g[i - 1])
  <2>1. 0 \in 0 .. n /\ \A i \in 1 .. n : i \in 0 .. n /\ i # 0
    BY <1>1
  <2> QED BY <1>9, <2>1
<1>11. 0 .. n \subseteq {i \in 0 .. n : g[i] \in S}
  <2> DEFINE T == {i \in 0 .. n : g[i] \in S}
  <2>1. 0 \in T
    BY <1>1, <1>4, <1>10
  <2>2. \A i \in 1 .. n : i - 1 \in T => i \in T
    BY <1>1, <1>2, <1>10
  <2> HIDE DEF T
  <2>3. 0 .. n \subseteq T
    BY <1>1, <2>1, <2>2, Inductive
  <2> QED BY <2>3 DEF T
<1>12. \A i \in 1 .. n : g[i] = EndsAfter(regex[i], t, g[i - 1])
  <2>1. \A i \in 1 .. n : i - 1 \in 0 .. n
    BY <1>1
  <2> QED BY <2>1, <1>3, <1>10, <1>11
<1> QED BY <1>10, <1>11, <1>12 DEF a, g, n, S

\* preg_match() finds whether a text falls into parts, one for each sign.
LEMMA MatchedIs ==
  ASSUME NEW regex, Len(regex) \in Nat, NEW t \in Seq(STRING)
  PROVE  Matched(regex, t) <=>
           \E cut \in [0 .. Len(regex) -> 0 .. Len(t)] :
             /\ cut[0] = 0 /\ cut[Len(regex)] = Len(t)
             /\ \A i \in 1 .. Len(regex) : Takes(regex[i], t, cut[i - 1], cut[i])
<1> DEFINE n == Len(regex)
           ends == Ends(regex, t)
           Cuts(m, cut) == cut[0] = 0 /\ \A i \in 1 .. m : Takes(regex[i], t, cut[i - 1], cut[i])
           Parts(m, e) == \E cut \in [0 .. m -> 0 .. Len(t)] : Cuts(m, cut) /\ cut[m] = e
<1>1. n \in Nat /\ Len(t) \in Nat
  BY LenProperties
<1>2. /\ ends[0] = {0}
      /\ \A i \in 1 .. n : ends[i] = EndsAfter(regex[i], t, ends[i - 1])
      /\ \A i \in 0 .. n : ends[i] \subseteq 0 .. Len(t)
  BY EndsAre
<1>3. Matched(regex, t) <=> Len(t) \in ends[n]
  BY DEF Matched
<1> HIDE DEF ends, n
<1>4. ASSUME NEW cut \in [0 .. n -> 0 .. Len(t)], Cuts(n, cut)
      PROVE  cut[n] \in ends[n]
  <2> DEFINE T == {i \in 0 .. n : cut[i] \in ends[i]}
  <2>1. 0 \in T
    BY <1>1, <1>2, <1>4
  <2>2. ASSUME NEW i \in 1 .. n, i - 1 \in T
        PROVE  i \in T
    <3>1. i \in 0 .. n /\ cut[i] \in 0 .. Len(t) /\ cut[i - 1] \in ends[i - 1]
      BY <1>1, <2>2
    <3>2. Takes(regex[i], t, cut[i - 1], cut[i])
      BY <1>4
    <3> QED BY <3>1, <3>2, <1>2 DEF EndsAfter
  <2> HIDE DEF T
  <2>3. 0 .. n \subseteq T
    BY <1>1, <2>1, <2>2, Inductive
  <2>4. n \in T
    BY <1>1, <2>3
  <2> QED BY <2>4 DEF T
<1>5. \A e \in ends[n] : Parts(n, e)
  <2> DEFINE T == {i \in 0 .. n : \A e \in ends[i] : Parts(i, e)}
  <2>1. 0 \in T
    <3> DEFINE cut == [i \in 0 .. 0 |-> 0]
    <3>1. cut \in [0 .. 0 -> 0 .. Len(t)] /\ Cuts(0, cut) /\ cut[0] = 0
      BY <1>1
    <3> HIDE DEF cut, Cuts
    <3>2. Parts(0, 0)
      BY <3>1
    <3> HIDE DEF Parts
    <3> QED BY <3>2, <1>1, <1>2
  <2>2. ASSUME NEW i \in 1 .. n, i - 1 \in T
        PROVE  i \in T
    <3> HIDE DEF Parts
    <3> SUFFICES ASSUME NEW e \in ends[i]
                 PROVE  Parts(i, e)
      <4>1. i \in 0 .. n
        BY <1>1
      <4> QED BY <4>1
    <3> USE DEF Parts
    <3>1. PICK b \in ends[i - 1] : e \in 0 .. Len(t) /\ Takes(regex[i], t, b, e)
      BY <1>2 DEF EndsAfter
    <3>2. Parts(i - 1, b)
      BY <2>2, <3>1
    <3>3. PICK cut \in [0 .. i - 1 -> 0 .. Len(t)] : Cuts(i - 1, cut) /\ cut[i - 1] = b
      BY <3>2
    <3> DEFINE next == [j \in 0 .. i |-> IF j = i THEN e ELSE cut[j]]
    <3>4. \A j \in 0 .. i : j = i \/ j \in 0 .. i - 1
      OBVIOUS
    <3>5. next \in [0 .. i -> 0 .. Len(t)] /\ next[i] = e
      BY <3>1, <3>4
    <3>6. \A j \in 0 .. i - 1 : next[j] = cut[j]
      <4>1. \A j \in 0 .. i - 1 : j \in 0 .. i /\ j # i
        OBVIOUS
      <4> QED BY <4>1
    <3> HIDE DEF next
    <3>7. Cuts(i, next)
      <4>1. next[0] = 0
        BY <3>3, <3>6
      <4>2. ASSUME NEW j \in 1 .. i
            PROVE  Takes(regex[j], t, next[j - 1], next[j])
        <5>1. CASE j = i
          <6>1. next[j - 1] = b
            BY <5>1, <3>3, <3>6
          <6> QED BY <6>1, <5>1, <3>1, <3>5
        <5>2. CASE j # i
          <6>1. j \in 1 .. i - 1 /\ next[j - 1] = cut[j - 1] /\ next[j] = cut[j]
            BY <5>2, <3>6
          <6> QED BY <6>1, <3>3
        <5> QED BY <5>1, <5>2
      <4> QED BY <4>1, <4>2
    <3> HIDE DEF Cuts
    <3> QED BY <3>5, <3>7
  <2> HIDE DEF T
  <2>3. 0 .. n \subseteq T
    BY <1>1, <2>1, <2>2, Inductive
  <2>4. n \in T
    BY <1>1, <2>3
  <2> HIDE DEF Parts
  <2> QED BY <2>4 DEF T
<1>6. Parts(n, Len(t)) <=>
        \E cut \in [0 .. n -> 0 .. Len(t)] :
          /\ cut[0] = 0 /\ cut[n] = Len(t)
          /\ \A i \in 1 .. n : Takes(regex[i], t, cut[i - 1], cut[i])
  OBVIOUS
<1>7. Parts(n, Len(t)) => Len(t) \in ends[n]
  BY <1>4
<1> HIDE DEF Parts
<1> QED BY <1>3, <1>5, <1>6, <1>7 DEF n

\* Two signs of a pattern that are wildcards, with a backslash or without, are one.
LEMMA SortIsOne ==
  ASSUME NEW p, OneSort(p),
         NEW x \in ToSet(p) \cap (Wild \cup Escaped), NEW y \in ToSet(p) \cap (Wild \cup Escaped)
  PROVE  x = y
<1> DEFINE D == ToSet(p) \cap (Wild \cup Escaped)
<1> SUFFICES ASSUME x # y PROVE FALSE
  OBVIOUS
<1>1. IsFiniteSet({"%", "_", "\\%", "\\_"})
  <2>1. IsFiniteSet({"%"}) /\ IsFiniteSet({"%"} \cup {"_"}) /\ IsFiniteSet({"%"} \cup {"_"} \cup {"\\%"})
        /\ IsFiniteSet({"%"} \cup {"_"} \cup {"\\%"} \cup {"\\_"})
    BY FS_Singleton, FS_Union
  <2>2. {"%", "_", "\\%", "\\_"} = {"%"} \cup {"_"} \cup {"\\%"} \cup {"\\_"}
    OBVIOUS
  <2> QED BY <2>1, <2>2
<1>2. D \subseteq {"%", "_", "\\%", "\\_"}
  BY DEF Wild, Escaped
<1>3. IsFiniteSet(D)
  BY <1>1, <1>2, FS_Subset
<1>4. {x, y} \subseteq D
  OBVIOUS
<1>5. IsFiniteSet({x, y}) /\ Cardinality({x, y}) <= Cardinality(D)
  BY <1>3, <1>4, FS_Subset
<1>6. Cardinality({x, y}) = 2
  <2>1. IsFiniteSet({x}) /\ Cardinality({x}) = 1
    BY FS_Singleton
  <2>2. {x, y} = {x} \cup {y} /\ y \notin {x}
    OBVIOUS
  <2>3. Cardinality({x} \cup {y}) = Cardinality({x}) + 1
    BY <2>1, <2>2, FS_AddElement
  <2> QED BY <2>1, <2>2, <2>3
<1>7. Cardinality(D) <= 1
  BY DEF OneSort
<1>8. Cardinality(D) \in Nat
  BY <1>3, FS_CardinalityType
<1> HIDE DEF D
<1> QED BY <1>5, <1>6, <1>7, <1>8

\* What the constructor makes of a pattern of one sort of wildcards.
LEMMA CompiledIs ==
  ASSUME NEW p \in Seq(STRING), OneSort(p)
  PROVE  /\ Len(Compiled(p)) = Len(p)
         /\ \A i \in 1 .. Len(p) :
              Compiled(p)[i] = CASE p[i] = "%" -> "(.*)" [] p[i] = "_" -> "(.)" [] OTHER -> Bare(p[i])
<1>1. Len(p) \in Nat /\ DOMAIN p = 1 .. Len(p)
  BY LenProperties
<1>2. \A i \in 1 .. Len(p) : p[i] \in STRING /\ p[i] \in ToSet(p)
  BY <1>1, ElementOfSeq DEF ToSet
<1>3. ASSUME NEW i \in 1 .. Len(p)
      PROVE  Compiled(p)[i] = CASE p[i] = "%" -> "(.*)" [] p[i] = "_" -> "(.)" [] OTHER -> Bare(p[i])
  <2>1. Compiled(p)[i] = IF p[i] \in Replaced(p) THEN IF p[i] = "%" THEN "(.*)" ELSE "(.)"
                         ELSE Bare(p[i])
    BY <1>1 DEF Compiled
  <2>3. CASE p[i] \in Wild
    <3>1. \A x \in ToSet(p) : x \in Wild \cup Escaped => x = p[i]
      BY <1>2, <2>3, SortIsOne
    <3>2. ToSet(p) \cap Escaped = {}
      <4>1. \A x \in Escaped : x # p[i]
        BY <2>3 DEF Wild, Escaped
      <4> QED BY <3>1, <4>1
    <3>3. p[i] \in Replaced(p)
      <4>1. CASE p[i] = "%"
        BY <4>1, <3>2, <1>2 DEF Replaced
      <4>2. CASE p[i] = "_"
        <5>1. "%" \notin ToSet(p)
          BY <4>2, <3>1 DEF Wild
        <5> QED BY <5>1, <4>2, <3>2 DEF Replaced
      <4> QED BY <4>1, <4>2, <2>3 DEF Wild
    <3>4. CASE p[i] = "%"
      <4>1. Compiled(p)[i] = "(.*)"
        BY <3>3, <3>4, <2>1
      <4> QED BY <4>1, <3>4
    <3>5. CASE p[i] = "_"
      <4>1. Compiled(p)[i] = "(.)"
        BY <3>3, <3>5, <2>1
      <4> QED BY <4>1, <3>5
    <3> QED BY <3>4, <3>5, <2>3 DEF Wild
  <2>4. CASE p[i] \notin Wild
    <3>1. p[i] \notin Replaced(p) /\ p[i] # "%" /\ p[i] # "_"
      BY <2>4 DEF Replaced, Wild
    <3> QED BY <3>1, <2>1
  <2> QED BY <2>3, <2>4
<1> DEFINE S == {Compiled(p)[i] : i \in 1 .. Len(p)}
<1>4. Compiled(p) \in [1 .. Len(p) -> S]
  <2>1. Compiled(p) = [i \in 1 .. Len(p) |-> Compiled(p)[i]]
    BY <1>1 DEF Compiled
  <2> HIDE DEF Compiled
  <2> QED BY <2>1
<1>5. Len(Compiled(p)) = Len(p)
  <2> HIDE DEF Compiled, S
  <2> QED BY <1>1, <1>4, BuiltSeq
<1> QED BY <1>3, <1>5

\* A sign of the pattern stands for the text from place b to place e.
Stands(sign, t, b, e) ==
  \/ sign = "%" /\ b <= e
  \/ sign = "_" /\ e = b + 1
  \/ sign \notin Wild /\ e = b + 1 /\ t[e] = Bare(sign)

\* A like condition finds what its pattern stands for.
LEMMA LikeFinds ==
  ASSUME NEW p \in Patterns, OneSort(p), NEW t \in Seq(STRING)
  PROVE  LikeMatches(p, t) <=> LikeMeans(p, t)
<1>1. p \in Seq(STRING) /\ ToSet(p) \cap {"(.*)", "(.)"} = {}
  BY PatternsAssumption
<1> DEFINE r == Compiled(p)
<1>2. /\ Len(r) = Len(p)
      /\ \A i \in 1 .. Len(p) :
           r[i] = CASE p[i] = "%" -> "(.*)" [] p[i] = "_" -> "(.)" [] OTHER -> Bare(p[i])
  BY <1>1, CompiledIs
<1>3. Len(p) \in Nat /\ Len(t) \in Nat /\ DOMAIN p = 1 .. Len(p)
  BY <1>1, LenProperties
<1>4. LikeMatches(p, t) <=> Matched(r, t)
  BY DEF LikeMatches
<1> HIDE DEF r
<1>5. ASSUME NEW i \in 1 .. Len(p), NEW b \in 0 .. Len(t), NEW e \in 0 .. Len(t)
      PROVE  Takes(r[i], t, b, e) <=> Stands(p[i], t, b, e)
  <2>1. CASE p[i] = "%"
    <3>1. r[i] = "(.*)" /\ p[i] # "_" /\ p[i] \in Wild
      BY <1>2, <2>1 DEF Wild
    <3> QED BY <3>1, <2>1 DEF Takes, Stands
  <2>2. CASE p[i] = "_"
    <3>1. r[i] = "(.)" /\ r[i] # "(.*)" /\ p[i] # "%" /\ p[i] \in Wild
      BY <1>2, <2>2 DEF Wild
    <3> QED BY <3>1, <2>2 DEF Takes, Stands
  <2>3. CASE p[i] \notin Wild
    <3>1. p[i] # "%" /\ p[i] # "_" /\ r[i] = Bare(p[i])
      BY <1>2, <2>3 DEF Wild
    <3>2. p[i] \in ToSet(p) /\ p[i] \notin {"(.*)", "(.)", "."}
      BY <1>1, <1>3 DEF ToSet, OneSort
    <3>3. Bare(p[i]) \notin {"(.*)", "(.)", "."}
      BY <3>2 DEF Bare
    <3> QED BY <3>1, <3>3, <2>3 DEF Takes, Stands
  <2> QED BY <2>1, <2>2, <2>3 DEF Wild
<1>6. Matched(r, t) <=>
        \E cut \in [0 .. Len(p) -> 0 .. Len(t)] :
          /\ cut[0] = 0 /\ cut[Len(p)] = Len(t)
          /\ \A i \in 1 .. Len(p) : Takes(r[i], t, cut[i - 1], cut[i])
  <2>1. Matched(r, t) <=>
          \E cut \in [0 .. Len(r) -> 0 .. Len(t)] :
            /\ cut[0] = 0 /\ cut[Len(r)] = Len(t)
            /\ \A i \in 1 .. Len(r) : Takes(r[i], t, cut[i - 1], cut[i])
    BY <1>2, <1>3, MatchedIs
  <2> QED BY <2>1, <1>2
<1>7. ASSUME NEW cut \in [0 .. Len(p) -> 0 .. Len(t)], NEW i \in 1 .. Len(p)
      PROVE  Takes(r[i], t, cut[i - 1], cut[i]) <=> Stands(p[i], t, cut[i - 1], cut[i])
  <2>1. cut[i - 1] \in 0 .. Len(t) /\ cut[i] \in 0 .. Len(t)
    BY <1>3
  <2> QED BY <2>1, <1>5
<1> QED BY <1>3, <1>4, <1>6, <1>7 DEF LikeMeans, Stands

-----------------------------------------------------------------------------
(* The largest and the smallest.                                           *)

Best == [value : Int, cell : Cells \cup {None}]

\* The round of the search for a row.
Compared(best, row, column, up) ==
  LET cell == row[column]
      x    == Value(column, cell)
      y    == best.value
  IN  IF (up /\ x > y) \/ (~up /\ x < y) THEN [value |-> x, cell |-> cell] ELSE best

\* Every value of a cell is a number.
LEMMA ValueType ==
  ASSUME NEW c \in Columns, NEW v \in Cells
  PROVE  Value(c, v) \in Int
BY CellsAssumption DEF Value

\* A row has a cell in every column, and a cell a number.
LEMMA RowIs ==
  ASSUME NEW rs \in Seq(Row), NEW i \in 1 .. Len(rs), NEW c \in Columns
  PROVE  rs[i][c] \in Cells /\ Value(c, rs[i][c]) \in Int
<1>1. rs[i] \in Row
  BY ElementOfSeq
<1>2. rs[i][c] \in Cells
  BY <1>1 DEF Row
<1> QED BY <1>2, ValueType

\* The rounds of a search.
LEMMA SearchIs ==
  ASSUME NEW start \in Best, NEW rs \in Seq(Row), NEW c \in Columns, NEW up \in BOOLEAN
  PROVE  LET best == Search(start, rs, c, up) IN
           /\ best[0] = start
           /\ \A i \in 1 .. Len(rs) : best[i] = Compared(best[i - 1], rs[i], c, up)
           /\ \A i \in 0 .. Len(rs) : best[i] \in Best
<1> DEFINE n == Len(rs)
           step == [i \in 1 .. n |-> [b \in Best |-> Compared(b, rs[i], c, up)]]
           P(h) == h = [i \in 0 .. n |-> IF i = 0 THEN start ELSE Compared(h[i - 1], rs[i], c, up)]
<1>1. n \in Nat
  BY LenProperties
<1>2. \A i \in 1 .. n, b \in Best : Compared(b, rs[i], c, up) \in Best
  BY RowIs DEF Compared, Best
<1>3. Search(start, rs, c, up) = CHOOSE h : P(h)
  BY DEF Search, Compared
<1>4. step \in [1 .. n -> [Best -> Best]]
      /\ \A i \in 1 .. n, b \in Best : step[i][b] = Compared(b, rs[i], c, up)
  <2> HIDE DEF Best, Compared, n
  <2> QED BY <1>2
<1> HIDE DEF step, n
<1>5. PICK f : Rounds(f, n, Best, start, step)
  <2>1. step \in [1 .. n -> [Best -> Best]]
    BY <1>4
  <2> QED BY <2>1, <1>1, Stepwise
<1>6. P(f)
  <2>0. f \in [0 .. n -> Best] /\ f[0] = start /\ \A i \in 1 .. n : f[i] = step[i][f[i - 1]]
    BY <1>5 DEF Rounds
  <2>1. \A i \in 1 .. n : i - 1 \in 0 .. n /\ f[i - 1] \in Best /\ f[i] = Compared(f[i - 1], rs[i], c, up)
    BY <1>1, <1>4, <2>0
  <2>2. \A i \in 0 .. n : i = 0 \/ i \in 1 .. n
    BY <1>1
  <2>3. \A i \in 0 .. n : f[i] = IF i = 0 THEN start ELSE Compared(f[i - 1], rs[i], c, up)
    BY <2>0, <2>1, <2>2
  <2>4. f = [i \in 0 .. n |-> f[i]]
    BY <2>0
  <2> QED BY <2>3, <2>4
<1> DEFINE g == Search(start, rs, c, up)
<1>7. P(g)
  <2> HIDE DEF P
  <2> QED BY <1>3, <1>6
<1> HIDE DEF g
<1>8. /\ g[0] = start
      /\ \A i \in 1 .. n : g[i] = Compared(g[i - 1], rs[i], c, up)
  <2>1. 0 \in 0 .. n /\ \A i \in 1 .. n : i \in 0 .. n /\ i # 0
    BY <1>1
  <2> QED BY <1>7, <2>1
<1>9. \A i \in 0 .. n : g[i] \in Best
  <2> DEFINE T == {i \in 0 .. n : g[i] \in Best}
  <2>1. 0 \in T
    BY <1>1, <1>8
  <2>2. \A i \in 1 .. n : i - 1 \in T => i \in T
    BY <1>1, <1>2, <1>8
  <2> HIDE DEF T
  <2>3. 0 .. n \subseteq T
    BY <1>1, <2>1, <2>2, Inductive
  <2> QED BY <2>3 DEF T
<1> QED BY <1>8, <1>9 DEF g, n

\* The value x does not beat y.
Behind(up, x, y) == IF up THEN x <= y ELSE y <= x

\* None of the first i rows beats what was found, which is where the search started or
\* is of one of these rows.
Leads(b, start, rs, c, up, i) ==
  /\ Behind(up, start.value, b.value)
  /\ \A j \in 1 .. i : Behind(up, Value(c, rs[j][c]), b.value)
  /\ b = start \/ \E j \in 1 .. i : b = [value |-> Value(c, rs[j][c]), cell |-> rs[j][c]]

\* After all rows a search has the start or a cell of the rows, and beats them all.
LEMMA SearchLeads ==
  ASSUME NEW start \in Best, NEW rs \in Seq(Row), NEW c \in Columns, NEW up \in BOOLEAN
  PROVE  Leads(Search(start, rs, c, up)[Len(rs)], start, rs, c, up, Len(rs))
<1> DEFINE n == Len(rs)
           g == Search(start, rs, c, up)
           T == {i \in 0 .. n : Leads(g[i], start, rs, c, up, i)}
<1>1. n \in Nat
  BY LenProperties
<1>2. /\ g[0] = start
      /\ \A i \in 1 .. n : g[i] = Compared(g[i - 1], rs[i], c, up)
      /\ \A i \in 0 .. n : g[i] \in Best
  BY SearchIs
<1> HIDE DEF g
<1>3. 0 \in T
  BY <1>1, <1>2 DEF Leads, Behind, Best
<1>4. ASSUME NEW i \in 1 .. n, i - 1 \in T
      PROVE  i \in T
  <2> DEFINE a == g[i - 1]
             b == g[i]
             x == Value(c, rs[i][c])
  <2>1. i - 1 \in 0 .. n /\ i \in 0 .. n /\ 1 .. i = (1 .. i - 1) \cup {i}
    BY <1>1
  <2>2. Leads(a, start, rs, c, up, i - 1)
    BY <1>4
  <2>3. a \in Best /\ b \in Best /\ b = Compared(a, rs[i], c, up)
    BY <1>2, <2>1
  <2>4. a.value \in Int /\ x \in Int /\ start.value \in Int
    BY <2>3, RowIs DEF Best
  <2>5. b = IF (up /\ x > a.value) \/ (~up /\ x < a.value)
            THEN [value |-> x, cell |-> rs[i][c]] ELSE a
    BY <2>3 DEF Compared
  <2>6. \A j \in 1 .. i - 1 : Value(c, rs[j][c]) \in Int
    BY <1>1, RowIs
  <2> HIDE DEF a, b, n
  <2>7. CASE (up /\ x > a.value) \/ (~up /\ x < a.value)
    <3>1. b = [value |-> x, cell |-> rs[i][c]] /\ b.value = x
      BY <2>5, <2>7
    <3>2. Behind(up, start.value, b.value)
      BY <2>2, <2>4, <2>7, <3>1 DEF Leads, Behind
    <3>3. \A j \in 1 .. i : Behind(up, Value(c, rs[j][c]), b.value)
      BY <2>1, <2>2, <2>4, <2>6, <2>7, <3>1 DEF Leads, Behind
    <3>4. \E j \in 1 .. i : b = [value |-> Value(c, rs[j][c]), cell |-> rs[j][c]]
      BY <2>1, <3>1
    <3>5. Leads(b, start, rs, c, up, i)
      BY <3>2, <3>3, <3>4 DEF Leads
    <3> QED BY <2>1, <3>5 DEF b
  <2>8. CASE ~((up /\ x > a.value) \/ (~up /\ x < a.value))
    <3>1. b = a
      BY <2>5, <2>8
    <3>2. \A j \in 1 .. i : Behind(up, Value(c, rs[j][c]), b.value)
      BY <2>1, <2>2, <2>4, <2>6, <2>8, <3>1 DEF Leads, Behind
    <3>3. Leads(b, start, rs, c, up, i)
      BY <2>1, <2>2, <3>1, <3>2 DEF Leads
    <3> QED BY <2>1, <3>3 DEF b
  <2> QED BY <2>7, <2>8
<1>5. n \in T
  <2> HIDE DEF T, n
  <2>1. 0 .. n \subseteq T
    BY <1>1, <1>3, <1>4, Inductive
  <2> QED BY <1>1, <2>1
<1> QED BY <1>5 DEF g

\* The largest cell of some rows, if they have one that beats zero.
LEMMA HighestIs ==
  ASSUME NEW rs \in Seq(Row), NEW c \in Columns
  PROVE  /\ HighestValue(rs, c) \in Cells \cup {None}
         /\ (\E i \in 1 .. Len(rs) : Value(c, rs[i][c]) > 0) =>
              \E i \in 1 .. Len(rs) :
                /\ HighestValue(rs, c) = rs[i][c]
                /\ \A j \in 1 .. Len(rs) : Value(c, rs[j][c]) <= Value(c, rs[i][c])
<1> DEFINE start == [value |-> 0, cell |-> None]
           best == Search(start, rs, c, TRUE)[Len(rs)]
<1>1. start \in Best /\ Len(rs) \in Nat /\ start.value = 0
  BY LenProperties DEF Best
<1> HIDE DEF start
<1>2. best \in Best
  <2>1. Len(rs) \in 0 .. Len(rs)
    BY <1>1
  <2> QED BY <1>1, <2>1, SearchIs
<1>3. Leads(best, start, rs, c, TRUE, Len(rs))
  BY <1>1, SearchLeads
<1>4. HighestValue(rs, c) = best.cell
  BY DEF HighestValue, start
<1> HIDE DEF best
<1>5. ASSUME NEW i \in 1 .. Len(rs), Value(c, rs[i][c]) > 0
      PROVE  \E j \in 1 .. Len(rs) :
               /\ best.cell = rs[j][c]
               /\ \A k \in 1 .. Len(rs) : Value(c, rs[k][c]) <= Value(c, rs[j][c])
  <2>1. Value(c, rs[i][c]) <= best.value /\ Value(c, rs[i][c]) \in Int /\ best.value \in Int
    BY <1>2, <1>3, RowIs DEF Leads, Behind, Best
  <2>2. best # start
    BY <1>1, <1>5, <2>1
  <2>3. PICK j \in 1 .. Len(rs) : best = [value |-> Value(c, rs[j][c]), cell |-> rs[j][c]]
    BY <1>3, <2>2 DEF Leads
  <2>4. best.cell = rs[j][c] /\ best.value = Value(c, rs[j][c])
    BY <2>3
  <2>5. \A k \in 1 .. Len(rs) : Value(c, rs[k][c]) <= best.value
    BY <1>3 DEF Leads, Behind
  <2> QED BY <2>4, <2>5
<1> QED BY <1>2, <1>4, <1>5 DEF Best

\* The smallest cell of some rows, if there are any.
LEMMA LowestIs ==
  ASSUME NEW rs \in Seq(Row), NEW c \in Columns
  PROVE  /\ LowestValue(rs, c) \in Cells \cup {None}
         /\ rs # <<>> =>
              \E i \in 1 .. Len(rs) :
                /\ LowestValue(rs, c) = rs[i][c]
                /\ \A j \in 1 .. Len(rs) : Value(c, rs[i][c]) <= Value(c, rs[j][c])
<1>1. CASE rs = <<>>
  BY <1>1 DEF LowestValue
<1>2. CASE rs # <<>>
  <2>1. Len(rs) \in Nat /\ 1 \in 1 .. Len(rs)
    BY <1>2, EmptySeq
  <2> DEFINE start == [value |-> Value(c, rs[1][c]), cell |-> rs[1][c]]
             best == Search(start, rs, c, FALSE)[Len(rs)]
  <2>2. start \in Best
    BY <2>1, RowIs DEF Best
  <2>3. LowestValue(rs, c) = best.cell
    BY <1>2 DEF LowestValue
  <2>4. \A b : b = start => b = [value |-> Value(c, rs[1][c]), cell |-> rs[1][c]]
    OBVIOUS
  <2> HIDE DEF start
  <2>5. best \in Best
    <3>1. Len(rs) \in 0 .. Len(rs)
      BY <2>1
    <3> QED BY <2>2, <3>1, SearchIs
  <2>6. Leads(best, start, rs, c, FALSE, Len(rs))
    BY <2>2, SearchLeads
  <2> HIDE DEF best
  <2>7. PICK i \in 1 .. Len(rs) : best = [value |-> Value(c, rs[i][c]), cell |-> rs[i][c]]
    BY <2>1, <2>4, <2>6 DEF Leads
  <2>8. best.cell = rs[i][c] /\ best.value = Value(c, rs[i][c])
    BY <2>7
  <2>9. \A j \in 1 .. Len(rs) : best.value <= Value(c, rs[j][c])
    BY <2>6 DEF Leads, Behind
  <2> QED BY <1>2, <2>3, <2>5, <2>8, <2>9 DEF Best
<1> QED BY <1>1, <1>2

-----------------------------------------------------------------------------
(* Lists of rows and columns.                                              *)

\* A sequence of bounded length is a sequence.
LEMMA BoundedSeqIs ==
  ASSUME NEW S, NEW n \in Nat, NEW s \in BoundedSeq(S, n)
  PROVE  s \in Seq(S) /\ DOMAIN s = 1 .. Len(s) /\ Len(s) \in Nat
<1>1. PICK m \in 0 .. n : s \in [1 .. m -> S]
  BY DEF BoundedSeq, SeqOf
<1>2. s \in Seq(S)
  BY <1>1, BuiltSeq
<1> QED BY <1>2, LenProperties

\* A set of places of a sequence has a last one.
LEMMA MaxIs ==
  ASSUME NEW n \in Nat, NEW T \in SUBSET (1 .. n), T # {}
  PROVE  Max(T) \in T
<1> DEFINE F == {n - x : x \in T}
<1>1. F \in SUBSET Nat /\ F # {}
  <2>1. \A x \in T : n - x \in Nat
    OBVIOUS
  <2> QED BY <2>1
<1>2. PICK y \in F : \A z \in F : y <= z
  BY <1>1, LeastNat
<1>3. PICK x \in T : y = n - x
  BY <1>2
<1>4. \A z \in T : x >= z
  <2> SUFFICES ASSUME NEW z \in T PROVE x >= z
    OBVIOUS
  <2>1. n - x <= n - z
    BY <1>2, <1>3
  <2> QED BY <2>1
<1>5. \E m \in T : \A z \in T : m >= z
  BY <1>4
<1> QED BY <1>5 DEF Max

\* The rows that are written are the rows that are not gone, in order.
LEMMA RewrittenIs ==
  ASSUME NEW rs \in Seq(Row), NEW gone
  PROVE  LET new == Rewritten(rs, gone)[Len(rs)]
         IN  new \in Seq(Row) /\ Rest(new, rs, DOMAIN rs \ gone)
<1> DEFINE n == Len(rs)
           S == Seq(Row)
           a == <<>>
           After(i, s) == IF i \in gone THEN s ELSE Append(s, rs[i])
           step == [i \in 1 .. n |-> [s \in S |-> After(i, s)]]
           P(h) == h = [i \in 0 .. n |-> IF i = 0 THEN a ELSE After(i, h[i - 1])]
           g == Rewritten(rs, gone)
           Left(i) == (1 .. i) \ gone
           T == {i \in 0 .. n : g[i] \in S /\ Rest(g[i], rs, Left(i))}
<1>1. n \in Nat /\ DOMAIN rs = 1 .. n /\ \A i \in 1 .. n : rs[i] \in Row
  BY LenProperties, ElementOfSeq
<1>2. \A i \in 1 .. n, s \in S : After(i, s) \in S
  BY <1>1, AppendProperties
<1>3. a \in S /\ Len(a) = 0 /\ DOMAIN a = {}
  <2>1. <<>> \in Seq(Row) /\ Len(<<>>) = 0
    BY EmptySeq
  <2> QED BY <2>1
<1>4. g = CHOOSE h : P(h)
  BY DEF Rewritten
<1>5. \A i, s : i \in gone => After(i, s) = s
  OBVIOUS
<1>6. \A i, s : i \notin gone => After(i, s) = Append(s, rs[i])
  OBVIOUS
<1> HIDE DEF S, a, After
<1>7. step \in [1 .. n -> [S -> S]] /\ \A i \in 1 .. n, s \in S : step[i][s] = After(i, s)
  BY <1>2
<1> HIDE DEF step, n
<1>8. PICK f : Rounds(f, n, S, a, step)
  <2>1. step \in [1 .. n -> [S -> S]]
    BY <1>7
  <2> QED BY <2>1, <1>1, <1>3, Stepwise
<1>9. P(f)
  <2>0. f \in [0 .. n -> S] /\ f[0] = a /\ \A i \in 1 .. n : f[i] = step[i][f[i - 1]]
    BY <1>8 DEF Rounds
  <2>1. \A i \in 1 .. n : i - 1 \in 0 .. n /\ f[i - 1] \in S /\ f[i] = After(i, f[i - 1])
    BY <1>1, <1>7, <2>0
  <2>2. \A i \in 0 .. n : i = 0 \/ i \in 1 .. n
    BY <1>1
  <2>3. \A i \in 0 .. n : f[i] = IF i = 0 THEN a ELSE After(i, f[i - 1])
    BY <2>0, <2>1, <2>2
  <2>4. f = [i \in 0 .. n |-> f[i]]
    BY <2>0
  <2> QED BY <2>3, <2>4
<1>10. P(g)
  <2> HIDE DEF P, g
  <2> QED BY <1>4, <1>9
<1> HIDE DEF g
<1>11. /\ g[0] = a
       /\ \A i \in 1 .. n : g[i] = After(i, g[i - 1])
  <2>1. 0 \in 0 .. n /\ \A i \in 1 .. n : i \in 0 .. n /\ i # 0
    BY <1>1
  <2> QED BY <1>10, <2>1
<1>12. 0 \in T
  <2>1. Left(0) = {}
    OBVIOUS
  <2>2. Rest(a, rs, {})
    <3>1. [k \in {} |-> 0] \in [DOMAIN a -> {}]
      BY <1>3
    <3> QED BY <3>1, <1>3 DEF Rest
  <2> QED BY <2>1, <2>2, <1>1, <1>3, <1>11
<1>13. ASSUME NEW i \in 1 .. n, i - 1 \in T
       PROVE  i \in T
  <2> DEFINE old == g[i - 1]
             new == g[i]
  <2>1. old \in S /\ Rest(old, rs, Left(i - 1)) /\ new = After(i, old) /\ new \in S /\ i \in 0 .. n
    BY <1>1, <1>2, <1>11, <1>13
  <2>2. 1 .. i = (1 .. i - 1) \cup {i} /\ i \notin 1 .. i - 1
    OBVIOUS
  <2> HIDE DEF old, new
  <2>3. CASE i \in gone
    <3>1. Left(i) = Left(i - 1)
      BY <2>2, <2>3
    <3>2. new = old
      BY <2>1, <2>3, <1>5
    <3> QED BY <2>1, <3>1, <3>2 DEF new
  <2>4. CASE i \notin gone
    <3>1. Left(i) = Left(i - 1) \cup {i}
      BY <2>2, <2>4
    <3>2. new = Append(old, rs[i]) /\ rs[i] \in Row
      BY <2>1, <2>4, <1>1, <1>6
    <3>3. Len(old) \in Nat /\ DOMAIN old = 1 .. Len(old)
      BY <2>1, LenProperties DEF S
    <3> DEFINE m == Len(old)
    <3>4. /\ DOMAIN new = 1 .. m + 1
          /\ \A k \in 1 .. m : new[k] = old[k]
          /\ new[m + 1] = rs[i]
      <4>1. /\ Append(old, rs[i]) \in Seq(Row)
            /\ Len(Append(old, rs[i])) = Len(old) + 1
            /\ \A k \in 1 .. Len(old) : Append(old, rs[i])[k] = old[k]
            /\ Append(old, rs[i])[Len(old) + 1] = rs[i]
        BY <2>1, <3>2, AppendProperties DEF S
      <4>2. DOMAIN Append(old, rs[i]) = 1 .. Len(Append(old, rs[i]))
        BY <4>1, LenProperties
      <4> QED BY <4>1, <4>2, <3>2
    <3> DEFINE L == Left(i - 1)
    <3>5. L \subseteq 1 .. i - 1
      OBVIOUS
    <3>6. Rest(old, rs, L)
      BY <2>1
    <3> HIDE DEF m, L, Left
    <3>7. PICK at \in [1 .. m -> L] :
            /\ \A k \in 1 .. m : old[k] = rs[at[k]]
            /\ \A k, l \in 1 .. m : k < l => at[k] < at[l]
            /\ \A j \in L : \E k \in 1 .. m : at[k] = j
      BY <3>3, <3>6 DEF Rest, m
    <3> DEFINE now == [k \in 1 .. m + 1 |-> IF k = m + 1 THEN i ELSE at[k]]
    <3>8. m \in Nat /\ \A k \in 1 .. m + 1 : k = m + 1 \/ k \in 1 .. m
      BY <3>3 DEF m
    <3>9. \A k \in 1 .. m : k \in 1 .. m + 1 /\ k # m + 1 /\ at[k] \in L
      BY <3>8
    <3>10. /\ now \in [1 .. m + 1 -> L \cup {i}]
           /\ now[m + 1] = i
           /\ \A k \in 1 .. m : now[k] = at[k]
      BY <3>8, <3>9
    <3> HIDE DEF now
    <3>11. \A k \in 1 .. m + 1 : new[k] = rs[now[k]]
      BY <3>4, <3>7, <3>8, <3>10
    <3>12. ASSUME NEW k \in 1 .. m + 1, NEW l \in 1 .. m + 1, k < l
           PROVE  now[k] < now[l]
      <4>0. k \in 1 .. m
        BY <3>8, <3>12
      <4>1. k \in 1 .. m /\ now[k] = at[k] /\ at[k] \in 1 .. i - 1
        BY <4>0, <3>5, <3>9, <3>10
      <4>2. CASE l = m + 1
        BY <4>1, <4>2, <3>10
      <4>3. CASE l \in 1 .. m
        BY <4>1, <4>3, <3>7, <3>10, <3>12
      <4> QED BY <4>2, <4>3, <3>8
    <3>13. \A j \in L \cup {i} : \E k \in 1 .. m + 1 : now[k] = j
      <4>1. m + 1 \in 1 .. m + 1
        BY <3>8
      <4>2. \A j \in L : \E k \in 1 .. m + 1 : now[k] = j
        BY <3>7, <3>9, <3>10
      <4> QED BY <4>1, <4>2, <3>10
    <3>14. Rest(new, rs, L \cup {i})
      <4> DEFINE D == 1 .. m + 1
                 R == L \cup {i}
      <4>1. /\ DOMAIN new = D /\ now \in [D -> R]
            /\ \A k \in D : new[k] = rs[now[k]]
            /\ \A k \in D : \A l \in D : k < l => now[k] < now[l]
            /\ \A j \in R : \E k \in D : now[k] = j
        BY <3>4, <3>10, <3>11, <3>12, <3>13
      <4> HIDE DEF D, R
      <4>2. \A k, l \in D : k < l => now[k] < now[l]
        BY <4>1
      <4>3. Rest(new, rs, R)
        BY <4>1, <4>2 DEF Rest
      <4> QED BY <4>3 DEF R
    <3> USE DEF L
    <3> QED BY <2>1, <3>1, <3>14 DEF new
  <2> QED BY <2>3, <2>4
<1>14. n \in T
  <2> HIDE DEF T
  <2>1. 0 .. n \subseteq T
    BY <1>1, <1>12, <1>13, Inductive
  <2> QED BY <1>1, <2>1
<1> QED BY <1>1, <1>14 DEF g, n, S

\* An update sets the columns of a row that were named to cells that were given, or
\* empties them, and leaves the others.
LEMMA UpdatedIs ==
  ASSUME TypeOK, NEW row \in Row
  PROVE  /\ Updated(row) \in Row
         /\ \A c \in Columns :
              \/ Updated(row)[c] = row[c]
              \/ \E j \in DOMAIN columns :
                   /\ columns[j] = c
                   /\ Updated(row)[c] = IF j \in DOMAIN values THEN values[j] ELSE Blank
<1>1. /\ columns \in Seq(Columns) /\ Len(columns) \in Nat /\ DOMAIN columns = 1 .. Len(columns)
      /\ values \in Seq(Cells) /\ DOMAIN values = 1 .. Len(values)
  BY LenProperties DEF TypeOK
<1>2. \A j \in DOMAIN values : values[j] \in Cells
  BY <1>1, ElementOfSeq
<1>3. ASSUME NEW c \in Columns
      PROVE  \/ Updated(row)[c] = row[c]
             \/ \E j \in DOMAIN columns :
                  /\ columns[j] = c
                  /\ Updated(row)[c] = IF j \in DOMAIN values THEN values[j] ELSE Blank
  <2> DEFINE I == {i \in 1 .. Len(columns) : columns[i] = c}
             at == IF I # {} THEN Max(I) ELSE 0
  <2>1. Updated(row)[c] = IF at = 0 THEN row[c] ELSE IF at \in DOMAIN values THEN values[at] ELSE Blank
    BY DEF Updated, SelectLastInSeq
  <2>2. I \in SUBSET (1 .. Len(columns)) /\ \A i \in I : columns[i] = c /\ i # 0
    OBVIOUS
  <2> HIDE DEF I
  <2>3. CASE I = {}
    BY <2>1, <2>3
  <2>4. CASE I # {}
    <3>1. at = Max(I) /\ at \in I
      BY <1>1, <2>2, <2>4, MaxIs
    <3> HIDE DEF at
    <3>2. at \in DOMAIN columns /\ columns[at] = c /\ at # 0
      BY <1>1, <2>2, <3>1
    <3> USE DEF at
    <3> QED BY <2>1, <3>2
  <2> QED BY <2>3, <2>4
<1>4. \A c \in Columns : Updated(row)[c] \in Cells
  BY <1>2, <1>3, NoneAssumption DEF Row
<1>5. Updated(row) = [c \in Columns |-> Updated(row)[c]]
  BY DEF Updated
<1>6. Updated(row) \in Row
  <2> HIDE DEF Updated
  <2> QED BY <1>4, <1>5 DEF Row
<1> QED BY <1>3, <1>6

\* The columns before the first name of none.
LEMMA NamedColumns ==
  ASSUME NEW cs \in Seq(Columns \cup {Missing})
  PROVE  SubSeq(cs, 1, SelectInSeq(Append(cs, Missing), LAMBDA c : c \notin Columns) - 1) \in Seq(Columns)
<1> DEFINE a == Append(cs, Missing)
           I == {i \in 1 .. Len(a) : a[i] \notin Columns}
           k == SelectInSeq(a, LAMBDA c : c \notin Columns)
<1>1. /\ Len(cs) \in Nat /\ Len(a) = Len(cs) + 1
      /\ \A i \in 1 .. Len(cs) : a[i] = cs[i]
      /\ a[Len(cs) + 1] = Missing
  BY LenProperties, AppendProperties
<1>2. Missing \notin Columns
  BY MissingAssumption
<1>3. k = IF I # {} THEN Min(I) ELSE 0
  BY DEF SelectInSeq
<1> HIDE DEF a, k
<1>4. Len(cs) + 1 \in I /\ I \in SUBSET Nat
  BY <1>1, <1>2
<1>5. k \in I /\ \A i \in I : k <= i
  <2> HIDE DEF I
  <2> QED BY <1>3, <1>4, MinIs
<1>6. k \in 1 .. Len(cs) + 1
  BY <1>1, <1>5
<1>7. \A i \in 1 .. k - 1 : cs[i] \in Columns
  <2> SUFFICES ASSUME NEW i \in 1 .. k - 1 PROVE cs[i] \in Columns
    OBVIOUS
  <2>1. i \in 1 .. Len(cs) /\ i \in 1 .. Len(a) /\ i < k /\ a[i] = cs[i]
    BY <1>1, <1>6
  <2>2. i \notin I
    BY <2>1, <1>5, <1>6
  <2> QED BY <2>1, <2>2
<1>8. SubSeq(cs, 1, k - 1) \in Seq(Columns)
  <2>1. k - 1 \in Int /\ 1 \in Int
    BY <1>6
  <2> QED BY <2>1, <1>7, SubSeqProperties
<1> QED BY <1>8 DEF k, a

\* A client compares with what there is.
LEMMA TestIs ==
  ASSUME NEW c \in Columns, NEW test \in TestsOf(c)
  PROVE  test \in Tests
<1>1. CellsOf[c] \subseteq Cells
  BY CellsOfAssumption
<1> QED BY <1>1 DEF TestsOf, Tests

-----------------------------------------------------------------------------
(* Types.                                                                  *)

\* A new query object has its types.
LEMMA TypeInit == Init => TypeOK
<1> SUFFICES ASSUME Init PROVE TypeOK
  OBVIOUS
<1>1. rows \in Seq(Row)
  <2>1. MaxRows[kind] \in Nat /\ rows \in BoundedSeq(RowsOf, MaxRows[kind])
    BY BoundsAssumption DEF Init
  <2>2. rows \in Seq(RowsOf)
    BY <2>1, BoundedSeqIs
  <2>3. RowsOf \subseteq Row
    BY DEF RowsOf
  <2> QED BY <2>2, <2>3, SeqMonotonic
<1>2. \A S : <<>> \in Seq(S)
  BY EmptySeq
<1> QED BY <1>1, <1>2 DEF Init, TypeOK

\* The calls that add to a query.
LEMMA TypeBuilding ==
  ASSUME TypeOK
  PROVE  /\ \A c \in Columns \cup {Missing} : Where(c) => TypeOK'
         /\ Not => TypeOK'
         /\ CompareAny => TypeOK'
         /\ Join => TypeOK'
<1>1. ASSUME NEW c \in Columns \cup {Missing}, Where(c)
      PROVE  TypeOK'
  BY <1>1 DEF TypeOK, Where
<1>2. ASSUME Not
      PROVE  TypeOK'
  BY <1>2 DEF TypeOK, Not
<1>3. ASSUME CompareAny
      PROVE  TypeOK'
  <2>1. PICK c \in Columns, test \in AllTests :
          test \in TestsOf(c) /\ (currentColumn \in Columns => c = currentColumn) /\ Compare(test)
    BY <1>3 DEF CompareAny
  <2>2. test \in Tests
    BY <2>1, TestIs
  <2>3. CASE currentColumn = Used
    BY <2>1, <2>3 DEF TypeOK, Compare, builder
  <2>4. CASE currentColumn # Used
    <3> DEFINE new == [column |-> currentColumn, matches |-> ~isNot, test |-> test]
               want == [column |-> asked.column, matches |-> ~asked.not, test |-> test]
    <3>1. new \in Condition
      BY <2>2, <2>4 DEF TypeOK, Condition
    <3>2. want \in Condition
      BY <2>2 DEF TypeOK, Condition
    <3>3. /\ conditions' = Append(conditions, new)
          /\ currentColumn' = Used /\ isNot' = FALSE
          /\ asked' = [asked EXCEPT !.not = FALSE, !.conditions = @ \cup {want}]
          /\ result' = None
          /\ UNCHANGED <<kind, rows, joins, columns, values>>
      BY <2>1, <2>4 DEF Compare, Reset
    <3> HIDE DEF new, want
    <3>4. conditions' \in Seq(Condition)
      BY <3>1, <3>3, AppendProperties DEF TypeOK
    <3>5. asked' \in [column : Columns \cup {None}, not : BOOLEAN, conditions : SUBSET Condition]
      BY <3>2, <3>3 DEF TypeOK
    <3> QED BY <3>3, <3>4, <3>5 DEF TypeOK
  <2> QED BY <2>3, <2>4
<1>4. ASSUME Join
      PROVE  TypeOK'
  BY <1>4 DEF TypeOK, Join, builder
<1> QED BY <1>1, <1>2, <1>3, <1>4

\* The calls that read and write rows, and those that say what to write.
LEMMA TypeDone ==
  ASSUME TypeOK
  PROVE  /\ DoneSelect => TypeOK'
         /\ DoneDelete => TypeOK'
         /\ DoneUpdate => TypeOK'
         /\ \A cs \in ColumnLists : SetColumns(cs) => TypeOK'
         /\ \A vs \in CellLists : Values(vs) => TypeOK'
         /\ \A c \in Columns : SelectMax(c) => TypeOK'
         /\ \A c \in Columns : SelectMin(c) => TypeOK'
<1>1. rows \in Seq(Row) /\ Len(rows) \in Nat /\ DOMAIN rows = 1 .. Len(rows)
  BY LenProperties DEF TypeOK
<1>2. Found \in SUBSET Nat
  BY <1>1 DEF Found, Selected
<1>3. ASSUME DoneSelect
      PROVE  TypeOK'
  <2>1. result' \in Answer
    BY <1>2, <1>3 DEF DoneSelect, Answer, Refused
  <2> QED BY <1>3, <2>1 DEF TypeOK, DoneSelect, builder
<1>4. ASSUME DoneDelete
      PROVE  TypeOK'
  <2>1. result' \in Answer
    <3>1. result' \in {[of |-> "refused", rows |-> {}], [of |-> "delete", rows |-> Found]}
      BY <1>4 DEF DoneDelete, Refused
    <3>2. \A F \in SUBSET Nat : [of |-> "delete", rows |-> F] \in Answer
      BY DEF Answer
    <3>3. [of |-> "refused", rows |-> {}] \in Answer
      BY DEF Answer
    <3> QED BY <1>2, <3>1, <3>2, <3>3
  <2>2. rows' \in Seq(Row)
    BY <1>1, <1>4, RewrittenIs DEF DoneDelete
  <2> QED BY <1>4, <2>1, <2>2 DEF TypeOK, DoneDelete, builder
<1>5. ASSUME DoneUpdate
      PROVE  TypeOK'
  <2>1. result' \in Answer
    BY <1>2, <1>5 DEF DoneUpdate, Answer, Refused
  <2>2. rows' \in Seq(Row)
    <3>1. \A i \in 1 .. Len(rows) : rows[i] \in Row
      BY <1>1, ElementOfSeq
    <3>2. \A i \in 1 .. Len(rows) : Updated(rows[i]) \in Row
      BY <3>1, UpdatedIs
    <3> DEFINE new == [i \in 1 .. Len(rows) |-> IF i \in Found THEN Updated(rows[i]) ELSE rows[i]]
    <3>3. new \in [1 .. Len(rows) -> Row]
      BY <3>1, <3>2
    <3>4. rows' \in {rows, new}
      BY <1>1, <1>5 DEF DoneUpdate
    <3> HIDE DEF new
    <3>5. new \in Seq(Row)
      BY <1>1, <3>3, BuiltSeq
    <3> QED BY <1>1, <3>4, <3>5
  <2> QED BY <1>5, <2>1, <2>2 DEF TypeOK, DoneUpdate, builder
<1>6. ASSUME NEW cs \in ColumnLists, SetColumns(cs)
      PROVE  TypeOK'
  <2>1. cs \in Seq(Columns \cup {Missing})
    BY BoundedSeqIs DEF ColumnLists
  <2>2. columns' \in Seq(Columns)
    BY <1>6, <2>1, NamedColumns DEF SetColumns
  <2> QED BY <1>6, <2>2 DEF TypeOK, SetColumns, builder
<1>7. ASSUME NEW vs \in CellLists, Values(vs)
      PROVE  TypeOK'
  <2>1. vs \in Seq(Cells)
    <3>1. vs \in Seq(UNION {CellsOf[c] : c \in Columns})
      BY BoundedSeqIs DEF CellLists
    <3>2. UNION {CellsOf[c] : c \in Columns} \subseteq Cells
      BY CellsOfAssumption
    <3> QED BY <3>1, <3>2, SeqMonotonic
  <2> QED BY <1>7, <2>1 DEF TypeOK, Values, builder
<1>8. ASSUME NEW c \in Columns, SelectMax(c)
      PROVE  TypeOK'
  <2>1. result' \in Answer
    BY <1>1, <1>8, HighestIs DEF SelectMax, Answer
  <2> QED BY <1>8, <2>1 DEF TypeOK, SelectMax, builder
<1>9. ASSUME NEW c \in Columns, SelectMin(c)
      PROVE  TypeOK'
  <2>1. result' \in Answer
    BY <1>1, <1>9, LowestIs DEF SelectMin, Answer
  <2> QED BY <1>9, <2>1 DEF TypeOK, SelectMin, builder
<1> QED BY <1>3, <1>4, <1>5, <1>6, <1>7, <1>8, <1>9

\* Every call keeps the types.
LEMMA TypeStep == TypeOK /\ [Next]_vars => TypeOK'
<1> SUFFICES ASSUME TypeOK, [Next]_vars PROVE TypeOK'
  OBVIOUS
<1>1. CASE Next
  BY <1>1, TypeBuilding, TypeDone DEF Next
<1>2. CASE UNCHANGED vars
  BY <1>2 DEF TypeOK, vars
<1> QED BY <1>1, <1>2

\* Whatever is called, in whatever order, and whatever the client does not look after:
\* rows stay rows of cells, conditions are about columns or none, and the answers are
\* places of rows, or cells, or refusals (condition.zep, select.zep, update.zep).
THEOREM TypeCorrect == Spec => []TypeOK
<1>1. Init => TypeOK
  BY TypeInit
<1>2. TypeOK /\ [Next]_vars => TypeOK'
  BY TypeStep
<1> QED BY <1>1, <1>2, PTL DEF Spec

-----------------------------------------------------------------------------
(* The largest and the smallest, of clients that ask for those of columns  *)
(* with an order, and for the largest only where a value is above zero.    *)

\* The cells a client puts into a column are ordered as their values are.
LEMMA RanksAre ==
  ASSUME NEW c \in Columns, Type[c] \in {"int", "date"}, NEW v \in CellsOf[c], NEW w \in CellsOf[c]
  PROVE  /\ Rank[c][v] \in Int /\ Rank[c][w] \in Int /\ Value(c, v) \in Int /\ Value(c, w) \in Int
         /\ Value(c, v) < Value(c, w) <=> Rank[c][v] < Rank[c][w]
         /\ Value(c, v) = Value(c, w) <=> Rank[c][v] = Rank[c][w]
<1>1. v \in Cells /\ w \in Cells
  BY CellsOfAssumption
<1>2. Rank[c][v] \in Int /\ Rank[c][w] \in Int /\ Value(c, v) \in Int /\ Value(c, w) \in Int
  BY <1>1, ValueType, RankAssumption
<1>3. /\ Value(c, v) < Value(c, w) <=> Rank[c][v] < Rank[c][w]
      /\ Value(c, w) < Value(c, v) <=> Rank[c][w] < Rank[c][v]
  BY RankAssumption
<1> QED BY <1>2, <1>3

\* Rows with the cells that a client puts into them.
LEMMA RowsOfIs ==
  ASSUME NEW rs \in Seq(RowsOf)
  PROVE  /\ rs \in Seq(Row) /\ Len(rs) \in Nat /\ DOMAIN rs = 1 .. Len(rs)
         /\ \A i \in 1 .. Len(rs), c \in Columns : rs[i][c] \in CellsOf[c]
<1>1. \A i \in 1 .. Len(rs) : rs[i] \in RowsOf
  BY ElementOfSeq
<1>2. RowsOf \subseteq Row
  BY DEF RowsOf
<1>3. rs \in Seq(Row)
  BY <1>2, SeqMonotonic
<1> QED BY <1>1, <1>3, LenProperties DEF RowsOf

\* Only select has max() and min(), and it changes no row.
ExtremesInv ==
  /\ TypeOK
  /\ kind = "select" => rows \in Seq(RowsOf)
  /\ result # None /\ result.of \in {"max", "min"} => kind = "select"
  /\ ExtremesFound

\* The cell that was found is as far up, or down, as any.
Extreme(rs, c, of, cell) ==
  \E i \in DOMAIN rs :
    /\ cell = rs[i][c]
    /\ \A j \in DOMAIN rs : LET more == Rank[c][rs[i][c]] - Rank[c][rs[j][c]]
                            IN  IF of = "max" THEN more >= 0 ELSE more <= 0

\* max() finds the largest, if one is above zero.
LEMMA MaxFound ==
  ASSUME NEW rs \in Seq(RowsOf), NEW c \in Columns, Type[c] \in {"int", "date"},
         \E i \in DOMAIN rs : Value(c, rs[i][c]) > 0
  PROVE  Extreme(rs, c, "max", HighestValue(rs, c))
<1>1. /\ rs \in Seq(Row) /\ DOMAIN rs = 1 .. Len(rs)
      /\ \A i \in 1 .. Len(rs) : rs[i][c] \in CellsOf[c]
  BY RowsOfIs
<1>2. PICK i \in 1 .. Len(rs) :
        /\ HighestValue(rs, c) = rs[i][c]
        /\ \A j \in 1 .. Len(rs) : Value(c, rs[j][c]) <= Value(c, rs[i][c])
  BY <1>1, HighestIs
<1>3. ASSUME NEW j \in 1 .. Len(rs)
      PROVE  Rank[c][rs[i][c]] - Rank[c][rs[j][c]] >= 0
  <2> DEFINE v == rs[i][c]
             w == rs[j][c]
  <2>1. v \in CellsOf[c] /\ w \in CellsOf[c]
    BY <1>1
  <2>2. Value(c, w) <= Value(c, v)
    BY <1>2
  <2> HIDE DEF v, w
  <2>3. Rank[c][v] - Rank[c][w] >= 0
    <3>1. /\ Rank[c][v] \in Int /\ Rank[c][w] \in Int /\ Value(c, v) \in Int /\ Value(c, w) \in Int
          /\ Value(c, v) < Value(c, w) <=> Rank[c][v] < Rank[c][w]
      BY <2>1, RanksAre
    <3> QED BY <3>1, <2>2
  <2> QED BY <2>3 DEF v, w
<1> QED BY <1>1, <1>2, <1>3 DEF Extreme

\* min() finds the smallest.
LEMMA MinFound ==
  ASSUME NEW rs \in Seq(RowsOf), NEW c \in Columns, Type[c] \in {"int", "date"}, rs # <<>>
  PROVE  Extreme(rs, c, "min", LowestValue(rs, c))
<1>1. /\ rs \in Seq(Row) /\ DOMAIN rs = 1 .. Len(rs)
      /\ \A i \in 1 .. Len(rs) : rs[i][c] \in CellsOf[c]
  BY RowsOfIs
<1>2. PICK i \in 1 .. Len(rs) :
        /\ LowestValue(rs, c) = rs[i][c]
        /\ \A j \in 1 .. Len(rs) : Value(c, rs[i][c]) <= Value(c, rs[j][c])
  BY <1>1, LowestIs
<1>3. ASSUME NEW j \in 1 .. Len(rs)
      PROVE  Rank[c][rs[i][c]] - Rank[c][rs[j][c]] <= 0
  <2> DEFINE v == rs[i][c]
             w == rs[j][c]
  <2>1. v \in CellsOf[c] /\ w \in CellsOf[c]
    BY <1>1
  <2>2. Value(c, v) <= Value(c, w)
    BY <1>2
  <2> HIDE DEF v, w
  <2>3. Rank[c][v] - Rank[c][w] <= 0
    <3>1. /\ Rank[c][v] \in Int /\ Rank[c][w] \in Int /\ Value(c, v) \in Int /\ Value(c, w) \in Int
          /\ Value(c, w) < Value(c, v) <=> Rank[c][w] < Rank[c][v]
      BY <2>1, RanksAre
    <3> QED BY <3>1, <2>2
  <2> QED BY <2>3 DEF v, w
<1> QED BY <1>1, <1>2, <1>3 DEF Extreme

\* Who answers with what.
LEMMA AnswersAre ==
  ASSUME [Next]_vars
  PROVE  \/ result' = result
         \/ result' = None
         \/ result'.of \in {"select", "delete", "update", "refused"}
         \/ \E c \in Columns : SelectMax(c) \/ SelectMin(c)
<1>1. CASE UNCHANGED vars
  BY <1>1 DEF vars
<1>2. CASE \/ \E c \in Columns \cup {Missing} : Where(c)
           \/ Not \/ CompareAny \/ Join
           \/ \E cs \in ColumnLists : SetColumns(cs)
           \/ \E vs \in CellLists : Values(vs)
  BY <1>2 DEF Where, Not, CompareAny, Compare, Join, SetColumns, Values
<1>3. CASE DoneSelect \/ DoneDelete \/ DoneUpdate
  <2>1. \/ result' = Refused
        \/ \E F : \E of \in {"select", "delete", "update"} : result' = [of |-> of, rows |-> F]
    BY <1>3 DEF DoneSelect, DoneDelete, DoneUpdate
  <2>2. result'.of \in {"select", "delete", "update", "refused"}
    BY <2>1 DEF Refused
  <2> QED BY <2>2
<1> QED BY <1>1, <1>2, <1>3 DEF Next

\* Every call keeps true what max() and min() answered.
LEMMA ExtremesStep ==
  ASSUME Careless \cap {"order", "highest"} = {}, ExtremesInv, [Next]_vars
  PROVE  ExtremesInv'
<1>1. TypeOK /\ TypeOK'
  BY TypeStep DEF ExtremesInv
<1>2. kind' = kind /\ (kind = "select" => rows' = rows)
  BY DEF Next, vars, Where, Not, CompareAny, Compare, Join, DoneSelect, DoneDelete, DoneUpdate,
     SetColumns, Values, SelectMax, SelectMin
<1>3. kind' = "select" => rows' \in Seq(RowsOf)
  BY <1>2 DEF ExtremesInv
<1>4. ASSUME result' # None, result'.of \in {"max", "min"}
      PROVE  /\ kind = "select"
             /\ rows # <<>> => Extreme(rows, result'.column, result'.of, result'.cell)
  <2>1. \/ result' = result /\ kind = "select"
        \/ \E c \in Columns : SelectMax(c)
        \/ \E c \in Columns : SelectMin(c)
    BY <1>4, AnswersAre DEF ExtremesInv
  <2>2. CASE result' = result /\ kind = "select"
    BY <2>2, <1>4 DEF ExtremesInv, ExtremesFound, Extreme
  <2>3. ASSUME NEW c \in Columns, SelectMax(c)
        PROVE  kind = "select" /\ Extreme(rows, result'.column, result'.of, result'.cell)
    <3>1. /\ kind = "select" /\ rows \in Seq(RowsOf) /\ Type[c] \in {"int", "date"}
          /\ \E i \in DOMAIN rows : Value(c, rows[i][c]) > 0
          /\ result' = [of |-> "max", column |-> c, cell |-> HighestValue(rows, c)]
      BY <2>3 DEF SelectMax, Care, ExtremesInv
    <3>2. Extreme(rows, c, "max", HighestValue(rows, c))
      BY <3>1, MaxFound
    <3> QED BY <3>1, <3>2
  <2>4. ASSUME NEW c \in Columns, SelectMin(c)
        PROVE  kind = "select" /\ (rows # <<>> => Extreme(rows, result'.column, result'.of, result'.cell))
    <3>1. /\ kind = "select" /\ rows \in Seq(RowsOf) /\ Type[c] \in {"int", "date"}
          /\ result' = [of |-> "min", column |-> c, cell |-> LowestValue(rows, c)]
      BY <2>4 DEF SelectMin, Care, ExtremesInv
    <3>2. rows # <<>> => Extreme(rows, c, "min", LowestValue(rows, c))
      BY <3>1, MinFound
    <3> QED BY <3>1, <3>2
  <2> QED BY <2>1, <2>2, <2>3, <2>4
<1>5. ExtremesFound'
  <2>1. ASSUME result' # None, result'.of \in {"max", "min"}, rows' # <<>>
        PROVE  Extreme(rows', result'.column, result'.of, result'.cell)
    BY <2>1, <1>2, <1>4
  <2> QED BY <2>1 DEF ExtremesFound, Extreme
<1> QED BY <1>1, <1>2, <1>3, <1>4, <1>5 DEF ExtremesInv

\* For every table and however the query object was used before: max() and min() of
\* rows there are answer with a cell of the column that no row beats, when the column
\* has an order and, for max(), a value is above zero (select.zep max, min).
THEOREM FindsExtremes ==
  ASSUME Careless \cap {"order", "highest"} = {}
  PROVE  Spec => []ExtremesFound
<1>1. Init => ExtremesInv
  <2> SUFFICES ASSUME Init PROVE ExtremesInv
    OBVIOUS
  <2>1. TypeOK
    BY TypeInit
  <2>2. MaxRows[kind] \in Nat /\ rows \in BoundedSeq(RowsOf, MaxRows[kind]) /\ result = None
    BY BoundsAssumption DEF Init
  <2>3. rows \in Seq(RowsOf)
    BY <2>2, BoundedSeqIs
  <2> QED BY <2>1, <2>2, <2>3 DEF ExtremesInv, ExtremesFound
<1>2. ExtremesInv /\ [Next]_vars => ExtremesInv'
  BY ExtremesStep
<1>3. ExtremesInv => ExtremesFound
  BY DEF ExtremesInv
<1> QED BY <1>1, <1>2, <1>3, PTL DEF Spec

-----------------------------------------------------------------------------
(* The rows asked for, of clients that select a column before they compare *)
(* it, compare the order of columns that have one, keep to one sort of     *)
(* wildcards, and give an update as many values as columns.                *)

Legal == {"unselected", "order", "pattern", "recount"}

\* A condition such a client asks for.
Proper(c) ==
  /\ c.column \in Columns /\ c.matches \in BOOLEAN /\ c.test \in TestsOf(c.column)
  /\ c.test.op = "like" => OneSort(c.test.pattern)
  /\ c.test.op \in {"within", "like"} \/ Type[c.column] \in {"int", "date"}

\* A comparison holds when it is what it means.
LEMMA HoldsMeans ==
  ASSUME NEW c \in Columns, NEW test \in TestsOf(c), NEW cell \in CellsOf[c],
         test.op = "like" => OneSort(test.pattern),
         test.op \in {"within", "like"} \/ Type[c] \in {"int", "date"}
  PROVE  /\ Holds(test, c, cell) \in BOOLEAN /\ Means(test, c, cell) \in BOOLEAN
         /\ Holds(test, c, cell) <=> Means(test, c, cell)
<1>1. Means(test, c, cell) \in BOOLEAN
  BY DEF Means
<1>2. \/ test.op = "within" /\ test.values \in SUBSET CellsOf[c]
      \/ test.op = "like" /\ test.pattern \in Patterns
      \/ test.op \in {"moreThan", "lessThan"} /\ test.than \in CellsOf[c] /\ test.equal \in BOOLEAN
      \/ test.op = "between" /\ test.low \in CellsOf[c] /\ test.high \in CellsOf[c] /\ test.equal \in BOOLEAN
  BY DEF TestsOf
<1>3. CASE test.op = "within"
  <2>1. Holds(test, c, cell) = Within(cell, test.values)
    BY <1>3 DEF Holds
  <2>2. \A v \in test.values : <<cell, v>> \in Loosely <=> Rank[c][cell] - Rank[c][v] = 0
    <3> SUFFICES ASSUME NEW v \in test.values
                 PROVE  <<cell, v>> \in Loosely <=> Rank[c][cell] - Rank[c][v] = 0
      OBVIOUS
    <3>1. v \in CellsOf[c]
      BY <1>2, <1>3
    <3>2. Rank[c][cell] \in Int /\ Rank[c][v] \in Int
      BY <3>1, RankAssumption
    <3>3. <<cell, v>> \in Loosely <=> Rank[c][cell] = Rank[c][v]
      BY <3>1, RankAssumption
    <3> QED BY <3>2, <3>3
  <2>3. Means(test, c, cell) <=> \E v \in test.values : Rank[c][cell] - Rank[c][v] = 0
    BY <1>3 DEF Means
  <2> QED BY <1>1, <2>1, <2>2, <2>3 DEF Within
<1>4. CASE test.op = "like"
  <2>1. Holds(test, c, cell) = LikeMatches(test.pattern, Text[cell])
    BY <1>4 DEF Holds
  <2>2. Means(test, c, cell) <=> LikeMeans(test.pattern, Text[cell])
    BY <1>4 DEF Means
  <2>3. Text[cell] \in Seq(STRING)
    BY CellsOfAssumption, TextAssumption
  <2>4. LikeMatches(test.pattern, Text[cell]) <=> LikeMeans(test.pattern, Text[cell])
    BY <1>2, <1>4, <2>3, LikeFinds
  <2>5. LikeMatches(test.pattern, Text[cell]) \in BOOLEAN
    BY DEF LikeMatches, Matched
  <2> QED BY <1>1, <2>1, <2>2, <2>4, <2>5
<1>5. CASE test.op = "lessThan"
  <2>1. Holds(test, c, cell) = Less(Value(c, cell), Value(c, test.than), test.equal)
    BY <1>5 DEF Holds
  <2> DEFINE r == Rank[c][cell]
             s == Rank[c][test.than]
  <2>2. Means(test, c, cell) <=> (r - s < 0 \/ (test.equal /\ r - s = 0))
    BY <1>5 DEF Means
  <2> HIDE DEF r, s
  <2>3. /\ r \in Int /\ s \in Int /\ Value(c, cell) \in Int /\ Value(c, test.than) \in Int
        /\ Value(c, cell) < Value(c, test.than) <=> r < s
        /\ Value(c, cell) = Value(c, test.than) <=> r = s
    BY <1>2, <1>5, RanksAre DEF r, s
  <2> QED BY <1>1, <1>2, <1>5, <2>1, <2>2, <2>3 DEF Less
<1>6. CASE test.op = "moreThan"
  <2>1. Holds(test, c, cell) = More(Value(c, cell), Value(c, test.than), test.equal)
    BY <1>6 DEF Holds
  <2> DEFINE r == Rank[c][cell]
             s == Rank[c][test.than]
  <2>2. Means(test, c, cell) <=> (r - s > 0 \/ (test.equal /\ r - s = 0))
    BY <1>6 DEF Means
  <2> HIDE DEF r, s
  <2>3. /\ r \in Int /\ s \in Int /\ Value(c, cell) \in Int /\ Value(c, test.than) \in Int
        /\ Value(c, cell) < Value(c, test.than) <=> r < s
        /\ Value(c, cell) = Value(c, test.than) <=> r = s
    BY <1>2, <1>6, RanksAre DEF r, s
  <2> QED BY <1>1, <1>2, <1>6, <2>1, <2>2, <2>3 DEF More
<1>7. CASE test.op = "between"
  <2>1. Holds(test, c, cell) =
          Between(Value(c, cell), Value(c, test.low), Value(c, test.high), test.equal)
    BY <1>7 DEF Holds
  <2> DEFINE r == Rank[c][cell]
             s == Rank[c][test.low]
             u == Rank[c][test.high]
  <2>2. Means(test, c, cell) <=> /\ r - s > 0 \/ (test.equal /\ r - s = 0)
                                 /\ r - u < 0 \/ (test.equal /\ r - u = 0)
    BY <1>7 DEF Means
  <2> HIDE DEF r, s, u
  <2>3. /\ r \in Int /\ s \in Int /\ Value(c, cell) \in Int /\ Value(c, test.low) \in Int
        /\ Value(c, cell) < Value(c, test.low) <=> r < s
        /\ Value(c, cell) = Value(c, test.low) <=> r = s
    BY <1>2, <1>7, RanksAre DEF r, s
  <2>4. /\ u \in Int /\ Value(c, test.high) \in Int
        /\ Value(c, cell) < Value(c, test.high) <=> r < u
        /\ Value(c, cell) = Value(c, test.high) <=> r = u
    BY <1>2, <1>7, RanksAre DEF r, u
  <2> QED BY <1>1, <1>2, <1>7, <2>1, <2>2, <2>3, <2>4 DEF Between
<1> QED BY <1>2, <1>3, <1>4, <1>5, <1>6, <1>7

\* A row matches a condition when it means so.
LEMMA MatchesMeans ==
  ASSUME NEW c, Proper(c), NEW row \in RowsOf
  PROVE  Matches(c, row) <=> c.matches = Means(c.test, c.column, row[c.column])
<1>1. row[c.column] \in CellsOf[c.column]
  BY DEF Proper, RowsOf
<1>2. /\ Holds(c.test, c.column, row[c.column]) \in BOOLEAN
      /\ Means(c.test, c.column, row[c.column]) \in BOOLEAN
      /\ Holds(c.test, c.column, row[c.column]) <=> Means(c.test, c.column, row[c.column])
  BY <1>1, HoldsMeans DEF Proper
<1> DEFINE h == Holds(c.test, c.column, row[c.column])
           m == Means(c.test, c.column, row[c.column])
<1>3. Matches(c, row) <=> c.matches = h
  BY DEF Matches
<1>4. h = m
  <2>1. h \in BOOLEAN /\ m \in BOOLEAN /\ (h <=> m)
    BY <1>2
  <2> HIDE DEF h, m
  <2> QED BY <2>1
<1> HIDE DEF h, m
<1>5. Matches(c, row) <=> c.matches = m
  BY <1>3, <1>4
<1> QED BY <1>5 DEF m

\* The conditions are those asked for, each about the column last named and reversed by
\* its own not(); the cells are some a client puts in, and so are those to come.
AskedInv ==
  /\ TypeOK
  /\ asked.conditions = ToSet(conditions)
  /\ isNot = asked.not
  /\ currentColumn # Used => currentColumn = asked.column
  /\ \A c \in asked.conditions : Proper(c)
  /\ rows \in Seq(RowsOf)
  /\ values = <<>> \/ /\ Len(values) = Len(columns)
                      /\ \A i \in DOMAIN columns : values[i] \in CellsOf[columns[i]]

\* The rows found are those asked for.
LEMMA FoundIs ==
  ASSUME AskedInv
  PROVE  /\ Found = {i \in DOMAIN rows : Wanted(rows[i])}
         /\ Found \subseteq DOMAIN rows
<1>1. DOMAIN rows = 1 .. Len(rows) /\ \A i \in DOMAIN rows : rows[i] \in RowsOf
  BY ElementOfSeq, LenProperties DEF AskedInv
<1>2. ASSUME NEW i \in DOMAIN rows
      PROVE  (\A c \in ToSet(conditions) : Matches(c, rows[i])) <=> Wanted(rows[i])
  <2>1. \A c \in asked.conditions :
          Matches(c, rows[i]) <=> c.matches = Means(c.test, c.column, rows[i][c.column])
    BY <1>1, MatchesMeans DEF AskedInv
  <2> QED BY <2>1 DEF AskedInv, Wanted
<1> QED BY <1>2 DEF Found, Selected

\* An update of such a client gives cells of their columns.
LEMMA UpdatedAsked ==
  ASSUME AskedInv, Len(values) = Len(columns), NEW row \in RowsOf
  PROVE  /\ Updated(row) \in RowsOf
         /\ \A c \in Columns :
              \/ Updated(row)[c] = row[c]
              \/ \E j \in DOMAIN columns : columns[j] = c /\ Updated(row)[c] = values[j]
<1>1. /\ DOMAIN columns = 1 .. Len(columns) /\ DOMAIN values = 1 .. Len(values)
      /\ Len(columns) \in Nat
  BY LenProperties DEF AskedInv, TypeOK
<1>2. DOMAIN columns = DOMAIN values
  BY <1>1
<1>3. \A j \in DOMAIN columns : values[j] \in CellsOf[columns[j]]
  <2>1. CASE values = <<>>
    <3>1. Len(columns) = 0
      BY <2>1, EmptySeq
    <3>2. DOMAIN columns = {}
      BY <1>1, <3>1
    <3> QED BY <3>2
  <2>2. CASE values # <<>>
    BY <2>2 DEF AskedInv
  <2> QED BY <2>1, <2>2
<1>4. TypeOK /\ row \in Row
  BY DEF AskedInv, RowsOf
<1>5. /\ Updated(row) \in Row
      /\ \A c \in Columns :
           \/ Updated(row)[c] = row[c]
           \/ \E j \in DOMAIN columns : columns[j] = c /\ Updated(row)[c] = values[j]
  <2>1. /\ Updated(row) \in Row
        /\ \A c \in Columns :
             \/ Updated(row)[c] = row[c]
             \/ \E j \in DOMAIN columns :
                  /\ columns[j] = c
                  /\ Updated(row)[c] = IF j \in DOMAIN values THEN values[j] ELSE Blank
    BY <1>4, UpdatedIs
  <2> QED BY <2>1, <1>2
<1>6. \A c \in Columns : Updated(row)[c] \in CellsOf[c]
  BY <1>3, <1>5 DEF RowsOf
<1> QED BY <1>5, <1>6 DEF RowsOf

\* The rows that a delete leaves, and those that an update makes.
LEMMA RowsWritten ==
  ASSUME Careless \cap Legal = {}, AskedInv
  PROVE  /\ DoneDelete => /\ rows' \in Seq(RowsOf)
                          /\ rows' = rows \/ Rest(rows', rows, DOMAIN rows \ Found)
         /\ DoneUpdate => /\ rows' \in Seq(RowsOf)
                          /\ rows' = rows \/ /\ Len(values) = Len(columns)
                                             /\ rows' = [i \in DOMAIN rows |-> IF i \in Found THEN Updated(rows[i]) ELSE rows[i]]
<1>1. /\ rows \in Seq(RowsOf) /\ rows \in Seq(Row) /\ Len(rows) \in Nat /\ DOMAIN rows = 1 .. Len(rows)
      /\ \A i \in DOMAIN rows : rows[i] \in RowsOf
  BY RowsOfIs, ElementOfSeq DEF AskedInv
<1>2. ASSUME DoneDelete
      PROVE  rows' \in Seq(RowsOf) /\ (rows' = rows \/ Rest(rows', rows, DOMAIN rows \ Found))
  <2> DEFINE new == Rewritten(rows, Found)[Len(rows)]
  <2>1. rows' \in {rows, new}
    BY <1>2 DEF DoneDelete
  <2>2. new \in Seq(Row) /\ Rest(new, rows, DOMAIN rows \ Found)
    BY <1>1, RewrittenIs
  <2> HIDE DEF new
  <2>3. Len(new) \in Nat /\ DOMAIN new = 1 .. Len(new) /\ new \in [1 .. Len(new) -> Row]
    BY <2>2, LenProperties
  <2>4. \A k \in 1 .. Len(new) : new[k] \in RowsOf
    <3>1. PICK at \in [DOMAIN new -> DOMAIN rows \ Found] : \A k \in DOMAIN new : new[k] = rows[at[k]]
      BY <2>2 DEF Rest
    <3>2. \A k \in DOMAIN new : at[k] \in DOMAIN rows
      BY <3>1
    <3> QED BY <3>1, <3>2, <2>3, <1>1
  <2>5. new \in Seq(RowsOf)
    <3>1. new \in [1 .. Len(new) -> RowsOf]
      BY <2>3, <2>4
    <3> QED BY <3>1, <2>3, BuiltSeq
  <2> QED BY <1>1, <2>1, <2>2, <2>5
<1>3. ASSUME DoneUpdate
      PROVE  /\ rows' \in Seq(RowsOf)
             /\ rows' = rows \/ /\ Len(values) = Len(columns)
                                /\ rows' = [i \in DOMAIN rows |-> IF i \in Found THEN Updated(rows[i]) ELSE rows[i]]
  <2> DEFINE new == [i \in DOMAIN rows |-> IF i \in Found THEN Updated(rows[i]) ELSE rows[i]]
  <2>1. Len(values) = Len(columns)
    BY <1>3 DEF DoneUpdate, Care, Legal
  <2>2. rows' = rows \/ rows' = new
    BY <1>3 DEF DoneUpdate
  <2>3. \A i \in DOMAIN rows : Updated(rows[i]) \in RowsOf
    BY <1>1, <2>1, UpdatedAsked
  <2>4. new \in [1 .. Len(rows) -> RowsOf]
    BY <1>1, <2>3
  <2> HIDE DEF new
  <2>5. new \in Seq(RowsOf)
    BY <1>1, <2>4, BuiltSeq
  <2> USE DEF new
  <2> QED BY <1>1, <2>1, <2>2, <2>5
<1> QED BY <1>2, <1>3

\* At first nothing is asked.
LEMMA AskedInit == Init => AskedInv
<1> SUFFICES ASSUME Init PROVE AskedInv
  OBVIOUS
<1>1. TypeOK
  BY TypeInit
<1>2. MaxRows[kind] \in Nat /\ rows \in BoundedSeq(RowsOf, MaxRows[kind])
  BY BoundsAssumption DEF Init
<1>3. rows \in Seq(RowsOf)
  BY <1>2, BoundedSeqIs
<1>4. ToSet(conditions) = {}
  <2>1. DOMAIN conditions = {}
    <3>1. conditions \in Seq(Condition) /\ Len(conditions) = 0
      BY <1>1, EmptySeq DEF Init, TypeOK
    <3>2. DOMAIN conditions = 1 .. Len(conditions)
      BY <3>1, LenProperties
    <3> QED BY <3>1, <3>2
  <2> QED BY <2>1 DEF ToSet
<1> QED BY <1>1, <1>3, <1>4 DEF Init, AskedInv

\* A comparison adds the condition asked for.
LEMMA ComparesAsked ==
  ASSUME Careless \cap Legal = {}, AskedInv, CompareAny
  PROVE  AskedInv'
<1>1. TypeOK /\ TypeOK'
  BY TypeBuilding DEF AskedInv
<1>2. PICK c \in Columns, test \in AllTests :
        /\ currentColumn \in Columns => c = currentColumn
        /\ test \in TestsOf(c)
        /\ test.op = "like" => OneSort(test.pattern)
        /\ test.op \in {"within", "like"} \/ Type[c] \in {"int", "date"}
        /\ Compare(test)
        /\ currentColumn # None
  BY DEF CompareAny, Care, Legal
<1>3. UNCHANGED <<kind, rows, joins, columns, values>>
  BY <1>2 DEF Compare
<1>4. CASE currentColumn = Used
  <2>1. UNCHANGED builder
    BY <1>2, <1>4 DEF Compare
  <2> QED BY <1>1, <1>3, <2>1 DEF AskedInv, builder, Wanted
<1>5. CASE currentColumn # Used
  <2> DEFINE new == [column |-> c, matches |-> ~isNot, test |-> test]
  <2>1. currentColumn = c /\ asked.column = c /\ isNot = asked.not
    BY <1>1, <1>2, <1>5 DEF AskedInv, TypeOK
  <2>2. /\ conditions' = Append(conditions, new)
        /\ currentColumn' = Used /\ isNot' = FALSE
        /\ asked' = [asked EXCEPT !.not = FALSE, !.conditions = @ \cup {new}]
    BY <1>2, <1>5, <2>1 DEF Compare, Reset
  <2>3. Proper(new)
    BY <1>1, <1>2 DEF Proper, TypeOK
  <2>4. new \in Condition
    BY <1>1, <1>2, TestIs DEF Condition, TypeOK
  <2> HIDE DEF new
  <2>5. ToSet(conditions') = ToSet(conditions) \cup {new}
    <3> DEFINE n == Len(conditions)
    <3>1. n \in Nat /\ DOMAIN conditions = 1 .. n
      BY <1>1, LenProperties DEF TypeOK
    <3>2. /\ Append(conditions, new) \in Seq(Condition)
          /\ Len(Append(conditions, new)) = n + 1
          /\ \A i \in 1 .. n : Append(conditions, new)[i] = conditions[i]
          /\ Append(conditions, new)[n + 1] = new
      BY <1>1, <2>4, AppendProperties DEF TypeOK
    <3>3. DOMAIN Append(conditions, new) = 1 .. n + 1
      BY <3>2, LenProperties
    <3> DEFINE a == Append(conditions, new)
    <3>4. /\ DOMAIN a = 1 .. n + 1 /\ a[n + 1] = new
          /\ \A i \in 1 .. n : a[i] = conditions[i]
      BY <3>2, <3>3
    <3> HIDE DEF a, n
    <3>5. ToSet(a) = ToSet(conditions) \cup {new}
      <4>1. \A i \in 1 .. n + 1 : i = n + 1 \/ i \in 1 .. n
        BY <3>1
      <4>2. n + 1 \in 1 .. n + 1 /\ \A i \in 1 .. n : i \in 1 .. n + 1
        BY <3>1
      <4> QED BY <3>1, <3>4, <4>1, <4>2 DEF ToSet
    <3> QED BY <2>2, <3>5 DEF a
  <2>6. /\ asked'.conditions = asked.conditions \cup {new}
        /\ asked'.not = FALSE
    BY <1>1, <2>2 DEF TypeOK
  <2>7. ToSet(conditions)' = ToSet(conditions')
    BY DEF ToSet
  <2> QED BY <1>1, <1>3, <2>2, <2>3, <2>5, <2>6, <2>7 DEF AskedInv
<1> QED BY <1>4, <1>5

\* Every call keeps the conditions those that were asked for.
LEMMA AskedStep ==
  ASSUME Careless \cap Legal = {}, AskedInv, [Next]_vars
  PROVE  AskedInv'
<1>1. TypeOK /\ TypeOK'
  BY TypeStep DEF AskedInv
<1>2. ASSUME NEW c \in Columns \cup {Missing}, Where(c)
      PROVE  AskedInv'
  <2>1. /\ UNCHANGED <<rows, isNot, conditions, columns, values>>
        /\ asked'.conditions = asked.conditions /\ asked'.not = asked.not
        /\ currentColumn' # Used => currentColumn' = asked'.column
    BY <1>1, <1>2 DEF Where, AskedInv, TypeOK
  <2> QED BY <1>1, <2>1 DEF AskedInv
<1>3. ASSUME Not
      PROVE  AskedInv'
  <2>1. /\ UNCHANGED <<rows, currentColumn, conditions, columns, values>>
        /\ isNot' = TRUE /\ asked'.not = TRUE
        /\ asked'.conditions = asked.conditions /\ asked'.column = asked.column
    BY <1>1, <1>3 DEF Not, TypeOK
  <2> QED BY <1>1, <2>1 DEF AskedInv
<1>4. ASSUME \/ Join \/ DoneSelect \/ (\E c \in Columns : SelectMax(c) \/ SelectMin(c)) \/ UNCHANGED vars
      PROVE  AskedInv'
  <2>1. UNCHANGED <<rows, currentColumn, isNot, conditions, columns, values, asked>>
    BY <1>4 DEF Join, DoneSelect, SelectMax, SelectMin, vars, builder
  <2> QED BY <1>1, <2>1 DEF AskedInv
<1>5. ASSUME DoneDelete \/ DoneUpdate
      PROVE  AskedInv'
  <2>1. UNCHANGED <<currentColumn, isNot, conditions, columns, values, asked>>
    BY <1>5 DEF DoneDelete, DoneUpdate, builder
  <2>2. rows' \in Seq(RowsOf)
    BY <1>5, RowsWritten
  <2> QED BY <1>1, <2>1, <2>2 DEF AskedInv
<1>6. ASSUME NEW cs \in ColumnLists, SetColumns(cs)
      PROVE  AskedInv'
  <2>1. UNCHANGED <<rows, currentColumn, isNot, conditions, values, asked>>
    BY <1>6 DEF SetColumns, builder
  <2>2. values = <<>>
    BY <1>6 DEF SetColumns, Care, Legal
  <2> QED BY <1>1, <2>1, <2>2 DEF AskedInv
<1>7. ASSUME NEW vs \in CellLists, Values(vs)
      PROVE  AskedInv'
  <2>1. UNCHANGED <<rows, currentColumn, isNot, conditions, columns, asked>>
    BY <1>7 DEF Values, builder
  <2>2. CASE Len(vs) = Len(columns)
    <3>1. values' = vs
      BY <1>7, <2>2 DEF Values
    <3>2. DOMAIN vs = 1 .. Len(vs) /\ DOMAIN columns = 1 .. Len(columns)
      BY <1>1, BoundedSeqIs, LenProperties DEF CellLists, TypeOK
    <3>3. \A i \in DOMAIN columns : vs[i] \in CellsOf[columns[i]]
      BY <1>7, <2>2, <3>2 DEF Values
    <3> QED BY <1>1, <2>1, <2>2, <3>1, <3>3 DEF AskedInv
  <2>3. CASE Len(vs) # Len(columns)
    <3>1. values' = values
      BY <1>7, <2>3 DEF Values
    <3> QED BY <1>1, <2>1, <3>1 DEF AskedInv
  <2> QED BY <2>2, <2>3
<1>8. ASSUME CompareAny
      PROVE  AskedInv'
  BY <1>8, ComparesAsked
<1> QED BY <1>2, <1>3, <1>4, <1>5, <1>6, <1>7, <1>8 DEF Next

\* For every table and any calls in any order, exceptions caught and done() called
\* again: done() finds exactly the rows that match every condition asked for so far,
\* each by what the cells stand for and reversed by its own not() (condition.zep,
\* select.zep done, delete.zep done, update.zep done).
THEOREM FindsAsked ==
  ASSUME Careless \cap Legal = {}
  PROVE  Spec => AnswersAsked
<1> DEFINE Asked == result' # None /\ Answered /\ ~joins =>
                      result'.rows = {i \in DOMAIN rows : Wanted(rows[i])}
<1>1. AskedInv /\ [Next]_vars => [Asked]_vars
  <2> SUFFICES ASSUME AskedInv, Next, result' # None, Answered, ~joins
               PROVE  result'.rows = {i \in DOMAIN rows : Wanted(rows[i])}
    BY DEF AskedInv
  <2>1. ASSUME \/ \E c \in Columns \cup {Missing} : Where(c)
               \/ Not \/ CompareAny \/ Join
               \/ \E cs \in ColumnLists : SetColumns(cs)
               \/ \E vs \in CellLists : Values(vs)
        PROVE  FALSE
    <3>1. result' = None
      BY <2>1 DEF Where, Not, CompareAny, Compare, Join, SetColumns, Values
    <3> QED BY <3>1
  <2>2. ASSUME NEW c \in Columns, SelectMax(c) \/ SelectMin(c)
        PROVE  FALSE
    <3> DEFINE high == HighestValue(rows, c)
               low  == LowestValue(rows, c)
    <3>1. \/ result' = [of |-> "max", column |-> c, cell |-> high]
          \/ result' = [of |-> "min", column |-> c, cell |-> low]
      BY <2>2, Zenon DEF SelectMax, SelectMin
    <3> HIDE DEF high, low
    <3>2. result'.of = "max" \/ result'.of = "min"
      BY <3>1
    <3> QED BY <3>2 DEF Answered
  <2>3. ASSUME DoneSelect \/ DoneDelete \/ DoneUpdate
        PROVE  result'.rows = Found
    <3>1. \/ result' = Refused
          \/ result' = [of |-> "select", rows |-> Found]
          \/ result' = [of |-> "delete", rows |-> Found]
          \/ result' = [of |-> "update", rows |-> Found]
      BY <2>3 DEF DoneSelect, DoneDelete, DoneUpdate
    <3>2. result' # Refused
      BY DEF Answered, Refused
    <3> QED BY <3>1, <3>2
  <2>4. result'.rows = Found
    BY <2>1, <2>2, <2>3 DEF Next
  <2> QED BY <2>4, FoundIs
<1>2. Init => AskedInv
  BY AskedInit
<1>3. AskedInv /\ [Next]_vars => AskedInv'
  BY AskedStep
<1> QED BY <1>1, <1>2, <1>3, PTL DEF Spec, AnswersAsked

\* Of the same clients: a delete leaves exactly the rows not asked for, in order, and
\* an update changes only rows asked for, and of those only columns that were set, to
\* the cells given for them (delete.zep done, update.zep done).
THEOREM WritesOnlyAsked ==
  ASSUME Careless \cap Legal = {}
  PROVE  Spec => WritesAsked
<1> DEFINE Deletes == kind = "delete" /\ rows' # rows =>
                        Rest(rows', rows, {i \in DOMAIN rows : ~Wanted(rows[i])})
           Updates == kind = "update" /\ rows' # rows =>
                        /\ DOMAIN rows' = DOMAIN rows
                        /\ \A i \in DOMAIN rows, c \in Columns :
                             \/ rows'[i][c] = rows[i][c]
                             \/ Wanted(rows[i]) /\ \E j \in DOMAIN columns :
                                  columns[j] = c /\ rows'[i][c] = values[j]
<1>1. AskedInv /\ [Next]_vars => Deletes /\ Updates
  <2> SUFFICES ASSUME AskedInv, [Next]_vars, rows' # rows
               PROVE  Deletes /\ Updates
    OBVIOUS
  <2>1. \/ DoneDelete /\ kind = "delete"
        \/ DoneUpdate /\ kind = "update"
    BY DEF Next, vars, Where, Not, CompareAny, Compare, Join, DoneSelect, DoneDelete, DoneUpdate,
       SetColumns, Values, SelectMax, SelectMin
  <2>2. CASE DoneDelete /\ kind = "delete"
    <3>1. Rest(rows', rows, DOMAIN rows \ Found)
      BY <2>2, RowsWritten
    <3>2. DOMAIN rows \ Found = {i \in DOMAIN rows : ~Wanted(rows[i])}
      BY FoundIs
    <3> QED BY <2>2, <3>1, <3>2
  <2>3. CASE DoneUpdate /\ kind = "update"
    <3>1. /\ Len(values) = Len(columns)
          /\ rows' = [i \in DOMAIN rows |-> IF i \in Found THEN Updated(rows[i]) ELSE rows[i]]
      BY <2>3, RowsWritten
    <3>2. \A i \in DOMAIN rows : rows[i] \in RowsOf
      BY ElementOfSeq, LenProperties DEF AskedInv
    <3>3. ASSUME NEW i \in DOMAIN rows, NEW c \in Columns
          PROVE  \/ rows'[i][c] = rows[i][c]
                 \/ Wanted(rows[i]) /\ \E j \in DOMAIN columns :
                      columns[j] = c /\ rows'[i][c] = values[j]
      <4>1. CASE i \in Found
        <5>1. Wanted(rows[i]) /\ rows'[i] = Updated(rows[i])
          BY <4>1, <3>1, FoundIs
        <5>2. \/ Updated(rows[i])[c] = rows[i][c]
              \/ \E j \in DOMAIN columns : columns[j] = c /\ Updated(rows[i])[c] = values[j]
          BY <3>1, <3>2, UpdatedAsked
        <5> QED BY <5>1, <5>2
      <4>2. CASE i \notin Found
        BY <4>2, <3>1
      <4> QED BY <4>1, <4>2
    <3>4. DOMAIN rows' = DOMAIN rows
      BY <3>1
    <3> QED BY <2>3, <3>3, <3>4
  <2> QED BY <2>1, <2>2, <2>3
<1>2. Init => AskedInv
  BY AskedInit
<1>3. AskedInv /\ [Next]_vars => AskedInv'
  BY AskedStep
<1> QED
  <2>1. AskedInv /\ [Next]_vars => [Deletes /\ Updates]_vars
    BY <1>1
  <2> QED BY <2>1, <1>2, <1>3, PTL DEF Spec, WritesAsked

=============================================================================

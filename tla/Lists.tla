------------------------------- MODULE Lists -------------------------------
(***************************************************************************)
(* Lemmas about sequences and numbers that the proofs of several modules   *)
(* cite: least elements, and the operators on sequences that the library   *)
(* states no theorem about.                                                *)
(***************************************************************************)
EXTENDS Integers, SequencesExt, FiniteSetsExt, SequenceTheorems, WellFoundedInduction, TLAPS

\* Every set of natural numbers that is not empty has a least one.  What holds for
\* all numbers by induction is proved from it, by the least number it fails for.
LEMMA LeastNat ==
  ASSUME NEW T \in SUBSET Nat, T # {}
  PROVE  \E x \in T : \A y \in T : x <= y
<1> DEFINE R == {p \in Nat \X Nat : p[1] < p[2]}
<1>1. IsWellFoundedOn(R, Nat)
  BY NatLessThanWellFounded DEF OpToRel
<1>2. PICK x \in T : \A y \in T : <<y, x>> \notin R
  <2> HIDE DEF R
  <2> QED BY <1>1, WFMin
<1>3. ASSUME NEW y \in T PROVE x <= y
  <2>1. x \in Nat /\ y \in Nat
    OBVIOUS
  <2>2. SUFFICES ASSUME y < x PROVE FALSE
    BY <2>1
  <2>3. <<y, x>> \in Nat \X Nat /\ <<y, x>>[1] < <<y, x>>[2]
    BY <2>1, <2>2
  <2> QED BY <2>3, <1>2
<1> QED BY <1>3

\* The least number of a set is in it and below all others.
LEMMA MinIs ==
  ASSUME NEW T \in SUBSET Nat, T # {}
  PROVE  Min(T) \in T /\ \A y \in T : Min(T) <= y
BY LeastNat DEF Min

\* What holds for zero, and for every number up to n when it does for the one before.
LEMMA Inductive ==
  ASSUME NEW n \in Nat, NEW T, 0 \in T, \A i \in 1 .. n : i - 1 \in T => i \in T
  PROVE  0 .. n \subseteq T
<1> DEFINE F == {i \in 0 .. n : i \notin T}
<1> SUFFICES ASSUME F # {} PROVE FALSE
  OBVIOUS
<1>1. PICK x \in F : \A y \in F : x <= y
  <2>1. F \in SUBSET Nat
    OBVIOUS
  <2> QED BY <2>1, LeastNat
<1>2. x \in 1 .. n /\ x - 1 \in 0 .. n /\ x - 1 < x
  BY <1>1
<1>3. x - 1 \notin F
  BY <1>1, <1>2
<1> QED BY <1>1, <1>2, <1>3

\* The rounds of a loop: from a, n steps.
Rounds(f, n, S, a, step) ==
  f \in [0 .. n -> S] /\ f[0] = a /\ \A i \in 1 .. n : f[i] = step[i][f[i - 1]]

\* A function that is given at zero, and at every other number by a step from the one
\* before, exists.
LEMMA Stepwise ==
  ASSUME NEW n \in Nat, NEW S, NEW a \in S, NEW step \in [1 .. n -> [S -> S]]
  PROVE  \E f : Rounds(f, n, S, a, step)
<1> DEFINE Steps(m, f) == f[0] = a /\ \A i \in 1 .. m : f[i] = step[i][f[i - 1]]
           T == {m \in 0 .. n : \E f \in [0 .. m -> S] : Steps(m, f)}
<1>1. 0 \in T
  <2> DEFINE f == [i \in 0 .. 0 |-> a]
  <2>1. f \in [0 .. 0 -> S] /\ Steps(0, f)
    OBVIOUS
  <2> HIDE DEF f, Steps
  <2>2. \E h \in [0 .. 0 -> S] : Steps(0, h)
    BY <2>1
  <2> QED BY <2>2
<1>2. ASSUME NEW m \in 1 .. n, m - 1 \in T
      PROVE  m \in T
  <2>1. PICK f \in [0 .. m - 1 -> S] : Steps(m - 1, f)
    BY <1>2
  <2> DEFINE g == [i \in 0 .. m |-> IF i = m THEN step[m][f[m - 1]] ELSE f[i]]
  <2>2. \A i \in 0 .. m - 1 : i \in 0 .. m /\ i # m /\ f[i] \in S
    BY <2>1
  <2>3. step[m][f[m - 1]] \in S
    <3>1. m - 1 \in 0 .. m - 1
      OBVIOUS
    <3> QED BY <2>2, <3>1
  <2>4. g \in [0 .. m -> S]
    <3>1. \A i \in 0 .. m : i = m \/ i \in 0 .. m - 1
      OBVIOUS
    <3> QED BY <2>2, <2>3, <3>1
  <2>5. \A i \in 0 .. m - 1 : g[i] = f[i]
    BY <2>2
  <2>6. g[m] = step[m][f[m - 1]]
    OBVIOUS
  <2> HIDE DEF g
  <2>7. Steps(m, g)
    <3>1. g[0] = a
      BY <2>1, <2>5
    <3>2. ASSUME NEW i \in 1 .. m
          PROVE  g[i] = step[i][g[i - 1]]
      <4>1. i - 1 \in 0 .. m - 1 /\ g[i - 1] = f[i - 1]
        BY <2>5
      <4>2. CASE i = m
        BY <4>1, <4>2, <2>6
      <4>3. CASE i # m
        <5>1. i \in 1 .. m - 1 /\ i \in 0 .. m - 1
          BY <4>3
        <5> QED BY <5>1, <4>1, <2>1, <2>5
      <4> QED BY <4>2, <4>3
    <3> QED BY <3>1, <3>2
  <2> HIDE DEF Steps
  <2>8. \E h \in [0 .. m -> S] : Steps(m, h)
    BY <2>4, <2>7
  <2> QED BY <2>8
<1>3. n \in T
  <2> HIDE DEF T
  <2>1. 0 .. n \subseteq T
    BY <1>1, <1>2, Inductive
  <2> QED BY <2>1
<1> QED BY <1>3 DEF Rounds

\* One more element at a place, and the others around it.
Inserted(r, s, i, e) ==
  /\ Len(r) = Len(s) + 1
  /\ \A j \in 1 .. Len(s) + 1 : r[j] = IF j < i THEN s[j] ELSE IF j = i THEN e ELSE s[j - 1]

\* What InsertAt makes of a sequence.
LEMMA InsertAtIs ==
  ASSUME NEW S, NEW s \in Seq(S), NEW i \in 1 .. Len(s) + 1, NEW e \in S
  PROVE  InsertAt(s, i, e) \in Seq(S) /\ Inserted(InsertAt(s, i, e), s, i, e)
<1> DEFINE a == SubSeq(s, 1, i - 1)
           b == Append(<<>>, e)
           c == SubSeq(s, i, Len(s))
<1>1. Len(s) \in Nat /\ i \in Int /\ i - 1 \in Int /\ 1 \in Int
  BY LenProperties
<1>2. \A j \in 1 .. Len(s) : s[j] \in S
  BY ElementOfSeq
<1>3. a \in Seq(S) /\ Len(a) = i - 1 /\ \A j \in 1 .. i - 1 : a[j] = s[j]
  <2>1. \A j \in 1 .. i - 1 : s[j] \in S
    BY <1>1, <1>2
  <2> QED BY <1>1, <2>1, SubSeqProperties
<1>4. c \in Seq(S) /\ Len(c) = Len(s) - i + 1 /\ \A j \in 1 .. Len(s) - i + 1 : c[j] = s[i + j - 1]
  <2>1. \A j \in i .. Len(s) : s[j] \in S
    BY <1>1, <1>2
  <2>2. /\ SubSeq(s, i, Len(s)) \in Seq(S)
        /\ Len(SubSeq(s, i, Len(s))) = IF i <= Len(s) THEN Len(s) - i + 1 ELSE 0
        /\ \A j \in 1 .. Len(s) - i + 1 : SubSeq(s, i, Len(s))[j] = s[i + j - 1]
    BY <1>1, <2>1, SubSeqProperties
  <2> QED BY <1>1, <2>2
<1>5. b \in Seq(S) /\ Len(b) = 1 /\ b[1] = e
  <2>1. <<>> \in Seq(S) /\ Len(<<>>) = 0
    BY EmptySeq
  <2> QED BY <2>1, AppendProperties
<1> DEFINE ab == a \o b
<1>6. /\ ab \in Seq(S) /\ Len(ab) = i
      /\ \A j \in 1 .. i : ab[j] = IF j < i THEN s[j] ELSE e
  <2> HIDE DEF a, b
  <2>1. /\ a \o b \in Seq(S) /\ Len(a \o b) = Len(a) + Len(b)
        /\ \A j \in 1 .. Len(a) + Len(b) : (a \o b)[j] = IF j <= Len(a) THEN a[j] ELSE b[j - Len(a)]
    BY <1>3, <1>5, ConcatProperties
  <2> QED BY <2>1, <1>1, <1>3, <1>5
<1>7. /\ ab \o c \in Seq(S)
      /\ Len(ab \o c) = Len(s) + 1
      /\ \A j \in 1 .. Len(s) + 1 :
           (ab \o c)[j] = IF j < i THEN s[j] ELSE IF j = i THEN e ELSE s[j - 1]
  <2> HIDE DEF ab, c
  <2>1. /\ ab \o c \in Seq(S) /\ Len(ab \o c) = Len(ab) + Len(c)
        /\ \A j \in 1 .. Len(ab) + Len(c) : (ab \o c)[j] = IF j <= Len(ab) THEN ab[j] ELSE c[j - Len(ab)]
    BY <1>6, <1>4, ConcatProperties
  <2>2. Len(ab) + Len(c) = Len(s) + 1
    BY <1>1, <1>4, <1>6
  <2>3. ASSUME NEW j \in 1 .. Len(s) + 1
        PROVE  (ab \o c)[j] = IF j < i THEN s[j] ELSE IF j = i THEN e ELSE s[j - 1]
    <3>. j <= i \/ j > i
      BY <1>1
    <3>1. CASE j <= i
      BY <3>1, <2>1, <2>2, <1>1, <1>6
    <3>2. CASE j > i
      <4>1. (ab \o c)[j] = c[j - i] /\ j - i \in 1 .. Len(s) - i + 1
        BY <3>2, <2>1, <2>2, <1>1, <1>6
      <4>2. c[j - i] = s[i + (j - i) - 1] /\ i + (j - i) - 1 = j - 1
        BY <4>1, <1>4, <1>1
      <4> QED BY <4>1, <4>2, <3>2, <1>1
    <3> QED BY <3>1, <3>2
  <2> QED BY <2>1, <2>2, <2>3
<1>8. InsertAt(s, i, e) = ab \o c
  BY DEF InsertAt
<1> QED
  <2> HIDE DEF ab, c
  <2> QED BY <1>7, <1>8 DEF Inserted

\* What RemoveAt makes of a sequence.
LEMMA RemoveAtIs ==
  ASSUME NEW S, NEW s \in Seq(S), NEW i \in 1 .. Len(s)
  PROVE  /\ RemoveAt(s, i) \in Seq(S)
         /\ Len(RemoveAt(s, i)) = Len(s) - 1
         /\ \A j \in 1 .. Len(s) - 1 :
              RemoveAt(s, i)[j] = IF j < i THEN s[j] ELSE s[j + 1]
<1> DEFINE a == SubSeq(s, 1, i - 1)
           c == SubSeq(s, i + 1, Len(s))
<1>1. Len(s) \in Nat /\ i \in Int /\ i - 1 \in Int /\ i + 1 \in Int /\ 1 \in Int
  BY LenProperties
<1>2. \A j \in 1 .. Len(s) : s[j] \in S
  BY ElementOfSeq
<1>3. a \in Seq(S) /\ Len(a) = i - 1 /\ \A j \in 1 .. i - 1 : a[j] = s[j]
  <2>1. \A j \in 1 .. i - 1 : s[j] \in S
    BY <1>1, <1>2
  <2> QED BY <1>1, <2>1, SubSeqProperties
<1>4. c \in Seq(S) /\ Len(c) = Len(s) - i /\ \A j \in 1 .. Len(s) - i : c[j] = s[i + j]
  <2>1. \A j \in i + 1 .. Len(s) : s[j] \in S
    BY <1>1, <1>2
  <2>2. /\ SubSeq(s, i + 1, Len(s)) \in Seq(S)
        /\ Len(SubSeq(s, i + 1, Len(s))) = IF i + 1 <= Len(s) THEN Len(s) - (i + 1) + 1 ELSE 0
        /\ \A j \in 1 .. Len(s) - (i + 1) + 1 : SubSeq(s, i + 1, Len(s))[j] = s[(i + 1) + j - 1]
    BY <1>1, <2>1, SubSeqProperties
  <2> QED BY <1>1, <2>2
<1>5. /\ a \o c \in Seq(S)
      /\ Len(a \o c) = Len(s) - 1
      /\ \A j \in 1 .. Len(s) - 1 : (a \o c)[j] = IF j < i THEN s[j] ELSE s[j + 1]
  <2> HIDE DEF a, c
  <2>1. /\ a \o c \in Seq(S) /\ Len(a \o c) = Len(a) + Len(c)
        /\ \A j \in 1 .. Len(a) + Len(c) : (a \o c)[j] = IF j <= Len(a) THEN a[j] ELSE c[j - Len(a)]
    BY <1>3, <1>4, ConcatProperties
  <2>2. Len(a) + Len(c) = Len(s) - 1
    BY <1>1, <1>3, <1>4
  <2>3. ASSUME NEW j \in 1 .. Len(s) - 1
        PROVE  (a \o c)[j] = IF j < i THEN s[j] ELSE s[j + 1]
    <3>. j < i \/ j >= i
      BY <1>1
    <3>1. CASE j < i
      BY <3>1, <2>1, <2>2, <1>1, <1>3
    <3>2. CASE j >= i
      <4>1. (a \o c)[j] = c[j - (i - 1)] /\ j - (i - 1) \in 1 .. Len(s) - i
        BY <3>2, <2>1, <2>2, <1>1, <1>3
      <4>2. c[j - (i - 1)] = s[i + (j - (i - 1))] /\ i + (j - (i - 1)) = j + 1
        BY <4>1, <1>4, <1>1
      <4> QED BY <4>1, <4>2, <3>2, <1>1
    <3> QED BY <3>1, <3>2
  <2> QED BY <2>1, <2>2, <2>3
<1> QED
  <2> HIDE DEF a, c
  <2> QED BY <1>5 DEF RemoveAt, a, c

\* A sequence given by its elements.
LEMMA BuiltSeq ==
  ASSUME NEW S, NEW n \in Nat, NEW f \in [1 .. n -> S]
  PROVE  f \in Seq(S) /\ Len(f) = n
<1>1. f \in Seq(S)
  BY SeqDef
<1>2. DOMAIN f = 1 .. n /\ DOMAIN f = 1 .. Len(f) /\ Len(f) \in Nat
  BY <1>1, LenProperties
<1> QED BY <1>1, <1>2
=============================================================================

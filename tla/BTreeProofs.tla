---------------------------- MODULE BTreeProofs ----------------------------
(***************************************************************************)
(* Theorems about the index, for every set of keys and every node size.    *)
(***************************************************************************)
EXTENDS BTree, FiniteSetTheorems, SequenceTheorems, TLAPS

\* Moving the pointers of an element leaves an element with the same key and row.
LEMMA IncrementPointersKeeps ==
  ASSUME NEW e \in Element, NEW n \in Nat
  PROVE  /\ IncrementPointers(e, n) \in Element
         /\ IncrementPointers(e, n).key = e.key
         /\ IncrementPointers(e, n).byte = e.byte
  BY NoneAssumption DEF IncrementPointers, Pointing, HasChildren, Element

\* A new element points at the row it was made for and has no children.
LEMMA NewElementType ==
  ASSUME NEW k \in Int, NEW b \in Nat
  PROVE  /\ NewElement(k, b) \in Element
         /\ NewElement(k, b).key = k
         /\ NewElement(k, b).byte = b
  BY DEF NewElement, Element

\* A set of numbers that is not empty has a least member.
LEMMA LeastMember ==
  ASSUME NEW S \in SUBSET Nat, S # {}
  PROVE  \E m \in S : \A n \in S : m <= n
<1> DEFINE UpTo(m) == {n \in S : n <= m}
           Family  == {UpTo(m) : m \in S}
           Order   == StrictSubsetOrdering(Nat)
<1>0. \A n \in S : n \in Nat
  OBVIOUS
<1>1. Family \subseteq FiniteSubsetsOf(Nat) /\ Family # {}
  <2>1. ASSUME NEW m \in S PROVE IsFiniteSet(UpTo(m))
    <3>1. m \in Nat /\ \A n \in UpTo(m) : n \in 0 .. m
      BY <1>0
    <3>2. IsFiniteSet(0 .. m)
      BY <3>1, FS_Interval
    <3>3. UpTo(m) \in SUBSET (0 .. m)
      BY <3>1
    <3>4. QED
      BY <3>2, <3>3, FS_Subset
  <2>2. QED
    BY <1>0, <2>1 DEF FiniteSubsetsOf
<1>2. PICK T \in Family : \A U \in Family : <<U, T>> \notin Order
  <2> HIDE DEF Family, Order
  <2>1. IsWellFoundedOn(Order, FiniteSubsetsOf(Nat))
    BY FS_StrictSubsetOrderingWellFounded DEF Order
  <2>2. QED
    BY <1>1, <2>1, WFMin
<1>3. PICK m \in S : T = UpTo(m)
  OBVIOUS
<1>4. ASSUME NEW n \in S, n < m PROVE FALSE
  <2>1. UpTo(n) \subseteq UpTo(m) /\ m \in UpTo(m) /\ m \notin UpTo(n)
    <3>1. n \in Nat /\ m \in Nat
      BY <1>0
    <3>2. \A i \in Nat : i <= n => i <= m
      BY <1>4, <3>1
    <3>3. \A i \in UpTo(n) : i \in UpTo(m)
      BY <1>0, <3>2
    <3>4. m \in UpTo(m)
      BY <3>1
    <3>5. m \notin UpTo(n)
      BY <1>4, <3>1
    <3>6. UpTo(n) \subseteq UpTo(m)
      BY <3>3, Zenon
    <3>7. QED
      BY <3>4, <3>5, <3>6
  <2>2. UpTo(n) \in SUBSET Nat /\ UpTo(m) \in SUBSET Nat /\ UpTo(n) # UpTo(m)
    BY <2>1
  <2>3. <<UpTo(n), UpTo(m)>> \in Order
    BY <2>1, <2>2 DEF StrictSubsetOrdering
  <2>4. QED
    BY <1>2, <1>3, <2>3
<1>5. QED
  BY <1>0, <1>4

\* What is left of a sequence behind its first n members.
LEMMA SubSeqFrom ==
  ASSUME NEW S, NEW s \in Seq(S), NEW n \in Nat, n <= Len(s)
  PROVE  /\ SubSeq(s, n + 1, Len(s)) \in Seq(S)
         /\ Len(SubSeq(s, n + 1, Len(s))) = Len(s) - n
         /\ \A i \in 1 .. Len(s) - n : SubSeq(s, n + 1, Len(s))[i] = s[n + i]
<1>1. Len(s) \in Nat /\ n + 1 \in Int /\ Len(s) \in Int
  BY LenProperties
<1>2. \A i \in n + 1 .. Len(s) : s[i] \in S
  BY <1>1, ElementOfSeq
<1> DEFINE t == SubSeq(s, n + 1, Len(s))
<1>3. /\ t \in Seq(S)
      /\ Len(t) = IF n + 1 <= Len(s) THEN Len(s) - (n + 1) + 1 ELSE 0
      /\ \A i \in 1 .. Len(s) - (n + 1) + 1 : t[i] = s[(n + 1) + i - 1]
  BY <1>1, <1>2, SubSeqProperties
<1> HIDE DEF t
<1>4. Len(t) = Len(s) - n
  BY <1>1, <1>3
<1>5. ASSUME NEW i \in 1 .. Len(s) - n
      PROVE  t[i] = s[n + i]
  <2>1. i \in 1 .. Len(s) - (n + 1) + 1 /\ (n + 1) + i - 1 = n + i
    BY <1>1
  <2>2. QED
    BY <1>3, <2>1
<1>6. QED
  BY <1>3, <1>4, <1>5 DEF t

\* The number of elements before the place of a new one.
Smaller(elems, e) == Cardinality({i \in DOMAIN elems : elems[i].key <= e.key})

\* A node with an element added: those before its place, the element, the others.
LEMMA AddElementIs ==
  ASSUME NEW elems \in Elements, NEW e \in Element
  PROVE  /\ Smaller(elems, e) \in 0 .. Len(elems)
         /\ AddElement(elems, e) \in Elements
         /\ Len(AddElement(elems, e)) = Len(elems) + 1
         /\ \A i \in 1 .. Smaller(elems, e) : AddElement(elems, e)[i] = elems[i]
         /\ AddElement(elems, e)[Smaller(elems, e) + 1] = e
         /\ \A i \in Smaller(elems, e) + 2 .. Len(elems) + 1 :
              AddElement(elems, e)[i] = elems[i - 1]
<1> DEFINE S == {i \in DOMAIN elems : elems[i].key <= e.key}
           n == Smaller(elems, e)
<1>1. elems \in Seq(Element) /\ DOMAIN elems = 1 .. Len(elems) /\ Len(elems) \in Nat
  BY DEF Elements
<1>2. n \in Nat /\ n <= Len(elems)
  <2>1. IsFiniteSet(1 .. Len(elems)) /\ Cardinality(1 .. Len(elems)) = Len(elems)
    BY <1>1, FS_Interval
  <2>2. S \subseteq 1 .. Len(elems)
    BY <1>1
  <2>3. n = Cardinality(S)
    BY DEF Smaller
  <2>4. QED
    BY <2>1, <2>2, <2>3, FS_Subset, FS_CardinalityType
<1> DEFINE l == SubSeq(elems, 1, n)
           r == SubSeq(elems, n + 1, Len(elems))
<1>3. AddElement(elems, e) = l \o <<e>> \o r
  <2>1. AddElement(elems, e) = InsertAt(elems, n + 1, e)
    BY DEF AddElement, Smaller
  <2> HIDE DEF n
  <2>2. (n + 1) - 1 = n
    BY <1>2
  <2>3. QED
    BY <2>1, <2>2 DEF InsertAt
<1> HIDE DEF n
<1>4. l \in Seq(Element) /\ Len(l) = n /\ \A i \in 1 .. Len(l) : l[i] = elems[i]
  BY <1>1, <1>2
<1>5. /\ r \in Seq(Element) /\ Len(r) = Len(elems) - n
      /\ \A i \in 1 .. Len(r) : r[i] = elems[n + i]
  <2>1. /\ r \in Seq(Element) /\ Len(r) = Len(elems) - n
        /\ \A i \in 1 .. Len(elems) - n : r[i] = elems[n + i]
    BY <1>1, <1>2, SubSeqFrom
  <2> HIDE DEF r
  <2>2. QED
    BY <2>1
<1> HIDE DEF l, r
<1> DEFINE le == l \o <<e>>
           s  == le \o r
<1>6. /\ le \in Seq(Element) /\ Len(le) = n + 1 /\ le[n + 1] = e
      /\ \A i \in 1 .. n : le[i] = elems[i]
  BY <1>1, <1>2, <1>4
<1> HIDE DEF le
<1>7. /\ s \in Seq(Element) /\ Len(s) = Len(elems) + 1
      /\ \A i \in 1 .. n + 1 : s[i] = le[i]
      /\ \A i \in n + 2 .. Len(elems) + 1 : s[i] = r[i - (n + 1)]
  BY <1>1, <1>2, <1>5, <1>6
<1> HIDE DEF s
<1>8. AddElement(elems, e) = s
  BY <1>3 DEF s, le
<1>9. \A i \in 1 .. n : s[i] = elems[i]
  BY <1>2, <1>6, <1>7
<1>10. s[n + 1] = e
  BY <1>2, <1>6, <1>7
<1>11. ASSUME NEW i \in n + 2 .. Len(elems) + 1
       PROVE  s[i] = elems[i - 1]
  <2>1. i - (n + 1) \in 1 .. Len(r) /\ n + (i - (n + 1)) = i - 1
    BY <1>1, <1>2, <1>5
  <2>2. QED
    BY <1>5, <1>7, <2>1
<1>12. s \in Elements
  BY <1>7 DEF Elements
<1>13. QED
  BY <1>1, <1>2, <1>7, <1>8, <1>9, <1>10, <1>11, <1>12 DEF n

\* Adding an element to a node adds that element and no other.
LEMMA AddElementAdds ==
  ASSUME NEW elems \in Elements, NEW e \in Element
  PROVE  /\ AddElement(elems, e) \in Elements
         /\ Len(AddElement(elems, e)) = Len(elems) + 1
         /\ ToSet(AddElement(elems, e)) = ToSet(elems) \cup {e}
<1> DEFINE n == Smaller(elems, e)
           s == AddElement(elems, e)
<1>1. Len(elems) \in Nat /\ DOMAIN elems = 1 .. Len(elems)
  BY LenProperties DEF Elements
<1>2. /\ n \in 0 .. Len(elems) /\ s \in Elements /\ Len(s) = Len(elems) + 1
      /\ \A i \in 1 .. n : s[i] = elems[i]
      /\ s[n + 1] = e
      /\ \A i \in n + 2 .. Len(elems) + 1 : s[i] = elems[i - 1]
  BY AddElementIs
<1> HIDE DEF n, s
<1>3. DOMAIN s = 1 .. Len(elems) + 1
  BY <1>2, LenProperties DEF Elements
<1>4. ASSUME NEW i \in DOMAIN s PROVE s[i] \in ToSet(elems) \cup {e}
  <2>1. CASE i <= n
    BY <2>1, <1>1, <1>2, <1>3 DEF ToSet
  <2>2. CASE i = n + 1
    BY <2>2, <1>2
  <2>3. CASE i > n + 1
    <3>1. i \in n + 2 .. Len(elems) + 1 /\ i - 1 \in DOMAIN elems
      BY <2>3, <1>1, <1>2, <1>3
    <3>2. QED
      BY <3>1, <1>2 DEF ToSet
  <2>4. QED
    BY <2>1, <2>2, <2>3, <1>2, <1>3
<1>5. ASSUME NEW i \in DOMAIN elems PROVE elems[i] \in ToSet(s)
  <2>1. CASE i <= n
    BY <2>1, <1>1, <1>2, <1>3 DEF ToSet
  <2>2. CASE i > n
    <3>1. i + 1 \in n + 2 .. Len(elems) + 1 /\ i + 1 \in DOMAIN s /\ (i + 1) - 1 = i
      BY <2>2, <1>1, <1>2, <1>3
    <3>2. s[i + 1] = elems[i]
      BY <3>1, <1>2
    <3>3. QED
      BY <3>1, <3>2 DEF ToSet
  <2>3. QED
    BY <2>1, <2>2, <1>1, <1>2
<1>6. e \in ToSet(s)
  <2>1. n + 1 \in DOMAIN s
    BY <1>1, <1>2, <1>3
  <2>2. QED
    BY <2>1, <1>2 DEF ToSet
<1>7. ToSet(s) = ToSet(elems) \cup {e}
  <2>1. \A x \in ToSet(s) : x \in ToSet(elems) \cup {e}
    BY <1>4 DEF ToSet
  <2>2. \A x \in ToSet(elems) \cup {e} : x \in ToSet(s)
    BY <1>5, <1>6 DEF ToSet
  <2>3. QED
    BY <2>1, <2>2
<1>8. QED
  BY <1>2, <1>7 DEF s

\* The parts of a split are elements of the node; the median keeps its key and row.
LEMMA SplitParts ==
  ASSUME NEW elems \in Elements, elems # <<>>, NEW n \in Nat, NEW r \in Nat
  PROVE  LET parts == Split(elems, n, r) IN
         /\ parts.left \in Elements /\ ToSet(parts.left) \subseteq ToSet(elems)
         /\ parts.right \in Elements /\ ToSet(parts.right) \subseteq ToSet(elems)
         /\ parts.median \in Element
         /\ \E e \in ToSet(elems) : parts.median.key = e.key /\ parts.median.byte = e.byte
<1> DEFINE c == Len(elems)
           mid == (c + 1) \div 2
<1>1. /\ elems \in Seq(Element) /\ DOMAIN elems = 1 .. c /\ c \in Nat
      /\ mid \in 1 .. c
  BY DEF Elements
<1> HIDE DEF mid
<1>2. SubSeq(elems, 1, mid - 1) \in Seq(Element)
      /\ \A i \in 1 .. Len(SubSeq(elems, 1, mid - 1)) : SubSeq(elems, 1, mid - 1)[i] \in ToSet(elems)
  BY <1>1 DEF ToSet
<1>3. SubSeq(elems, mid + 1, c) \in Seq(Element)
      /\ \A i \in 1 .. Len(SubSeq(elems, mid + 1, c)) : SubSeq(elems, mid + 1, c)[i] \in ToSet(elems)
  BY <1>1 DEF ToSet
<1>4. elems[mid] \in ToSet(elems) /\ elems[mid] \in Element
  BY <1>1 DEF ToSet
<1> DEFINE m == Pointing(elems[mid], n, r)
<1>5. m \in Element /\ m.key = elems[mid].key /\ m.byte = elems[mid].byte
  BY <1>4 DEF Element, Pointing
<1> DEFINE parts == Split(elems, n, r)
<1>6. parts.left = SubSeq(elems, 1, mid - 1)
  BY DEF Split, mid
<1>7. parts.right = SubSeq(elems, mid + 1, c)
  BY DEF Split, mid
<1>8. parts.median = m
  BY DEF Split, mid
<1> HIDE DEF m
<1> HIDE DEF parts
<1>9. parts.left \in Elements /\ ToSet(parts.left) \subseteq ToSet(elems)
  BY <1>2, <1>6 DEF Elements, ToSet
<1>10. parts.right \in Elements /\ ToSet(parts.right) \subseteq ToSet(elems)
  BY <1>3, <1>7 DEF Elements, ToSet
<1>11. QED
  BY <1>4, <1>5, <1>8, <1>9, <1>10 DEF parts

\* The parts of a split, place by place.
LEMMA SplitIs ==
  ASSUME NEW elems \in Elements, elems # <<>>, NEW n \in Nat, NEW r \in Nat
  PROVE  LET parts == Split(elems, n, r)
             mid   == (Len(elems) + 1) \div 2 IN
         /\ mid \in 1 .. Len(elems)
         /\ parts.left \in Elements /\ Len(parts.left) = mid - 1
         /\ \A i \in 1 .. mid - 1 : parts.left[i] = elems[i]
         /\ parts.median \in Element /\ parts.median.key = elems[mid].key
         /\ parts.median.byte = elems[mid].byte
         /\ parts.right \in Elements /\ Len(parts.right) = Len(elems) - mid
         /\ \A i \in 1 .. Len(elems) - mid : parts.right[i] = elems[mid + i]
<1> DEFINE c == Len(elems)
           mid == (c + 1) \div 2
           parts == Split(elems, n, r)
<1>1. /\ elems \in Seq(Element) /\ DOMAIN elems = 1 .. c /\ c \in Nat
      /\ mid \in 1 .. c
  BY DEF Elements
<1>2. /\ parts.left = SubSeq(elems, 1, mid - 1)
      /\ parts.right = SubSeq(elems, mid + 1, c)
      /\ parts.median = Pointing(elems[mid], n, r)
  BY DEF Split
<1> HIDE DEF mid, parts
<1>3. elems[mid] \in Element
  BY <1>1
<1>4. /\ parts.median \in Element /\ parts.median.key = elems[mid].key
      /\ parts.median.byte = elems[mid].byte
  BY <1>2, <1>3 DEF Element, Pointing
<1>5. /\ parts.left \in Seq(Element) /\ Len(parts.left) = mid - 1
      /\ \A i \in 1 .. mid - 1 : parts.left[i] = elems[i]
  BY <1>1, <1>2
<1>6. /\ parts.right \in Seq(Element) /\ Len(parts.right) = c - mid
      /\ \A i \in 1 .. c - mid : parts.right[i] = elems[mid + i]
  <2>1. mid \in Nat /\ mid <= Len(elems)
    BY <1>1
  <2> DEFINE right == SubSeq(elems, mid + 1, Len(elems))
  <2>2. /\ right \in Seq(Element) /\ Len(right) = c - mid
        /\ \A i \in 1 .. c - mid : right[i] = elems[mid + i]
    BY <1>1, <2>1, SubSeqFrom
  <2>3. parts.right = right
    BY <1>2
  <2> HIDE DEF right
  <2>4. QED
    BY <2>2, <2>3
<1>7. QED
  BY <1>1, <1>4, <1>5, <1>6 DEF mid, parts, Elements

-----------------------------------------------------------------------------
(* The order of the elements of a node.                                    *)

Sorted(elems) == \A i, j \in 1 .. Len(elems) : i <= j => elems[i].key <= elems[j].key

\* A node in order with no more elements than a node may have.
Fits(elems) == elems \in Elements /\ Len(elems) <= ElementCount /\ Sorted(elems)

\* The elements of a node that a split would send up or to the right.
Upper(elems) == {elems[i] : i \in (Len(elems) + 1) \div 2 .. Len(elems)}

\* A part of 1 .. n that has every number below one of its own is 1 .. its size.
LEMMA DownwardClosed ==
  ASSUME NEW n \in Nat, NEW S \in SUBSET (1 .. n),
         \A i \in S : \A j \in 1 .. i : j \in S
  PROVE  S = 1 .. Cardinality(S)
<1>1. CASE S = {}
  <2>1. Cardinality(S) = 0
    BY <1>1, FS_EmptySet
  <2>2. QED
    BY <1>1, <2>1
<1>2. CASE S # {}
  <2> DEFINE T == {m \in Nat : \A i \in S : i <= m}
  <2>1. T \in SUBSET Nat /\ n \in T
    OBVIOUS
  <2>2. PICK m \in T : \A x \in T : m <= x
    BY <2>1, LeastMember
  <2>3. m \in Nat /\ \A i \in S : i <= m
    OBVIOUS
  <2>4. m \in S
    <3>1. SUFFICES ASSUME m \notin S PROVE FALSE
      OBVIOUS
    <3>2. \A i \in S : i \in Nat /\ i <= m - 1
      BY <2>3, <3>1
    <3>3. m - 1 \in Nat
      <4>1. PICK i \in S : TRUE
        BY <1>2
      <4>2. i \in Nat /\ i >= 1 /\ i <= m
        BY <2>3, <4>1
      <4>3. QED
        BY <2>3, <4>2
    <3>4. m - 1 \in T
      BY <3>2, <3>3
    <3>5. QED
      BY <2>2, <2>3, <3>4
  <2>5. S = 1 .. m
    <3>1. \A i \in S : i \in 1 .. m
      BY <2>3
    <3>2. \A j \in 1 .. m : j \in S
      BY <2>4
    <3>3. QED
      BY <3>1, <3>2
  <2>6. Cardinality(1 .. m) = m
    BY <2>3, FS_Interval
  <2>7. QED
    BY <2>5, <2>6
<1>3. QED
  BY <1>1, <1>2

\* In a node in order, the elements before the place of a new one are those with
\* no larger key.
LEMMA SmallerAre ==
  ASSUME NEW elems \in Elements, Sorted(elems), NEW e \in Element
  PROVE  /\ Smaller(elems, e) \in 0 .. Len(elems)
         /\ \A i \in 1 .. Len(elems) : elems[i].key <= e.key <=> i <= Smaller(elems, e)
<1> DEFINE S == {i \in DOMAIN elems : elems[i].key <= e.key}
           n == Smaller(elems, e)
<1>1. /\ DOMAIN elems = 1 .. Len(elems) /\ Len(elems) \in Nat
      /\ \A i \in 1 .. Len(elems) : elems[i].key \in Int
      /\ e.key \in Int
  BY LenProperties, ElementOfSeq DEF Elements, Element
<1>2. ASSUME NEW i \in S, NEW j \in 1 .. i PROVE j \in S
  <2>1. j \in 1 .. Len(elems) /\ i \in 1 .. Len(elems) /\ j <= i
    BY <1>1
  <2>2. elems[j].key <= elems[i].key /\ elems[i].key <= e.key
    BY <2>1 DEF Sorted
  <2>3. elems[j].key <= e.key
    BY <1>1, <2>1, <2>2
  <2>4. QED
    BY <1>1, <2>1, <2>3
<1>3. S \in SUBSET (1 .. Len(elems))
  BY <1>1
<1>4. n = Cardinality(S)
  BY DEF Smaller
<1>5. S = 1 .. n
  <2> HIDE DEF S
  <2>1. QED
    BY <1>1, <1>2, <1>3, <1>4, DownwardClosed
<1>6. n \in 0 .. Len(elems)
  BY AddElementIs
<1> HIDE DEF n
<1>7. \A i \in 1 .. Len(elems) : elems[i].key <= e.key <=> i <= n
  BY <1>1, <1>5, <1>6
<1>8. QED
  BY <1>6, <1>7 DEF n

\* A node in order stays in order when an element is added.
LEMMA AddElementSorts ==
  ASSUME NEW elems \in Elements, Sorted(elems), NEW e \in Element
  PROVE  Sorted(AddElement(elems, e))
<1> DEFINE n == Smaller(elems, e)
           s == AddElement(elems, e)
           c == Len(elems)
<1>1. /\ c \in Nat /\ n \in 0 .. c /\ e.key \in Int
      /\ \A i \in 1 .. c : elems[i].key \in Int
  BY SmallerAre, LenProperties, ElementOfSeq DEF Elements, Element
<1>2. \A i \in 1 .. c : elems[i].key <= e.key <=> i <= n
  BY SmallerAre
<1>3. /\ Len(s) = c + 1
      /\ \A i \in 1 .. n : s[i] = elems[i]
      /\ s[n + 1] = e
      /\ \A i \in n + 2 .. c + 1 : s[i] = elems[i - 1]
  BY AddElementIs
<1>4. \A i, j \in 1 .. c : i <= j => elems[i].key <= elems[j].key
  BY DEF Sorted
<1> HIDE DEF n, s, c
<1>5. ASSUME NEW i \in 1 .. c + 1, NEW j \in 1 .. c + 1, i <= j
      PROVE  s[i].key <= s[j].key
  <2>1. CASE j <= n
    <3>1. i \in 1 .. n /\ j \in 1 .. n /\ i \in 1 .. c /\ j \in 1 .. c
      BY <1>1, <1>5, <2>1
    <3>2. QED
      BY <1>3, <1>4, <1>5, <3>1
  <2>2. CASE j = n + 1
    <3>1. CASE i = n + 1
      BY <1>1, <1>3, <2>2, <3>1
    <3>2. CASE i <= n
      <4>1. i \in 1 .. n /\ i \in 1 .. c
        BY <1>1, <3>2
      <4>2. QED
        BY <1>2, <1>3, <2>2, <3>2, <4>1
    <3>3. QED
      BY <1>1, <1>5, <2>2, <3>1, <3>2
  <2>3. CASE j > n + 1
    <3>1. j \in n + 2 .. c + 1 /\ j - 1 \in 1 .. c /\ ~(j - 1 <= n)
      BY <1>1, <2>3
    <3>2. s[j] = elems[j - 1] /\ e.key <= elems[j - 1].key
      BY <1>1, <1>2, <1>3, <3>1
    <3>3. CASE i <= n
      <4>1. i \in 1 .. n /\ i \in 1 .. c /\ i <= j - 1
        BY <1>1, <3>1, <3>3
      <4>2. QED
        BY <1>3, <1>4, <3>1, <3>2, <4>1
    <3>4. CASE i = n + 1
      BY <1>3, <3>2, <3>4
    <3>5. CASE i > n + 1
      <4>1. i \in n + 2 .. c + 1 /\ i - 1 \in 1 .. c /\ i - 1 <= j - 1
        BY <1>1, <1>5, <3>5
      <4>2. QED
        BY <1>3, <1>4, <3>1, <3>2, <4>1
    <3>6. QED
      BY <1>1, <3>3, <3>4, <3>5
  <2>4. QED
    BY <1>1, <2>1, <2>2, <2>3
<1>6. QED
  BY <1>3, <1>5 DEF Sorted, s

\* The halves of a node in order are in order.
LEMMA SplitSorts ==
  ASSUME NEW elems \in Elements, elems # <<>>, Sorted(elems), NEW n \in Nat, NEW r \in Nat
  PROVE  Sorted(Split(elems, n, r).left) /\ Sorted(Split(elems, n, r).right)
<1> DEFINE mid == (Len(elems) + 1) \div 2
           left == Split(elems, n, r).left
           right == Split(elems, n, r).right
           c == Len(elems)
<1>1. /\ mid \in 1 .. c /\ Len(left) = mid - 1 /\ Len(right) = c - mid
      /\ \A i \in 1 .. mid - 1 : left[i] = elems[i]
      /\ \A i \in 1 .. c - mid : right[i] = elems[mid + i]
  BY SplitIs
<1>2. \A i, j \in 1 .. c : i <= j => elems[i].key <= elems[j].key
  BY DEF Sorted
<1>3. c \in Nat
  BY LenProperties DEF Elements
<1> HIDE DEF mid, left, right, c
<1>4. ASSUME NEW i \in 1 .. Len(left), NEW j \in 1 .. Len(left), i <= j
      PROVE  left[i].key <= left[j].key
  <2>1. i \in 1 .. mid - 1 /\ j \in 1 .. mid - 1 /\ i \in 1 .. c /\ j \in 1 .. c
    BY <1>1, <1>3
  <2>2. QED
    BY <1>1, <1>2, <1>4, <2>1
<1>5. ASSUME NEW i \in 1 .. Len(right), NEW j \in 1 .. Len(right), i <= j
      PROVE  right[i].key <= right[j].key
  <2>1. /\ i \in 1 .. c - mid /\ j \in 1 .. c - mid
        /\ mid + i \in 1 .. c /\ mid + j \in 1 .. c /\ mid + i <= mid + j
    BY <1>1, <1>3, <1>5
  <2>2. QED
    BY <1>1, <1>2, <2>1
<1>6. QED
  BY <1>4, <1>5 DEF Sorted, left, right

-----------------------------------------------------------------------------
(* Entries: elements without their pointers.                               *)

\* The entries of two sets are those of either.
LEMMA EntriesOfBoth ==
  ASSUME NEW A, NEW B
  PROVE  Entries(A \cup B) = Entries(A) \cup Entries(B)
  BY DEF Entries

\* More elements have more entries.
LEMMA EntriesGrow ==
  ASSUME NEW A, NEW B, A \subseteq B
  PROVE  Entries(A) \subseteq Entries(B)
  BY DEF Entries

\* The entries of a node are those of its parts, and those of its upper half are
\* those of the median and the right half.
ComesApart(elems, parts) ==
  /\ Entries(ToSet(elems)) =
       Entries(ToSet(parts.left)) \cup Entries({parts.median})
         \cup Entries(ToSet(parts.right))
  /\ Entries(Upper(elems)) = Entries({parts.median}) \cup Entries(ToSet(parts.right))

\* A split loses nothing.
LEMMA SplitEntries ==
  ASSUME NEW elems \in Elements, elems # <<>>, NEW n \in Nat, NEW r \in Nat
  PROVE  ComesApart(elems, Split(elems, n, r))
<1> DEFINE mid == (Len(elems) + 1) \div 2
           left == Split(elems, n, r).left
           right == Split(elems, n, r).right
           median == Split(elems, n, r).median
           c == Len(elems)
<1>1. /\ mid \in 1 .. c /\ Len(left) = mid - 1 /\ Len(right) = c - mid
      /\ left \in Elements /\ right \in Elements
      /\ \A i \in 1 .. mid - 1 : left[i] = elems[i]
      /\ \A i \in 1 .. c - mid : right[i] = elems[mid + i]
      /\ median.key = elems[mid].key /\ median.byte = elems[mid].byte
  BY SplitIs
<1>2. c \in Nat /\ DOMAIN elems = 1 .. c
  BY LenProperties DEF Elements
<1>3. Upper(elems) = {elems[i] : i \in mid .. c}
  BY DEF Upper
<1>4. DOMAIN left = 1 .. mid - 1 /\ DOMAIN right = 1 .. c - mid
  BY <1>1, LenProperties DEF Elements
<1> HIDE DEF mid, left, right, median, c
<1> DEFINE entry(i) == <<elems[i].key, elems[i].byte>>
<1>5. Entries(ToSet(elems)) = {entry(i) : i \in 1 .. c}
  BY <1>2 DEF Entries, ToSet
<1>6. Entries(Upper(elems)) = {entry(i) : i \in mid .. c}
  BY <1>3 DEF Entries
<1>7. Entries(ToSet(left)) = {entry(i) : i \in 1 .. mid - 1}
  BY <1>1, <1>4 DEF Entries, ToSet
<1>8. Entries({median}) = {entry(mid)}
  BY <1>1 DEF Entries
<1>9. Entries(ToSet(right)) = {entry(i) : i \in mid + 1 .. c}
  <2>1. Entries(ToSet(right)) = {entry(mid + i) : i \in 1 .. c - mid}
    <3>1. Entries(ToSet(right)) = {<<right[i].key, right[i].byte>> : i \in 1 .. c - mid}
      BY <1>4 DEF Entries, ToSet
    <3>2. \A i \in 1 .. c - mid : <<right[i].key, right[i].byte>> = entry(mid + i)
      BY <1>1
    <3> HIDE DEF entry
    <3>3. QED
      BY <3>1, <3>2
  <2>2. \A i \in 1 .. c - mid : mid + i \in mid + 1 .. c
    BY <1>1, <1>2
  <2>3. \A i \in mid + 1 .. c : i - mid \in 1 .. c - mid /\ mid + (i - mid) = i
    BY <1>1, <1>2
  <2> HIDE DEF entry
  <2>4. QED
    BY <2>1, <2>2, <2>3
<1> HIDE DEF entry
<1>10. \A i \in 1 .. c : i \in 1 .. mid - 1 \/ i = mid \/ i \in mid + 1 .. c
  BY <1>1, <1>2
<1>11. /\ \A i \in 1 .. mid - 1 : i \in 1 .. c
       /\ mid \in mid .. c
       /\ \A i \in mid + 1 .. c : i \in 1 .. c /\ i \in mid .. c
       /\ \A i \in mid .. c : i = mid \/ i \in mid + 1 .. c
  BY <1>1, <1>2
<1>12. Entries(ToSet(elems)) =
         Entries(ToSet(left)) \cup Entries({median}) \cup Entries(ToSet(right))
  BY <1>1, <1>5, <1>7, <1>8, <1>9, <1>10, <1>11
<1>13. Entries(Upper(elems)) = Entries({median}) \cup Entries(ToSet(right))
  BY <1>6, <1>8, <1>9, <1>11
<1>14. QED
  BY <1>12, <1>13 DEF left, right, median, ComesApart

\* A node which is split by its median and then gets that median again sends it up
\* or to the right in the next split (split() of a node that is its own parent).
LEMMA MedianAgain ==
  ASSUME NEW elems \in Elements, Sorted(elems), NEW e \in Element, NEW n \in Nat, NEW r \in Nat
  PROVE  LET median == Split(AddElement(elems, e), n, r).median IN
         Entries({median}) \subseteq Entries(Upper(AddElement(elems, median)))
<1> DEFINE s      == AddElement(elems, e)
           median == Split(s, n, r).median
           t      == AddElement(elems, median)
           c      == Len(elems)
           mid    == (Len(s) + 1) \div 2
           p      == Smaller(elems, e)
           q      == Smaller(elems, median)
<1>1. /\ c \in Nat /\ p \in 0 .. c /\ s \in Elements /\ Len(s) = c + 1
      /\ \A i \in 1 .. p : s[i] = elems[i]
      /\ s[p + 1] = e
      /\ \A i \in p + 2 .. c + 1 : s[i] = elems[i - 1]
  BY AddElementIs, LenProperties DEF Elements
<1> HIDE DEF s
<1>2. s # <<>>
  BY <1>1, EmptySeq
<1>3. mid \in 1 .. Len(s) /\ median \in Element /\ median.key = s[mid].key
  BY <1>1, <1>2, SplitIs
<1> HIDE DEF median
<1>4. /\ q \in 0 .. c
      /\ \A i \in 1 .. c : elems[i].key <= median.key <=> i <= q
  BY <1>3, SmallerAre
<1>5. Len(t) = c + 1 /\ t[q + 1] = median
  BY <1>3, AddElementIs
<1>6. median.key \in Int /\ c \in Int
  BY <1>1, <1>3 DEF Element
<1>7. Upper(t) = {t[i] : i \in mid .. c + 1}
  BY <1>1, <1>5 DEF Upper
<1>8. median.key = e.key => p = q
  BY DEF Smaller
<1> HIDE DEF t, c, mid, p, q
\* The place of the median is not before the middle.
<1>9. q + 1 >= mid
  <2>1. CASE mid = p + 1
    BY <1>1, <1>3, <1>4, <1>8, <2>1
  <2>2. CASE mid <= p
    <3>1. mid \in 1 .. p /\ mid \in 1 .. c
      BY <1>1, <1>3, <2>2
    <3>2. median.key = elems[mid].key
      BY <1>1, <1>3, <3>1
    <3>3. elems[mid].key <= median.key
      BY <1>6, <3>2
    <3>4. mid <= q
      BY <1>4, <3>1, <3>3
    <3>5. QED
      BY <1>4, <3>1, <3>4
  <2>3. CASE mid > p + 1
    <3>1. mid \in p + 2 .. c + 1 /\ mid - 1 \in 1 .. c
      BY <1>1, <1>3, <2>3
    <3>2. median.key = elems[mid - 1].key
      BY <1>1, <1>3, <3>1
    <3>3. elems[mid - 1].key <= median.key
      BY <1>6, <3>2
    <3>4. mid - 1 <= q
      BY <1>4, <3>1, <3>3
    <3>5. QED
      BY <1>4, <3>1, <3>4
  <2>4. QED
    BY <1>1, <1>3, <2>1, <2>2, <2>3
<1>10. q + 1 \in mid .. c + 1
  BY <1>1, <1>3, <1>4, <1>9
<1>11. median \in Upper(t)
  BY <1>5, <1>7, <1>10
<1>12. Entries({median}) \subseteq Entries(Upper(t))
  BY <1>11 DEF Entries
<1>13. QED
  BY <1>12 DEF s, median, t

-----------------------------------------------------------------------------
(* Files of nodes.                                                         *)

\* A node written in place brings its own elements into the file and no other.
LEMMA WrittenStores ==
  ASSUME index \in Seq(Node), NEW n \in Nat, NEW p \in Pointer, NEW elems \in Elements
  PROVE  /\ Written(n, p, elems) \in Seq(Node)
         /\ Len(Written(n, p, elems)) = Len(index)
         /\ StoredIn(Written(n, p, elems)) \subseteq Stored \cup ToSet(elems)
<1> DEFINE node == [parent |-> p, elems |-> elems]
           f    == Written(n, p, elems)
<1>1. node \in Node /\ node.elems = elems
  BY DEF Node
<1> HIDE DEF node
<1>2. f = [index EXCEPT ![n + 1] = node]
  BY DEF Written, node
<1> HIDE DEF f
<1>3. DOMAIN index = 1 .. Len(index) /\ Len(index) \in Nat
  OBVIOUS
<1>4. f \in Seq(Node) /\ Len(f) = Len(index)
  <2>1. f \in [1 .. Len(index) -> Node]
    BY <1>1, <1>2, <1>3, LenProperties
  <2>2. QED
    BY <2>1, <1>3, SeqDef
<1>5. \A i \in 1 .. Len(index) : f[i] = IF i = n + 1 THEN node ELSE index[i]
  BY <1>2, <1>3
<1>6. StoredIn(f) \subseteq Stored \cup ToSet(elems)
  BY <1>1, <1>3, <1>4, <1>5 DEF StoredIn, Stored
<1>7. QED
  BY <1>4, <1>6 DEF f

\* So does a node appended to the file.
LEMMA AppendStores ==
  ASSUME index \in Seq(Node), NEW node \in Node
  PROVE  /\ Append(index, node) \in Seq(Node)
         /\ Len(Append(index, node)) = Len(index) + 1
         /\ StoredIn(Append(index, node)) \subseteq Stored \cup ToSet(node.elems)
<1> DEFINE f == Append(index, node)
<1>1. /\ f \in Seq(Node) /\ Len(f) = Len(index) + 1 /\ Len(index) \in Nat
      /\ \A i \in 1 .. Len(index) : f[i] = index[i]
      /\ f[Len(index) + 1] = node
  BY AppendProperties, LenProperties
<1>2. DOMAIN f = 1 .. Len(index) + 1 /\ DOMAIN index = 1 .. Len(index)
  BY <1>1, LenProperties
<1> HIDE DEF f
<1>3. \A i \in DOMAIN f : i \in DOMAIN index \/ i = Len(index) + 1
  BY <1>1, <1>2
<1>4. StoredIn(f) \subseteq Stored \cup ToSet(node.elems)
  BY <1>1, <1>2, <1>3 DEF StoredIn, Stored
<1>5. QED
  BY <1>1, <1>4 DEF f

\* And a node prepended to it.
LEMMA PrependStores ==
  ASSUME index \in Seq(Node), NEW node \in Node
  PROVE  /\ <<node>> \o index \in Seq(Node)
         /\ Len(<<node>> \o index) = Len(index) + 1
         /\ StoredIn(<<node>> \o index) \subseteq Stored \cup ToSet(node.elems)
<1> DEFINE f == <<node>> \o index
<1>1. Len(index) \in Nat /\ <<node>> \in Seq(Node) /\ Len(<<node>>) = 1 /\ <<node>>[1] = node
  BY LenProperties
<1>2. /\ f \in Seq(Node) /\ Len(f) = 1 + Len(index)
      /\ \A i \in 1 .. 1 + Len(index) : f[i] = IF i <= 1 THEN <<node>>[i] ELSE index[i - 1]
  BY <1>1, ConcatProperties
<1>3. DOMAIN f = 1 .. 1 + Len(index) /\ DOMAIN index = 1 .. Len(index)
  BY <1>2, LenProperties
<1> HIDE DEF f
<1>4. \A i \in DOMAIN f : f[i] = node \/ \E j \in DOMAIN index : f[i] = index[j]
  <2> TAKE i \in DOMAIN f
  <2>1. CASE i = 1
    BY <2>1, <1>1, <1>2, <1>3
  <2>2. CASE i > 1
    <3>1. i - 1 \in DOMAIN index /\ f[i] = index[i - 1]
      BY <2>2, <1>1, <1>2, <1>3
    <3>2. QED
      BY <3>1
  <2>3. QED
    BY <2>1, <2>2, <1>1, <1>3
<1>5. StoredIn(f) \subseteq Stored \cup ToSet(node.elems)
  BY <1>4 DEF StoredIn, Stored
<1>6. QED
  BY <1>1, <1>2, <1>5 DEF f

\* Renumbering moves pointers; every key keeps its row.
LEMMA IncrementAllKeeps ==
  ASSUME NEW elems \in Elements, NEW n \in Nat
  PROVE  /\ IncrementAll(elems, n) \in Elements
         /\ Len(IncrementAll(elems, n)) = Len(elems)
         /\ \A e \in ToSet(IncrementAll(elems, n)) :
              \E o \in ToSet(elems) : e.key = o.key /\ e.byte = o.byte
<1>1. elems \in Seq(Element) /\ DOMAIN elems = 1 .. Len(elems) /\ Len(elems) \in Nat
  BY DEF Elements
<1>2. \A i \in 1 .. Len(elems) : elems[i] \in Element
  BY <1>1
<1>3. IncrementAll(elems, n) = [i \in 1 .. Len(elems) |-> IncrementPointers(elems[i], n)]
  BY <1>1 DEF IncrementAll
<1>4. \A i \in 1 .. Len(elems) :
        /\ IncrementPointers(elems[i], n) \in Element
        /\ IncrementPointers(elems[i], n).key = elems[i].key
        /\ IncrementPointers(elems[i], n).byte = elems[i].byte
  BY <1>2, IncrementPointersKeeps
<1>5. IncrementAll(elems, n) \in Seq(Element) /\ Len(IncrementAll(elems, n)) = Len(elems)
  BY <1>1, <1>3, <1>4
<1>6. QED
  BY <1>1, <1>3, <1>4, <1>5 DEF ToSet, Elements

-----------------------------------------------------------------------------
(* The inductive invariant.                                                *)

IInv ==
  /\ TypeOK
  /\ InsertHasRow
  /\ InsertHasRoot
  /\ ElementsPointAtTheirRows

\* What an insert holds at each place it can be at.
LEMMA FrameParts ==
  ASSUME TypeOK
  PROVE  /\ At("locate") => frame.elem \in Element
         /\ At("split") => frame.node \in Loaded /\ frame.elem \in Element /\ frame.double \in BOOLEAN
         /\ At("right") \/ At("parent") =>
              frame.parent \in Loaded /\ frame.median \in Element /\ frame.right \in Elements
         /\ At("children") => frame.todo \in Seq(Pointer) \ {<<>>} /\ frame.owner \in Pointer
         /\ At("rootRight") => frame.elem \in Element /\ frame.double \in BOOLEAN
         /\ At("rootLeft") => /\ frame.left \in Elements /\ frame.median \in Element
                              /\ frame.double \in BOOLEAN
         /\ At("rootTop") => frame.median \in Element /\ frame.double \in BOOLEAN
  BY DEF TypeOK, Frame, At

\* The nodes of the file are nodes.
LEMMA NodeParts ==
  ASSUME TypeOK, NEW n \in NodeIds
  PROVE  /\ Elems(n) \in Elements /\ Load(n) \in Loaded
         /\ Load(n).id = n /\ Load(n).elems = Elems(n) /\ Load(n).parent \in Pointer
         /\ ToSet(Elems(n)) \subseteq Stored
         /\ index # <<>>
<1>1. index \in Seq(Node) /\ Len(index) \in Nat /\ DOMAIN index = 1 .. Len(index)
  BY LenProperties DEF TypeOK
<1>2. n \in Nat /\ n + 1 \in 1 .. Len(index)
  BY <1>1 DEF NodeIds
<1>3. index[n + 1] \in Node
  BY <1>1, <1>2, ElementOfSeq
<1>4. ToSet(Elems(n)) \subseteq Stored
  BY <1>1, <1>2 DEF Stored, StoredIn, Elems
<1>5. QED
  BY <1>1, <1>2, <1>3, <1>4 DEF Elems, Load, Loaded, Node

\* If the data file stays and every element comes from one that was there, the
\* elements still point at their rows.
LEMMA ElementsMove ==
  ASSUME ElementsPointAtTheirRows, UNCHANGED data,
         \A e \in Stored' \cup Held' :
           \E o \in Stored \cup Held : e.key = o.key /\ e.byte = o.byte
  PROVE  ElementsPointAtTheirRows'
  BY DEF ElementsPointAtTheirRows, PointsAtItsRow

\* Every element is one of the right type.
LEMMA ElementsTyped ==
  ASSUME TypeOK
  PROVE  Stored \subseteq Element /\ Held \subseteq Element
<1>1. ASSUME NEW elems \in Elements PROVE ToSet(elems) \subseteq Element
  BY LenProperties, ElementOfSeq DEF Elements, ToSet
<1>2. \A i \in DOMAIN index : index[i].elems \in Elements
  <2>1. \A i \in DOMAIN index : index[i] \in Node
    BY LenProperties, ElementOfSeq DEF TypeOK
  <2>2. QED
    BY <2>1 DEF Node
<1>3. Stored \subseteq Element
  BY <1>1, <1>2 DEF Stored, StoredIn
<1>4. Held \subseteq Element
  <2>1. HeldAt({"locate", "split", "rootRight"}, {frame.elem}) \subseteq Element
    BY FrameParts DEF HeldAt, At
  <2>2. HeldAt({"split"}, ToSet(frame.node.elems)) \subseteq Element
    BY <1>1, FrameParts DEF HeldAt, At, Loaded
  <2>3. HeldAt({"right", "parent"}, ToSet(frame.parent.elems) \cup ToSet(frame.right))
          \subseteq Element
    BY <1>1, FrameParts DEF HeldAt, At, Loaded
  <2>4. HeldAt({"rootLeft"}, ToSet(frame.left)) \subseteq Element
    BY <1>1, FrameParts DEF HeldAt, At
  <2>5. HeldAt({"right", "parent", "rootLeft", "rootTop"}, {frame.median}) \subseteq Element
    BY FrameParts DEF HeldAt, At
  <2>6. QED
    BY <2>1, <2>2, <2>3, <2>4, <2>5 DEF Held
<1>5. QED
  BY <1>3, <1>4

\* A row appended at the end disturbs no element, and a new one may point at it.
LEMMA RowsGrow ==
  ASSUME ElementsPointAtTheirRows, TypeOK, NEW r \in Int \cup {None},
         data' = Append(data, r),
         \A e \in Stored' \cup Held' :
           e \in Stored \cup Held \/ (e.byte = Len(data) /\ e.key = r)
  PROVE  ElementsPointAtTheirRows'
<1>1. /\ Len(data') = Len(data) + 1 /\ Len(data) \in Nat
      /\ \A i \in 1 .. Len(data) : data'[i] = data[i]
      /\ data'[Len(data) + 1] = r
  BY AppendProperties, LenProperties DEF TypeOK
<1>2. ASSUME NEW e \in Stored' \cup Held'
      PROVE  e.byte < Len(data') /\ data'[e.byte + 1] = e.key
  <2>1. CASE e \in Stored \cup Held
    <3>1. e.byte \in Nat
      BY <2>1, ElementsTyped DEF Element
    <3>2. e.byte < Len(data) /\ data[e.byte + 1] = e.key
      BY <2>1 DEF ElementsPointAtTheirRows, PointsAtItsRow
    <3>3. QED
      BY <1>1, <3>1, <3>2
  <2>2. CASE e.byte = Len(data) /\ e.key = r
    BY <1>1, <2>2
  <2>3. QED
    BY <1>2, <2>1, <2>2
<1>3. QED
  BY <1>2 DEF ElementsPointAtTheirRows, PointsAtItsRow

\* Returning records a key and the location of the last row.
LEMMA AcceptReturns ==
  ASSUME TypeOK, data # <<>>, Last(data) \in Int, Accept
  PROVE  frame' = Idle /\ accepted' \subseteq Int \X Nat
<1>1. Len(data) - 1 \in Nat
  BY EmptySeq, LenProperties DEF TypeOK
<1>2. QED
  BY <1>1 DEF Accept, TypeOK

\* Either the insert returns or there are children to adopt.
LEMMA AdoptOrReturnEnds ==
  ASSUME TypeOK, data # <<>>, Last(data) \in Int,
         NEW todo \in Seq(Pointer), NEW owner \in Pointer, AdoptOrReturn(todo, owner)
  PROVE  /\ frame' \in Frame /\ frame'.stage \in {"idle", "children"}
         /\ accepted' \subseteq Int \X Nat
<1>1. CASE Accept
  <2>1. frame' = Idle /\ accepted' \subseteq Int \X Nat
    BY <1>1, AcceptReturns
  <2>2. Idle \in Frame /\ Idle.stage = "idle"
    BY DEF Frame, Idle
  <2>3. QED
    BY <2>1, <2>2
<1>2. CASE /\ ~ \A i \in DOMAIN todo : todo[i] = None
           /\ frame' = [stage |-> "children", todo |-> todo, owner |-> owner]
           /\ UNCHANGED accepted
  <2>1. todo # <<>>
    BY <1>2, EmptySeq, LenProperties
  <2>2. QED
    BY <1>2, <2>1 DEF Frame, TypeOK
<1>3. QED
  BY <1>1, <1>2 DEF AdoptOrReturn

\* The children of a node are pointers.
LEMMA ChildrenType ==
  ASSUME NEW elems \in Elements
  PROVE  Children(elems) \in Seq(Pointer)
<1>1. elems \in Seq(Element) /\ Len(elems) \in Nat
  BY LenProperties DEF Elements
<1>2. ASSUME NEW i \in 1 .. 2 * Len(elems)
      PROVE  (IF i % 2 = 1 THEN elems[(i + 1) \div 2].less ELSE elems[i \div 2].more) \in Pointer
  <2>1. CASE i % 2 = 1
    <3>1. (i + 1) \div 2 \in 1 .. Len(elems)
      BY <1>1, <2>1
    <3>2. QED
      BY <1>1, <2>1, <3>1, ElementOfSeq DEF Element, Pointer
  <2>2. CASE i % 2 # 1
    <3>1. i \div 2 \in 1 .. Len(elems)
      BY <1>1, <2>2
    <3>2. QED
      BY <1>1, <2>2, <3>1, ElementOfSeq DEF Element, Pointer
  <2>3. QED
    BY <2>1, <2>2
<1>3. Children(elems) \in [1 .. 2 * Len(elems) -> Pointer]
  BY <1>2 DEF Children
<1>4. 2 * Len(elems) \in Nat
  BY <1>1
<1>5. QED
  BY <1>3, <1>4, SeqDef

-----------------------------------------------------------------------------
(* The steps of a client.                                                  *)

\* A new insert appends its row and holds one element, which points at it.
LEMMA AppendRowKeeps ==
  ASSUME IInv, At("idle"), NEW k \in Int, AppendRow(k),
         UNCHANGED <<index, keyType, accepted>>
  PROVE  IInv'
<1>1. Len(data) \in Nat /\ data \in Seq(Int \cup {None})
  BY LenProperties DEF IInv, TypeOK
<1> DEFINE e == NewElement(k, Len(data))
<1>2. e \in Element /\ e.key = k /\ e.byte = Len(data)
  BY <1>1, NewElementType
<1> HIDE DEF e
<1>3. data' = Append(data, k) /\ frame' = [stage |-> "locate", elem |-> e]
  BY DEF AppendRow, e
<1>4. /\ data' \in Seq(Int \cup {None}) /\ data' # <<>>
      /\ Len(data') = Len(data) + 1 /\ data'[Len(data) + 1] = k
  BY <1>1, <1>3, AppendProperties
<1>5. TypeOK'
  BY <1>2, <1>3, <1>4 DEF IInv, TypeOK, Frame
<1>6. InsertHasRow' /\ InsertHasRoot'
  BY <1>3, <1>4 DEF InsertHasRow, InsertHasRoot, Last, At
<1>7. Held' = {e} /\ Stored' = Stored
  BY <1>3 DEF Held, HeldAt, Stored
<1>8. ElementsPointAtTheirRows'
  BY <1>2, <1>3, <1>7, RowsGrow DEF IInv
<1>9. QED
  BY <1>5, <1>6, <1>8 DEF IInv

\* The row appended is the one the insert is about.
LEMMA InsertKeeps ==
  ASSUME IInv, NEW k \in Keys, Insert(k)
  PROVE  IInv'
  BY AppendRowKeeps, KeysAssumption DEF Insert, MayInsert

\* The same without a key.
LEMMA InsertKeylessKeeps ==
  ASSUME IInv, InsertKeyless
  PROVE  IInv'
<1>1. /\ At("idle") /\ data' = Append(data, None)
      /\ UNCHANGED <<index, keyType, frame, accepted>>
  BY DEF InsertKeyless, MayInsert
<1>2. TypeOK'
  BY <1>1, AppendProperties DEF IInv, TypeOK
<1>3. InsertHasRow' /\ InsertHasRoot'
  BY <1>1 DEF IInv, InsertHasRow, InsertHasRoot, At
<1>4. Held' = Held /\ Stored' = Stored
  BY <1>1 DEF Held, HeldAt, Stored
<1>5. ElementsPointAtTheirRows'
  BY <1>1, <1>4, RowsGrow DEF IInv
<1>6. QED
  BY <1>2, <1>3, <1>5 DEF IInv

\* The generated key is an integer, or the insert never returns.
LEMMA InsertNextKeeps ==
  ASSUME IInv, InsertNext
  PROVE  IInv'
<1>1. At("idle") /\ UNCHANGED <<index, keyType, accepted>>
  BY DEF InsertNext, MayInsert
<1>2. CASE LastNodeReturns /\ AppendRow(NextKey)
  <2>1. CASE LastNode \in NodeIds
    <3>1. Elems(LastNode) \in Seq(Element) /\ Elems(LastNode) # <<>>
      BY <1>2, <2>1, NodeParts DEF IInv, LastNodeReturns, Elements
    <3>2. Last(Elems(LastNode)) \in Element
      BY <3>1, EmptySeq, LenProperties, ElementOfSeq DEF Last
    <3>3. NextKey \in Int
      BY <2>1, <3>2 DEF NextKey, Element
    <3>4. QED
      BY <1>1, <1>2, <3>3, AppendRowKeeps
  <2>2. CASE LastNode \notin NodeIds
    <3>1. NextKey \in Int
      BY <2>2 DEF NextKey
    <3>2. QED
      BY <1>1, <1>2, <3>1, AppendRowKeeps
  <2>3. QED
    BY <2>1, <2>2
<1>3. CASE data' = Append(data, None) /\ frame' = Undefined
  <2>1. TypeOK'
    BY <1>1, <1>3, AppendProperties DEF IInv, TypeOK, Undefined, Frame
  <2>2. InsertHasRow' /\ InsertHasRoot'
    BY <1>3 DEF InsertHasRow, InsertHasRoot, At, Undefined
  <2>3. Held' = {} /\ Stored' = Stored
    BY <1>1, <1>3 DEF Held, HeldAt, Stored, Undefined
  <2>4. ElementsPointAtTheirRows'
    BY <1>3, <2>3, RowsGrow DEF IInv
  <2>5. QED
    BY <2>1, <2>2, <2>4 DEF IInv
<1>4. QED
  BY <1>2, <1>3 DEF InsertNext

\* Opening the files again reads them and holds nothing.
LEMMA ReopenKeeps ==
  ASSUME IInv, Reopen \/ Crash
  PROVE  IInv'
<1>1. /\ UNCHANGED <<index, data, accepted>>
      /\ keyType' \in KeyTypes
      /\ frame' \in {Idle, Undefined}
  BY DEF Reopen, Crash, KeyTypeFound, KeyTypes
<1>2. TypeOK'
  BY <1>1 DEF IInv, TypeOK, Frame, Idle, Undefined
<1>3. InsertHasRow' /\ InsertHasRoot'
  BY <1>1 DEF InsertHasRow, InsertHasRoot, At, Idle, Undefined
<1>4. Held' = {} /\ Stored' = Stored
  BY <1>1 DEF Held, HeldAt, Stored, Idle, Undefined
<1>5. ElementsPointAtTheirRows'
  BY <1>1, <1>4, ElementsMove DEF IInv
<1>6. QED
  BY <1>2, <1>3, <1>5 DEF IInv

\* Empty files have no elements.
LEMMA TruncateKeeps ==
  ASSUME IInv, Truncate
  PROVE  IInv'
<1>1. /\ index' = <<>> /\ data' = <<>> /\ accepted' = {}
      /\ UNCHANGED <<keyType, frame>> /\ frame.stage = "idle"
  BY DEF Truncate, At
<1>2. TypeOK'
  BY <1>1, EmptySeq DEF IInv, TypeOK
<1>3. InsertHasRow' /\ InsertHasRoot'
  BY <1>1 DEF InsertHasRow, InsertHasRoot, At
<1>4. Held' = {} /\ Stored' = {}
  <2>1. DOMAIN index' = {}
    BY <1>1, EmptySeq, LenProperties
  <2>2. QED
    BY <1>1, <2>1 DEF Held, HeldAt, Stored, StoredIn
<1>5. QED
  BY <1>2, <1>3, <1>4 DEF IInv, ElementsPointAtTheirRows

-----------------------------------------------------------------------------
(* The steps of insertIndex().                                             *)

\* What an insert in progress can rely on.
LEMMA InProgress ==
  ASSUME IInv, frame.stage \notin {"idle", "undefined"}
  PROVE  TypeOK /\ data # <<>> /\ Last(data) \in Int
  BY DEF IInv, InsertHasRow

\* A step that leaves the data file alone and ends in a place where nothing is
\* held keeps the invariant if the file it leaves does.
LEMMA RestingKeeps ==
  ASSUME IInv, frame.stage \notin {"idle", "undefined"}, UNCHANGED <<data, keyType>>,
         index' \in Seq(Node), frame' \in Frame, accepted' \subseteq Int \X Nat,
         frame'.stage \in {"idle", "undefined", "children"},
         \A e \in Stored' : \E o \in Stored \cup Held : e.key = o.key /\ e.byte = o.byte
  PROVE  IInv'
<1>1. TypeOK'
  BY DEF IInv, TypeOK
<1>2. InsertHasRow' /\ InsertHasRoot'
  BY InProgress DEF InsertHasRow, InsertHasRoot, At
<1>3. Held' = {}
  BY DEF Held, HeldAt
<1>4. ElementsPointAtTheirRows'
  BY <1>3, ElementsMove DEF IInv
<1>5. QED
  BY <1>1, <1>2, <1>4 DEF IInv

\* The first node holds the element of the row just appended.
LEMMA IndexFirstKeeps ==
  ASSUME IInv, IndexFirst
  PROVE  IInv'
<1>1. /\ TypeOK /\ At("locate") /\ data # <<>> /\ Last(data) \in Int /\ Accept
      /\ UNCHANGED <<data, keyType>>
  BY InProgress DEF IndexFirst, At
<1> DEFINE node == [parent |-> None, elems |-> <<frame.elem>>]
<1>2. frame.elem \in Element /\ Held = {frame.elem}
  BY <1>1, FrameParts DEF At, Held, HeldAt
<1>3. node \in Node /\ ToSet(node.elems) = {frame.elem}
  BY <1>2 DEF Node, Elements, Pointer, ToSet
<1>4. index' = Append(index, node)
  BY DEF IndexFirst
<1> HIDE DEF node
<1>5. index' \in Seq(Node) /\ Stored' \subseteq Stored \cup {frame.elem}
  BY <1>1, <1>3, <1>4, AppendStores DEF TypeOK, Stored
<1>6. frame' = Idle /\ accepted' \subseteq Int \X Nat
  BY <1>1, AcceptReturns
<1>7. QED
  BY <1>1, <1>2, <1>5, <1>6, RestingKeeps DEF At, Idle, Frame

\* A duplicate changes no node.
LEMMA IndexDuplicateKeeps ==
  ASSUME IInv, IndexDuplicate
  PROVE  IInv'
<1>1. /\ At("locate") /\ TypeOK /\ frame' = Idle
      /\ UNCHANGED <<index, data, keyType, accepted>>
  BY DEF IInv, IndexDuplicate
<1>2. Stored' = Stored
  BY <1>1 DEF Stored
<1>3. QED
  BY <1>1, <1>2, RestingKeeps DEF At, Idle, Frame, TypeOK

\* A walk that never ends changes no node.
LEMMA IndexEndlessKeeps ==
  ASSUME IInv, IndexEndless
  PROVE  IInv'
<1>1. /\ At("locate") /\ TypeOK /\ frame' = Undefined
      /\ UNCHANGED <<index, data, keyType, accepted>>
  BY DEF IInv, IndexEndless, Fail
<1>2. Stored' = Stored
  BY <1>1 DEF Stored
<1>3. QED
  BY <1>1, <1>2, RestingKeeps DEF At, Undefined, Frame, TypeOK

\* The node written has its old elements and that of the row just appended.
LEMMA IndexInPlaceKeeps ==
  ASSUME IInv, IndexInPlace
  PROVE  IInv'
<1> DEFINE node  == Load(Located(frame.elem.key))
           elems == AddElement(node.elems, frame.elem)
<1>1. /\ TypeOK /\ At("locate") /\ data # <<>> /\ Last(data) \in Int /\ Accept
      /\ UNCHANGED <<data, keyType>> /\ Located(frame.elem.key) \in NodeIds
      /\ index' = Written(node.id, node.parent, elems)
  BY InProgress DEF IndexInPlace, Misses, At
<1>2. frame.elem \in Element /\ Held = {frame.elem}
  BY <1>1, FrameParts DEF At, Held, HeldAt
<1>3. /\ node.elems \in Elements /\ node.id \in Nat /\ node.parent \in Pointer
      /\ ToSet(node.elems) \subseteq Stored
  BY <1>1, NodeParts DEF Loaded
<1> HIDE DEF node
<1>4. elems \in Elements /\ ToSet(elems) \subseteq Stored \cup {frame.elem}
  BY <1>2, <1>3, AddElementAdds
<1> HIDE DEF elems
<1>5. index' \in Seq(Node) /\ Stored' \subseteq Stored \cup {frame.elem}
  BY <1>1, <1>3, <1>4, WrittenStores DEF TypeOK, Stored
<1>6. frame' = Idle /\ accepted' \subseteq Int \X Nat
  BY <1>1, AcceptReturns
<1>7. QED
  BY <1>1, <1>2, <1>5, <1>6, RestingKeeps DEF At, Idle, Frame

\* The node to split is in memory, with the new element.
LEMMA IndexFullKeeps ==
  ASSUME IInv, IndexFull
  PROVE  IInv'
<1> DEFINE node == Load(Located(frame.elem.key))
<1>1. /\ TypeOK /\ At("locate") /\ data # <<>> /\ Last(data) \in Int
      /\ UNCHANGED <<index, data, keyType, accepted>> /\ Located(frame.elem.key) \in NodeIds
      /\ frame' = [stage |-> "split", node |-> node, elem |-> frame.elem, double |-> FALSE]
  BY InProgress DEF IndexFull, Misses, At
<1>2. frame.elem \in Element /\ Held = {frame.elem}
  BY <1>1, FrameParts DEF At, Held, HeldAt
<1>3. node \in Loaded /\ ToSet(node.elems) \subseteq Stored /\ index # <<>>
  BY <1>1, NodeParts
<1> HIDE DEF node
<1>4. TypeOK'
  BY <1>1, <1>2, <1>3 DEF TypeOK, Frame
<1>5. InsertHasRow' /\ InsertHasRoot'
  BY <1>1, <1>3 DEF InsertHasRow, InsertHasRoot, At
<1>6. Stored' = Stored /\ Held' = ToSet(node.elems) \cup {frame.elem}
  BY <1>1 DEF Stored, Held, HeldAt
<1>7. ElementsPointAtTheirRows'
  BY <1>1, <1>2, <1>3, <1>6, ElementsMove DEF IInv
<1>8. QED
  BY <1>4, <1>5, <1>7 DEF IInv

-----------------------------------------------------------------------------
(* The steps of split().                                                   *)

\* The left half has only elements of the node that is split.
LEMMA SplitLeftKeeps ==
  ASSUME IInv, SplitLeft
  PROVE  IInv'
<1> DEFINE all   == AddElement(frame.node.elems, frame.elem)
           parts == Split(all, frame.node.id, Len(index))
           par   == Load(frame.node.parent)
<1>1. /\ TypeOK /\ At("split") /\ data # <<>> /\ Last(data) \in Int
      /\ UNCHANGED <<data, keyType, accepted>> /\ frame.node.parent \in NodeIds
      /\ index' = Written(frame.node.id, frame.node.parent, parts.left)
      /\ frame' = [stage |-> "right", parent |-> par, median |-> parts.median,
                   right |-> parts.right]
  BY InProgress DEF SplitLeft, At
<1>2. /\ frame.elem \in Element /\ frame.node \in Loaded
      /\ Held = ToSet(frame.node.elems) \cup {frame.elem}
  BY <1>1, FrameParts DEF At, Held, HeldAt
<1>3. /\ frame.node.elems \in Elements /\ frame.node.id \in Nat
      /\ frame.node.parent \in Pointer /\ Len(index) \in Nat
  BY <1>1, <1>2, LenProperties DEF Loaded, TypeOK
<1>4. par \in Loaded /\ ToSet(par.elems) \subseteq Stored
  BY <1>1, NodeParts
<1> HIDE DEF par
<1>5. /\ all \in Elements /\ all # <<>> /\ ToSet(all) \subseteq Held
  <2>1. all \in Elements /\ Len(all) = Len(frame.node.elems) + 1 /\ ToSet(all) \subseteq Held
    BY <1>2, <1>3, AddElementAdds
  <2>2. Len(frame.node.elems) \in Nat
    BY <1>3, LenProperties DEF Elements
  <2>3. QED
    BY <2>1, <2>2, EmptySeq
<1> HIDE DEF all
<1>6. /\ parts.left \in Elements /\ ToSet(parts.left) \subseteq Held
      /\ parts.right \in Elements /\ ToSet(parts.right) \subseteq Held
      /\ parts.median \in Element
      /\ \E o \in Held : parts.median.key = o.key /\ parts.median.byte = o.byte
  BY <1>3, <1>5, SplitParts
<1> HIDE DEF parts
<1>7. index' \in Seq(Node) /\ Stored' \subseteq Stored \cup Held
  BY <1>1, <1>3, <1>6, WrittenStores DEF TypeOK, Stored
<1>8. TypeOK'
  BY <1>1, <1>4, <1>6, <1>7 DEF TypeOK, Frame
<1>9. InsertHasRow' /\ InsertHasRoot'
  BY <1>1 DEF InsertHasRow, InsertHasRoot, At
<1>10. Held' = ToSet(par.elems) \cup ToSet(parts.right) \cup {parts.median}
  BY <1>1 DEF Held, HeldAt
<1>11. ElementsPointAtTheirRows'
  BY <1>1, <1>4, <1>6, <1>7, <1>10, ElementsMove DEF IInv
<1>12. QED
  BY <1>8, <1>9, <1>11 DEF IInv

\* So has the right half.
LEMMA SplitRightKeeps ==
  ASSUME IInv, SplitRight
  PROVE  IInv'
<1> DEFINE node == [parent |-> frame.parent.id, elems |-> frame.right]
<1>1. /\ TypeOK /\ At("right") /\ data # <<>> /\ Last(data) \in Int
      /\ UNCHANGED <<data, keyType, accepted>>
      /\ index' = Append(index, node)
  BY InProgress DEF SplitRight, At
<1>2. frame.parent \in Loaded /\ frame.median \in Element /\ frame.right \in Elements
  BY <1>1, FrameParts DEF At
<1>3. Held = ToSet(frame.parent.elems) \cup ToSet(frame.right) \cup {frame.median}
  BY <1>1 DEF At, Held, HeldAt
<1>4. node \in Node /\ ToSet(node.elems) \subseteq Held
  BY <1>2, <1>3 DEF Node, Loaded, Pointer
<1> HIDE DEF node
<1>5. /\ index' \in Seq(Node) /\ index' # <<>>
      /\ Stored' \subseteq Stored \cup Held
  BY <1>1, <1>4, AppendStores, AppendProperties DEF TypeOK, Stored
<1> DEFINE there == [stage |-> "parent", parent |-> frame.parent,
                     median |-> frame.median, right |-> frame.right]
           again == [stage |-> "split", node |-> frame.parent, elem |-> frame.median,
                     double |-> TRUE]
<1>6. frame' = there \/ frame' = again
  BY DEF SplitRight
<1>7. TypeOK'
  <2>1. there \in Frame /\ again \in Frame
    BY <1>2 DEF Frame
  <2>2. QED
    BY <1>1, <1>5, <1>6, <2>1 DEF TypeOK
<1>8. InsertHasRow' /\ InsertHasRoot'
  BY <1>1, <1>5, <1>6 DEF InsertHasRow, InsertHasRoot, At
<1>9. Held' \subseteq Held
  BY <1>3, <1>6 DEF Held, HeldAt
<1>10. ElementsPointAtTheirRows'
  BY <1>1, <1>5, <1>9, ElementsMove DEF IInv
<1>11. QED
  BY <1>7, <1>8, <1>10 DEF IInv

\* The parent gets the median, an element of the node that is split.
LEMMA SplitParentKeeps ==
  ASSUME IInv, SplitParent
  PROVE  IInv'
<1> DEFINE elems == AddElement(frame.parent.elems, frame.median)
<1>1. /\ TypeOK /\ At("parent") /\ data # <<>> /\ Last(data) \in Int
      /\ UNCHANGED <<data, keyType>>
      /\ index' = Written(frame.parent.id, frame.parent.parent, elems)
      /\ AdoptOrReturn(Children(frame.right), frame.median.more)
  BY InProgress DEF SplitParent, At
<1>2. /\ frame.parent \in Loaded /\ frame.median \in Element /\ frame.right \in Elements
      /\ Held = ToSet(frame.parent.elems) \cup ToSet(frame.right) \cup {frame.median}
  BY <1>1, FrameParts DEF At, Held, HeldAt
<1>3. /\ frame.parent.elems \in Elements /\ frame.parent.id \in Nat
      /\ frame.parent.parent \in Pointer /\ frame.median.more \in Pointer
  BY <1>2 DEF Loaded, Element, Pointer
<1>4. elems \in Elements /\ ToSet(elems) \subseteq Held
  BY <1>2, <1>3, AddElementAdds
<1> HIDE DEF elems
<1>5. index' \in Seq(Node) /\ Stored' \subseteq Stored \cup Held
  BY <1>1, <1>3, <1>4, WrittenStores DEF TypeOK, Stored
<1>6. /\ frame' \in Frame /\ frame'.stage \in {"idle", "children"}
      /\ accepted' \subseteq Int \X Nat
  BY <1>1, <1>2, <1>3, ChildrenType, AdoptOrReturnEnds
<1>7. QED
  BY <1>1, <1>5, <1>6, RestingKeeps DEF At

\* Only the header of a child changes.
LEMMA AdoptChildKeeps ==
  ASSUME IInv, AdoptChild
  PROVE  IInv'
<1> DEFINE child == Head(frame.todo)
<1>1. /\ TypeOK /\ At("children") /\ data # <<>> /\ Last(data) \in Int
      /\ UNCHANGED <<data, keyType>>
  BY InProgress DEF AdoptChild, At
<1>2. /\ frame.owner \in Pointer /\ child \in Pointer /\ Tail(frame.todo) \in Seq(Pointer)
  BY <1>1, FrameParts, HeadTailProperties
<1>3. CASE Fail
  <2>1. frame' = Undefined /\ index' = index /\ accepted' = accepted
    BY <1>3 DEF Fail
  <2>2. Stored' = Stored
    BY <2>1 DEF Stored
  <2>3. QED
    BY <1>1, <2>1, <2>2, RestingKeeps DEF At, Undefined, Frame, TypeOK
<1>4. CASE /\ child \in NodeIds \cup {None}
           /\ index' = IF child = None THEN index
                       ELSE Written(child, frame.owner, Elems(child))
           /\ AdoptOrReturn(Tail(frame.todo), frame.owner)
  <2>1. index' \in Seq(Node) /\ Stored' \subseteq Stored
    <3>1. CASE child = None
      BY <1>1, <1>4, <3>1 DEF TypeOK, Stored
    <3>2. CASE child # None
      <4>1. child \in NodeIds /\ child \in Nat
        BY <1>2, <1>4, <3>2 DEF Pointer
      <4>2. Elems(child) \in Elements /\ ToSet(Elems(child)) \subseteq Stored
        BY <1>1, <4>1, NodeParts
      <4>3. QED
        BY <1>1, <1>2, <1>4, <3>2, <4>1, <4>2, WrittenStores DEF TypeOK, Stored
    <3>3. QED
      BY <3>1, <3>2
  <2>2. /\ frame' \in Frame /\ frame'.stage \in {"idle", "children"}
        /\ accepted' \subseteq Int \X Nat
    BY <1>1, <1>2, <1>4, AdoptOrReturnEnds
  <2>3. QED
    BY <1>1, <2>1, <2>2, RestingKeeps DEF At
<1>5. QED
  BY <1>3, <1>4 DEF AdoptChild

-----------------------------------------------------------------------------
(* The steps of splitRoot().                                               *)

\* Raising pointers and headers changes no key and no row.
LEMMA RootRenumberKeeps ==
  ASSUME IInv, RootRenumber
  PROVE  IInv'
<1> DEFINE node(i) ==
             [parent |-> IF index[i].parent = None THEN 0 ELSE index[i].parent + 1,
              elems  |-> IncrementAll(index[i].elems, 2)]
<1>1. /\ TypeOK /\ At("split") /\ data # <<>> /\ Last(data) \in Int /\ index # <<>>
      /\ UNCHANGED <<data, keyType, accepted>>
      /\ index' = [i \in DOMAIN index |-> node(i)]
      /\ frame' = [stage |-> "rootRight", elem |-> frame.elem, double |-> frame.double]
  BY InProgress DEF RootRenumber, At, IInv, InsertHasRoot
<1>2. /\ frame.elem \in Element /\ frame.double \in BOOLEAN
      /\ frame.elem \in Held
  BY <1>1, FrameParts DEF At, Held, HeldAt
<1>3. DOMAIN index = 1 .. Len(index) /\ Len(index) \in Nat
  BY <1>1, LenProperties DEF TypeOK
<1>4. ASSUME NEW i \in 1 .. Len(index)
      PROVE  /\ node(i) \in Node
             /\ \A e \in ToSet(node(i).elems) :
                  \E o \in Stored : e.key = o.key /\ e.byte = o.byte
  <2>1. index[i] \in Node
    BY <1>1, ElementOfSeq DEF TypeOK
  <2>2. index[i].elems \in Elements /\ index[i].parent \in Pointer
    BY <2>1 DEF Node
  <2>3. /\ IncrementAll(index[i].elems, 2) \in Elements
        /\ \A e \in ToSet(IncrementAll(index[i].elems, 2)) :
             \E o \in ToSet(index[i].elems) : e.key = o.key /\ e.byte = o.byte
    BY <2>2, IncrementAllKeeps
  <2>4. node(i) \in Node /\ node(i).elems = IncrementAll(index[i].elems, 2)
    BY <2>2, <2>3 DEF Node, Pointer
  <2>5. ToSet(index[i].elems) \subseteq Stored
    BY <1>3 DEF Stored, StoredIn
  <2>6. QED
    BY <2>3, <2>4, <2>5
<1> HIDE DEF node
<1>5. index' \in [1 .. Len(index) -> Node]
  BY <1>1, <1>3, <1>4
<1>6. index' \in Seq(Node) /\ Len(index') = Len(index)
  BY <1>3, <1>5, SeqDef
<1>7. index' # <<>>
  BY <1>1, <1>3, <1>6, EmptySeq DEF TypeOK
<1>8. \A e \in Stored' : \E o \in Stored : e.key = o.key /\ e.byte = o.byte
  BY <1>1, <1>3, <1>4 DEF Stored, StoredIn
<1>9. TypeOK'
  BY <1>1, <1>2, <1>6 DEF TypeOK, Frame
<1>10. InsertHasRow' /\ InsertHasRoot'
  BY <1>1, <1>7 DEF InsertHasRow, InsertHasRoot, At
<1>11. Held' = {frame.elem}
  BY <1>1 DEF Held, HeldAt
<1>12. ElementsPointAtTheirRows'
  BY <1>1, <1>2, <1>8, <1>11, ElementsMove DEF IInv
<1>13. QED
  BY <1>9, <1>10, <1>12 DEF IInv

\* The right half of the root has only elements of the root.
LEMMA RootRightKeeps ==
  ASSUME IInv, RootRight
  PROVE  IInv'
<1> DEFINE root  == Load(0)
           all   == AddElement(root.elems, frame.elem)
           parts == Split(all, 1, 2)
<1>1. /\ TypeOK /\ At("rootRight") /\ data # <<>> /\ Last(data) \in Int /\ index # <<>>
      /\ UNCHANGED <<data, keyType, accepted>>
      /\ index' = Written(0, root.parent, parts.right)
      /\ frame' = [stage |-> "rootLeft", left |-> parts.left,
                   median |-> parts.median, double |-> frame.double]
  BY InProgress DEF RootRight, At, IInv, InsertHasRoot
<1>2. frame.elem \in Element /\ frame.double \in BOOLEAN /\ Held = {frame.elem}
  BY <1>1, FrameParts DEF At, Held, HeldAt
<1>3. 0 \in NodeIds
  BY <1>1, EmptySeq, LenProperties DEF NodeIds, TypeOK
<1>4. /\ root.elems \in Elements /\ root.parent \in Pointer
      /\ ToSet(root.elems) \subseteq Stored
  BY <1>1, <1>3, NodeParts DEF Loaded
<1> HIDE DEF root
<1>5. all \in Elements /\ all # <<>> /\ ToSet(all) \subseteq Stored \cup Held
  <2>1. /\ all \in Elements /\ Len(all) = Len(root.elems) + 1
        /\ ToSet(all) \subseteq Stored \cup Held
    BY <1>2, <1>4, AddElementAdds
  <2>2. Len(root.elems) \in Nat
    BY <1>4, LenProperties DEF Elements
  <2>3. QED
    BY <2>1, <2>2, EmptySeq
<1> HIDE DEF all
<1>6. /\ parts.left \in Elements /\ ToSet(parts.left) \subseteq Stored \cup Held
      /\ parts.right \in Elements /\ ToSet(parts.right) \subseteq Stored \cup Held
      /\ parts.median \in Element
      /\ \E o \in Stored \cup Held : parts.median.key = o.key /\ parts.median.byte = o.byte
  BY <1>5, SplitParts
<1> HIDE DEF parts
<1>7. /\ index' \in Seq(Node) /\ Len(index') = Len(index)
      /\ Stored' \subseteq Stored \cup Held
  BY <1>1, <1>4, <1>6, WrittenStores DEF TypeOK, Stored
<1>8. index' # <<>>
  BY <1>1, <1>7, EmptySeq, LenProperties DEF TypeOK
<1>9. TypeOK'
  BY <1>1, <1>2, <1>6, <1>7 DEF TypeOK, Frame
<1>10. InsertHasRow' /\ InsertHasRoot'
  BY <1>1, <1>8 DEF InsertHasRow, InsertHasRoot, At
<1>11. Held' = ToSet(parts.left) \cup {parts.median}
  BY <1>1 DEF Held, HeldAt
<1>12. ElementsPointAtTheirRows'
  BY <1>1, <1>6, <1>7, <1>11, ElementsMove DEF IInv
<1>13. QED
  BY <1>9, <1>10, <1>12 DEF IInv

\* So has the left half, prepended.
LEMMA RootLeftKeeps ==
  ASSUME IInv, RootLeft
  PROVE  IInv'
<1> DEFINE node == [parent |-> 0, elems |-> frame.left]
<1>1. /\ TypeOK /\ At("rootLeft") /\ data # <<>> /\ Last(data) \in Int /\ index # <<>>
      /\ UNCHANGED <<data, keyType, accepted>>
      /\ index' = <<node>> \o index
      /\ frame' = [stage |-> "rootTop", median |-> frame.median, double |-> frame.double]
  BY InProgress DEF RootLeft, At, IInv, InsertHasRoot
<1>2. /\ frame.left \in Elements /\ frame.median \in Element /\ frame.double \in BOOLEAN
      /\ Held = ToSet(frame.left) \cup {frame.median}
  BY <1>1, FrameParts DEF At, Held, HeldAt
<1>3. node \in Node /\ node.elems = frame.left
  BY <1>2 DEF Node, Pointer
<1> HIDE DEF node
<1>4. /\ index' \in Seq(Node) /\ Len(index') = Len(index) + 1
      /\ Stored' \subseteq Stored \cup Held
  BY <1>1, <1>2, <1>3, PrependStores DEF TypeOK, Stored
<1>5. Len(index') >= 2
  BY <1>1, <1>4, EmptySeq, LenProperties DEF TypeOK
<1>6. index' # <<>>
  BY <1>5, EmptySeq
<1>7. TypeOK'
  BY <1>1, <1>2, <1>4 DEF TypeOK, Frame
<1>8. InsertHasRow' /\ InsertHasRoot'
  BY <1>1, <1>5, <1>6 DEF InsertHasRow, InsertHasRoot, At
<1>9. Held' = {frame.median}
  BY <1>1 DEF Held, HeldAt
<1>10. ElementsPointAtTheirRows'
  BY <1>1, <1>2, <1>4, <1>9, ElementsMove DEF IInv
<1>11. QED
  BY <1>7, <1>8, <1>10 DEF IInv

\* The new root has the median alone.
LEMMA RootTopKeeps ==
  ASSUME IInv, RootTop
  PROVE  IInv'
<1> DEFINE node == [parent |-> None, elems |-> <<frame.median>>]
<1>1. /\ TypeOK /\ At("rootTop") /\ data # <<>> /\ Last(data) \in Int /\ Len(index) >= 2
      /\ UNCHANGED <<data, keyType>>
      /\ index' = <<node>> \o index
  BY InProgress DEF RootTop, At, IInv, InsertHasRoot
<1>2. frame.median \in Element /\ Held = {frame.median}
  BY <1>1, FrameParts DEF At, Held, HeldAt
<1>3. node \in Node /\ ToSet(node.elems) = {frame.median}
  BY <1>2 DEF Node, Elements, Pointer, ToSet
<1> HIDE DEF node
<1>4. /\ index' \in Seq(Node) /\ Len(index') = Len(index) + 1
      /\ Stored' \subseteq Stored \cup Held
  BY <1>1, <1>2, <1>3, PrependStores DEF TypeOK, Stored
<1>5. CASE Accept
  <2>1. frame' = Idle /\ accepted' \subseteq Int \X Nat
    BY <1>1, <1>5, AcceptReturns
  <2>2. QED
    BY <1>1, <1>4, <2>1, RestingKeeps DEF At, Idle, Frame
<1>6. CASE frame' = [stage |-> "fixLast"] /\ UNCHANGED accepted
  <2>1. TypeOK'
    BY <1>1, <1>4, <1>6 DEF TypeOK, Frame
  <2>2. Len(index') >= 3
    BY <1>1, <1>4, LenProperties DEF TypeOK
  <2>3. InsertHasRow' /\ InsertHasRoot'
    BY <1>1, <1>6, <2>2 DEF InsertHasRow, InsertHasRoot, At
  <2>4. Held' = {}
    BY <1>6 DEF Held, HeldAt
  <2>5. ElementsPointAtTheirRows'
    BY <1>1, <1>4, <2>4, ElementsMove DEF IInv
  <2>6. QED
    BY <2>1, <2>3, <2>5 DEF IInv
<1>7. QED
  BY <1>5, <1>6 DEF RootTop

\* Fixing the last pointer changes no key and no row.
LEMMA FixLastKeeps ==
  ASSUME IInv, FixLast
  PROVE  IInv'
<1> DEFINE elems == Elems(2)
           fixed == [elems EXCEPT ![Len(elems)] = IncrementPointers(@, 2)]
<1>1. /\ TypeOK /\ At("fixLast") /\ data # <<>> /\ Last(data) \in Int /\ Len(index) >= 3
      /\ UNCHANGED <<data, keyType>>
  BY InProgress DEF FixLast, At, IInv, InsertHasRoot
<1>2. 2 \in NodeIds
  BY <1>1, LenProperties DEF NodeIds, TypeOK
<1>3. elems \in Elements /\ ToSet(elems) \subseteq Stored /\ index[3].parent \in Pointer
  <2>1. elems \in Elements /\ ToSet(elems) \subseteq Stored /\ Load(2).parent \in Pointer
    BY <1>1, <1>2, NodeParts
  <2>2. QED
    BY <2>1 DEF Load
<1>4. CASE Fail
  <2>1. frame' = Undefined /\ index' = index /\ accepted' = accepted
    BY <1>4 DEF Fail
  <2>2. Stored' = Stored
    BY <2>1 DEF Stored
  <2>3. QED
    BY <1>1, <2>1, <2>2, RestingKeeps DEF At, Undefined, Frame, TypeOK
<1>5. CASE /\ elems # <<>> /\ index' = Written(2, index[3].parent, fixed)
           /\ AdoptOrReturn(Children(fixed), 2)
  <2> HIDE DEF elems
  <2>1. /\ elems \in Seq(Element) /\ Len(elems) \in 1 .. Len(elems)
        /\ DOMAIN elems = 1 .. Len(elems)
    BY <1>3, <1>5, EmptySeq, LenProperties DEF Elements
  <2> DEFINE last == elems[Len(elems)]
             e    == IncrementPointers(last, 2)
  <2>2. last \in ToSet(elems) /\ last \in Element
    BY <2>1, ElementOfSeq DEF ToSet
  <2>3. e \in Element /\ e.key = last.key /\ e.byte = last.byte
    BY <2>2, IncrementPointersKeeps
  <2>4. fixed = [elems EXCEPT ![Len(elems)] = e]
    OBVIOUS
  <2> HIDE DEF last, e, fixed
  <2>5. /\ fixed \in Seq(Element) /\ DOMAIN fixed = DOMAIN elems
        /\ \A i \in DOMAIN elems : fixed[i] = IF i = Len(elems) THEN e ELSE elems[i]
    BY <2>1, <2>3, <2>4, ExceptSeq, LenProperties
  <2>6. fixed \in Elements /\ ToSet(fixed) \subseteq ToSet(elems) \cup {e}
    BY <2>5 DEF Elements, ToSet
  <2>7. index' \in Seq(Node) /\ Stored' \subseteq Stored \cup ToSet(fixed)
    BY <1>1, <1>3, <1>5, <2>6, WrittenStores DEF TypeOK, Stored
  <2>8. \A f \in Stored' : \E o \in Stored : f.key = o.key /\ f.byte = o.byte
    BY <1>3, <2>2, <2>3, <2>6, <2>7
  <2>9. 2 \in Pointer
    BY DEF Pointer
  <2>10. /\ frame' \in Frame /\ frame'.stage \in {"idle", "children"}
         /\ accepted' \subseteq Int \X Nat
    BY <1>1, <1>5, <2>6, <2>9, ChildrenType, AdoptOrReturnEnds
  <2>11. QED
    BY <1>1, <2>7, <2>8, <2>10, RestingKeeps DEF At
<1>6. QED
  BY <1>4, <1>5 DEF FixLast

-----------------------------------------------------------------------------
(* The invariant is inductive.                                             *)

\* Both files are empty at the start.
LEMMA InitHolds == Init => IInv
<1> SUFFICES ASSUME Init PROVE IInv
  OBVIOUS
<1>1. TypeOK
  BY EmptySeq DEF Init, TypeOK, Frame, Idle, KeyTypes
<1>2. InsertHasRow /\ InsertHasRoot
  BY DEF Init, Idle, InsertHasRow, InsertHasRoot, At
<1>3. Held = {} /\ Stored = {}
  <2>1. DOMAIN index = {}
    BY EmptySeq, LenProperties DEF Init
  <2>2. QED
    BY <2>1 DEF Init, Idle, Held, HeldAt, Stored, StoredIn
<1>4. QED
  BY <1>1, <1>2, <1>3 DEF IInv, ElementsPointAtTheirRows

\* Every step of a client, of an insert and every crash keeps the invariant.
LEMMA StepHolds == IInv /\ [Next]_vars => IInv'
<1> SUFFICES ASSUME IInv, [Next]_vars PROVE IInv'
  OBVIOUS
<1>1. ASSUME NEW k \in Keys, Insert(k) PROVE IInv'
  BY <1>1, InsertKeeps
<1>2. CASE InsertKeyless
  BY <1>2, InsertKeylessKeeps
<1>3. CASE InsertNext
  BY <1>3, InsertNextKeeps
<1>4. CASE Reopen \/ Crash
  BY <1>4, ReopenKeeps
<1>5. CASE Truncate
  BY <1>5, TruncateKeeps
<1>6. CASE IndexStep
  BY <1>6, IndexFirstKeeps, IndexDuplicateKeeps, IndexInPlaceKeeps, IndexFullKeeps,
     IndexEndlessKeeps, SplitLeftKeeps, SplitRightKeeps, SplitParentKeeps, AdoptChildKeeps,
     RootRenumberKeeps, RootRightKeeps, RootLeftKeeps, RootTopKeeps, FixLastKeeps
  DEF IndexStep
<1>7. CASE UNCHANGED vars
  BY <1>7 DEF vars, IInv, TypeOK, InsertHasRow, InsertHasRoot, ElementsPointAtTheirRows,
     PointsAtItsRow, At, Stored, Held, HeldAt
<1>8. QED
  BY <1>1, <1>2, <1>3, <1>4, <1>5, <1>6, <1>7 DEF Next

\* hasKey() of a node that holds the key returns one of its elements, with that key.
LEMMA ElementOfHasKey ==
  ASSUME NEW elems \in Elements, NEW k \in Int, Holds(elems, k)
  PROVE  ElementOf(elems, k) \in ToSet(elems) /\ ElementOf(elems, k).key = k
<1> DEFINE matches == {i \in DOMAIN elems : elems[i].key = k}
           First(i) == elems[i].key = k /\ \A j \in 1 .. i - 1 : elems[j].key # k
<1>1. DOMAIN elems = 1 .. Len(elems) /\ Len(elems) \in Nat
  BY LenProperties DEF Elements
<1>2. PICK i \in matches : \A j \in matches : i <= j
  <2>1. matches \in SUBSET Nat /\ matches # {}
    BY <1>1 DEF Holds
  <2>2. QED
    BY <2>1, LeastMember
<1>3. \E j \in DOMAIN elems : First(j)
  <2>1. \A j \in 1 .. i - 1 : elems[j].key # k
    BY <1>1, <1>2
  <2>2. QED
    BY <1>2, <2>1
<1>4. PICK j \in DOMAIN elems : First(j) /\ ElementOf(elems, k) = elems[j]
  BY <1>3 DEF ElementOf
<1>5. QED
  BY <1>4 DEF ToSet

-----------------------------------------------------------------------------
(* What a file of nodes holds, and what the copies of nodes in memory do.  *)

\* Every node is in order and no larger than a node may be.
AllFit(file) == \A i \in 1 .. Len(file) : Fits(file[i].elems)

\* The elements of all nodes but one.
OthersIn(file, n) == UNION {ToSet(file[i].elems) : i \in DOMAIN file \ {n + 1}}

\* A node in memory whose place and header are those of a node of the file.
CopyOf(file, c) ==
  /\ c.id \in 0 .. Len(file) - 1
  /\ c.parent = file[c.id + 1].parent
  /\ Fits(c.elems)

\* The copy has the elements of the node.
Exact(file, c) == file[c.id + 1].elems = c.elems

\* Writing the copy back loses nothing that is not among the others too.
Covers(file, c, others) ==
  Entries(ToSet(file[c.id + 1].elems)) \subseteq Entries(ToSet(c.elems) \cup others)

\* The copy of a node that is its own parent, loaded before its left half was
\* written: what the node lost since is the element about to be added to the copy,
\* which the next split sends up or to the right, or is among the others.
Stale(file, c, e, others) ==
  /\ c.parent = c.id
  /\ Len(file[c.id + 1].elems) < ElementCount
  /\ Entries(ToSet(c.elems)) \subseteq
       Entries(ToSet(file[c.id + 1].elems) \cup {e} \cup others)
  /\ Entries({e}) \subseteq Entries(Upper(AddElement(c.elems, e)))

SplitFits(file, c, e) ==
  /\ CopyOf(file, c) /\ Len(c.elems) >= ElementCount
  /\ Exact(file, c) \/ Stale(file, c, e, OthersIn(file, c.id))

RightFits(file, c, m, right) ==
  /\ CopyOf(file, c) /\ Fits(right)
  /\ \/ Exact(file, c)
     \/ Len(c.elems) >= ElementCount /\ Stale(file, c, m, ToSet(right))
     \/ /\ Len(c.elems) < ElementCount
        /\ Covers(file, c, {m} \cup ToSet(right) \cup OthersIn(file, c.id))

ParentFits(file, c, m, right) ==
  /\ CopyOf(file, c) /\ Len(c.elems) < ElementCount
  /\ Entries(ToSet(right)) \subseteq Entries(OthersIn(file, c.id))
  /\ Covers(file, c, {m} \cup OthersIn(file, c.id))

\* What lets split() write copies of nodes back: the inductive invariant beside IInv.
CopiesFit ==
  /\ AllFit(index)
  /\ At("split") => SplitFits(index, frame.node, frame.elem)
  /\ At("right") => RightFits(index, frame.parent, frame.median, frame.right)
  /\ At("parent") => ParentFits(index, frame.parent, frame.median, frame.right)
  /\ At("rootLeft") => Fits(frame.left)

\* The file with one node replaced: that node has its new elements, the others stay.
LEMMA WrittenReplaces ==
  ASSUME index \in Seq(Node), NEW n \in NodeIds, NEW p \in Pointer, NEW elems \in Elements
  PROVE  LET f == Written(n, p, elems) IN
         /\ f \in Seq(Node) /\ Len(f) = Len(index)
         /\ f[n + 1].parent = p /\ f[n + 1].elems = elems
         /\ \A m \in NodeIds : m # n => f[m + 1] = index[m + 1]
         /\ OthersIn(f, n) = OthersIn(index, n)
         /\ StoredIn(f) = OthersIn(index, n) \cup ToSet(elems)
         /\ Stored = OthersIn(index, n) \cup ToSet(Elems(n))
         /\ AllFit(index) /\ Fits(elems) => AllFit(f)
<1> DEFINE node == [parent |-> p, elems |-> elems]
           f    == Written(n, p, elems)
<1>1. node.parent = p /\ node.elems = elems
  OBVIOUS
<1> HIDE DEF node
<1>2. f = [index EXCEPT ![n + 1] = node]
  BY DEF Written, node
<1>3. DOMAIN index = 1 .. Len(index) /\ Len(index) \in Nat
  OBVIOUS
<1>4. n \in Nat /\ n + 1 \in 1 .. Len(index)
  BY <1>3 DEF NodeIds
<1>5. f \in Seq(Node) /\ Len(f) = Len(index)
  BY <1>4, WrittenStores
<1> HIDE DEF f
<1>6. DOMAIN f = 1 .. Len(index)
  BY <1>5, LenProperties
<1>7. \A i \in 1 .. Len(index) : f[i] = IF i = n + 1 THEN node ELSE index[i]
  BY <1>2, <1>3
<1>8. f[n + 1] = node
  BY <1>4, <1>7
<1>9. \A i \in 1 .. Len(index) : i # n + 1 => f[i] = index[i]
  BY <1>7
<1>10. \A m \in NodeIds : m # n => f[m + 1] = index[m + 1]
  BY <1>3, <1>4, <1>9 DEF NodeIds
<1>11. OthersIn(f, n) = OthersIn(index, n)
  BY <1>3, <1>6, <1>9 DEF OthersIn
<1>12. StoredIn(f) = OthersIn(f, n) \cup ToSet(f[n + 1].elems)
  BY <1>4, <1>6 DEF StoredIn, OthersIn
<1>13. Stored = OthersIn(index, n) \cup ToSet(Elems(n))
  BY <1>3, <1>4 DEF Stored, StoredIn, OthersIn, Elems
<1>14. AllFit(index) /\ Fits(elems) => AllFit(f)
  BY <1>1, <1>5, <1>7 DEF AllFit
<1>15. QED
  BY <1>1, <1>5, <1>8, <1>10, <1>11, <1>12, <1>13, <1>14 DEF f

\* The file with a node behind it: every other node keeps its place.
LEMMA AppendExtends ==
  ASSUME index \in Seq(Node), NEW node \in Node
  PROVE  LET f == Append(index, node) IN
         /\ f \in Seq(Node) /\ Len(f) = Len(index) + 1
         /\ \A m \in NodeIds : f[m + 1] = index[m + 1]
         /\ \A m \in NodeIds : OthersIn(f, m) = OthersIn(index, m) \cup ToSet(node.elems)
         /\ StoredIn(f) = Stored \cup ToSet(node.elems)
         /\ AllFit(index) /\ Fits(node.elems) => AllFit(f)
<1> DEFINE f == Append(index, node)
           c == Len(index)
<1>1. /\ f \in Seq(Node) /\ Len(f) = c + 1 /\ c \in Nat
      /\ \A i \in 1 .. c : f[i] = index[i]
      /\ f[c + 1] = node
  BY AppendProperties, LenProperties
<1>2. DOMAIN f = 1 .. c + 1 /\ DOMAIN index = 1 .. c
  BY <1>1, LenProperties
<1>3. \A m \in NodeIds : m + 1 \in 1 .. c
  BY <1>1 DEF NodeIds
<1> HIDE DEF f, c
<1>4. \A i \in 1 .. c + 1 : i \in 1 .. c \/ i = c + 1
  BY <1>1
<1>5. \A i \in 1 .. c : i \in 1 .. c + 1 /\ i # c + 1
  BY <1>1
<1>6. c + 1 \in 1 .. c + 1
  BY <1>1
<1>7. ASSUME NEW m \in NodeIds
      PROVE  OthersIn(f, m) = OthersIn(index, m) \cup ToSet(node.elems)
  <2>1. m + 1 \in 1 .. c /\ m + 1 # c + 1
    BY <1>3, <1>5
  <2>2. \A x \in OthersIn(f, m) : x \in OthersIn(index, m) \cup ToSet(node.elems)
    BY <1>1, <1>2, <1>4 DEF OthersIn
  <2>3. \A x \in OthersIn(index, m) : x \in OthersIn(f, m)
    BY <1>1, <1>2, <1>5 DEF OthersIn
  <2>4. \A x \in ToSet(node.elems) : x \in OthersIn(f, m)
    BY <1>1, <1>2, <1>6, <2>1 DEF OthersIn
  <2>5. QED
    BY <2>2, <2>3, <2>4
<1>8. StoredIn(f) = Stored \cup ToSet(node.elems)
  <2>1. \A x \in StoredIn(f) : x \in Stored \cup ToSet(node.elems)
    BY <1>1, <1>2, <1>4 DEF StoredIn, Stored
  <2>2. \A x \in Stored : x \in StoredIn(f)
    BY <1>1, <1>2, <1>5 DEF StoredIn, Stored
  <2>3. \A x \in ToSet(node.elems) : x \in StoredIn(f)
    BY <1>1, <1>2, <1>6 DEF StoredIn
  <2>4. QED
    BY <2>1, <2>2, <2>3
<1>9. AllFit(index) /\ Fits(node.elems) => AllFit(f)
  BY <1>1, <1>4 DEF AllFit, c
<1>10. QED
  BY <1>1, <1>3, <1>7, <1>8, <1>9 DEF f, c

\* The file with a node before it.
LEMMA PrependExtends ==
  ASSUME index \in Seq(Node), NEW node \in Node
  PROVE  LET f == <<node>> \o index IN
         /\ StoredIn(f) = Stored \cup ToSet(node.elems)
         /\ AllFit(index) /\ Fits(node.elems) => AllFit(f)
<1> DEFINE f == <<node>> \o index
           c == Len(index)
<1>1. c \in Nat /\ <<node>> \in Seq(Node) /\ Len(<<node>>) = 1 /\ <<node>>[1] = node
  BY LenProperties
<1>2. /\ f \in Seq(Node) /\ Len(f) = 1 + c
      /\ \A i \in 1 .. 1 + c : f[i] = IF i <= 1 THEN <<node>>[i] ELSE index[i - 1]
  BY <1>1, ConcatProperties
<1>3. DOMAIN f = 1 .. c + 1 /\ DOMAIN index = 1 .. c /\ Len(f) = c + 1
  BY <1>1, <1>2, LenProperties
<1> HIDE DEF f, c
<1>4. f[1] = node
  BY <1>1, <1>2
<1>5. \A i \in 1 .. c : f[i + 1] = index[i] /\ i + 1 \in 1 .. c + 1
  BY <1>1, <1>2
<1>6. \A i \in 1 .. c + 1 : i = 1 \/ (i - 1 \in 1 .. c /\ f[i] = index[i - 1])
  BY <1>1, <1>2
<1>7. 1 \in 1 .. c + 1
  BY <1>1
<1>8. StoredIn(f) = Stored \cup ToSet(node.elems)
  <2>1. \A x \in StoredIn(f) : x \in Stored \cup ToSet(node.elems)
    BY <1>3, <1>4, <1>6 DEF StoredIn, Stored
  <2>2. \A x \in Stored : x \in StoredIn(f)
    BY <1>3, <1>5 DEF StoredIn, Stored
  <2>3. \A x \in ToSet(node.elems) : x \in StoredIn(f)
    BY <1>3, <1>4, <1>7 DEF StoredIn
  <2>4. QED
    BY <2>1, <2>2, <2>3
<1>9. AllFit(index) /\ Fits(node.elems) => AllFit(f)
  BY <1>3, <1>4, <1>6 DEF AllFit, c
<1>10. QED
  BY <1>8, <1>9 DEF f

\* A node with its pointers moved up keeps its entries, its size and its order.
LEMMA IncrementAllFits ==
  ASSUME NEW elems \in Elements, NEW n \in Nat
  PROVE  /\ Entries(ToSet(IncrementAll(elems, n))) = Entries(ToSet(elems))
         /\ Fits(elems) => Fits(IncrementAll(elems, n))
<1> DEFINE s == IncrementAll(elems, n)
           c == Len(elems)
<1>1. DOMAIN elems = 1 .. c /\ c \in Nat /\ \A i \in 1 .. c : elems[i] \in Element
  BY LenProperties, ElementOfSeq DEF Elements
<1>2. s \in Elements /\ Len(s) = c
  BY IncrementAllKeeps
<1>3. \A i \in 1 .. c : s[i] = IncrementPointers(elems[i], n)
  BY <1>1 DEF IncrementAll
<1> HIDE DEF s, c
<1>4. ASSUME NEW i \in 1 .. c
      PROVE  s[i].key = elems[i].key /\ s[i].byte = elems[i].byte
  <2>1. elems[i] \in Element /\ s[i] = IncrementPointers(elems[i], n)
    BY <1>1, <1>3
  <2> DEFINE e == elems[i]
  <2> HIDE DEF e
  <2>2. IncrementPointers(e, n).key = e.key /\ IncrementPointers(e, n).byte = e.byte
    BY <2>1, IncrementPointersKeeps DEF e
  <2>3. QED
    BY <2>1, <2>2 DEF e
<1>5. DOMAIN s = 1 .. c
  BY <1>2, LenProperties DEF Elements
<1>6. Entries(ToSet(s)) = Entries(ToSet(elems))
  BY <1>1, <1>4, <1>5 DEF Entries, ToSet
<1>7. Fits(elems) => Fits(s)
  BY <1>2, <1>4 DEF Fits, Sorted, c
<1>8. QED
  BY <1>6, <1>7 DEF s

\* The parts of a full node with one element more: the left one is not full.
HalvesOf(elems, e, parts) ==
  /\ Fits(parts.left) /\ Len(parts.left) < ElementCount
  /\ Fits(parts.right) /\ parts.median \in Element
  /\ Entries(ToSet(elems)) \cup Entries({e}) =
       Entries(ToSet(parts.left)) \cup Entries({parts.median})
         \cup Entries(ToSet(parts.right))
  /\ Entries(Upper(AddElement(elems, e))) =
       Entries({parts.median}) \cup Entries(ToSet(parts.right))

\* A full node with one element more comes apart in two that fit.
LEMMA SplitHalves ==
  ASSUME NEW elems \in Elements, Fits(elems), NEW e \in Element, NEW n \in Nat, NEW r \in Nat
  PROVE  HalvesOf(elems, e, Split(AddElement(elems, e), n, r))
<1> DEFINE all   == AddElement(elems, e)
           parts == Split(all, n, r)
           mid   == (Len(all) + 1) \div 2
<1>1. /\ all \in Elements /\ Len(all) = Len(elems) + 1 /\ ToSet(all) = ToSet(elems) \cup {e}
      /\ Sorted(all) /\ Len(elems) <= ElementCount
  BY AddElementAdds, AddElementSorts DEF Fits
<1>2. Len(elems) \in Nat
  BY LenProperties DEF Elements
<1> HIDE DEF all
<1>3. all # <<>>
  BY <1>1, <1>2, EmptySeq
<1>4. /\ parts.left \in Elements /\ Len(parts.left) = mid - 1
      /\ parts.right \in Elements /\ Len(parts.right) = Len(all) - mid
      /\ parts.median \in Element
  BY <1>1, <1>3, SplitIs
<1>5. Sorted(parts.left) /\ Sorted(parts.right)
  BY <1>1, <1>3, SplitSorts
<1>6. /\ Entries(ToSet(all)) =
           Entries(ToSet(parts.left)) \cup Entries({parts.median})
             \cup Entries(ToSet(parts.right))
      /\ Entries(Upper(all)) = Entries({parts.median}) \cup Entries(ToSet(parts.right))
  <2>1. all \in Elements /\ all # <<>>
    BY <1>1, <1>3
  <2>2. ComesApart(all, parts)
    BY <2>1, SplitEntries
  <2>3. QED
    BY <2>2 DEF ComesApart
<1> HIDE DEF parts
<1>7. mid - 1 < ElementCount /\ Len(all) - mid <= ElementCount
  BY <1>1, <1>2, ElementCountAssumption
<1>8. Entries(ToSet(all)) = Entries(ToSet(elems)) \cup Entries({e})
  BY <1>1, EntriesOfBoth
<1> HIDE DEF mid
<1>9. Fits(parts.left) /\ Len(parts.left) < ElementCount /\ Fits(parts.right)
  <2>1. Len(parts.left) <= ElementCount
    BY <1>4, <1>7, LenProperties, ElementCountAssumption DEF Elements
  <2>2. QED
    BY <1>4, <1>5, <1>7, <2>1 DEF Fits
<1>10. QED
  BY <1>4, <1>6, <1>8, <1>9 DEF parts, all, HalvesOf

\* A node with room takes an element.
LEMMA AddElementFits ==
  ASSUME NEW elems \in Elements, Fits(elems), Len(elems) < ElementCount, NEW e \in Element
  PROVE  /\ Fits(AddElement(elems, e))
         /\ Entries(ToSet(AddElement(elems, e))) = Entries(ToSet(elems)) \cup Entries({e})
<1> DEFINE s == AddElement(elems, e)
<1>1. /\ s \in Elements /\ Len(s) = Len(elems) + 1 /\ ToSet(s) = ToSet(elems) \cup {e}
      /\ Sorted(s)
  BY AddElementAdds, AddElementSorts DEF Fits
<1>2. Len(elems) \in Nat
  BY LenProperties DEF Elements
<1> HIDE DEF s
<1>3. Len(s) <= ElementCount
  BY <1>1, <1>2, ElementCountAssumption
<1>4. QED
  BY <1>1, <1>3, EntriesOfBoth DEF Fits, s

-----------------------------------------------------------------------------
(* Every step keeps the copies writable, and what there is in the index.   *)

\* The elements stay those they were.
Same == Entries(Indexed') = Entries(Indexed)

\* The element of the insert is new among them.
Stores == Entries(Indexed') = Entries(Indexed) \cup Entries({frame.elem})

\* The places an insert is at without a copy of a node.
Resting == {"idle", "undefined", "locate", "children", "rootRight", "rootTop", "fixLast"}

\* Where no copy is held the file is all there is to say about.
LEMMA RestingFits ==
  ASSUME AllFit(index'), frame'.stage \in Resting
  PROVE  CopiesFit'
  BY DEF CopiesFit, At, Resting

\* Where nothing is held but the element still to be located, the elements that
\* count are those of the file.
LEMMA IndexedStored ==
  ASSUME frame.stage \in {"idle", "undefined", "locate", "children", "fixLast"}
  PROVE  Indexed = Stored
  BY DEF Indexed, Held, HeldAt, At

\* So it is after a step.
LEMMA IndexedStoredThen ==
  ASSUME frame'.stage \in {"idle", "undefined", "locate", "children", "fixLast"}
  PROVE  Indexed' = Stored'
  BY DEF Indexed, Held, HeldAt, At

\* A step that leaves the index file alone, and holds nothing before and after.
LEMMA UntouchedFits ==
  ASSUME CopiesFit, UNCHANGED index,
         frame.stage \in {"idle", "undefined", "locate"},
         frame'.stage \in {"idle", "undefined", "locate"}
  PROVE  CopiesFit' /\ Same
<1>1. AllFit(index')
  BY DEF CopiesFit
<1>2. CopiesFit'
  BY <1>1, RestingFits DEF Resting
<1>3. Stored' = Stored
  BY DEF Stored
<1>4. Same
  BY <1>3, IndexedStored, IndexedStoredThen DEF Same
<1>5. QED
  BY <1>2, <1>4

\* The steps of a client between two inserts, and a crash, for which only the file
\* counts.
LEMMA ClientFits ==
  ASSUME CopiesFit
  PROVE  /\ \A k \in Int : Insert(k) => CopiesFit' /\ Same
         /\ InsertKeyless \/ InsertNext \/ Reopen => CopiesFit' /\ Same
         /\ Crash \/ Truncate => CopiesFit'
<1>1. Idle.stage = "idle" /\ Undefined.stage = "undefined"
  BY DEF Idle, Undefined
<1>2. ASSUME NEW k, AppendRow(k) PROVE frame'.stage = "locate"
  BY <1>2 DEF AppendRow
<1>3. ASSUME NEW k \in Int, Insert(k) PROVE CopiesFit' /\ Same
  BY <1>2, <1>3, UntouchedFits DEF Insert, MayInsert, At
<1>4. ASSUME InsertKeyless PROVE CopiesFit' /\ Same
  BY <1>4, UntouchedFits DEF InsertKeyless, MayInsert, At
<1>5. ASSUME InsertNext PROVE CopiesFit' /\ Same
  <2>1. frame.stage = "idle" /\ UNCHANGED index
    BY <1>5 DEF InsertNext, MayInsert, At
  <2>2. frame'.stage \in {"locate", "undefined"}
    <3>1. CASE AppendRow(NextKey)
      BY <1>2, <3>1
    <3>2. CASE frame' = Undefined
      BY <1>1, <3>2
    <3>3. QED
      BY <1>5, <3>1, <3>2 DEF InsertNext
  <2>3. QED
    BY <2>1, <2>2, UntouchedFits
<1>6. ASSUME Reopen PROVE CopiesFit' /\ Same
  BY <1>1, <1>6, UntouchedFits DEF Reopen, At
<1>7. ASSUME Crash PROVE CopiesFit'
  <2>1. AllFit(index') /\ frame'.stage \in {"idle", "undefined"}
    BY <1>1, <1>7 DEF Crash, CopiesFit
  <2>2. QED
    BY <1>7, <2>1, RestingFits DEF Resting
<1>8. ASSUME Truncate PROVE CopiesFit'
  <2>1. index' = <<>> /\ frame'.stage = "idle"
    BY <1>8 DEF Truncate, At
  <2>2. AllFit(index')
    BY <2>1 DEF AllFit
  <2>3. QED
    BY <1>8, <2>1, <2>2, RestingFits DEF Resting
<1>9. QED
  BY <1>3, <1>4, <1>5, <1>6, <1>7, <1>8

\* An insert that returns, or has children to adopt, holds nothing.
LEMMA AdoptOrReturnRests ==
  ASSUME NEW todo, NEW owner, AdoptOrReturn(todo, owner)
  PROVE  frame'.stage \in {"idle", "children"}
  BY DEF AdoptOrReturn, Accept, Idle

\* A file of nodes that fit and the entries it had, in a step that rests before and
\* after.
LEMMA RewrittenFits ==
  ASSUME AllFit(index'), Entries(Stored') = Entries(Stored),
         frame.stage \in {"locate", "children", "fixLast"},
         frame'.stage \in {"idle", "undefined", "children"}
  PROVE  CopiesFit' /\ Same
<1>1. CopiesFit'
  BY RestingFits DEF Resting
<1>2. Same
  BY IndexedStored, IndexedStoredThen DEF Same
<1>3. QED
  BY <1>1, <1>2

\* The first node holds one element.
LEMMA IndexFirstFits ==
  ASSUME IInv, CopiesFit, IndexFirst
  PROVE  CopiesFit' /\ Stores
<1> DEFINE node == [parent |-> None, elems |-> <<frame.elem>>]
<1>1. /\ TypeOK /\ At("locate") /\ frame.elem \in Element /\ index \in Seq(Node)
      /\ AllFit(index) /\ index' = Append(index, node) /\ frame' = Idle
  BY FrameParts DEF IInv, TypeOK, CopiesFit, IndexFirst, Accept
<1>2. <<frame.elem>> \in Elements /\ Len(<<frame.elem>>) = 1 /\ <<frame.elem>>[1] = frame.elem
  BY <1>1 DEF Elements
<1>3. ToSet(<<frame.elem>>) = {frame.elem}
  BY DEF ToSet
<1>4. Fits(<<frame.elem>>)
  <2>1. frame.elem.key \in Int
    BY <1>1 DEF Element
  <2>2. Sorted(<<frame.elem>>)
    BY <1>2, <2>1 DEF Sorted
  <2>3. QED
    BY <1>2, <2>2, ElementCountAssumption DEF Fits
<1>5. node \in Node /\ node.elems = <<frame.elem>>
  BY <1>2 DEF Node, Pointer
<1> HIDE DEF node
<1>6. AllFit(index') /\ Stored' = Stored \cup {frame.elem}
  BY <1>1, <1>3, <1>4, <1>5, AppendExtends DEF Stored
<1>7. Idle.stage = "idle"
  BY DEF Idle
<1>8. CopiesFit'
  BY <1>1, <1>6, <1>7, RestingFits DEF Resting
<1>9. Stores
  BY <1>1, <1>6, <1>7, IndexedStored, IndexedStoredThen, EntriesOfBoth DEF Stores, At
<1>10. QED
  BY <1>8, <1>9

\* The node written in place had room for the element.
LEMMA IndexInPlaceFits ==
  ASSUME IInv, CopiesFit, IndexInPlace
  PROVE  CopiesFit' /\ Stores
<1> DEFINE n     == Located(frame.elem.key)
           old   == Elems(n)
           elems == AddElement(old, frame.elem)
           p     == Load(n).parent
<1>1. /\ TypeOK /\ At("locate") /\ frame.elem \in Element /\ index \in Seq(Node)
      /\ AllFit(index) /\ n \in NodeIds /\ Len(old) < ElementCount
      /\ index' = Written(n, p, elems) /\ frame' = Idle
  BY FrameParts DEF IInv, TypeOK, CopiesFit, IndexInPlace, Misses, Accept, Load
<1>2. old \in Elements /\ p \in Pointer /\ n + 1 \in 1 .. Len(index)
  BY <1>1, NodeParts, LenProperties DEF Loaded, NodeIds
<1>3. Fits(old)
  BY <1>1, <1>2 DEF AllFit, Elems
<1> HIDE DEF n, old, p
<1>4. Fits(elems) /\ Entries(ToSet(elems)) = Entries(ToSet(old)) \cup Entries({frame.elem})
  BY <1>1, <1>2, <1>3, AddElementFits
<1>5. elems \in Elements
  BY <1>4 DEF Fits
<1> HIDE DEF elems
<1>6. /\ AllFit(index') /\ Stored' = OthersIn(index, n) \cup ToSet(elems)
      /\ Stored = OthersIn(index, n) \cup ToSet(old)
  BY <1>1, <1>2, <1>4, <1>5, WrittenReplaces DEF Stored, old
<1>7. Idle.stage = "idle"
  BY DEF Idle
<1>8. CopiesFit'
  BY <1>1, <1>6, <1>7, RestingFits DEF Resting
<1>9. Entries(Stored') = Entries(Stored) \cup Entries({frame.elem})
  <2>1. Entries(Stored') = Entries(OthersIn(index, n)) \cup Entries(ToSet(elems))
    BY <1>6, EntriesOfBoth
  <2>2. Entries(Stored) = Entries(OthersIn(index, n)) \cup Entries(ToSet(old))
    BY <1>6, EntriesOfBoth
  <2>3. QED
    BY <1>4, <2>1, <2>2
<1>10. Stores
  BY <1>1, <1>7, <1>9, IndexedStored, IndexedStoredThen DEF Stores, At
<1>11. QED
  BY <1>8, <1>10

\* The node to split is an exact copy.
LEMMA IndexFullFits ==
  ASSUME IInv, CopiesFit, IndexFull
  PROVE  CopiesFit' /\ Stores
<1> DEFINE n == Located(frame.elem.key)
           c == Load(n)
<1>1. /\ TypeOK /\ At("locate") /\ frame.elem \in Element /\ index \in Seq(Node)
      /\ AllFit(index) /\ n \in NodeIds /\ Len(c.elems) >= ElementCount
      /\ index' = index
      /\ frame' = [stage |-> "split", node |-> c, elem |-> frame.elem, double |-> FALSE]
  BY FrameParts DEF IInv, TypeOK, CopiesFit, IndexFull, Misses
<1>2. /\ c.id = n /\ c.parent = index[n + 1].parent /\ c.elems = Elems(n)
      /\ ToSet(c.elems) \subseteq Stored
  BY <1>1, NodeParts DEF Load
<1>3. n \in 0 .. Len(index) - 1 /\ n + 1 \in 1 .. Len(index)
  BY <1>1, LenProperties DEF NodeIds
<1>4. Fits(c.elems)
  BY <1>1, <1>2, <1>3 DEF AllFit, Elems
<1> HIDE DEF c, n
<1>5. SplitFits(index', c, frame.elem)
  BY <1>1, <1>2, <1>3, <1>4 DEF SplitFits, CopyOf, Exact, Elems
<1>6. CopiesFit'
  BY <1>1, <1>5 DEF CopiesFit, At
<1>7. Indexed' = Stored \cup {frame.elem}
  BY <1>1, <1>2 DEF Indexed, Held, HeldAt, At, Stored
<1>8. Stores
  BY <1>1, <1>7, IndexedStored, EntriesOfBoth DEF Stores, At
<1>9. QED
  BY <1>6, <1>8

\* A duplicate, and a walk that never ends, change nothing.
LEMMA IndexNothingFits ==
  ASSUME CopiesFit, IndexDuplicate \/ IndexEndless
  PROVE  CopiesFit' /\ Same
<1>1. Idle.stage = "idle" /\ Undefined.stage = "undefined"
  BY DEF Idle, Undefined
<1>2. QED
  BY <1>1, UntouchedFits DEF IndexDuplicate, IndexEndless, Fail, At

\* The left half takes the place of the node; what the file loses by it is the
\* median and the right half, or what the parent in memory has.
LEMMA SplitLeftFits ==
  ASSUME IInv, CopiesFit, SplitLeft
  PROVE  CopiesFit' /\ Same
<1> DEFINE c     == frame.node
           id    == frame.node.id
           e     == frame.elem
           all   == AddElement(c.elems, e)
           parts == Split(all, id, Len(index))
           par   == Load(c.parent)
           there == OthersIn(index, id)
<1>1. /\ TypeOK /\ index \in Seq(Node) /\ AllFit(index) /\ SplitFits(index, c, e)
      /\ c \in Loaded /\ e \in Element /\ c.parent \in NodeIds
      /\ frame.stage = "split"
      /\ index' = Written(id, c.parent, parts.left)
      /\ frame' = [stage |-> "right", parent |-> par, median |-> parts.median,
                   right |-> parts.right]
  BY FrameParts DEF IInv, TypeOK, CopiesFit, SplitLeft, At
<1>2. /\ id \in NodeIds /\ c.parent = index[id + 1].parent /\ Fits(c.elems)
      /\ c.elems \in Elements /\ Len(c.elems) >= ElementCount
      /\ Elems(id) = c.elems \/ Stale(index, c, e, there)
  BY <1>1 DEF SplitFits, CopyOf, Exact, NodeIds, Fits, Elems
<1>3. Len(index) \in Nat /\ id \in Nat /\ c.parent \in Pointer
  BY <1>1, LenProperties DEF Loaded
<1>4. /\ Fits(parts.left) /\ Len(parts.left) < ElementCount
      /\ Fits(parts.right) /\ parts.median \in Element
      /\ Entries(ToSet(c.elems)) \cup Entries({e}) =
           Entries(ToSet(parts.left)) \cup Entries({parts.median})
             \cup Entries(ToSet(parts.right))
      /\ Entries(Upper(all)) = Entries({parts.median}) \cup Entries(ToSet(parts.right))
  <2>1. HalvesOf(c.elems, e, parts)
    BY <1>1, <1>2, <1>3, SplitHalves
  <2> HIDE DEF parts
  <2>2. QED
    BY <2>1 DEF HalvesOf
<1>5. Entries({parts.median}) \subseteq Entries(Upper(AddElement(c.elems, parts.median)))
  BY <1>1, <1>2, <1>3, MedianAgain DEF Fits
<1>6. /\ par.id = c.parent /\ par.parent = index[c.parent + 1].parent
      /\ par.elems = Elems(c.parent) /\ ToSet(par.elems) \subseteq Stored
      /\ c.parent + 1 \in 1 .. Len(index)
  BY <1>1, <1>3, NodeParts DEF Load, NodeIds
<1>7. Fits(par.elems)
  BY <1>1, <1>6 DEF AllFit, Elems
<1>8. all = AddElement(c.elems, e)
  OBVIOUS
<1> HIDE DEF parts, par, all
<1>9. parts.left \in Elements
  BY <1>4 DEF Fits
<1>10. /\ Len(index') = Len(index)
       /\ index'[id + 1].parent = c.parent /\ index'[id + 1].elems = parts.left
       /\ \A m \in NodeIds : m # id => index'[m + 1] = index[m + 1]
       /\ OthersIn(index', id) = there
       /\ Stored' = there \cup ToSet(parts.left)
       /\ Stored = there \cup ToSet(Elems(id))
       /\ AllFit(index')
  BY <1>1, <1>2, <1>3, <1>4, <1>9, WrittenReplaces DEF Stored
<1> HIDE DEF c, id, e, there
<1>11. CopyOf(index', par)
  <2>1. par.id \in 0 .. Len(index') - 1
    BY <1>1, <1>6, <1>10 DEF NodeIds
  <2>2. par.parent = index'[par.id + 1].parent
    BY <1>1, <1>2, <1>6, <1>10
  <2>3. QED
    BY <1>7, <2>1, <2>2 DEF CopyOf
<1>12. RightFits(index', par, parts.median, parts.right)
  <2>1. CASE Elems(id) = c.elems /\ c.parent # id
    <3>1. Exact(index', par)
      BY <1>1, <1>6, <1>10, <2>1 DEF Exact, Elems
    <3>2. QED
      BY <1>4, <1>11, <3>1 DEF RightFits
  <2>2. CASE Elems(id) = c.elems /\ c.parent = id
    <3>1. par.elems = c.elems /\ par.parent = par.id /\ par.id = id
      BY <1>2, <1>6, <2>2
    <3>2. Entries(ToSet(c.elems)) \subseteq
            Entries(ToSet(parts.left) \cup {parts.median} \cup ToSet(parts.right))
      BY <1>4, EntriesOfBoth
    <3>3. Stale(index', par, parts.median, ToSet(parts.right))
      BY <1>4, <1>5, <1>10, <3>1, <3>2 DEF Stale
    <3>4. QED
      BY <1>2, <1>4, <1>11, <3>1, <3>3 DEF RightFits
  <2>3. CASE Stale(index, c, e, there)
    <3>1. /\ c.parent = c.id /\ Len(Elems(id)) < ElementCount
          /\ Entries(ToSet(c.elems)) \subseteq
               Entries(ToSet(Elems(id)) \cup {e} \cup there)
          /\ Entries({e}) \subseteq Entries(Upper(all))
      BY <1>8, <2>3 DEF Stale, Elems, id, c
    <3>2. par.id = id /\ par.elems = Elems(id)
      BY <1>6, <3>1 DEF id, c
    <3>3. Entries(ToSet(Elems(id)) \cup {e} \cup there) =
            Entries(ToSet(Elems(id))) \cup Entries({e}) \cup Entries(there)
      BY DEF Entries
    <3>4. Entries(ToSet(parts.left)) \subseteq
            Entries(ToSet(par.elems)) \cup Entries({parts.median})
              \cup Entries(ToSet(parts.right)) \cup Entries(there)
      BY <1>4, <3>1, <3>2, <3>3
    <3>5. Entries(ToSet(par.elems) \cup ({parts.median} \cup ToSet(parts.right) \cup there)) =
            Entries(ToSet(par.elems)) \cup Entries({parts.median})
              \cup Entries(ToSet(parts.right)) \cup Entries(there)
      <4>1. Entries({parts.median} \cup ToSet(parts.right) \cup there) =
              Entries({parts.median}) \cup Entries(ToSet(parts.right)) \cup Entries(there)
        BY DEF Entries
      <4>2. QED
        BY <4>1, EntriesOfBoth
    <3>6. Covers(index', par, {parts.median} \cup ToSet(parts.right) \cup OthersIn(index', par.id))
      BY <1>10, <3>2, <3>4, <3>5 DEF Covers
    <3>7. QED
      BY <1>4, <1>11, <3>1, <3>2, <3>6 DEF RightFits
  <2>4. QED
    BY <1>2, <2>1, <2>2, <2>3
<1>13. CopiesFit'
  BY <1>1, <1>10, <1>12 DEF CopiesFit, At
<1>14. Entries(Indexed) = Entries(there) \cup Entries(ToSet(Elems(id)))
                            \cup Entries(ToSet(c.elems)) \cup Entries({e})
  <2>1. Indexed = there \cup ToSet(Elems(id)) \cup ToSet(c.elems) \cup {e}
    BY <1>1, <1>10 DEF Indexed, Held, HeldAt, At, c, e
  <2>2. QED
    BY <2>1 DEF Entries
<1>15. Entries(Indexed') = Entries(there) \cup Entries(ToSet(parts.left))
                             \cup Entries(ToSet(par.elems)) \cup Entries(ToSet(parts.right))
                             \cup Entries({parts.median})
  <2>1. Indexed' = there \cup ToSet(parts.left) \cup ToSet(par.elems) \cup ToSet(parts.right)
                     \cup {parts.median}
    BY <1>1, <1>10 DEF Indexed, Held, HeldAt, At
  <2>2. QED
    BY <2>1 DEF Entries
<1>16. Entries(ToSet(par.elems)) \subseteq Entries(there) \cup Entries(ToSet(Elems(id)))
  <2>1. Entries(ToSet(par.elems)) \subseteq Entries(Stored)
    BY <1>6, EntriesGrow
  <2>2. QED
    BY <1>10, <2>1, EntriesOfBoth
<1>17. Same
  <2>1. CASE Elems(id) = c.elems
    BY <1>4, <1>14, <1>15, <1>16, <2>1 DEF Same
  <2>2. CASE Stale(index, c, e, there)
    <3>1. par.elems = Elems(id)
      BY <1>6, <2>2 DEF Stale, id, c
    <3>2. QED
      BY <1>4, <1>14, <1>15, <1>16, <3>1 DEF Same
  <2>3. QED
    BY <1>2, <2>1, <2>2
<1>18. QED
  BY <1>13, <1>17

\* The right half goes behind the file, whose other nodes keep their places.
LEMMA SplitRightFits ==
  ASSUME IInv, CopiesFit, SplitRight
  PROVE  CopiesFit' /\ Same
<1> DEFINE c     == frame.parent
           m     == frame.median
           right == frame.right
           node  == [parent |-> c.id, elems |-> right]
           there == OthersIn(index, c.id)
<1>1. /\ TypeOK /\ index \in Seq(Node) /\ AllFit(index) /\ RightFits(index, c, m, right)
      /\ c \in Loaded /\ m \in Element /\ right \in Elements /\ frame.stage = "right"
      /\ index' = Append(index, node)
      /\ frame' = IF Len(c.elems) < ElementCount
                    THEN [stage |-> "parent", parent |-> c, median |-> m, right |-> right]
                    ELSE [stage |-> "split", node |-> c, elem |-> m, double |-> TRUE]
  BY FrameParts DEF IInv, TypeOK, CopiesFit, SplitRight, At
<1>2. node \in Node /\ node.elems = right
  BY <1>1 DEF Node, Loaded, Pointer
<1> HIDE DEF node
<1>3. /\ c.id \in NodeIds /\ c.parent = index[c.id + 1].parent /\ Fits(c.elems) /\ Fits(right)
      /\ Len(index) \in Nat
  BY <1>1, LenProperties DEF RightFits, CopyOf, NodeIds
<1>4. /\ Len(index') = Len(index) + 1
      /\ index'[c.id + 1] = index[c.id + 1]
      /\ OthersIn(index', c.id) = there \cup ToSet(right)
      /\ Stored' = Stored \cup ToSet(right)
      /\ AllFit(index')
  BY <1>1, <1>2, <1>3, AppendExtends DEF Stored
<1> HIDE DEF c, m, right, there
<1>5. CopyOf(index', c)
  <2>1. c.id \in 0 .. Len(index') - 1
    BY <1>3, <1>4 DEF NodeIds
  <2>2. QED
    BY <1>3, <1>4, <2>1 DEF CopyOf
<1>6. CASE Len(c.elems) < ElementCount
  <2>1. frame' = [stage |-> "parent", parent |-> c, median |-> m, right |-> right]
    BY <1>1, <1>6
  <2>2. Entries(ToSet(right)) \subseteq Entries(OthersIn(index', c.id))
    BY <1>4, EntriesOfBoth
  <2>3. Covers(index, c, {m} \cup ToSet(right) \cup there) \/ Exact(index, c)
    <3>1. Len(c.elems) \in Nat
      BY <1>3, LenProperties DEF Fits, Elements
    <3>2. QED
      BY <1>1, <1>6, <3>1, ElementCountAssumption DEF RightFits, there
  <2>4. Covers(index', c, {m} \cup OthersIn(index', c.id))
    <3>1. {m} \cup OthersIn(index', c.id) = {m} \cup ToSet(right) \cup there
      BY <1>4
    <3>2. CASE Exact(index, c)
      <4>1. index'[c.id + 1].elems = c.elems
        BY <1>4, <3>2 DEF Exact
      <4>2. QED
        BY <4>1, EntriesGrow DEF Covers
    <3>3. CASE Covers(index, c, {m} \cup ToSet(right) \cup there)
      BY <1>4, <3>1, <3>3 DEF Covers
    <3>4. QED
      BY <2>3, <3>2, <3>3
  <2>5. ParentFits(index', c, m, right)
    BY <1>5, <1>6, <2>2, <2>4 DEF ParentFits
  <2>6. CopiesFit'
    BY <1>4, <2>1, <2>5 DEF CopiesFit, At
  <2>7. Indexed = Stored \cup ToSet(c.elems) \cup ToSet(right) \cup {m}
    BY <1>1 DEF Indexed, Held, HeldAt, At, c, m, right
  <2>8. Indexed' = Stored' \cup ToSet(c.elems) \cup ToSet(right) \cup {m}
    BY <2>1 DEF Indexed, Held, HeldAt, At
  <2>9. Indexed' = Indexed
    BY <1>4, <2>7, <2>8
  <2>10. QED
    BY <2>6, <2>9 DEF Same
<1>7. CASE ~(Len(c.elems) < ElementCount)
  <2>1. frame' = [stage |-> "split", node |-> c, elem |-> m, double |-> TRUE]
    BY <1>1, <1>7
  <2>2. Len(c.elems) >= ElementCount
    BY <1>3, <1>7, LenProperties, ElementCountAssumption DEF Fits, Elements
  <2>3. Exact(index, c) \/ Stale(index, c, m, ToSet(right))
    BY <1>1, <1>7 DEF RightFits
  <2>4. Exact(index, c) => Exact(index', c)
    BY <1>4 DEF Exact
  <2>5. ASSUME Stale(index, c, m, ToSet(right))
        PROVE  Stale(index', c, m, OthersIn(index', c.id))
    <3>1. Entries(ToSet(index[c.id + 1].elems) \cup {m} \cup ToSet(right)) \subseteq
            Entries(ToSet(index[c.id + 1].elems) \cup {m} \cup OthersIn(index', c.id))
      BY <1>4, EntriesGrow
    <3>2. QED
      BY <1>4, <2>5, <3>1 DEF Stale
  <2>6. SplitFits(index', c, m)
    BY <1>5, <2>2, <2>3, <2>4, <2>5 DEF SplitFits
  <2>7. CopiesFit'
    BY <1>4, <2>1, <2>6 DEF CopiesFit, At
  <2>8. Indexed = Stored \cup ToSet(c.elems) \cup ToSet(right) \cup {m}
    BY <1>1 DEF Indexed, Held, HeldAt, At, c, m, right
  <2>9. Indexed' = Stored' \cup ToSet(c.elems) \cup {m}
    BY <2>1 DEF Indexed, Held, HeldAt, At
  <2>10. Indexed' = Indexed
    BY <1>4, <2>8, <2>9
  <2>11. QED
    BY <2>7, <2>10 DEF Same
<1>8. QED
  BY <1>6, <1>7

\* The parent is written back with the median: what its node had by then is in the
\* copy or elsewhere in the file.
LEMMA SplitParentFits ==
  ASSUME IInv, CopiesFit, SplitParent
  PROVE  CopiesFit' /\ Same
<1> DEFINE c     == frame.parent
           m     == frame.median
           right == frame.right
           elems == AddElement(c.elems, m)
           there == OthersIn(index, c.id)
<1>1. /\ TypeOK /\ index \in Seq(Node) /\ AllFit(index) /\ ParentFits(index, c, m, right)
      /\ c \in Loaded /\ m \in Element /\ right \in Elements /\ frame.stage = "parent"
      /\ index' = Written(c.id, c.parent, elems)
      /\ AdoptOrReturn(Children(right), m.more)
  BY FrameParts DEF IInv, TypeOK, CopiesFit, SplitParent, At
<1>2. /\ c.id \in NodeIds /\ Fits(c.elems) /\ Len(c.elems) < ElementCount
      /\ c.elems \in Elements /\ c.parent \in Pointer
      /\ Entries(ToSet(right)) \subseteq Entries(there)
      /\ Entries(ToSet(Elems(c.id))) \subseteq Entries(ToSet(c.elems) \cup ({m} \cup there))
  BY <1>1 DEF ParentFits, CopyOf, NodeIds, Fits, Covers, Loaded, Elems
<1>3. Fits(elems) /\ Entries(ToSet(elems)) = Entries(ToSet(c.elems)) \cup Entries({m})
  BY <1>1, <1>2, AddElementFits
<1>4. elems \in Elements
  BY <1>3 DEF Fits
<1> HIDE DEF elems
<1>5. /\ AllFit(index') /\ Stored' = there \cup ToSet(elems)
      /\ Stored = there \cup ToSet(Elems(c.id))
  BY <1>1, <1>2, <1>3, <1>4, WrittenReplaces DEF Stored
<1>6. frame'.stage \in {"idle", "children"}
  BY <1>1, AdoptOrReturnRests
<1>7. CopiesFit'
  BY <1>5, <1>6, RestingFits DEF Resting
<1>8. Indexed = there \cup ToSet(Elems(c.id)) \cup ToSet(c.elems) \cup ToSet(right) \cup {m}
  BY <1>1, <1>5 DEF Indexed, Held, HeldAt, At
<1>9. Indexed' = there \cup ToSet(elems)
  BY <1>5, <1>6, IndexedStoredThen
<1> HIDE DEF c, m, right, there
<1>10. Entries(Indexed) = Entries(there) \cup Entries(ToSet(Elems(c.id)))
                            \cup Entries(ToSet(c.elems)) \cup Entries(ToSet(right))
                            \cup Entries({m})
  BY <1>8 DEF Entries
<1>11. Entries(Indexed') = Entries(there) \cup Entries(ToSet(elems))
  BY <1>9, EntriesOfBoth
<1>12. Entries(ToSet(Elems(c.id))) \subseteq
         Entries(ToSet(c.elems)) \cup Entries({m}) \cup Entries(there)
  <2>1. Entries(ToSet(c.elems) \cup ({m} \cup there)) =
          Entries(ToSet(c.elems)) \cup Entries({m} \cup there)
    BY EntriesOfBoth
  <2>2. Entries({m} \cup there) = Entries({m}) \cup Entries(there)
    BY EntriesOfBoth
  <2>3. QED
    BY <1>2, <2>1, <2>2
<1>13. Same
  BY <1>2, <1>3, <1>10, <1>11, <1>12 DEF Same
<1>14. QED
  BY <1>7, <1>13

\* Only the header of a child changes.
LEMMA AdoptChildFits ==
  ASSUME IInv, CopiesFit, AdoptChild
  PROVE  CopiesFit' /\ Same
<1> DEFINE child == Head(frame.todo)
<1>1. /\ TypeOK /\ At("children") /\ index \in Seq(Node) /\ AllFit(index)
      /\ frame.owner \in Pointer /\ child \in Pointer
  BY FrameParts, HeadTailProperties DEF IInv, TypeOK, CopiesFit, AdoptChild, At
<1>2. /\ frame'.stage \in {"idle", "undefined", "children"}
      /\ \/ index' = index
         \/ child \in NodeIds /\ index' = Written(child, frame.owner, Elems(child))
  <2>1. CASE Fail
    BY <2>1 DEF Fail, Undefined
  <2>2. CASE /\ child \in NodeIds \cup {None}
             /\ index' = IF child = None THEN index
                         ELSE Written(child, frame.owner, Elems(child))
             /\ AdoptOrReturn(Tail(frame.todo), frame.owner)
    BY <2>2, AdoptOrReturnRests
  <2>3. QED
    BY <2>1, <2>2 DEF AdoptChild
<1> HIDE DEF child
<1>3. AllFit(index') /\ Stored' = Stored
  <2>1. CASE index' = index
    BY <1>1, <2>1 DEF Stored
  <2>2. CASE child \in NodeIds /\ index' = Written(child, frame.owner, Elems(child))
    <3>1. Elems(child) \in Elements /\ child + 1 \in 1 .. Len(index)
      BY <1>1, <2>2, NodeParts, LenProperties DEF NodeIds
    <3>2. Fits(Elems(child))
      BY <1>1, <3>1 DEF AllFit, Elems
    <3>3. /\ AllFit(index')
          /\ StoredIn(index') = OthersIn(index, child) \cup ToSet(Elems(child))
          /\ Stored = OthersIn(index, child) \cup ToSet(Elems(child))
      BY <1>1, <2>2, <3>1, <3>2, WrittenReplaces
    <3>4. QED
      BY <3>3 DEF Stored
  <2>3. QED
    BY <1>2, <2>1, <2>2
<1>4. QED
  BY <1>1, <1>2, <1>3, RewrittenFits DEF At

\* Every node keeps its entries when its pointers move, and the root to be split is
\* one of them.
LEMMA RootRenumberFits ==
  ASSUME IInv, CopiesFit, RootRenumber
  PROVE  CopiesFit' /\ Same
<1> DEFINE c == frame.node
           e == frame.elem
           node(i) == [parent |-> IF index[i].parent = None THEN 0 ELSE index[i].parent + 1,
                       elems  |-> IncrementAll(index[i].elems, 2)]
<1>1. /\ index \in Seq(Node) /\ AllFit(index) /\ SplitFits(index, c, e)
      /\ c.parent \notin NodeIds /\ frame.stage = "split"
      /\ index' = [i \in DOMAIN index |-> node(i)]
      /\ frame' = [stage |-> "rootRight", elem |-> e, double |-> frame.double]
  BY DEF IInv, TypeOK, CopiesFit, RootRenumber, At
<1>2. c.id \in NodeIds /\ Elems(c.id) = c.elems
  BY <1>1 DEF SplitFits, CopyOf, Exact, Stale, NodeIds, Elems
<1>3. DOMAIN index = 1 .. Len(index) /\ Len(index) \in Nat
  BY <1>1, LenProperties
<1>4. ToSet(c.elems) \subseteq Stored
  BY <1>2, NodeParts DEF IInv
<1>5. /\ DOMAIN index' = 1 .. Len(index)
      /\ \A i \in 1 .. Len(index) : index'[i].elems = IncrementAll(index[i].elems, 2)
  BY <1>1, <1>3
<1> HIDE DEF node
<1>6. Len(index') = Len(index)
  <2>1. index' \in Seq(Node)
    BY RootRenumberKeeps DEF IInv, TypeOK
  <2>2. Len(index') \in Nat /\ DOMAIN index' = 1 .. Len(index')
    BY <2>1, LenProperties
  <2>3. QED
    BY <1>3, <1>5, <2>2
<1>7. \A i \in 1 .. Len(index) :
        /\ Entries(ToSet(index'[i].elems)) = Entries(ToSet(index[i].elems))
        /\ Fits(index[i].elems) => Fits(index'[i].elems)
  <2> SUFFICES ASSUME NEW i \in 1 .. Len(index)
               PROVE  /\ Entries(ToSet(index'[i].elems)) = Entries(ToSet(index[i].elems))
                      /\ Fits(index[i].elems) => Fits(index'[i].elems)
    OBVIOUS
  <2>1. index[i] \in Node
    BY <1>1, ElementOfSeq
  <2>2. index[i].elems \in Elements
    BY <2>1 DEF Node
  <2>3. QED
    BY <1>5, <2>2, IncrementAllFits
<1>8. AllFit(index')
  BY <1>1, <1>6, <1>7 DEF AllFit
<1>9. Entries(Stored') = Entries(Stored)
  <2>1. Entries(Stored) = UNION {Entries(ToSet(index[i].elems)) : i \in 1 .. Len(index)}
    BY <1>3 DEF Entries, Stored, StoredIn
  <2>2. Entries(Stored') = UNION {Entries(ToSet(index'[i].elems)) : i \in 1 .. Len(index)}
    BY <1>5 DEF Entries, Stored, StoredIn
  <2>3. QED
    BY <1>7, <2>1, <2>2
<1>10. CopiesFit'
  BY <1>1, <1>8, RestingFits DEF Resting
<1>11. Indexed = Stored \cup {e}
  BY <1>1, <1>4 DEF Indexed, Held, HeldAt, At
<1>12. Indexed' = Stored' \cup {e}
  BY <1>1 DEF Indexed, Held, HeldAt, At
<1>13. Same
  <2>1. Entries(Indexed) = Entries(Stored) \cup Entries({e})
    BY <1>11 DEF Entries
  <2>2. Entries(Indexed') = Entries(Stored') \cup Entries({e})
    BY <1>12 DEF Entries
  <2>3. QED
    BY <1>9, <2>1, <2>2 DEF Same
<1>14. QED
  BY <1>10, <1>13

\* The right half takes the place of the root; the left half and the median are in
\* memory.
LEMMA RootRightFits ==
  ASSUME IInv, CopiesFit, RootRight
  PROVE  CopiesFit' /\ Same
<1> DEFINE root  == Elems(0)
           p     == Load(0).parent
           e     == frame.elem
           parts == Split(AddElement(root, e), 1, 2)
           there == OthersIn(index, 0)
<1>1. /\ TypeOK /\ index \in Seq(Node) /\ AllFit(index) /\ index # <<>>
      /\ e \in Element /\ frame.stage = "rootRight"
      /\ index' = Written(0, p, parts.right)
      /\ frame' = [stage |-> "rootLeft", left |-> parts.left,
                   median |-> parts.median, double |-> frame.double]
  BY FrameParts DEF IInv, TypeOK, InsertHasRoot, CopiesFit, RootRight, At, Load
<1>2. 0 \in NodeIds /\ 1 \in 1 .. Len(index)
  BY <1>1, EmptySeq, LenProperties DEF NodeIds
<1>3. root \in Elements /\ p \in Pointer
  BY <1>1, <1>2, NodeParts DEF Loaded
<1>4. Fits(root)
  BY <1>1, <1>2 DEF AllFit, Elems
<1> HIDE DEF root, p, e
<1>5. /\ Fits(parts.left) /\ Fits(parts.right)
      /\ Entries(ToSet(root)) \cup Entries({e}) =
           Entries(ToSet(parts.left)) \cup Entries({parts.median})
             \cup Entries(ToSet(parts.right))
  <2>1. HalvesOf(root, e, parts)
    BY <1>1, <1>3, <1>4, SplitHalves
  <2> HIDE DEF parts
  <2>2. QED
    BY <2>1 DEF HalvesOf
<1> HIDE DEF parts
<1>6. parts.right \in Elements
  BY <1>5 DEF Fits
<1>7. /\ AllFit(index') /\ Stored' = there \cup ToSet(parts.right)
      /\ Stored = there \cup ToSet(root)
  BY <1>1, <1>2, <1>3, <1>5, <1>6, WrittenReplaces DEF Stored, root
<1> HIDE DEF there
<1>8. CopiesFit'
  BY <1>1, <1>5, <1>7 DEF CopiesFit, At
<1>9. Indexed = there \cup ToSet(root) \cup {e}
  BY <1>1, <1>7 DEF Indexed, Held, HeldAt, At, e
<1>10. Indexed' = there \cup ToSet(parts.right) \cup ToSet(parts.left) \cup {parts.median}
  BY <1>1, <1>7 DEF Indexed, Held, HeldAt, At
<1>11. Entries(Indexed) = Entries(there) \cup Entries(ToSet(root)) \cup Entries({e})
  BY <1>9 DEF Entries
<1>12. Entries(Indexed') = Entries(there) \cup Entries(ToSet(parts.right))
                             \cup Entries(ToSet(parts.left)) \cup Entries({parts.median})
  BY <1>10 DEF Entries
<1>13. Same
  BY <1>5, <1>11, <1>12 DEF Same
<1>14. QED
  BY <1>8, <1>13

\* The left half goes before the file.
LEMMA RootLeftFits ==
  ASSUME IInv, CopiesFit, RootLeft
  PROVE  CopiesFit' /\ Same
<1> DEFINE node == [parent |-> 0, elems |-> frame.left]
<1>1. /\ index \in Seq(Node) /\ AllFit(index) /\ Fits(frame.left)
      /\ frame.stage = "rootLeft" /\ index' = <<node>> \o index
      /\ frame' = [stage |-> "rootTop", median |-> frame.median, double |-> frame.double]
  BY DEF IInv, TypeOK, CopiesFit, RootLeft, At
<1>2. node \in Node /\ node.elems = frame.left
  BY <1>1 DEF Node, Pointer, Fits
<1> HIDE DEF node
<1>3. AllFit(index') /\ Stored' = Stored \cup ToSet(frame.left)
  BY <1>1, <1>2, PrependExtends DEF Stored
<1>4. CopiesFit'
  BY <1>1, <1>3, RestingFits DEF Resting
<1>5. Indexed = Stored \cup ToSet(frame.left) \cup {frame.median}
  BY <1>1 DEF Indexed, Held, HeldAt, At
<1>6. Indexed' = Stored' \cup {frame.median}
  BY <1>1 DEF Indexed, Held, HeldAt, At
<1>7. QED
  BY <1>3, <1>4, <1>5, <1>6 DEF Same

\* The new root has the median, the last element in memory.
LEMMA RootTopFits ==
  ASSUME IInv, CopiesFit, RootTop
  PROVE  CopiesFit' /\ Same
<1> DEFINE m    == frame.median
           node == [parent |-> None, elems |-> <<m>>]
<1>1. /\ TypeOK /\ index \in Seq(Node) /\ AllFit(index) /\ m \in Element
      /\ frame.stage = "rootTop" /\ index' = <<node>> \o index
  BY FrameParts DEF IInv, TypeOK, CopiesFit, RootTop, At
<1>2. frame'.stage \in {"idle", "fixLast"}
  BY DEF RootTop, Accept, Idle
<1>3. <<m>> \in Elements /\ Len(<<m>>) = 1 /\ <<m>>[1] = m /\ ToSet(<<m>>) = {m}
  BY <1>1 DEF Elements, ToSet
<1>4. Fits(<<m>>)
  <2>1. m.key \in Int
    BY <1>1 DEF Element
  <2>2. Sorted(<<m>>)
    BY <1>3, <2>1 DEF Sorted
  <2>3. QED
    BY <1>3, <2>2, ElementCountAssumption DEF Fits
<1>5. node \in Node /\ node.elems = <<m>>
  BY <1>3 DEF Node, Pointer
<1> HIDE DEF node
<1>6. AllFit(index') /\ Stored' = Stored \cup {m}
  BY <1>1, <1>3, <1>4, <1>5, PrependExtends DEF Stored
<1>7. CopiesFit'
  BY <1>2, <1>6, RestingFits DEF Resting
<1>8. Indexed = Stored \cup {m}
  BY <1>1 DEF Indexed, Held, HeldAt, At
<1>9. Indexed' = Stored'
  BY <1>2, IndexedStoredThen
<1>10. QED
  BY <1>6, <1>7, <1>8, <1>9 DEF Same

\* Fixing the last pointers of node 2 leaves its entries.
LEMMA FixLastFits ==
  ASSUME IInv, CopiesFit, FixLast
  PROVE  CopiesFit' /\ Same
<1> DEFINE elems == Elems(2)
           c     == Len(elems)
           fixed == [elems EXCEPT ![c] = IncrementPointers(@, 2)]
           p     == index[3].parent
           there == OthersIn(index, 2)
<1>1. /\ TypeOK /\ index \in Seq(Node) /\ AllFit(index) /\ Len(index) >= 3
      /\ frame.stage = "fixLast"
  BY DEF IInv, TypeOK, CopiesFit, InsertHasRoot, FixLast, At
<1>2. 2 \in NodeIds /\ 3 \in 1 .. Len(index)
  BY <1>1, LenProperties DEF NodeIds
<1>3. elems \in Elements /\ p \in Pointer
  <2>1. elems \in Elements /\ Load(2).parent \in Pointer
    BY <1>1, <1>2, NodeParts
  <2>2. QED
    BY <2>1 DEF Load
<1>4. Fits(elems)
  BY <1>1, <1>2 DEF AllFit, Elems
<1>5. ASSUME Fail PROVE CopiesFit' /\ Same
  <2>1. frame'.stage = "undefined" /\ index' = index /\ Stored' = Stored
    BY <1>5 DEF Fail, Undefined, Stored
  <2>2. QED
    BY <1>1, <2>1, RewrittenFits
<1>6. ASSUME elems # <<>>, index' = Written(2, p, fixed), AdoptOrReturn(Children(fixed), 2)
      PROVE  CopiesFit' /\ Same
  <2>1. frame'.stage \in {"idle", "children"}
    BY <1>6, AdoptOrReturnRests
  <2> HIDE DEF elems, p
  <2>2. c \in 1 .. c /\ c \in Nat /\ DOMAIN elems = 1 .. c
    BY <1>3, <1>6, EmptySeq, LenProperties DEF Elements
  <2> DEFINE last == elems[c]
             e    == IncrementPointers(last, 2)
  <2>3. last \in Element
    BY <1>3, <2>2, ElementOfSeq DEF Elements
  <2>4. e \in Element /\ e.key = last.key /\ e.byte = last.byte
    BY <2>3, IncrementPointersKeeps
  <2>5. fixed = [elems EXCEPT ![c] = e]
    OBVIOUS
  <2> HIDE DEF e, fixed
  <2>6. /\ fixed \in Elements /\ Len(fixed) = c /\ DOMAIN fixed = 1 .. c
        /\ \A i \in 1 .. c : fixed[i] = IF i = c THEN e ELSE elems[i]
    <3>1. elems \in Seq(Element)
      BY <1>3 DEF Elements
    <3>2. /\ fixed \in Seq(Element) /\ DOMAIN fixed = DOMAIN elems
          /\ \A i \in DOMAIN elems : fixed[i] = IF i = c THEN e ELSE elems[i]
      BY <2>2, <2>4, <2>5, <3>1, ExceptSeq
    <3>3. Len(fixed) \in Nat /\ DOMAIN fixed = 1 .. Len(fixed)
      BY <3>2, LenProperties
    <3> HIDE DEF c
    <3>4. Len(fixed) = c
      BY <2>2, <3>2, <3>3
    <3>5. QED
      BY <2>2, <3>2, <3>4 DEF Elements
  <2> HIDE DEF c
  <2>7. \A i \in 1 .. c : fixed[i].key = elems[i].key /\ fixed[i].byte = elems[i].byte
    BY <2>4, <2>6
  <2> HIDE DEF last
  <2>8. Entries(ToSet(fixed)) = Entries(ToSet(elems))
    <3>1. Entries(ToSet(fixed)) = {<<fixed[i].key, fixed[i].byte>> : i \in 1 .. c}
      BY <2>6 DEF Entries, ToSet
    <3>2. Entries(ToSet(elems)) = {<<elems[i].key, elems[i].byte>> : i \in 1 .. c}
      BY <2>2 DEF Entries, ToSet
    <3>3. QED
      BY <2>7, <3>1, <3>2
  <2>9. Fits(fixed)
    BY <1>4, <2>6, <2>7 DEF Fits, Sorted, c
  <2>10. /\ AllFit(index') /\ Stored' = there \cup ToSet(fixed)
         /\ Stored = there \cup ToSet(elems)
    BY <1>1, <1>2, <1>3, <1>6, <2>6, <2>9, WrittenReplaces DEF Stored, elems
  <2>11. Entries(Stored') = Entries(Stored)
    <3>1. Entries(Stored') = Entries(there) \cup Entries(ToSet(fixed))
      BY <2>10, EntriesOfBoth
    <3>2. Entries(Stored) = Entries(there) \cup Entries(ToSet(elems))
      BY <2>10, EntriesOfBoth
    <3>3. QED
      BY <2>8, <3>1, <3>2
  <2>12. QED
    BY <1>1, <2>1, <2>10, <2>11, RewrittenFits
<1>7. QED
  BY <1>5, <1>6 DEF FixLast

-----------------------------------------------------------------------------
(* The second invariant is inductive too.                                  *)

\* A step of an insert keeps the copies writable; it changes the elements only by
\* the one it indexes, and that before any node is split.
LEMMA IndexStepFits ==
  ASSUME IInv, CopiesFit, IndexStep
  PROVE  /\ CopiesFit'
         /\ Same \/ (Stores /\ At("locate") /\ ~Finds(frame.elem.key))
<1>1. ASSUME IndexFirst \/ IndexInPlace \/ IndexFull
      PROVE  CopiesFit' /\ Stores /\ At("locate") /\ ~Finds(frame.elem.key)
  <2>1. CopiesFit' /\ Stores
    BY <1>1, IndexFirstFits, IndexInPlaceFits, IndexFullFits
  <2>2. At("locate") /\ (FallsOut(frame.elem.key) \/ Misses(frame.elem.key))
    BY <1>1 DEF IndexFirst, IndexInPlace, IndexFull
  <2>3. ~Finds(frame.elem.key)
    BY <2>2 DEF FallsOut, Misses, Finds
  <2>4. QED
    BY <2>1, <2>2, <2>3
<1>2. ASSUME IndexDuplicate \/ IndexEndless PROVE CopiesFit' /\ Same
  BY <1>2, IndexNothingFits
<1>3. ASSUME SplitLeft \/ SplitRight \/ SplitParent \/ AdoptChild PROVE CopiesFit' /\ Same
  BY <1>3, SplitLeftFits, SplitRightFits, SplitParentFits, AdoptChildFits
<1>4. ASSUME RootRenumber \/ RootRight \/ RootLeft \/ RootTop \/ FixLast
      PROVE  CopiesFit' /\ Same
  BY <1>4, RootRenumberFits, RootRightFits, RootLeftFits, RootTopFits, FixLastFits
<1>5. QED
  BY <1>1, <1>2, <1>3, <1>4 DEF IndexStep

\* Nothing is in the file or in memory at the start.
LEMMA InitFits == Init => CopiesFit
<1> SUFFICES ASSUME Init PROVE CopiesFit
  OBVIOUS
<1>1. AllFit(index)
  BY DEF Init, AllFit
<1>2. frame.stage = "idle"
  BY DEF Init, Idle
<1>3. QED
  BY <1>1, <1>2 DEF CopiesFit, At

\* Every step keeps the copies writable.
LEMMA StepFits == IInv /\ CopiesFit /\ [Next]_vars => CopiesFit'
<1> SUFFICES ASSUME IInv, CopiesFit, [Next]_vars PROVE CopiesFit'
  OBVIOUS
<1>1. ASSUME NEW k \in Keys, Insert(k) PROVE CopiesFit'
  BY <1>1, ClientFits, KeysAssumption
<1>2. CASE InsertKeyless \/ InsertNext \/ Reopen \/ Crash \/ Truncate
  BY <1>2, ClientFits
<1>3. CASE IndexStep
  BY <1>3, IndexStepFits
<1>4. CASE UNCHANGED vars
  BY <1>4 DEF vars, CopiesFit, At
<1>5. QED
  BY <1>1, <1>2, <1>3, <1>4 DEF Next

\* Every step but a crash and the emptying of the files keeps the elements.
LEMMA StepKeepsElements ==
  IInv /\ CopiesFit /\ [Next]_vars
    => [~Crash /\ ~Truncate => Entries(Indexed) \subseteq Entries(Indexed')]_vars
<1> SUFFICES ASSUME IInv, CopiesFit, Next, ~Crash, ~Truncate
             PROVE  Entries(Indexed) \subseteq Entries(Indexed')
  OBVIOUS
<1>1. ASSUME NEW k \in Keys, Insert(k) PROVE Same
  BY <1>1, ClientFits, KeysAssumption
<1>2. ASSUME InsertKeyless \/ InsertNext \/ Reopen PROVE Same
  BY <1>2, ClientFits
<1>3. ASSUME IndexStep PROVE Same \/ Stores
  BY <1>3, IndexStepFits
<1>4. Same \/ Stores
  BY <1>1, <1>2, <1>3 DEF Next
<1>5. QED
  BY <1>4 DEF Same, Stores

-----------------------------------------------------------------------------
(* The theorems.                                                           *)

\* Whatever a client inserts and wherever inserts crash, the files and the memory
\* of the insert in progress keep their types (storage/btree.zep).
THEOREM TypeCorrect == Spec => []TypeOK
<1>1. IInv => TypeOK
  BY DEF IInv
<1>2. QED
  BY <1>1, InitHolds, StepHolds, PTL DEF Spec

\* No element, in the file or in memory, ever points at the row of another key:
\* splits and renumbering move pointers and crashes lose elements, but neither mixes
\* up their rows (btree.zep insert, splitNode, splitRoot, split).
THEOREM ElementsSound == Spec => []ElementsPointAtTheirRows
<1>1. IInv => ElementsPointAtTheirRows
  BY DEF IInv
<1>2. QED
  BY <1>1, InitHolds, StepHolds, PTL DEF Spec

\* find() never answers with the row of another key, in any state the file can be
\* left in, the ones in which it misses keys included (btree.zep find).
THEOREM FindIsSound == Spec => []FindSound
<1>1. IInv => FindSound
  <2> SUFFICES ASSUME IInv, NEW k \in Keys, Finds(k) PROVE FoundRow(k) = k
    BY DEF FindSound
  <2> DEFINE e == FoundElement(k)
  <2>1. k \in Int /\ Located(k) + 1 \in DOMAIN index /\ Elems(Located(k)) \in Elements
    <3>1. index \in Seq(Node) /\ k \in Int /\ Located(k) \in NodeIds
      BY KeysAssumption DEF IInv, TypeOK, Finds
    <3>2. Located(k) + 1 \in DOMAIN index
      BY <3>1, LenProperties DEF NodeIds
    <3>3. index[Located(k) + 1] \in Node
      BY <3>1, <3>2, ElementOfSeq, LenProperties
    <3>4. QED
      BY <3>1, <3>2, <3>3 DEF Elems, Node
  <2>2. e \in ToSet(Elems(Located(k))) /\ e.key = k
    BY <2>1, ElementOfHasKey DEF Finds, FoundElement
  <2>3. e \in Stored
    BY <2>1, <2>2 DEF Stored, StoredIn, Elems
  <2>4. e.byte < Len(data) /\ data[e.byte + 1] = k
    BY <2>2, <2>3 DEF IInv, ElementsPointAtTheirRows, PointsAtItsRow
  <2>5. QED
    BY <2>4 DEF FoundRow
<1>2. QED
  BY <1>1, InitHolds, StepHolds, PTL DEF Spec

\* No step but a crash and the emptying of the files loses an element, in whatever
\* shape the inserts and crashes before it have left the tree: not even where a
\* node has come to be its own parent, so that split() writes an old copy of it over
\* the half it has just written (btree.zep split, splitRoot; node.zep addElement).
THEOREM ElementsNeverLost == Spec => ElementsKept
<1> DEFINE Inv == IInv /\ CopiesFit
<1>1. Init => Inv
  BY InitHolds, InitFits
<1>2. Inv /\ [Next]_vars => Inv'
  BY StepHolds, StepFits
<1>3. Inv /\ [Next]_vars
        => [~Crash /\ ~Truncate => Entries(Indexed) \subseteq Entries(Indexed')]_vars
  BY StepKeepsElements
<1> HIDE DEF Inv
<1>4. QED
  BY <1>1, <1>2, <1>3, PTL DEF Spec, ElementsKept
-----------------------------------------------------------------------------
(* The map the index stands for, as long as no key is inserted again that  *)
(* find() does not have.                                                   *)

\* No key has two locations.
OnePlaceEach(elements) ==
  \A p, q \in Entries(elements) : p[1] = q[1] => p[2] = q[2]

\* The row of the insert in progress is the last one, and the walk to come finds its
\* key if the index has it.
LocatesLast ==
  At("locate") =>
    /\ frame.elem.byte = Len(data) - 1
    /\ \A k \in Int : k = frame.elem.key => Findable(k)

FindableInv == IInv /\ CopiesFit /\ OnePlaceEach(Indexed) /\ LocatesLast

\* The map has the entries for its pairs.
LEMMA MapOfEntries ==
  ASSUME NEW I, OnePlaceEach(I)
  PROVE  /\ DOMAIN MapOf(I) = KeysOf(I)
         /\ MapOf(I) = [k \in KeysOf(I) |-> MapOf(I)[k]]
         /\ \A e \in I : MapOf(I)[e.key] = e.byte
<1>1. DOMAIN MapOf(I) = KeysOf(I) /\ MapOf(I) = [k \in KeysOf(I) |-> MapOf(I)[k]]
  BY DEF MapOf
<1>2. ASSUME NEW e \in I PROVE MapOf(I)[e.key] = e.byte
  <2> DEFINE c == CHOOSE d \in I : d.key = e.key
  <2>1. c \in I /\ c.key = e.key
    OBVIOUS
  <2>2. MapOf(I)[e.key] = c.byte
    BY DEF MapOf, KeysOf
  <2> HIDE DEF c
  <2>3. <<c.key, c.byte>> \in Entries(I) /\ <<e.key, e.byte>> \in Entries(I)
    BY <2>1 DEF Entries
  <2>4. c.byte = e.byte
    BY <2>1, <2>3 DEF OnePlaceEach
  <2>5. QED
    BY <2>2, <2>4
<1>3. QED
  BY <1>1, <1>2

\* The keys are those of the entries.
LEMMA KeysOfEntries ==
  ASSUME NEW I, NEW J, Entries(I) = Entries(J)
  PROVE  KeysOf(I) = KeysOf(J)
<1>1. ASSUME NEW A, NEW B, Entries(A) = Entries(B), NEW e \in A
      PROVE  \E d \in B : d.key = e.key
  <2>1. <<e.key, e.byte>> \in Entries(B)
    BY <1>1 DEF Entries
  <2>2. PICK d \in B : <<e.key, e.byte>> = <<d.key, d.byte>>
    BY <2>1 DEF Entries
  <2>3. QED
    BY <2>2
<1>2. \A e \in I : \E d \in J : d.key = e.key
  BY <1>1
<1>3. \A e \in J : \E d \in I : d.key = e.key
  BY <1>1
<1>4. QED
  BY <1>2, <1>3 DEF KeysOf

\* The same entries make up the same map.
LEMMA SameMap ==
  ASSUME NEW I, NEW J, Entries(J) = Entries(I), OnePlaceEach(I)
  PROVE  OnePlaceEach(J) /\ MapOf(J) = MapOf(I)
<1>1. OnePlaceEach(J)
  BY DEF OnePlaceEach
<1>2. KeysOf(I) = KeysOf(J)
  BY KeysOfEntries
<1>3. \A e \in J : MapOf(J)[e.key] = MapOf(I)[e.key]
  <2> SUFFICES ASSUME NEW e \in J PROVE MapOf(J)[e.key] = MapOf(I)[e.key]
    OBVIOUS
  <2>1. <<e.key, e.byte>> \in Entries(I)
    BY DEF Entries
  <2>2. PICK d \in I : <<e.key, e.byte>> = <<d.key, d.byte>>
    BY <2>1 DEF Entries
  <2>3. MapOf(J)[e.key] = e.byte /\ MapOf(I)[d.key] = d.byte
    BY <1>1, MapOfEntries
  <2>4. QED
    BY <2>2, <2>3
<1>4. \A k \in KeysOf(I) : MapOf(J)[k] = MapOf(I)[k]
  BY <1>2, <1>3 DEF KeysOf
<1>5. /\ MapOf(I) = [k \in KeysOf(I) |-> MapOf(I)[k]]
      /\ MapOf(J) = [k \in KeysOf(I) |-> MapOf(J)[k]]
  BY <1>1, <1>2, MapOfEntries
<1>6. QED
  BY <1>1, <1>4, <1>5

\* A map with one pair more than another, a new key for a larger location.
OneMore(m, n) ==
  \E k \in DOMAIN n :
    /\ k \notin DOMAIN m
    /\ \A j \in DOMAIN m : m[j] < n[k]
    /\ n = [j \in DOMAIN m \cup {k} |-> IF j = k THEN n[k] ELSE m[j]]

\* One element of a new key more, for a later row, makes up the map with one pair more.
LEMMA MapWithOne ==
  ASSUME NEW I, NEW J, NEW e, Entries(J) = Entries(I) \cup Entries({e}),
         OnePlaceEach(I), e.key \notin KeysOf(I), \A d \in I : d.byte < e.byte
  PROVE  OnePlaceEach(J) /\ OneMore(MapOf(I), MapOf(J))
<1>1. Entries({e}) = {<<e.key, e.byte>>}
  BY DEF Entries
<1>2. \A p \in Entries(I) : p[1] \in KeysOf(I)
  BY DEF Entries, KeysOf
<1>3. OnePlaceEach(J)
  <2> SUFFICES ASSUME NEW p \in Entries(J), NEW q \in Entries(J), p[1] = q[1]
               PROVE  p[2] = q[2]
    BY DEF OnePlaceEach
  <2>1. CASE p \in Entries(I) /\ q \in Entries(I)
    BY <2>1 DEF OnePlaceEach
  <2>2. CASE p = <<e.key, e.byte>> /\ q = <<e.key, e.byte>>
    BY <2>2
  <2>3. CASE p \in Entries(I) /\ q = <<e.key, e.byte>>
    BY <1>2, <2>3
  <2>4. CASE p = <<e.key, e.byte>> /\ q \in Entries(I)
    BY <1>2, <2>4
  <2>5. QED
    BY <1>1, <2>1, <2>2, <2>3, <2>4
<1>4. Entries(J) = Entries(I \cup {e})
  BY EntriesOfBoth
<1>5. KeysOf(J) = KeysOf(I \cup {e})
  BY <1>4, KeysOfEntries
<1>6. KeysOf(J) = KeysOf(I) \cup {e.key}
  BY <1>5 DEF KeysOf
<1>7. OnePlaceEach(I \cup {e}) /\ MapOf(I \cup {e}) = MapOf(J)
  BY <1>3, <1>4, SameMap
<1>8. MapOf(J)[e.key] = e.byte
  BY <1>7, MapOfEntries
<1>9. \A k \in KeysOf(I) : MapOf(J)[k] = MapOf(I)[k]
  <2>1. \A d \in I : MapOf(J)[d.key] = d.byte /\ MapOf(I)[d.key] = d.byte
    BY <1>7, MapOfEntries
  <2>2. QED
    BY <2>1 DEF KeysOf
<1>10. DOMAIN MapOf(I) = KeysOf(I) /\ MapOf(J) = [k \in KeysOf(J) |-> MapOf(J)[k]]
       /\ DOMAIN MapOf(J) = KeysOf(J)
  BY <1>3, MapOfEntries
<1>11. \A k \in KeysOf(I) \cup {e.key} :
         MapOf(J)[k] = IF k = e.key THEN e.byte ELSE MapOf(I)[k]
  BY <1>8, <1>9
<1>12. MapOf(J) = [k \in DOMAIN MapOf(I) \cup {e.key} |->
                     IF k = e.key THEN e.byte ELSE MapOf(I)[k]]
  BY <1>6, <1>10, <1>11
<1>13. \A j \in DOMAIN MapOf(I) : MapOf(I)[j] < MapOf(J)[e.key]
  <2>1. \A d \in I : MapOf(I)[d.key] < e.byte
    BY MapOfEntries
  <2>2. QED
    BY <1>8, <1>10, <2>1 DEF KeysOf
<1>14. e.key \in DOMAIN MapOf(J) /\ e.key \notin DOMAIN MapOf(I)
  BY <1>6, <1>10
<1>15. OneMore(MapOf(I), MapOf(J))
  BY <1>8, <1>12, <1>13, <1>14 DEF OneMore
<1>16. QED
  BY <1>3, <1>15

\* Where the file does not change, find() does not.
LEMMA FindsStays ==
  ASSUME UNCHANGED index, NEW k
  PROVE  Findable(k)' = Findable(k)
<1>1. Located(k)' = Located(k)
  BY DEF Located, Walk, TowardsKey, NodeIds, Elems
<1>2. Finds(k)' = Finds(k)
  BY <1>1 DEF Finds, NodeIds, Elems
<1>3. Stored' = Stored
  BY DEF Stored
<1>4. QED
  BY <1>2, <1>3 DEF Findable

\* No step of an insert locates its key again.
LEMMA LocatesOnce ==
  ASSUME IndexStep
  PROVE  frame'.stage # "locate"
<1>1. Idle.stage = "idle" /\ Undefined.stage = "undefined"
  BY DEF Idle, Undefined
<1>2. ASSUME NEW todo, NEW owner, AdoptOrReturn(todo, owner) PROVE frame'.stage # "locate"
  BY <1>2, AdoptOrReturnRests
<1>3. CASE IndexFirst \/ IndexDuplicate \/ IndexInPlace \/ IndexFull \/ IndexEndless
  BY <1>1, <1>3
  DEF IndexFirst, IndexDuplicate, IndexInPlace, IndexFull, IndexEndless, Accept, Fail
<1>4. CASE SplitLeft \/ SplitRight
  BY <1>4 DEF SplitLeft, SplitRight
<1>5. CASE SplitParent \/ AdoptChild \/ FixLast
  BY <1>1, <1>2, <1>5 DEF SplitParent, AdoptChild, FixLast, Fail
<1>6. CASE RootRenumber \/ RootRight \/ RootLeft \/ RootTop
  BY <1>1, <1>6 DEF RootRenumber, RootRight, RootLeft, RootTop, Accept
<1>7. QED
  BY <1>3, <1>4, <1>5, <1>6 DEF IndexStep

\* An insert whose key find() has, or the index has not.
LEMMA AppendRowLocates ==
  ASSUME TypeOK, UNCHANGED index, NEW k \in Int, AppendRow(k), Findable(k)
  PROVE  LocatesLast'
<1>1. /\ data' = Append(data, k)
      /\ frame'.elem.byte = Len(data) /\ frame'.elem.key = k
  BY DEF AppendRow, NewElement
<1>2. Len(data') - 1 = Len(data)
  BY <1>1, AppendProperties, LenProperties DEF TypeOK
<1>3. Findable(k)'
  BY FindsStays
<1>4. ASSUME NEW j \in Int, j = frame'.elem.key PROVE Findable(j)'
  <2>1. j = k
    BY <1>1, <1>4
  <2>2. Findable(j)
    BY <2>1
  <2>3. QED
    BY <2>2, FindsStays
<1>5. QED
  BY <1>1, <1>2, <1>4 DEF LocatesLast

\* The key that comes with a row is new where the walk has just missed it, and the
\* row lies behind all others.
LEMMA LocatedIsNew ==
  ASSUME FindableInv, At("locate"), ~Finds(frame.elem.key)
  PROVE  /\ frame.elem.key \notin KeysOf(Indexed)
         /\ \A e \in Indexed : e.byte < frame.elem.byte
<1>1. frame.elem \in Element /\ frame.elem.key \in Int /\ frame.elem.byte = Len(data) - 1
  BY FrameParts DEF FindableInv, IInv, LocatesLast, Element
<1>2. Indexed = Stored /\ frame.elem \in Held
  BY DEF Indexed, At, Held, HeldAt
<1>3. frame.elem.key \notin KeysOf(Stored)
  <2>1. Findable(frame.elem.key)
    BY <1>1 DEF FindableInv, LocatesLast
  <2>2. QED
    BY <2>1 DEF Findable
<1>4. ASSUME NEW e \in Stored PROVE e.byte < frame.elem.byte
  <2>1. /\ e.byte < Len(data) /\ data[e.byte + 1] = e.key
        /\ data[frame.elem.byte + 1] = frame.elem.key
    BY <1>2 DEF FindableInv, IInv, ElementsPointAtTheirRows, PointsAtItsRow
  <2>2. e.key # frame.elem.key
    BY <1>3 DEF KeysOf
  <2>3. e.byte # frame.elem.byte
    BY <2>1, <2>2
  <2>4. e.byte \in Nat /\ Len(data) \in Nat
    <3>1. e \in Element /\ data \in Seq(Int \cup {None})
      BY ElementsTyped DEF FindableInv, IInv, TypeOK
    <3>2. QED
      BY <3>1, LenProperties DEF Element
  <2>5. QED
    BY <1>1, <2>1, <2>3, <2>4
<1>5. QED
  BY <1>2, <1>3, <1>4

\* The map stays, or one key is put.
MapStep == MapOf(Indexed)' = MapOf(Indexed) \/ Map!Next

\* A step that keeps the entries keeps the map.
LEMMA SameIsNoStep ==
  ASSUME OnePlaceEach(Indexed), Same
  PROVE  OnePlaceEach(Indexed)' /\ MapStep
<1>1. OnePlaceEach(Indexed') /\ MapOf(Indexed') = MapOf(Indexed)
  BY SameMap DEF Same
<1>2. QED
  BY <1>1 DEF MapStep

\* A step that indexes an element puts its key.
LEMMA StoresPuts ==
  ASSUME FindableInv, At("locate"), ~Finds(frame.elem.key), Stores
  PROVE  OnePlaceEach(Indexed)' /\ MapStep
<1> DEFINE e == frame.elem
           I == Indexed
           J == Indexed'
<1>1. /\ e.key \notin KeysOf(I) /\ \A d \in I : d.byte < e.byte
      /\ OnePlaceEach(I) /\ Entries(J) = Entries(I) \cup Entries({e})
  BY LocatedIsNew DEF FindableInv, Stores
<1> HIDE DEF e, I, J
<1>2. OnePlaceEach(J) /\ OneMore(MapOf(I), MapOf(J))
  BY <1>1, MapWithOne
<1>3. OnePlaceEach(Indexed)'
  BY <1>2 DEF J
<1>4. Map!Next
  BY <1>2 DEF I, J, OneMore, Map!Next, Map!Put
<1>5. QED
  BY <1>3, <1>4 DEF MapStep

\* Such a client keeps the invariant, and each of its steps is one of the map.
LEMMA FindableStepHolds ==
  FindableInv /\ [FindableNext]_vars => FindableInv' /\ MapStep
<1> SUFFICES ASSUME FindableInv, [FindableNext]_vars PROVE FindableInv' /\ MapStep
  OBVIOUS
<1>1. [Next]_vars
  BY DEF FindableNext, Next
<1>2. IInv' /\ CopiesFit'
  BY <1>1, StepHolds, StepFits DEF FindableInv
<1>3. TypeOK /\ OnePlaceEach(Indexed) /\ CopiesFit
  BY DEF FindableInv, IInv
<1>4. ASSUME NEW k \in Keys, Findable(k), Insert(k)
      PROVE  OnePlaceEach(Indexed)' /\ MapStep /\ LocatesLast'
  <2>1. k \in Int /\ AppendRow(k) /\ UNCHANGED index
    BY <1>4, KeysAssumption DEF Insert
  <2>2. Same
    BY <1>3, <1>4, <2>1, ClientFits
  <2>3. LocatesLast'
    BY <1>3, <1>4, <2>1, AppendRowLocates
  <2>4. QED
    BY <1>3, <2>2, <2>3, SameIsNoStep
<1>5. ASSUME Findable(NextKey), InsertNext
      PROVE  OnePlaceEach(Indexed)' /\ MapStep /\ LocatesLast'
  <2>1. UNCHANGED index /\ Same
    BY <1>3, <1>5, ClientFits DEF InsertNext
  <2>2. CASE AppendRow(NextKey)
    <3>1. frame' = [stage |-> "locate", elem |-> NewElement(NextKey, Len(data))]
      BY <2>2 DEF AppendRow
    <3>2. frame'.stage = "locate" /\ frame'.elem.key = NextKey
      BY <3>1 DEF NewElement
    <3>3. NextKey \in Int
      <4>1. frame'.elem \in Element
        BY <1>2, <3>2 DEF IInv, TypeOK, Frame
      <4>2. QED
        BY <3>2, <4>1 DEF Element
    <3>4. PICK k \in Int : k = NextKey
      BY <3>3
    <3>5. AppendRow(k) /\ Findable(k)
      BY <1>5, <2>2, <3>4
    <3>6. QED
      BY <1>3, <2>1, <3>5, AppendRowLocates, SameIsNoStep
  <2>3. CASE frame' = Undefined
    <3>1. LocatesLast'
      BY <2>3 DEF Undefined, LocatesLast, At
    <3>2. QED
      BY <1>3, <2>1, <3>1, SameIsNoStep
  <2>4. QED
    BY <1>5, <2>2, <2>3 DEF InsertNext
<1>6. ASSUME InsertKeyless \/ Reopen
      PROVE  OnePlaceEach(Indexed)' /\ MapStep /\ LocatesLast'
  <2>1. Same
    BY <1>3, <1>6, ClientFits
  <2>2. frame'.stage # "locate"
    BY <1>6 DEF InsertKeyless, Reopen, MayInsert, At, Idle, Undefined
  <2>3. LocatesLast'
    BY <2>2 DEF LocatesLast, At
  <2>4. QED
    BY <1>3, <2>1, <2>3, SameIsNoStep
<1>7. ASSUME IndexStep
      PROVE  OnePlaceEach(Indexed)' /\ MapStep /\ LocatesLast'
  <2>1. LocatesLast'
    BY <1>7, LocatesOnce DEF LocatesLast, At
  <2>2. Same \/ (Stores /\ At("locate") /\ ~Finds(frame.elem.key))
    BY <1>7, IndexStepFits DEF FindableInv
  <2>3. QED
    BY <1>3, <2>1, <2>2, SameIsNoStep, StoresPuts
<1>8. ASSUME UNCHANGED vars
      PROVE  OnePlaceEach(Indexed)' /\ MapStep /\ LocatesLast'
  <2>1. UNCHANGED <<index, data, frame>>
    BY <1>8 DEF vars
  <2>2. Same
    BY <2>1 DEF Same, Entries, Indexed, Stored, Held, HeldAt, At
  <2>3. \A k : Findable(k)' = Findable(k)
    BY <2>1, FindsStays
  <2>4. LocatesLast'
    BY <2>1, <2>3 DEF LocatesLast, At, FindableInv
  <2>5. QED
    BY <1>3, <2>2, <2>4, SameIsNoStep
<1>9. QED
  BY <1>2, <1>4, <1>5, <1>6, <1>7, <1>8 DEF FindableNext, FindableInv

\* The empty index is the empty map.
LEMMA FindableInitHolds == Init => FindableInv /\ Map!Init
<1> SUFFICES ASSUME Init PROVE FindableInv /\ Map!Init
  OBVIOUS
<1>1. IInv /\ CopiesFit
  BY InitHolds, InitFits
<1>2. frame.stage = "idle"
  BY DEF Init, Idle
<1>3. Stored = {}
  <2>1. DOMAIN index = {}
    BY EmptySeq, LenProperties DEF Init
  <2>2. QED
    BY <2>1 DEF Stored, StoredIn
<1>4. Indexed = {}
  BY <1>2, <1>3, IndexedStored
<1>5. LocatesLast
  BY <1>2 DEF LocatesLast, At
<1>6. OnePlaceEach(Indexed) /\ KeysOf(Indexed) = {}
  BY <1>4 DEF OnePlaceEach, Entries, KeysOf
<1>7. MapOf(Indexed) = [k \in {} |-> 0]
  BY <1>6 DEF MapOf
<1>8. QED
  BY <1>1, <1>5, <1>6, <1>7 DEF FindableInv, Map!Init

\* A client that repeats a key only while find() has it makes the index a map that
\* only grows, put by put, whatever the order of its keys and however the node file
\* is rewritten in between (btree.zep insert, insertIndex, split, splitRoot).
THEOREM IndexRefinesMap == FindableSpec => ImplementsMap
<1>1. FindableInv /\ [FindableNext]_vars => [Map!Next]_(MapOf(Indexed))
  BY FindableStepHolds DEF MapStep
<1>2. QED
  BY <1>1, FindableInitHolds, FindableStepHolds, PTL DEF FindableSpec, ImplementsMap, Map!Spec
-----------------------------------------------------------------------------
(* What returned stays, as long as no process dies.                        *)

\* The entry of the last row.
LastRow == <<Last(data), Len(data) - 1>>

\* The insert in progress is to index the last row, and from its first node on has.
IndexesLast ==
  /\ At("locate") => <<frame.elem.key, frame.elem.byte>> = LastRow
  /\ frame.stage \notin {"idle", "undefined", "locate"} => LastRow \in Entries(Indexed)

SurvivingInv == IInv /\ CopiesFit /\ AcceptedIndexed /\ IndexesLast

\* A step of an insert appends no row and accepts only the last one.
LEMMA IndexStepAccepts ==
  ASSUME IndexStep
  PROVE  /\ LastRow' = LastRow /\ frame.stage \notin {"idle", "undefined"}
         /\ accepted' = accepted \/ accepted' = accepted \cup {LastRow}
<1>1. ASSUME NEW todo, NEW owner, AdoptOrReturn(todo, owner)
      PROVE  accepted' = accepted \/ accepted' = accepted \cup {LastRow}
  BY <1>1 DEF AdoptOrReturn, Accept, LastRow
<1>2. Accept \/ Fail => accepted' = accepted \/ accepted' = accepted \cup {LastRow}
  BY DEF Accept, Fail, LastRow
<1>3. accepted' = accepted \/ accepted' = accepted \cup {LastRow}
  <2>1. CASE IndexFirst \/ IndexDuplicate \/ IndexInPlace \/ IndexFull \/ IndexEndless
    BY <1>2, <2>1 DEF IndexFirst, IndexDuplicate, IndexInPlace, IndexFull, IndexEndless
  <2>2. CASE SplitLeft \/ SplitRight \/ RootRenumber \/ RootRight \/ RootLeft
    BY <2>2 DEF SplitLeft, SplitRight, RootRenumber, RootRight, RootLeft
  <2>3. CASE SplitParent \/ AdoptChild \/ FixLast \/ RootTop
    BY <1>1, <1>2, <2>3 DEF SplitParent, AdoptChild, FixLast, RootTop
  <2>4. QED
    BY <2>1, <2>2, <2>3 DEF IndexStep
<1>4. data' = data
  BY DEF IndexStep, IndexFirst, IndexDuplicate, IndexInPlace, IndexFull, IndexEndless,
     SplitLeft, SplitRight, SplitParent, AdoptChild, RootRenumber, RootRight, RootLeft,
     RootTop, FixLast
<1>5. frame.stage \notin {"idle", "undefined"}
  BY DEF IndexStep, IndexFirst, IndexDuplicate, IndexInPlace, IndexFull, IndexEndless,
     SplitLeft, SplitRight, SplitParent, AdoptChild, RootRenumber, RootRight, RootLeft,
     RootTop, FixLast, At
<1>6. QED
  BY <1>3, <1>4, <1>5 DEF LastRow

\* A step of an insert keeps what was accepted.
LEMMA IndexStepSurvives ==
  ASSUME SurvivingInv, IndexStep
  PROVE  AcceptedIndexed' /\ IndexesLast'
<1>1. IInv /\ CopiesFit /\ accepted \subseteq Entries(Indexed) /\ IndexesLast
  BY DEF SurvivingInv, AcceptedIndexed
<1>2. /\ LastRow' = LastRow /\ frame.stage \notin {"idle", "undefined"}
      /\ accepted' = accepted \/ accepted' = accepted \cup {LastRow}
      /\ frame'.stage # "locate"
  BY IndexStepAccepts, LocatesOnce
<1>3. ASSUME Entries(Indexed) \subseteq Entries(Indexed)', LastRow \in Entries(Indexed)'
      PROVE  AcceptedIndexed' /\ IndexesLast'
  BY <1>1, <1>2, <1>3 DEF AcceptedIndexed, IndexesLast, At
<1>4. CASE At("locate")
  <2>1. <<frame.elem.key, frame.elem.byte>> = LastRow
    BY <1>1, <1>4 DEF IndexesLast
  <2>2. CASE IndexFirst \/ IndexInPlace \/ IndexFull
    <3>1. Entries(Indexed') = Entries(Indexed) \cup Entries({frame.elem})
      BY <1>1, <2>2, IndexFirstFits, IndexInPlaceFits, IndexFullFits DEF Stores
    <3>2. LastRow \in Entries({frame.elem})
      BY <2>1 DEF Entries
    <3>3. QED
      BY <1>3, <3>1, <3>2
  <2>3. CASE IndexDuplicate \/ IndexEndless
    <3>1. accepted' = accepted /\ frame'.stage \in {"idle", "undefined"}
      BY <2>3 DEF IndexDuplicate, IndexEndless, Fail, Idle, Undefined
    <3>2. Entries(Indexed') = Entries(Indexed)
      BY <1>1, <2>3, IndexNothingFits DEF Same
    <3>3. QED
      BY <1>1, <3>1, <3>2 DEF AcceptedIndexed, IndexesLast, At
  <2>4. QED
    BY <1>4, <2>2, <2>3 DEF IndexStep, SplitLeft, SplitRight, SplitParent, AdoptChild,
       RootRenumber, RootRight, RootLeft, RootTop, FixLast, At
<1>5. CASE ~At("locate")
  <2>1. LastRow \in Entries(Indexed)
    BY <1>1, <1>2, <1>5 DEF IndexesLast, At
  <2>2. Entries(Indexed') = Entries(Indexed)
    BY <1>1, <1>5, IndexStepFits DEF Same
  <2>3. QED
    BY <1>3, <2>1, <2>2
<1>6. QED
  BY <1>4, <1>5

\* The call of an insert keeps it too.
LEMMA CallSurvives ==
  ASSUME SurvivingInv, Same, UNCHANGED accepted, NEW k \in Int \cup {None},
         \/ AppendRow(k)
         \/ frame'.stage \in {"idle", "undefined"}
  PROVE  AcceptedIndexed' /\ IndexesLast'
<1>1. AcceptedIndexed'
  BY DEF SurvivingInv, AcceptedIndexed, Same
<1>2. CASE AppendRow(k)
  <2>1. /\ data' = Append(data, k) /\ frame'.stage = "locate"
        /\ frame'.elem.key = k /\ frame'.elem.byte = Len(data)
    BY <1>2 DEF AppendRow, NewElement
  <2>2. Len(data') = Len(data) + 1 /\ Len(data) \in Nat /\ data'[Len(data) + 1] = k
    BY <2>1, AppendProperties, LenProperties DEF SurvivingInv, IInv, TypeOK
  <2>3. Last(data') = k /\ Len(data') - 1 = Len(data)
    BY <2>2 DEF Last
  <2>4. QED
    BY <1>1, <2>1, <2>3 DEF IndexesLast, LastRow, At
<1>3. CASE frame'.stage \in {"idle", "undefined"}
  BY <1>1, <1>3 DEF IndexesLast, At
<1>4. QED
  BY <1>2, <1>3

\* Every step of such a client keeps it.
LEMMA SurvivingStepHolds == SurvivingInv /\ [SurvivingNext]_vars => SurvivingInv'
<1> SUFFICES ASSUME SurvivingInv, [SurvivingNext]_vars PROVE SurvivingInv'
  OBVIOUS
<1>1. [Next]_vars
  BY DEF SurvivingNext, Next
<1>2. IInv' /\ CopiesFit'
  BY <1>1, StepHolds, StepFits DEF SurvivingInv
<1>3. CopiesFit
  BY DEF SurvivingInv
<1>4. Idle.stage = "idle" /\ Undefined.stage = "undefined"
  BY DEF Idle, Undefined
<1>5. ASSUME NEW k \in Keys, Insert(k) PROVE AcceptedIndexed' /\ IndexesLast'
  <2>1. k \in Int /\ AppendRow(k) /\ UNCHANGED accepted
    BY <1>5, KeysAssumption DEF Insert
  <2>2. Same
    BY <1>3, <1>5, <2>1, ClientFits
  <2>3. QED
    BY <2>1, <2>2, CallSurvives
<1>6. ASSUME InsertNext PROVE AcceptedIndexed' /\ IndexesLast'
  <2>1. UNCHANGED accepted /\ Same
    BY <1>3, <1>6, ClientFits DEF InsertNext
  <2>2. CASE AppendRow(NextKey)
    <3>1. frame'.stage = "locate" /\ frame'.elem.key = NextKey
      BY <2>2 DEF AppendRow, NewElement
    <3>2. NextKey \in Int
      <4>1. frame'.elem \in Element
        BY <1>2, <3>1 DEF IInv, TypeOK, Frame
      <4>2. QED
        BY <3>1, <4>1 DEF Element
    <3>3. PICK k \in Int : k = NextKey
      BY <3>2
    <3>4. AppendRow(k)
      BY <2>2, <3>3
    <3>5. QED
      BY <2>1, <3>4, CallSurvives
  <2>3. CASE frame' = Undefined
    BY <1>4, <2>1, <2>3, CallSurvives
  <2>4. QED
    BY <1>6, <2>2, <2>3 DEF InsertNext
<1>7. ASSUME InsertKeyless \/ Reopen PROVE AcceptedIndexed' /\ IndexesLast'
  <2>1. Same /\ UNCHANGED accepted
    BY <1>3, <1>7, ClientFits DEF InsertKeyless, Reopen
  <2>2. frame'.stage \in {"idle", "undefined"}
    BY <1>4, <1>7 DEF InsertKeyless, Reopen, MayInsert, At
  <2>3. QED
    BY <2>1, <2>2, CallSurvives
<1>8. ASSUME Truncate PROVE AcceptedIndexed' /\ IndexesLast'
  BY <1>8 DEF Truncate, AcceptedIndexed, IndexesLast, At
<1>9. ASSUME IndexStep PROVE AcceptedIndexed' /\ IndexesLast'
  BY <1>9, IndexStepSurvives
<1>10. ASSUME UNCHANGED vars PROVE AcceptedIndexed' /\ IndexesLast'
  <2>1. UNCHANGED <<data, frame, accepted>> /\ Entries(Indexed)' = Entries(Indexed)
    BY <1>10 DEF vars, Entries, Indexed, Stored, Held, HeldAt, At
  <2>2. QED
    BY <2>1 DEF SurvivingInv, AcceptedIndexed, IndexesLast, LastRow, At
<1>11. QED
  BY <1>2, <1>5, <1>6, <1>7, <1>8, <1>9, <1>10 DEF SurvivingNext, SurvivingInv

\* As long as no process dies inside an insert, the element of every insert that
\* returned is in the index, whatever the order of the keys: what find() misses
\* after splits in the middle is still in the file, unreachable by its pointers
\* (btree.zep insert, split, splitRoot).
THEOREM AcceptedStay == SurvivingSpec => []AcceptedIndexed
<1>1. Init => SurvivingInv
  <2> SUFFICES ASSUME Init PROVE SurvivingInv
    OBVIOUS
  <2>1. accepted = {} /\ frame.stage = "idle"
    BY DEF Init, Idle
  <2>2. QED
    BY <2>1, InitHolds, InitFits DEF SurvivingInv, AcceptedIndexed, IndexesLast, At
<1>2. SurvivingInv => AcceptedIndexed
  BY DEF SurvivingInv
<1>3. QED
  BY <1>1, <1>2, SurvivingStepHolds, PTL DEF SurvivingSpec
=============================================================================

----------------------------- MODULE BTreeNode -----------------------------
(***************************************************************************)
(* A node of the index and its elements: the pure operations of            *)
(* storage/btree/node.zep and storage/btree/node/element.zep.              *)
(*                                                                         *)
(* An element maps a key to the location of its row in the data file.  In  *)
(* an inner node it also holds the numbers of the nodes with the smaller   *)
(* ("less") and the larger ("more") keys; in a leaf both are None.  Keys   *)
(* are integers: that is what Element makes of every key except a date,    *)
(* and a date is compared through strtotime(), an integer again.           *)
(***************************************************************************)
EXTENDS Integers, SequencesExt

CONSTANT None           \* the empty string of a "less", "more" or parent column

ASSUME NoneAssumption == None \notin Int

Pointer  == Nat \cup {None}
Element  == [key : Int, byte : Nat, less : Nat, more : Nat]
              \cup [key : Int, byte : Nat, less : {None}, more : {None}]
Elements == Seq(Element)

\* An element which points at a row and has no children yet.
NewElement(k, b) == [key |-> k, byte |-> b, less |-> None, more |-> None]

HasChildren(e) == e.less # None

\* The element with other children.
Pointing(e, less, more) ==
  [key |-> e.key, byte |-> e.byte, less |-> less, more |-> more]

\* Every pointer of the element moves up by n.
IncrementPointers(e, n) ==
  IF HasChildren(e) THEN Pointing(e, e.less + n, e.more + n) ELSE e

IncrementAll(elems, n) ==
  [i \in DOMAIN elems |-> IncrementPointers(elems[i], n)]

\* Append the element and sort the node by key.
AddElement(elems, e) ==
  LET smaller == Cardinality({i \in DOMAIN elems : elems[i].key <= e.key})
  IN  InsertAt(elems, smaller + 1, e)

Holds(elems, k) == \E i \in DOMAIN elems : elems[i].key = k

\* Variant: the first element of the node, whatever its key.
ElementFirst(elems, k) == elems[1]

ElementOf(elems, k) ==
  elems[CHOOSE i \in DOMAIN elems :
          elems[i].key = k /\ \A j \in 1 .. i - 1 : elems[j].key # k]

Inner(elems) == {i \in DOMAIN elems : HasChildren(elems[i])}

Distance(e, k) == IF k < e.key THEN e.key - k ELSE k - e.key

\* hasKey() when no element has the key: the child on k's side of the element
\* closest to k, the first of two equally close ones; None in a leaf.
ChildFor(elems, k) ==
  LET closest == CHOOSE i \in Inner(elems) :
        \A j \in Inner(elems) :
          \/ Distance(elems[i], k) < Distance(elems[j], k)
          \/ Distance(elems[i], k) = Distance(elems[j], k) /\ i <= j
  IN  IF Inner(elems) = {}            THEN None
      ELSE IF k < elems[closest].key  THEN elems[closest].less
      ELSE                                 elems[closest].more

\* The children of the elements, left to right: less and more of each, None
\* where an element has none.
Children(elems) ==
  [i \in 1 .. 2 * Len(elems) |->
    IF i % 2 = 1 THEN elems[(i + 1) \div 2].less ELSE elems[i \div 2].more]

\* Variant: the median rounded down.
SplitLow(elems, n, r) ==
  LET middle == Len(elems) \div 2
  IN  [left   |-> SubSeq(elems, 1, middle - 1),
       median |-> Pointing(elems[middle], n, r),
       right  |-> SubSeq(elems, middle + 1, Len(elems))]

\* Variant: the right half taken after the removal of the median closed the gap.
SplitShifted(elems, n, r) ==
  LET middle == (Len(elems) + 1) \div 2
  IN  [left   |-> SubSeq(elems, 1, middle - 1),
       median |-> Pointing(elems[middle], n, r),
       right  |-> SubSeq(elems, middle + 2, Len(elems))]

\* splitNode(): the middle element of node n goes up and points at both halves,
\* of which the right one is to be the new node r.
Split(elems, n, r) ==
  LET middle == (Len(elems) + 1) \div 2
  IN  [left   |-> SubSeq(elems, 1, middle - 1),
       median |-> Pointing(elems[middle], n, r),
       right  |-> SubSeq(elems, middle + 1, Len(elems))]
=============================================================================

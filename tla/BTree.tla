------------------------------- MODULE BTree -------------------------------
(***************************************************************************)
(* The index of a table, storage/btree.zep: a file of fixed-size nodes,    *)
(* numbered from 0 with the root first, beside the data file its elements  *)
(* point into.  Each write of the index file is a step of its own, so that *)
(* a crash may come between two of them and so that what a reader would    *)
(* find there can be stated.                                               *)
(*                                                                         *)
(* A row is represented by the key it was inserted under and its location  *)
(* by the number of rows before it.                                        *)
(***************************************************************************)
EXTENDS BTreeNode

CONSTANTS Keys,          \* the keys a client inserts rows under
          ElementCount,  \* how many elements fit in a node
          MaxRows,       \* bound: no insert starts once the data file has that many rows
          MaxRejected    \* bound: nor once more than that many rows belong to failed inserts

ASSUME KeysAssumption         == Keys \subseteq Int
ASSUME ElementCountAssumption == ElementCount \in Nat /\ ElementCount >= 2
ASSUME BoundsAssumption       == MaxRows \in Nat /\ MaxRejected \in Nat

VARIABLES index,     \* the index file: node n is index[n + 1]
          data,      \* the data file: the key of each row, None for a row appended without one
          keyType,   \* "int" if the tree was constructed over a non-empty index, else "detect"
          frame,     \* the insert in progress: where it is and what it holds in memory
          accepted   \* history: the <<key, location>> of every insert that returned

vars == <<index, data, keyType, frame, accepted>>

Node     == [parent : Pointer, elems : Elements]
Loaded   == [id : Nat, parent : Pointer, elems : Elements]  \* a node in memory
KeyTypes == {"detect", "int"}

\* What insert() holds between two writes, one set of records per place it can be at.
Frame ==
  [stage : {"idle", "fixLast", "undefined"}]
    \cup [stage : {"locate"}, elem : Element]
    \cup [stage : {"split"}, node : Loaded, elem : Element, double : BOOLEAN]
    \cup [stage : {"right", "parent"}, parent : Loaded, median : Element, right : Elements]
    \cup [stage : {"children"}, todo : Seq(Pointer) \ {<<>>}, owner : Pointer]
    \cup [stage : {"rootRight"}, elem : Element, double : BOOLEAN]
    \cup [stage : {"rootLeft"}, left : Elements, median : Element, double : BOOLEAN]
    \cup [stage : {"rootTop"}, median : Element, double : BOOLEAN]

TypeOK ==
  /\ index \in Seq(Node)
  /\ data \in Seq(Int \cup {None})
  /\ keyType \in KeyTypes
  /\ frame \in Frame
  /\ accepted \subseteq Int \X Nat

Idle      == [stage |-> "idle"]
Undefined == [stage |-> "undefined"]
At(stage) == frame.stage = stage

-----------------------------------------------------------------------------
(* Walking the file.                                                       *)

NodeIds  == 0 .. Len(index) - 1
Elems(n) == index[n + 1].elems
Load(n)  == [id |-> n, parent |-> index[n + 1].parent, elems |-> Elems(n)]

\* The node a walk from the root has reached after as many steps as there are
\* nodes; a walk that has not come to rest by then is in a cycle.
Walk(step) ==
  LET path[i \in 0 .. Len(index)] == IF i = 0 THEN 0 ELSE step[path[i - 1]]
  IN  path[Len(index)]

\* One recursion of locate(): no pointer to follow leaves the walk where it is,
\* and so does a pointer that leads out of the file.
TowardsKey(k) ==
  [n \in Nat |->
    IF n \in NodeIds /\ ~Holds(Elems(n), k) /\ ChildFor(Elems(n), k) # None
      THEN ChildFor(Elems(n), k) ELSE n]
TowardsFirst ==
  [n \in Nat |->
    IF n \in NodeIds /\ Inner(Elems(n)) # {}
      THEN Elems(n)[Min(Inner(Elems(n)))].less ELSE n]
TowardsLast ==
  [n \in Nat |->
    IF n \in NodeIds /\ Inner(Elems(n)) # {}
      THEN Elems(n)[Max(Inner(Elems(n)))].more ELSE n]

Located(k) == Walk(TowardsKey(k))
FirstNode  == Walk(TowardsFirst)
LastNode   == Walk(TowardsLast)

\* The four outcomes of locate(): the element, the leaf it belongs in, false
\* (an empty index, or a pointer past the end of the file), or no return.
Finds(k)     == Located(k) \in NodeIds /\ Holds(Elems(Located(k)), k)
Misses(k)    == /\ Located(k) \in NodeIds
                /\ ~Holds(Elems(Located(k)), k)
                /\ ChildFor(Elems(Located(k)), k) = None
FallsOut(k)  == Located(k) \notin NodeIds
GoesRound(k) == ~Finds(k) /\ ~Misses(k) /\ ~FallsOut(k)

\* find(): the row the element of the key points at, false past the end of the data.
FoundElement(k) == ElementOf(Elems(Located(k)), k)
FoundRow(k) ==
  IF FoundElement(k).byte < Len(data) THEN data[FoundElement(k).byte + 1] ELSE None

-----------------------------------------------------------------------------
(* insert(): the row is written before the key is looked at.               *)

Init ==
  /\ index = <<>>
  /\ data = <<>>
  /\ keyType = "detect"
  /\ frame = Idle
  /\ accepted = {}

MayInsert ==
  /\ At("idle")
  /\ Len(data) < MaxRows
  /\ Len(data) - Cardinality(accepted) <= MaxRejected

\* Variant: the location is read after the row was appended.
AppendThenLocate(k) ==
  /\ data' = Append(data, k)
  /\ frame' = [stage |-> "locate", elem |-> NewElement(k, Len(data) + 1)]

AppendRow(k) ==
  /\ data' = Append(data, k)
  /\ frame' = [stage |-> "locate", elem |-> NewElement(k, Len(data))]

Insert(k) ==
  /\ MayInsert
  /\ AppendRow(k)
  /\ UNCHANGED <<index, keyType, accepted>>

\* insert() without a key on a tree constructed over an empty index: it throws,
\* and the row stays.
InsertKeyless ==
  /\ MayInsert
  /\ keyType = "detect"
  /\ data' = Append(data, None)
  /\ UNCHANGED <<index, keyType, frame, accepted>>

LastNodeReturns ==
  LastNode \in NodeIds => Inner(Elems(LastNode)) = {} /\ Elems(LastNode) # <<>>

\* Variant: the last key of the first node.
NextKeyOfFirst ==
  IF FirstNode \in NodeIds THEN Last(Elems(FirstNode)).key + 1 ELSE 1

NextKey ==
  IF LastNode \in NodeIds THEN Last(Elems(LastNode)).key + 1 ELSE 1

\* insert() without a key: one more than the last key of the last node.
InsertNext ==
  /\ MayInsert
  /\ keyType = "int"
  /\ IF LastNodeReturns
       THEN AppendRow(NextKey)
       ELSE data' = Append(data, None) /\ frame' = Undefined
  /\ UNCHANGED <<index, keyType, accepted>>

-----------------------------------------------------------------------------
(* insertIndex(): locate the key, then reject, write in place or split.    *)

Written(n, parent, elems) ==
  [index EXCEPT ![n + 1] = [parent |-> parent, elems |-> elems]]

\* insert() returns: its element is the one of the last row.
Accept ==
  /\ frame' = Idle
  /\ accepted' = accepted \cup {<<Last(data), Len(data) - 1>>}

Fail == frame' = Undefined /\ UNCHANGED <<index, accepted>>

IndexFirst ==
  /\ At("locate")
  /\ FallsOut(frame.elem.key)
  /\ index' = Append(index, [parent |-> None, elems |-> <<frame.elem>>])
  /\ Accept
  /\ UNCHANGED <<data, keyType>>

\* The exception "The provided Key must be unique".
IndexDuplicate ==
  /\ At("locate")
  /\ Finds(frame.elem.key)
  /\ frame' = Idle
  /\ UNCHANGED <<index, data, keyType, accepted>>

IndexInPlace ==
  /\ At("locate")
  /\ Misses(frame.elem.key)
  /\ LET node == Load(Located(frame.elem.key)) IN
       /\ Len(node.elems) < ElementCount
       /\ index' = Written(node.id, node.parent, AddElement(node.elems, frame.elem))
  /\ Accept
  /\ UNCHANGED <<data, keyType>>

IndexFull ==
  /\ At("locate")
  /\ Misses(frame.elem.key)
  /\ LET node == Load(Located(frame.elem.key)) IN
       /\ Len(node.elems) >= ElementCount
       /\ frame' = [stage |-> "split", node |-> node, elem |-> frame.elem,
                    double |-> FALSE]
  /\ UNCHANGED <<index, data, keyType, accepted>>

\* locate() recurses for ever on a cycle of pointers.
IndexEndless ==
  /\ At("locate")
  /\ GoesRound(frame.elem.key)
  /\ Fail
  /\ UNCHANGED <<data, keyType>>

-----------------------------------------------------------------------------
(* split(): a node below another.  getParent() is false for the root, and  *)
(* for a parent number that lies past the end of the file.                 *)

\* Variant: no header is rewritten.
ReturnAtOnce(todo, owner) == Accept

\* Nodes whose parent header is still to be rewritten; none left, insert() returns.
AdoptOrReturn(todo, owner) ==
  IF \A i \in DOMAIN todo : todo[i] = None
    THEN Accept
    ELSE /\ frame' = [stage |-> "children", todo |-> todo, owner |-> owner]
         /\ UNCHANGED accepted

\* Load the parent, split the node and write the left half in its place.
SplitLeft ==
  /\ At("split")
  /\ frame.node.parent \in NodeIds
  /\ LET parts == Split(AddElement(frame.node.elems, frame.elem), frame.node.id, Len(index))
     IN  /\ index' = Written(frame.node.id, frame.node.parent, parts.left)
         /\ frame' = [stage |-> "right", parent |-> Load(frame.node.parent),
                      median |-> parts.median, right |-> parts.right]
  /\ UNCHANGED <<data, keyType, accepted>>

\* Append the right half; a full parent is split in turn, from the copy in memory.
SplitRight ==
  /\ At("right")
  /\ index' = Append(index, [parent |-> frame.parent.id, elems |-> frame.right])
  /\ frame' = IF Len(frame.parent.elems) < ElementCount
                THEN [stage |-> "parent", parent |-> frame.parent,
                      median |-> frame.median, right |-> frame.right]
                ELSE [stage |-> "split", node |-> frame.parent,
                      elem |-> frame.median, double |-> TRUE]
  /\ UNCHANGED <<data, keyType, accepted>>

\* Variant: the parent is not written back.
SplitParentUnsaved ==
  /\ At("parent")
  /\ AdoptOrReturn(Children(frame.right), frame.median.more)
  /\ UNCHANGED <<index, data, keyType>>

SplitParent ==
  /\ At("parent")
  /\ index' = Written(frame.parent.id, frame.parent.parent,
               AddElement(frame.parent.elems, frame.median))
  /\ AdoptOrReturn(Children(frame.right), frame.median.more)
  /\ UNCHANGED <<data, keyType>>

\* Variant: the same header over and over.
AdoptSameChild ==
  /\ At("children")
  /\ IF Head(frame.todo) \in NodeIds
       THEN /\ index' = Written(Head(frame.todo), frame.owner, Elems(Head(frame.todo)))
            /\ AdoptOrReturn(frame.todo, frame.owner)
       ELSE Fail
  /\ UNCHANGED <<data, keyType>>

\* Rewrite the header of the next child, if there is one; past the end of the file
\* there is no header to read and what is written there is not a node.
AdoptChild ==
  /\ At("children")
  /\ LET child == Head(frame.todo) IN
       IF child \in NodeIds \cup {None}
         THEN /\ index' = IF child = None THEN index
                          ELSE Written(child, frame.owner, Elems(child))
              /\ AdoptOrReturn(Tail(frame.todo), frame.owner)
         ELSE Fail
  /\ UNCHANGED <<data, keyType>>

-----------------------------------------------------------------------------
(* splitRoot(): node 0 gives way to a new root, its left half and its      *)
(* right half, and every other node moves two places down the file.        *)

\* callback(): one rewrite of the whole file.  The root gets parent 0, every
\* other parent number grows by one, every pointer by two.
RootRenumber ==
  /\ At("split")
  /\ frame.node.parent \notin NodeIds
  /\ index' = [i \in DOMAIN index |->
                 [parent |-> IF index[i].parent = None THEN 0 ELSE index[i].parent + 1,
                  elems  |-> IncrementAll(index[i].elems, 2)]]
  /\ frame' = [stage |-> "rootRight", elem |-> frame.elem, double |-> frame.double]
  /\ UNCHANGED <<data, keyType, accepted>>

\* Load node 0, split it as if it were node 1, and write the right half over it.
RootRight ==
  /\ At("rootRight")
  /\ LET root  == Load(0)
         parts == Split(AddElement(root.elems, frame.elem), 1, 2)
     IN  /\ index' = Written(0, root.parent, parts.right)
         /\ frame' = [stage |-> "rootLeft", left |-> parts.left,
                      median |-> parts.median, double |-> frame.double]
  /\ UNCHANGED <<data, keyType, accepted>>

\* prependRaw() of the left half.
RootLeft ==
  /\ At("rootLeft")
  /\ index' = <<[parent |-> 0, elems |-> frame.left]>> \o index
  /\ frame' = [stage |-> "rootTop", median |-> frame.median, double |-> frame.double]
  /\ UNCHANGED <<data, keyType, accepted>>

\* prependRaw() of the new root.
RootTop ==
  /\ At("rootTop")
  /\ index' = <<[parent |-> None, elems |-> <<frame.median>>]>> \o index
  /\ IF frame.double
       THEN frame' = [stage |-> "fixLast"] /\ UNCHANGED accepted
       ELSE Accept
  /\ UNCHANGED <<data, keyType>>

\* After a split that came from below: move the pointers of the last element of
\* node 2, then its children get node 2 for a parent.
FixLast ==
  /\ At("fixLast")
  /\ LET elems == Elems(2)
         fixed == [elems EXCEPT ![Len(elems)] = IncrementPointers(@, 2)]
     IN  IF elems = <<>>
           THEN Fail
           ELSE /\ index' = Written(2, index[3].parent, fixed)
                /\ AdoptOrReturn(Children(fixed), 2)
  /\ UNCHANGED <<data, keyType>>

-----------------------------------------------------------------------------
(* Constructing the tree anew.                                             *)

\* The constructor reads the type of the first key of node 0.
Openable     == index = <<>> \/ Elems(0) # <<>>
KeyTypeFound == IF index = <<>> THEN "detect" ELSE "int"

Reopen ==
  /\ At("idle")
  /\ keyType' = KeyTypeFound
  /\ frame' = IF Openable THEN Idle ELSE Undefined
  /\ UNCHANGED <<index, data, accepted>>

\* Both files are emptied under the tree, through the handles it gives out.
Truncate ==
  /\ At("idle")
  /\ index' = <<>>
  /\ data' = <<>>
  /\ accepted' = {}
  /\ UNCHANGED <<keyType, frame>>

\* The process dies inside an insert and a new one opens the files.
Crash ==
  /\ frame.stage \notin {"idle", "undefined"}
  /\ keyType' = KeyTypeFound
  /\ frame' = IF Openable THEN Idle ELSE Undefined
  /\ UNCHANGED <<index, data, accepted>>

-----------------------------------------------------------------------------
IndexStep ==
  \/ IndexFirst \/ IndexDuplicate \/ IndexInPlace \/ IndexFull \/ IndexEndless
  \/ SplitLeft \/ SplitRight \/ SplitParent \/ AdoptChild
  \/ RootRenumber \/ RootRight \/ RootLeft \/ RootTop \/ FixLast

Next ==
  \/ \E k \in Keys : Insert(k)
  \/ InsertKeyless
  \/ InsertNext
  \/ Reopen
  \/ Truncate
  \/ IndexStep
  \/ Crash

Spec == Init /\ [][Next]_vars

-----------------------------------------------------------------------------
(* What the tree promises.                                                 *)

\* The elements of a file of nodes, and those an insert holds in memory.
StoredIn(file) == UNION {ToSet(file[i].elems) : i \in DOMAIN file}
Stored         == StoredIn(index)

HeldAt(stages, elements) == IF frame.stage \in stages THEN elements ELSE {}
Held ==
  HeldAt({"locate", "split", "rootRight"}, {frame.elem})
    \cup HeldAt({"split"}, ToSet(frame.node.elems))
    \cup HeldAt({"right", "parent"}, ToSet(frame.parent.elems) \cup ToSet(frame.right))
    \cup HeldAt({"rootLeft"}, ToSet(frame.left))
    \cup HeldAt({"right", "parent", "rootLeft", "rootTop"}, {frame.median})

PointsAtItsRow(e) == e.byte < Len(data) /\ data[e.byte + 1] = e.key

\* No element, on disk or in memory, ever points at the row of another key,
\* whatever the order of the inserts and wherever they crash: pointers move,
\* split and are lost, but "byte" travels with its key (btree.zep splitNode,
\* splitRoot, node.zep addElement).
ElementsPointAtTheirRows == \A e \in Stored \cup Held : PointsAtItsRow(e)

\* An insert in progress is about the last row, and the root it splits is there.
InsertHasRow == frame.stage \notin {"idle", "undefined"} =>
                  data # <<>> /\ Last(data) \in Int
InsertHasRoot ==
  /\ frame.stage \in {"split", "rootRight", "rootLeft", "rootTop"} => index # <<>>
  /\ At("fixLast") => Len(index) >= 3
  /\ At("rootTop") => Len(index) >= 2

\* find() never returns the row of another key (btree.zep find).
FindSound == \A k \in Keys : Finds(k) => FoundRow(k) = k

\* Between two inserts find() reaches every key whose insert returned, and
\* its own row rather than one of another insert (btree.zep locate, hasKey).
SearchFindsAll ==
  At("idle") =>
    \A a \in accepted : Finds(a[1]) /\ FoundElement(a[1]).byte = a[2]

\* The header of every node names the node that points at it; split() climbs by it.
HeadersRight ==
  index # <<>> =>
    /\ index[1].parent = None
    /\ \A n \in NodeIds : \A c \in ToSet(Children(Elems(n))) \ {None} :
         c \in NodeIds /\ index[c + 1].parent = n

\* How many nodes there are on the way from the root to the first leaf.
Levels ==
  LET path[i \in 0 .. Len(index)] == IF i = 0 THEN 0 ELSE TowardsFirst[path[i - 1]]
  IN  Cardinality({path[i] : i \in 0 .. Len(index)} \cap NodeIds)

\* The third split of the root, which makes the fourth level, puts headers wrong, since
\* it moves nodes by two places and the numbers of their parents by one; neither of the
\* first two does, nor a split below, nor what comes later puts them right again
\* (btree.zep callback, split).
HeadersRightToThreeLevels == At("idle") => (HeadersRight <=> Levels <= 3)

\* A client in ascending order misses a key, or finds the row of another insert, only
\* where headers are wrong (btree.zep split, locate, hasKey).
MissedOnlyByHeaders == HeadersRight => SearchFindsAll

\* Writing in place, renumbering and adopting children hide no key: only from
\* the write of a left half to the write that links the right half may a reader
\* of the file, or the process after a crash, miss one, up to the third split of the
\* root (btree.zep split).
KeysHiddenOnlyBySplit ==
  frame.stage \in {"idle", "locate", "children"} /\ Levels <= 3 =>
    \A a \in accepted : Finds(a[1])

\* Where headers are right all leaves are equally far from the root, every node holds
\* between one and ElementCount elements and no node is out of reach (btree.zep split).
Balanced ==
  LET level[d \in Nat] ==
        IF d = 0 THEN {0} \cap NodeIds
        ELSE UNION {ToSet(Children(Elems(n))) \cap NodeIds : n \in level[d - 1]}
  IN  At("idle") /\ HeadersRight =>
        /\ \A n \in NodeIds : Len(Elems(n)) \in 1 .. ElementCount
        /\ NodeIds \subseteq UNION {level[d] : d \in 0 .. Len(index)}
        /\ \A d \in 0 .. Len(index) :
             \/ \A n \in level[d] : Inner(Elems(n)) = {}
             \/ \A n \in level[d] : Inner(Elems(n)) = DOMAIN Elems(n)

\* Where headers are right the first and the last node hold the smallest and the largest
\* accepted key, on which the next key of insert() depends (btree.zep getFirstNode,
\* getLastNode).
EndsAreExtremes ==
  At("idle") /\ HeadersRight /\ accepted # {} =>
    LET used == {a[1] : a \in accepted} IN
      /\ FirstNode \in NodeIds /\ Elems(FirstNode)[1].key = Min(used)
      /\ NextKey = Max(used) + 1

\* The elements the index has; one on its way to its first node counts from the
\* moment its node is to be split.
Indexed == IF At("locate") THEN Stored ELSE Stored \cup Held

\* The map they make up.
KeysOf(elements) == {e.key : e \in elements}
MapOf(elements)  ==
  [k \in KeysOf(elements) |-> (CHOOSE e \in elements : e.key = k).byte]

Map == INSTANCE IndexMap WITH map <- MapOf(Indexed)

\* The tree implements the map: no write between the first and the last of an
\* insert makes an element vanish or return, and a key the map has is never
\* put again (btree.zep insertIndex, split, splitRoot).
ImplementsMap == Map!Spec

\* What makes an element the one of its row, wherever it is and whatever it points at.
Entries(elements) == {<<e.key, e.byte>> : e \in elements}

\* Only a process that dies inside an insert, or the emptying of both files, loses
\* an element: whatever has become of the pointers and of the parent numbers split()
\* goes by, every other step leaves each element in a node or in memory.
ElementsKept ==
  [][~Crash /\ ~Truncate => Entries(Indexed) \subseteq Entries(Indexed')]_vars

\* The element of every insert that returned is still there, for find() to miss by
\* no more than a pointer (btree.zep insert).
AcceptedIndexed == accepted \subseteq Entries(Indexed)

\* Every row of the data file has its element in the index once insert() is over.
RowsIndexed ==
  At("idle") => {e.byte : e \in Stored} = 0 .. Len(data) - 1

\* An insert that starts returns or raises (btree.zep split recurses upwards).
InsertEnds == (frame.stage \notin {"idle", "undefined"}) ~> At("idle")

-----------------------------------------------------------------------------
(* A client that inserts in ascending order, with gaps or without.         *)

AscendingNext ==
  \/ \E k \in Keys : (\A a \in accepted : a[1] < k) /\ Insert(k)
  \/ InsertNext
  \/ Reopen
  \/ IndexStep

AscendingSpec == Init /\ [][AscendingNext]_vars /\ WF_vars(IndexStep)

(* The same client when it also makes the mistakes insert() rejects.  It   *)
(* repeats a key, or takes one generated again, only if find() has it: one *)
(* that is lost would be put a second time.                                *)

Findable(k) == k \in KeysOf(Stored) => Finds(k)

RepeatingNext ==
  \/ \E k \in Keys : (\A a \in accepted : a[1] < k) /\ Insert(k)
  \/ InsertNext /\ Findable(NextKey)
  \/ \E a \in accepted : Findable(a[1]) /\ Insert(a[1])
  \/ InsertKeyless
  \/ Reopen
  \/ IndexStep

RepeatingSpec == Init /\ [][RepeatingNext]_vars /\ WF_vars(IndexStep)

(* A client that inserts each key once, in any order, and never crashes.   *)

OnceNext ==
  \/ \E k \in Keys \ ToSet(data) : Insert(k)
  \/ IndexStep

OnceSpec == Init /\ [][OnceNext]_vars /\ WF_vars(IndexStep)

(* A client in any order that repeats a key only if find() has it, and     *)
(* never crashes.                                                          *)

FindableNext ==
  \/ \E k \in Keys : Findable(k) /\ Insert(k)
  \/ Findable(NextKey) /\ InsertNext
  \/ InsertKeyless
  \/ Reopen
  \/ IndexStep

FindableSpec == Init /\ [][FindableNext]_vars

(* Any client that never crashes.                                          *)

SurvivingNext ==
  \/ \E k \in Keys : Insert(k)
  \/ InsertKeyless
  \/ InsertNext
  \/ Reopen
  \/ Truncate
  \/ IndexStep

SurvivingSpec == Init /\ [][SurvivingNext]_vars
=============================================================================

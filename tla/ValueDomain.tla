----------------------------- MODULE ValueDomain ----------------------------
(***************************************************************************)
(* The values PHP code of the extension handles, as far as sharing them    *)
(* goes: null, numbers, texts (by their length) and arrays.  An array is a *)
(* function over Keys, Hole where there is no element, with the index the  *)
(* next append takes.                                                      *)
(***************************************************************************)
EXTENDS Integers, Sequences

CONSTANTS Keys,      \* the integer indexes arrays may have
          Numbers,   \* the numbers a program assigns
          Locals,    \* local variables
          Properties,\* properties of the object at hand
          Statics    \* static properties

Places == Locals \cup Properties \cup Statics

Hole == [type |-> "hole"]
Null == [type |-> "null"]
Number(i) == [type |-> "number", is |-> i]
Text(length) == [type |-> "text", is |-> length]
Array(elements, next) == [type |-> "array", at |-> elements, next |-> next]
EmptyArray == Array([k \in Keys |-> Hole], 0)

IsArray(v) == v.type = "array"

\* $a[k] = w and $a[] = w: an array grown at its end counts on from there.
With(a, k, w) == Array([a.at EXCEPT ![k] = w], IF k >= a.next THEN k + 1 ELSE a.next)
Without(a, k) == Array([a.at EXCEPT ![k] = Hole], a.next)
ItemOf(v, k) == IF IsArray(v) /\ v.at[k] # Hole THEN v.at[k] ELSE Null

\* The path a multiple offset names: keys, the last of which may be the end
\* of the array ($a[k][] = w).
End == -1
KeyIn(a, k) == IF k = End THEN a.next ELSE k

RECURSIVE Stored(_, _, _)
Stored(a, path, w) ==
  LET k == KeyIn(a, Head(path))
      inner == IF IsArray(ItemOf(a, k)) THEN ItemOf(a, k) ELSE EmptyArray
  IN  With(a, k, IF Len(path) = 1 THEN w ELSE Stored(inner, Tail(path), w))
=============================================================================

----------------------------- MODULE ValueStore -----------------------------
(***************************************************************************)
(* What a PHP program may rely on when it assigns: every place (a local    *)
(* variable, a property, a static property) has a value of its own, and an *)
(* operation changes the value of the one place it names, whoever shares   *)
(* the memory behind it.  Values implements this on reference-counted      *)
(* cells.                                                                  *)
(***************************************************************************)
EXTENDS ValueDomain

\* Writing an element of a property or a static property that is no array
\* makes it one, and the runtime is free to keep its scalar as element 0.
Bases(v) == CASE IsArray(v) -> {v}
              [] v.type \in {"number", "text"} -> {EmptyArray, With(EmptyArray, 0, v)}
              [] OTHER -> {EmptyArray}

\* The length of a value printed: a digit, or the word Array.
Printed(v) == CASE v.type = "number" -> 1
                [] v.type = "text" -> v.is
                [] v.type = "array" -> 5
                [] OTHER -> 0

Counted(v, by) == CASE v.type = "number" -> Number(v.is + by)
                    [] v.type = "null" /\ by > 0 -> Number(by)
                    [] OTHER -> v
-----------------------------------------------------------------------------
VARIABLES value,  \* [Places -> values]
          last,   \* the operation that was run last
          done    \* how many were run

storeVars == <<value, last, done>>

(***************************************************************************)
(* The values operation o may leave in the place it names.                 *)
(***************************************************************************)
Results(o) ==
  LET old  == value[o.to]
      from == value[o.from]
  IN  CASE o.op = "set"    -> {Number(o.number)}
        [] o.op = "null"   -> {Null}
        [] o.op = "empty"  -> {EmptyArray}
        [] o.op = "copy"   -> {from}
        [] o.op = "fetch"  -> {ItemOf(from, Head(o.path))}
        [] o.op = "count"  -> {Counted(old, o.number)}
        [] o.op = "text"   -> {Text(Printed(old) + 1)}
        [] o.op = "unset"  -> {IF IsArray(old) THEN Without(old, Head(o.path)) ELSE old}
        [] o.op = "put"    ->
             {IF IsArray(old) THEN Stored(old, o.path, Number(o.number)) ELSE old}
        [] o.op = "store"  ->
             IF o.to \in Locals
               THEN {IF IsArray(old) THEN Stored(old, o.path, from) ELSE old}
               ELSE {Stored(base, o.path, from) : base \in Bases(old)}

Init == /\ value = [p \in Places |-> Null]
        /\ last = [op |-> "none"]
        /\ done = 0

Next == /\ last'.op # "none"
        /\ done' = done + 1
        /\ \E v \in Results(last') : value' = [value EXCEPT ![last'.to] = v]

Spec == Init /\ [][Next]_storeVars
=============================================================================

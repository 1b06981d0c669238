------------------------------ MODULE Scalars ------------------------------
(***************************************************************************)
(* The values that are no objects and have no parts: a type and a content. *)
(* Doubles are counted in halves.                                          *)
(***************************************************************************)
EXTENDS Integers

Null      == <<"null", 0>>
Bool(b)   == <<"bool", b>>    \* b is 0 or 1
Long(n)   == <<"long", n>>
Double(h) == <<"double", h>>
Text(t)   == <<"text", t>>

Type(value) == value[1]

\* A double as a long.
Truncated(h) == IF h >= 0 THEN h \div 2 ELSE -((-h) \div 2)
=============================================================================

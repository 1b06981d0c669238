------------------------------ MODULE Numbers ------------------------------
(***************************************************************************)
(* Values compared, converted and divided by ext/kernel/operators.c.  The  *)
(* compiler picks the function by what it knows of the operands: a variable *)
(* against a literal, or two variables, or numbers it holds in C variables. *)
(*                                                                         *)
(* Next to scalars there are <<"array", its length>>, <<"object", 1>> and   *)
(* <<"resource", its number>>.  Which texts spell a number, and how the     *)
(* engine compares two values, is external.                                *)
(***************************************************************************)
EXTENDS Scalars

CONSTANT Spells    \* the texts that are numbers (is_numeric_string): <<"long", n>> or <<"double", h>>

ASSUME SpellsAssumption == Spells \in [DOMAIN Spells -> {"long", "double"} \X Int]

\* The values of every type.
PhpValues ==
  ({"null"} \X {0}) \cup ({"bool"} \X {0, 1}) \cup ({"long", "double", "resource"} \X Int)
    \cup ({"text"} \X STRING) \cup ({"array"} \X Nat) \cup ({"object"} \X {1})

Numeric(t)   == t \in DOMAIN Spells
Truth(p)     == IF p THEN 1 ELSE 0

\* A number as halves.
Halves(value) == IF Type(value) = "long" THEN 2 * value[2] ELSE value[2]
-----------------------------------------------------------------------------
(* The engine: is_equal_function and compare_function on what the          *)
(* functions below hand to them.                                           *)

NumberOf(value) ==
  CASE Type(value) \in {"long", "double"} -> Halves(value)
    [] Type(value) \in {"bool", "resource"} -> 2 * value[2]
    [] Type(value) = "text"               -> IF Numeric(value[2]) THEN Halves(Spells[value[2]]) ELSE 0
    [] OTHER                              -> 0

TruthOf(value) ==
  CASE Type(value) = "text"   -> Truth(value[2] \notin {"", "0"})
    [] Type(value) = "object" -> 1
    [] OTHER                  -> Truth(value[2] # 0)

\* A null or a bool makes it a comparison of truths; an array is greater
\* than any number, an object is one.
EqualToNumber(value, number) ==
  CASE Type(value) \in {"null", "bool"}             -> TruthOf(value) = TruthOf(number)
    [] Type(value) = "array"                        -> FALSE
    [] Type(value) = "object"                       -> Halves(number) = 2
    [] OTHER                                        -> NumberOf(value) = Halves(number)
EqualToBool(value, b) == TruthOf(value) = b
-----------------------------------------------------------------------------
(* A value against a literal.                                              *)

zephir_compare_strict_string(op1, op2) ==
  CASE Type(op1) = "text" -> op1[2] = op2
    [] Type(op1) = "null" -> op2 = ""
    [] Type(op1) = "bool" -> op2 = (IF op1[2] = 0 THEN "0" ELSE "1")
    [] OTHER              -> FALSE

zephir_compare_strict_long(op1, op2) ==
  CASE Type(op1) = "long"   -> op1[2] = op2
    [] Type(op1) = "double" -> op1[2] = 2 * op2
    [] Type(op1) = "null"   -> op2 = 0
    [] Type(op1) = "bool"   -> op2 = op1[2]
    [] OTHER                -> EqualToNumber(op1, Long(op2))

\* The double of the program is cut down for a value that is a long.
zephir_compare_strict_double(op1, op2) ==
  CASE Type(op1) = "long"   -> op1[2] = Truncated(op2)
    [] Type(op1) = "double" -> op1[2] = op2
    [] Type(op1) = "null"   -> op2 = 0
    [] Type(op1) = "bool"   -> op2 = 2 * op1[2]
    [] OTHER                -> EqualToNumber(op1, Double(op2))

\* Mutant: a number is compared as it is.
StrictBoolByValue(op1, op2) ==
  CASE Type(op1) \in {"long", "bool"} -> op1[2] = op2
    [] Type(op1) = "double"           -> op1[2] = 2 * op2
    [] Type(op1) = "null"             -> op2 = 0
    [] OTHER                          -> EqualToBool(op1, op2)

zephir_compare_strict_bool(op1, op2) ==
  CASE Type(op1) \in {"long", "double"} -> Truth(op1[2] # 0) = op2
    [] Type(op1) = "null"               -> op2 = 0
    [] Type(op1) = "bool"               -> op1[2] = op2
    [] OTHER                            -> EqualToBool(op1, op2)
-----------------------------------------------------------------------------
(* Two values: one engine comparison stands for all four.                  *)

\* compare_function where both are numbers, texts that are, bools or null:
\* below zero, zero or above.  Null is the empty text for a text.
Compared(op1, op2) ==
  CASE Type(op1) = "null" /\ Type(op2) = "text" -> -Truth(op2[2] # "")
    [] Type(op1) = "text" /\ Type(op2) = "null" -> Truth(op1[2] # "")
    [] {"null", "bool"} \cap {Type(op1), Type(op2)} # {}
         /\ {Type(op1), Type(op2)} # {"null", "text"} -> TruthOf(op1) - TruthOf(op2)
    [] OTHER -> NumberOf(op1) - NumberOf(op2)

zephir_is_equal(op1, op2)      == Compared(op1, op2) = 0
zephir_less(op1, op2)          == Compared(op1, op2) < 0
zephir_less_equal(op1, op2)    == Compared(op1, op2) <= 0
zephir_greater(op1, op2)       == ~(Compared(op1, op2) <= 0)
zephir_greater_equal(op1, op2) == ~(Compared(op1, op2) < 0)

\* The macros look at the types first, where both are longs in C.
BothLong(op1, op2) == Type(op1) = "long" /\ Type(op2) = "long"
ZEPHIR_LT(op1, op2) == IF BothLong(op1, op2) THEN op1[2] < op2[2] ELSE zephir_less(op1, op2)
ZEPHIR_LT_LONG(op1, n) == (Type(op1) = "long" /\ op1[2] < n) \/ zephir_less(op1, Long(n))
ZEPHIR_LE_LONG(op1, n) == (Type(op1) = "long" /\ op1[2] <= n) \/ zephir_less_equal(op1, Long(n))
ZEPHIR_GT_LONG(op1, n) == (Type(op1) = "long" /\ op1[2] > n) \/ zephir_greater(op1, Long(n))
ZEPHIR_GE_LONG(op1, n) == zephir_greater_equal(op1, Long(n))
-----------------------------------------------------------------------------
(* Conversions.                                                            *)

\* Mutant: what a text spells is not cut down.
IntvalRound(op) ==
  CASE Type(op) \in {"resource", "object"} -> 1
    [] Type(op) = "array"                  -> Truth(op[2] # 0)
    [] Type(op) \in {"long", "bool"}       -> op[2]
    [] Type(op) = "double"                 -> Truncated(op[2])
    [] Type(op) = "text" /\ Numeric(op[2]) -> Spells[op[2]][2]
    [] OTHER                               -> 0

zephir_get_intval_ex(op) ==
  CASE Type(op) \in {"resource", "object"} -> 1
    [] Type(op) = "array"                  -> Truth(op[2] # 0)
    [] Type(op) \in {"long", "bool"}       -> op[2]
    [] Type(op) = "double"                 -> Truncated(op[2])
    [] Type(op) = "text" /\ Numeric(op[2]) -> Truncated(Halves(Spells[op[2]]))
    [] OTHER                               -> 0

\* In halves.
zephir_get_doubleval_ex(op) ==
  CASE Type(op) \in {"resource", "object"} -> 2
    [] Type(op) = "array"                  -> 2 * Truth(op[2] # 0)
    [] Type(op) \in {"long", "bool"}       -> 2 * op[2]
    [] Type(op) = "double"                 -> op[2]
    [] Type(op) = "text" /\ Numeric(op[2]) -> Halves(Spells[op[2]])
    [] OTHER                               -> 0

\* A text that is no number is false, also where the engine takes it for true.
zephir_get_boolval_ex(op) ==
  CASE Type(op) \in {"resource", "object"} -> 1
    [] Type(op) \in {"array", "double", "long"} -> Truth(op[2] # 0)
    [] Type(op) = "bool"                   -> op[2]
    [] Type(op) = "text" /\ Numeric(op[2]) -> Truth(Spells[op[2]][2] # 0)
    [] OTHER                               -> 0

zephir_is_numeric_ex(op) ==
  \/ Type(op) \in {"long", "double"}
  \/ Type(op) = "text" /\ Numeric(op[2])

\* A value that is no number is made one first (convert_scalar_to_number).
zephir_negate(op) ==
  CASE Type(op) \in {"long", "bool"} -> Long(-op[2])
    [] Type(op) = "double"           -> Double(-op[2])
    [] Type(op) = "text"             -> IF Numeric(op[2])
                                          THEN <<Spells[op[2]][1], -Spells[op[2]][2]>>
                                          ELSE Long(0)
    [] OTHER                         -> Long(0)

=============================================================================

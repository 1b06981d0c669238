------------------------------- MODULE Kernel -------------------------------
(***************************************************************************)
(* What every compiled line works with: arrays, texts, operators and calls, *)
(* as ext/kernel implements them next to the engine.  A program does one   *)
(* step after another on an array, writes a text character by character,   *)
(* looks at two operands, or calls; the invariants say that functions which *)
(* read the same data in ways of their own tell the same of it.            *)
(*                                                                         *)
(* The four do not meet: each begins while the others are untouched.       *)
(***************************************************************************)
EXTENDS Arrays, Texts, Numbers, Calls

CONSTANTS Indexes,     \* what an array is indexed by
          Literals,    \* the texts that stand in the program as keys
          Elements,    \* what is stored
          Letters,     \* what texts are made of
          Operands,    \* what is compared and converted
          Environments,    \* where calls are made from
          CallsFrom(_),    \* the calls of an environment
          MaxBuckets, MaxNext, MaxLength, MaxCached   \* bounds

ASSUME ValuesAssumption ==
  Indexes \subseteq PhpValues /\ Operands \subseteq PhpValues /\ Literals \subseteq STRING
ASSUME ElementsAssumption == Absent \notin Elements

\* A method runs in its class or in one that extends it, and was called on the class of $this.
ASSUME EnvironmentsAssumption ==
  \A e \in Environments :
    /\ e.scope \in Classes \cup {NoClass}
    /\ e.this # NoClass =>
         /\ e.this \in Classes /\ e.scope # NoClass
         /\ IsA(e.this, e.scope) /\ e.called = e.this

VARIABLES array, text, pair, fcache

vars == <<array, text, pair, fcache>>

NothingCached == [k \in {} |-> NoHandler]

Init ==
  /\ array = EmptyArray
  /\ text = <<>>
  /\ pair = <<>>
  /\ fcache = NothingCached

UnderBounds(a) == Len(a.buckets) <= MaxBuckets /\ a.next <= MaxNext

\* The array becomes what a call makes of it.
Becomes(a) ==
  /\ text = <<>> /\ pair = <<>> /\ fcache = NothingCached
  /\ UnderBounds(a)
  /\ array' = a
  /\ UNCHANGED <<text, pair, fcache>>
-----------------------------------------------------------------------------
Store(index, value)     == Becomes(Update(array, index, value))
StoreLiteral(t, value)  == Becomes(UpdateString(array, t, value))
Insert(index, value)    == Becomes(HashInsert(array, index, value))
ReadToWrite(index)      == Becomes(HashGet(array, index, TRUE).array)
Drop(index)             == Becomes(Unset(array, index))
DropLiteral(t)          == Becomes(UnsetString(array, t))
DropInHandler(index)    == Becomes(HashUnset(array, index))
PutFirst(value)         == Becomes(Unshift(array, value))
AppendItself            == Becomes(MergeAppend(array, array))
MergeWithValues         == Becomes(FastMerge(array, ArrayValues(array)))
Reindex                 == Becomes(ArrayValues(array))

Write(c) ==
  /\ array = EmptyArray /\ pair = <<>> /\ fcache = NothingCached
  /\ Len(text) < MaxLength
  /\ text' = Append(text, c)
  /\ UNCHANGED <<array, pair, fcache>>

Take(op1, op2) ==
  /\ array = EmptyArray /\ text = <<>> /\ fcache = NothingCached
  /\ pair' = <<op1, op2>>
  /\ UNCHANGED <<array, text, fcache>>

zephir_call_user_function(e, c) ==
  /\ array = EmptyArray /\ text = <<>> /\ pair = <<>>
  /\ Cardinality(DOMAIN fcache) < MaxCached
  /\ fcache' = Remembered(fcache, e, c)
  /\ UNCHANGED <<array, text, pair>>

EndRequest ==
  /\ fcache # NothingCached
  /\ fcache' = NothingCached
  /\ UNCHANGED <<array, text, pair>>

Next ==
  \/ \E index \in Indexes, value \in Elements : Store(index, value) \/ Insert(index, value)
  \/ \E index \in Indexes : ReadToWrite(index) \/ Drop(index) \/ DropInHandler(index)
  \/ \E t \in Literals, value \in Elements : StoreLiteral(t, value)
  \/ \E t \in Literals : DropLiteral(t)
  \/ \E value \in Elements : PutFirst(value)
  \/ AppendItself \/ MergeWithValues \/ Reindex
  \/ \E c \in Letters : Write(c)
  \/ \E op1, op2 \in Operands : Take(op1, op2)
  \/ \E e \in Environments : \E c \in CallsFrom(e) : zephir_call_user_function(e, c)
  \/ EndRequest

Spec == Init /\ [][Next]_vars
-----------------------------------------------------------------------------
(* Arrays.                                                                 *)

\* The key an index means, as the comments above the functions of array.c
\* have it: null is the empty text, a double is cut down, a bool or a
\* resource is its number.
Meant(index) ==
  CASE index[1] = "null"                          -> Text("")
    [] index[1] = "text"                          -> SymbolKey(index[2])
    [] index[1] = "double"                        -> Long(Truncated(index[2]))
    [] index[1] \in {"long", "bool", "resource"}  -> Long(index[2])
    [] OTHER                                      -> NoKey

\* All that the functions tell of the element under an index is value, which
\* is Absent where there is none.
Tells(a, index, value) ==
  LET null == IF value = Absent THEN "null" ELSE value
  IN  /\ IssetFetch(a, index) = value
      /\ Isset(a, index) <=> (value # Absent)
      /\ Fetch(a, index) = null
      /\ index[1] # "null" => HashGet(a, index, FALSE).value = null
      /\ index[1] \in {"long", "text", "null"} => (KeyExists(a, index) <=> (value # Absent))
      /\ index[1] = "long" => IssetLongFetch(a, index[2]) = value /\ (IssetLong(a, index[2]) <=> (value # Absent))

\* The functions of literal keys tell of a text whatever it spells.
LiteralTells(a, t, value) ==
  /\ IssetStringFetch(a, t) = value
  /\ FetchString(a, t) = IF value = Absent THEN "null" ELSE value
  /\ IssetString(a, t) <=> (value # Absent)
  /\ HashExists(a, t) <=> (value # Absent)

\* What is stored under an index is found under every index that means the
\* same element, by every function that reads (each turns the index into a
\* key in a switch of its own, and hash.c searches the chains itself), and
\* nothing else changes; so with what is dropped.
StoredIsFound ==
  /\ \A index \in Indexes, value \in Elements :
       LET stored  == Update(array, index, value)
           dropped == Unset(array, index)
       IN  \A j \in Indexes :
             LET same == Meant(j) = Meant(index) /\ Meant(j) # NoKey
                 old  == IssetFetch(array, j)
             IN  /\ Tells(array, j, old)
                 /\ Tells(stored, j, IF same THEN value ELSE old)
                 /\ Tells(dropped, j, IF same THEN Absent ELSE old)
  /\ \A t, u \in Literals, value \in Elements :
       LET old == IssetStringFetch(array, u)
       IN  /\ LiteralTells(UpdateString(array, t, value), u, IF t = u THEN value ELSE old)
           /\ LiteralTells(UnsetString(array, t), u, IF t = u THEN Absent ELSE old)
           /\ u \notin DOMAIN KeyNumber => Tells(array, Text(u), old)

\* What reads a whole array tells of the same elements in the same order:
\* the keys and the values, an array that is a list is its values, one that
\* got a first value is that value and the others, merged with another it
\* holds the values of both, those under a text the other has replaced; the
\* next key is free.
WholeArrays ==
  LET list == ~IsAssociative(array)
      keys == Values(ArrayKeys(array))
      all  == ArrayValues(array)
  IN  /\ \A i \in DOMAIN array.buckets :
           /\ Found(array, keys[i]) = Values(array)[i]
           /\ CurrentKey(array.buckets[i]) = keys[i]
           /\ InArray(Values(array)[i], array)
           /\ keys[i][1] = "long" => keys[i][2] < array.next
      /\ Values(all) = Values(array) /\ ~IsAssociative(all)
      /\ list => all.buckets = array.buckets
      /\ list /\ keys # <<>> => HasNumericKeys(array)
      /\ \A value \in Elements :
           /\ Values(Unshift(array, value)) = <<value>> \o Values(array)
           /\ list => ~IsAssociative(Unshift(array, value))
      /\ Values(FastMerge(array, all)) = Values(array) \o Values(array)
      /\ \A other \in {Update(EmptyArray, index, value) : index \in Indexes, value \in Elements} :
           \A key \in Keys(other) \cup Keys(array) : key[1] = "text" =>
             Found(FastMerge(array, other), key)
               = IF key \in Keys(other) THEN Found(other, key) ELSE Found(array, key)
-----------------------------------------------------------------------------
(* Texts.                                                                  *)

\* Searches agree: a text that starts with another has it at position 0, one
\* that ends with it has it there, one that has it anywhere has it at the
\* position the search from an offset finds first, and folding is the same as
\* lowering both.
SearchesAgree ==
  \A needle \in UNION {[1 .. n -> Letters] : n \in 1 .. 2} :
    LET first == zephir_fast_strpos(text, needle, 0)
    IN  /\ zephir_memnstr(text, needle) <=> (first >= 0)
        /\ zephir_fast_strpos_str(text, needle) = first
        /\ zephir_start_with(text, needle, FALSE) <=> (first = 0)
        /\ zephir_start_with_str(text, needle) <=> (first = 0)
        /\ zephir_end_with(text, needle, FALSE)
             <=> (zephir_substr(text, -Len(needle), 0) = needle /\ Len(needle) <= Len(text))
        /\ zephir_end_with_str(text, needle) <=> zephir_end_with(text, needle, FALSE)
        /\ zephir_start_with(text, needle, TRUE)
             <=> zephir_start_with(Lowered(text), Lowered(needle), FALSE)
        /\ zephir_end_with(text, needle, TRUE)
             <=> zephir_end_with(Lowered(text), Lowered(needle), FALSE)
        /\ \A offset \in 0 .. Len(text) :
             LET found == zephir_fast_strpos(text, needle, offset)
             IN  /\ found >= 0 => found >= offset /\ zephir_substr(text, found, Len(needle)) = needle
                 /\ \A p \in offset .. Len(text) - 1 :
                      zephir_start_with(SubSeq(text, p + 1, Len(text)), needle, FALSE)
                        => found \in offset .. p

\* What PHP says substr() returns: for a length of zero an empty text, too; where the
\* end lies before a start that is counted from the end, the text is empty.
Cut(s, f, l) ==
  LET from == IF f < 0 THEN Max({0, Len(s) + f}) ELSE f
      to   == IF l < 0 THEN Len(s) + l ELSE Min({Len(s), from + l})
  IN  IF from >= Len(s) \/ to < 0 \/ (f >= 0 /\ to < from) THEN False ELSE SubSeq(s, from + 1, to)

\* The words of a text: what stands between the dashes.
Words(s) ==
  LET dashes == {i \in DOMAIN s : s[i] = "_"}
      cuts   == <<0>> \o SetToSortSeq(dashes, <) \o <<Len(s) + 1>>
  IN  [i \in 1 .. Len(cuts) - 1 |-> SubSeq(s, cuts[i] + 1, cuts[i + 1] - 1)]

\* A name of small words, each beginning with a letter that has a capital.
Snake(s) ==
  /\ Len(s) > 1 /\ \A i \in DOMAIN s : s[i] = "_" \/ s[i] \in DOMAIN CapitalOf
  /\ \A i \in DOMAIN Words(s) : Words(s)[i] # <<>>

\* What is cut out of a text is what PHP's substr() cuts, but that a length of zero
\* stands for all the rest (string.c:944), which a call without a length needs and where
\* PHP cuts an empty text; the first letter made small and capital is the same again,
\* and without its last slashes a text is the same up to them.
PiecesCut ==
  /\ \A f \in -(MaxLength + 1) .. MaxLength + 1, l \in -(MaxLength + 1) .. MaxLength + 1 :
       zephir_substr(text, f, l) = Cut(text, f, IF l = 0 THEN Len(text) ELSE l)
  /\ text # <<>> /\ text[1] \in DOMAIN CapitalOf => zephir_lcfirst(zephir_ucfirst(text)) = text
  /\ LET kept == zephir_remove_extra_slashes(text)
     IN  /\ IsPrefix(kept, text)
         /\ \A i \in Len(kept) + 1 .. Len(text) : text[i] = "/"
         /\ Len(text) > 1 => ~zephir_end_with_str(kept, <<"/">>)

\* So do the pieces of a text make it again: the words joined by the dash, and
\* the words of a name through its camel case.
PiecesReturn ==
  /\ PiecesCut
  /\ zephir_fast_join_str(<<"_">>, Words(text)) = text
  /\ Snake(text) => zephir_uncamelize(zephir_camelize(text)) = text
-----------------------------------------------------------------------------
(* Operators.                                                              *)

Comparable == {op \in Operands : Type(op) \in {"null", "bool", "long", "double"}
                                 \/ (Type(op) = "text" /\ Numeric(op[2]))}

\* However much the compiler knows of two operands, they compare the same:
\* the function for a literal, the macro that looks at types first and the
\* engine's comparison of two variables.  A literal text is equal to fewer
\* values, and true and false are no numbers but 1 and 0 for a literal number.
ComparesAlike ==
  \A op1, op2 \in Comparable : pair = <<op1, op2>> =>
    /\ Type(op2) = "bool" =>
         (zephir_compare_strict_bool(op1, op2[2]) <=> zephir_is_equal(op1, op2))
    /\ Type(op2) = "long" /\ (Type(op1) = "bool" => op2[2] \in {0, 1}) =>
         (zephir_compare_strict_long(op1, op2[2]) <=> zephir_is_equal(op1, op2))
    /\ Type(op2) = "double" /\ (Type(op1) = "bool" => op2[2] \in {0, 2})
                            /\ (Type(op1) = "long" => op2[2] % 2 = 0) =>
         (zephir_compare_strict_double(op1, op2[2]) <=> zephir_is_equal(op1, op2))
    /\ Type(op2) = "text" =>
         (zephir_compare_strict_string(op1, op2[2]) => zephir_is_equal(op1, op2))
    /\ ZEPHIR_LT(op1, op2) <=> zephir_less(op1, op2)
    /\ zephir_greater_equal(op1, op2) <=> (zephir_greater(op1, op2) \/ zephir_is_equal(op1, op2))
    /\ zephir_less_equal(op1, op2) <=> zephir_greater_equal(op2, op1)
    /\ Type(op2) = "long" =>
         /\ ZEPHIR_LT_LONG(op1, op2[2]) <=> zephir_less(op1, op2)
         /\ ZEPHIR_LE_LONG(op1, op2[2]) <=> zephir_less_equal(op1, op2)
         /\ ZEPHIR_GT_LONG(op1, op2[2]) <=> zephir_greater(op1, op2)
         /\ ZEPHIR_GE_LONG(op1, op2[2]) <=> zephir_greater_equal(op1, op2)

\* A value is one number however it is converted: the long is the double cut
\* down, it is true when the double is not zero, and for numbers this is the
\* engine's truth; values that are numbers equal the long they become, and
\* compare turned around once they are negated.
ConvertsAlike ==
  pair # <<>> =>
    LET op1 == pair[1]
        op2 == pair[2]
    IN  /\ zephir_get_intval_ex(op1) = Truncated(zephir_get_doubleval_ex(op1))
        /\ zephir_get_boolval_ex(op1) = Truth(zephir_get_doubleval_ex(op1) # 0)
        /\ zephir_is_numeric_ex(op1) =>
             /\ zephir_get_boolval_ex(op1) = zephir_get_boolval_ex(zephir_negate(op1))
             /\ zephir_get_doubleval_ex(op1) % 2 = 0 =>
                  zephir_compare_strict_long(op1, zephir_get_intval_ex(op1))
             /\ zephir_get_doubleval_ex(zephir_negate(op1)) = -zephir_get_doubleval_ex(op1)
             /\ zephir_is_numeric_ex(op2) =>
                  (zephir_less(op1, op2) <=> zephir_greater(zephir_negate(op1), zephir_negate(op2)))
        /\ Type(op1) \in {"null", "bool", "long", "double", "array"} =>
             zephir_get_boolval_ex(op1) = TruthOf(op1)
-----------------------------------------------------------------------------
(* Calls.                                                                  *)

\* Whatever was called before, and from where, a call reaches the function
\* the engine would find for it now, with the same object: the key tells
\* apart what it must, and a function made for one call is not kept.
CallsReach ==
  \A e \in Environments : \A c \in CallsFrom(e) :
    Reached(fcache, e, c) = Resolved(e, c)
=============================================================================

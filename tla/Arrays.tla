------------------------------- MODULE Arrays -------------------------------
(***************************************************************************)
(* PHP arrays as ext/kernel/array.c and hash.c read and write them.        *)
(*                                                                         *)
(* An array is its buckets, in order, with the number that the next value  *)
(* appended gets.  A key is a number or a text; an index is a value of any *)
(* type, which each function turns into a key in a switch of its own.      *)
(* Which texts the engine takes for numbers (ZEND_HANDLE_NUMERIC), and     *)
(* their hashes, are parameters.                                           *)
(***************************************************************************)
EXTENDS Scalars, SequencesExt, FiniteSetsExt

CONSTANTS KeyNumber,  \* the texts that the engine takes for a number, and it
          HashOf,     \* the hash of a text (zend_inline_hash_func)
          Slots       \* the length of a table's arBuckets

\* The empty text is no number.
ASSUME KeyNumberAssumption == KeyNumber \in [DOMAIN KeyNumber -> Int] /\ "" \notin DOMAIN KeyNumber

NoKey  == <<"none", 0>>    \* an index that is no key
Absent == "absent"

EmptyArray == [buckets |-> <<>>, next |-> 0]

Bucket(key, value) == [key |-> key, value |-> value]
Keys(array) == {array.buckets[i].key : i \in DOMAIN array.buckets}
-----------------------------------------------------------------------------
(* What the engine does with keys.                                         *)

At(array, key) == CHOOSE i \in DOMAIN array.buckets : array.buckets[i].key = key

\* zend_hash_find, zend_hash_index_find
Found(array, key) == IF key \in Keys(array) THEN array.buckets[At(array, key)].value ELSE Absent

\* zend_hash_update, zend_hash_index_update
Put(array, key, value) ==
  IF key \in Keys(array)
    THEN [array EXCEPT !.buckets[At(array, key)].value = value]
    ELSE [buckets |-> Append(array.buckets, Bucket(key, value)),
          next |-> IF key[1] = "long" /\ key[2] >= array.next THEN key[2] + 1 ELSE array.next]

\* zend_hash_next_index_insert
Pushed(array, value) == Put(array, Long(array.next), value)

\* zend_hash_del, zend_hash_index_del
Deleted(array, key) ==
  IF key \in Keys(array) THEN [array EXCEPT !.buckets = RemoveAt(@, At(array, key))] ELSE array

\* The keys of zend_symtable_*: a text that spells a number is that number.
SymbolKey(t) == IF t \in DOMAIN KeyNumber THEN Long(KeyNumber[t]) ELSE Text(t)
-----------------------------------------------------------------------------
(* hash.c: a search of its own along the chain of a slot.                  *)

Hash(key) == IF key[1] = "long" THEN key[2] ELSE HashOf[key[2]]
Chain(array, hash) ==
  {i \in DOMAIN array.buckets : Hash(array.buckets[i].key) % Slots = hash % Slots}

\* Mutant: the bytes are not looked at.
HashFindAny(array, t) ==
  LET same == {i \in Chain(array, HashOf[t]) :
                 LET key == array.buckets[i].key IN key[1] = "text" /\ Hash(key) = HashOf[t]}
  IN  IF same = {} THEN Absent ELSE array.buckets[Min(same)].value

\* zephir_hash_find and _quick_find: the same hash, length and bytes.  A key
\* that is a number has no length.
HashFind(array, t) ==
  LET same == {i \in Chain(array, HashOf[t]) :
                 LET key == array.buckets[i].key
                 IN  key[1] = "text" /\ Hash(key) = HashOf[t] /\ key[2] = t}
  IN  IF same = {} THEN Absent ELSE array.buckets[Min(same)].value

\* zephir_hash_exists and _quick_exists
HashExists(array, t) ==
  \E i \in Chain(array, HashOf[t]) :
    LET key == array.buckets[i].key
    IN  key[1] = "text" /\ Hash(key) = HashOf[t] /\ key[2] = t

\* zephir_get_current_key, zephir_get_current_key_w: the key as an index
CurrentKey(bucket) == IF bucket.key[1] = "text" THEN Text(bucket.key[2]) ELSE Long(bucket.key[2])

\* zephir_has_numeric_keys
HasNumericKeys(array) == \E i \in DOMAIN array.buckets : array.buckets[i].key[1] = "long"
-----------------------------------------------------------------------------
(* An index becomes a key.                                                 *)

Number(index) ==
  CASE index[1] \in {"long", "bool", "resource"} -> Long(index[2])
    [] index[1] = "double"                       -> Long(Truncated(index[2]))
    [] OTHER                                     -> NoKey

\* zephir_array_update_zval
UpdateKey(index) ==
  CASE index[1] = "null" -> SymbolKey("")
    [] index[1] = "text" -> SymbolKey(index[2])
    [] OTHER             -> Number(index)

\* zephir_hash_update_or_insert appends under null; zephir_hash_get and
\* zephir_hash_unset know no null.
HashKey(index) == IF index[1] = "text" THEN SymbolKey(index[2]) ELSE Number(index)

\* zephir_array_key_exists knows numbers, texts and null.
ExistsKey(index) ==
  CASE index[1] = "null" -> Text("")
    [] index[1] = "text" -> SymbolKey(index[2])
    [] index[1] = "long" -> Long(index[2])
    [] OTHER             -> NoKey
-----------------------------------------------------------------------------
(* array.c: reading and writing under an index.                            *)

Update(array, index, value) ==
  IF UpdateKey(index) = NoKey THEN array ELSE Put(array, UpdateKey(index), value)

\* A literal key of the program is never taken for a number.
UpdateString(array, t, value) == Put(array, Text(t), value)

IssetFetch(array, index) ==
  CASE index[1] = "null" -> HashFind(array, "")
    [] index[1] = "text" -> Found(array, SymbolKey(index[2]))
    [] OTHER             -> Found(array, Number(index))

Isset(array, index) ==
  CASE index[1] = "null" -> HashExists(array, "")
    [] index[1] = "text" -> SymbolKey(index[2]) \in Keys(array)
    [] OTHER             -> Number(index) \in Keys(array)

Unset(array, index) ==
  CASE index[1] = "null" -> Deleted(array, Text(""))
    [] index[1] = "text" -> Deleted(array, SymbolKey(index[2]))
    [] OTHER             -> Deleted(array, Number(index))

\* A value is read, or null.
Fetch(array, index) ==
  LET value == CASE index[1] = "null" -> HashFind(array, "")
                 [] index[1] = "text" -> Found(array, SymbolKey(index[2]))
                 [] OTHER             -> Found(array, Number(index))
  IN  IF value = Absent THEN "null" ELSE value

IssetStringFetch(array, t) == HashFind(array, t)
FetchString(array, t)      == IF HashFind(array, t) = Absent THEN "null" ELSE HashFind(array, t)
IssetString(array, t)      == Text(t) \in Keys(array)
UnsetString(array, t)      == Deleted(array, Text(t))

IssetLongFetch(array, n)   == Found(array, Long(n))
IssetLong(array, n)        == Long(n) \in Keys(array)

KeyExists(array, index)    == ExistsKey(index) \in Keys(array)

\* hash.c, for the handlers of objects that are arrays
HashInsert(array, index, value) ==
  IF index[1] = "null" THEN Pushed(array, value)
  ELSE IF HashKey(index) = NoKey THEN array ELSE Put(array, HashKey(index), value)

\* Read to be written, a missing element is made, and is null.
HashGet(array, index, writing) ==
  LET key == HashKey(index)
  IN  IF key = NoKey THEN [array |-> array, value |-> IF writing THEN "error" ELSE "null"]
      ELSE IF key \in Keys(array) THEN [array |-> array, value |-> Found(array, key)]
      ELSE [array |-> IF writing THEN Put(array, key, "null") ELSE array, value |-> "null"]

HashUnset(array, index) == Deleted(array, HashKey(index))
-----------------------------------------------------------------------------
(* array.c: whole arrays.                                                  *)

Values(array) == [i \in DOMAIN array.buckets |-> array.buckets[i].value]

\* The values appended to an array one by one.
PushedAll(array, values) ==
  LET pushed[i \in 0 .. Len(values)] ==
        IF i = 0 THEN array ELSE Pushed(pushed[i - 1], values[i])
  IN  pushed

\* Elements put into an array one by one: texts keep their key, numbers are counted on.
PutAll(array, buckets) ==
  LET put[i \in 0 .. Len(buckets)] ==
        IF i = 0 THEN array
        ELSE LET b == buckets[i]
             IN  IF b.key[1] = "text" THEN Put(put[i - 1], b.key, b.value)
                 ELSE Pushed(put[i - 1], b.value)
  IN  put

\* zephir_merge_append
MergeAppend(array, other) == PushedAll(array, Values(other))[Len(Values(other))]

\* Mutant: numbers keep their key too.
MergedOver(array, other) == FoldLeft(LAMBDA a, b : Put(a, b.key, b.value), array, other.buckets)

\* php_array_merge
Merged(array, other)    == PutAll(array, other.buckets)[Len(other.buckets)]
FastMerge(array, other) == Merged(Merged(EmptyArray, array), other)

\* zephir_array_unshift, with php_splice
Unshift(array, value) == PutAll(Pushed(EmptyArray, value), array.buckets)[Len(array.buckets)]

ArrayKeys(array) ==
  LET keys == [i \in DOMAIN array.buckets |-> array.buckets[i].key]
  IN  PushedAll(EmptyArray, keys)[Len(keys)]
ArrayValues(array) == MergeAppend(EmptyArray, array)

\* zephir_array_is_associative
IsAssociative(array) ==
  \E i \in DOMAIN array.buckets : array.buckets[i].key # Long(i - 1)

\* zephir_fast_in_array
InArray(value, array) == \E i \in DOMAIN array.buckets : array.buckets[i].value = value
=============================================================================

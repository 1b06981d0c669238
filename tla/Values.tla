------------------------------- MODULE Values -------------------------------
(***************************************************************************)
(* The values of the compiled extension: ext/kernel/array.c, object.c and  *)
(* the variable macros of memory.h.  A zval is a cell with a reference     *)
(* count; variables, properties and the elements of arrays point at cells, *)
(* and a cell that several of them share is copied before one of them      *)
(* writes to it.  The engine's own functions (hash tables, zval_copy_ctor, *)
(* zval_ptr_dtor, write_property) are modelled from how they are called.   *)
(*                                                                         *)
(* Left out: PHP references (is_ref), which the kernel sets only around    *)
(* the arguments of a call; indexes that are no integers (module Arrays);  *)
(* an array stored into itself, which a local variable's path would make   *)
(* a cycle.                                                                *)
(***************************************************************************)
EXTENDS ValueDomain, FiniteSets, FiniteSetsExt

CONSTANTS Cells,    \* addresses of zvals; cell 1 is the extension's global null
          Paths,    \* the offsets programs write to
          MaxDone,  \* bound: operations of a run
          MaxNumber,\* bound: the highest number counted to, the longest text
          SharedNulls,\* whether text is appended to a null others hold too
          StaticsReplaced \* whether arrays within static properties are replaced

ASSUME CellsAssumption == Cells = 1 .. Cardinality(Cells)

VARIABLES cell,  \* [Cells -> zvals]: contents and reference count
          slot,  \* [Places -> Cells]: the zval each place points at
          last,  \* the operation that was run last
          done   \* how many were run

vars == <<cell, slot, last, done>>

GlobalNull == 1
None == 0       \* no element

NoElements == [k \in Keys |-> None]
Free  == [type |-> "free", is |-> 0, at |-> NoElements, next |-> 0, refs |-> 0]
Fresh == [Free EXCEPT !.type = "null", !.refs = 1]      \* ALLOC_INIT_ZVAL
FreshArray == [Fresh EXCEPT !.type = "array"]           \* array_init
FreshNumber(i) == [Fresh EXCEPT !.type = "number", !.is = i]
FreshText(n) == [Fresh EXCEPT !.type = "text", !.is = n]

FreeCells(h) == {c \in Cells : h[c].type = "free"}
Allocated(h) == CHOOSE c \in FreeCells(h) : \A d \in FreeCells(h) : c <= d

AddRef(h, c) == [h EXCEPT ![c].refs = @ + 1]
DelRef(h, c) == [h EXCEPT ![c].refs = @ - 1]

(***************************************************************************)
(* The engine frees a zval with its last reference, and with an array the  *)
(* references its elements are.  A count below zero is a double free.      *)
(***************************************************************************)
RECURSIVE Released(_, _)
Released(h, c) ==
  IF h[c].refs # 1
    THEN DelRef(h, c)
    ELSE FoldSet(LAMBDA k, g : IF h[c].at[k] = None THEN g ELSE Released(g, h[c].at[k]),
                 [h EXCEPT ![c] = Free], Keys)

\* zval_copy_ctor into a new cell: the copy shares the elements.
Copied(h, c, refs) ==
  LET d == Allocated(h)
      shared == FoldSet(LAMBDA k, g : IF h[c].at[k] = None THEN g ELSE AddRef(g, h[c].at[k]),
                        h, Keys)
  IN  [h |-> [shared EXCEPT ![d] = [h[c] EXCEPT !.refs = refs]], p |-> d]

\* SEPARATE_ZVAL_IF_NOT_REF
Separated(h, c) == IF h[c].refs > 1 THEN Copied(DelRef(h, c), c, 1)
                                    ELSE [h |-> h, p |-> c]

\* Variant: the value is stored without a reference of its own.
WrittenUncounted(h, old, v) == IF v = old THEN h ELSE Released(h, old)

\* A slot of an object or a class takes a value (write_property).
Written(h, old, v) == IF v = old THEN h ELSE Released(AddRef(h, v), old)

Unchanged(h, c) == [h |-> h, p |-> c]

\* Variant: the old element keeps its reference.
UpdatingOver(s, k, v) ==
  [s EXCEPT !.h[s.p].at[k] = v, !.h[s.p].next = IF k >= @ THEN k + 1 ELSE @]

Updating(s, k, v) ==   \* zend_hash_update: the old element loses its reference
  LET a == s.h[s.p]
      h == [s.h EXCEPT ![s.p].at[k] = v, ![s.p].next = IF k >= @ THEN k + 1 ELSE @]
  IN  [s EXCEPT !.h = IF a.at[k] = None THEN h ELSE Released(h, a.at[k])]

\* zephir_array_update_long/string/zval(&c, k, &v, PH_SEPARATE [| PH_COPY])
Update(h, c, k, v, copy) ==
  IF h[c].type # "array"
    THEN Unchanged(h, c)
    ELSE LET s == Separated(h, c)
         IN  Updating([s EXCEPT !.h = IF copy THEN AddRef(@, v) ELSE @], k, v)

\* zephir_array_append(&c, v, PH_SEPARATE)
Pushed(h, c, v) == Update(h, c, h[c].next, v, TRUE)

\* zephir_array_unset_long(&c, k, PH_SEPARATE)
Unset(h, c, k) ==
  IF h[c].type # "array"
    THEN Unchanged(h, c)
    ELSE LET s == Separated(h, c)
             e == s.h[s.p].at[k]
         IN  IF e = None THEN s
             ELSE [s EXCEPT !.h = Released([s.h EXCEPT ![s.p].at[k] = None], e)]
-----------------------------------------------------------------------------
(***************************************************************************)
(* $a[k1]...[kn] = v (zephir_array_update_multi and the property version). *)
(* Level i of the loop looks the element up, which counts one reference to *)
(* it, and goes down into it; a level that had to copy its array puts the  *)
(* copy into the levels above it, as far up as those had to be copied too. *)
(***************************************************************************)
RECURSIVE Reinsert(_, _, _, _, _)
Reinsert(s, path, i, j, again) ==
  IF j = 0 \/ ~again THEN s
  ELSE LET u == Update(s.h, s.old[j], path[j], IF j = i - 1 THEN s.p ELSE s.old[j + 1], FALSE)
       IN  Reinsert([s EXCEPT !.h = u.h, !.old[j] = u.p,
                              !.p = IF s.wrap THEN s.tmp ELSE @, !.wrap = FALSE],
                    path, i, j - 1, s.h[s.old[j]].refs > 1)

\* Level i of the path: static is the version for static properties, which
\* writes to the element it found where the others write to the array.
Level(s0, path, v, static, i) ==
  LET s    == [s0 EXCEPT !.old = Append(@, s0.p), !.wrap = FALSE]
      isLast == i = Len(path)
      k    == path[i]
      item == IF k # End /\ s.h[s.p].type = "array" THEN s.h[s.p].at[k] ELSE None
      h1   == IF item = None THEN s.h ELSE AddRef(s.h, item)
      isArray == item # None /\ h1[item].type = "array"
      shared == s.h[s.p].refs > 1
      stored == Update(h1, s.p, k, v, TRUE)
      added  == LET t == Allocated(h1)
                IN  [t |-> t, u |-> Update([h1 EXCEPT ![t] = FreshArray], s.p, k, t, FALSE)]
  IN  CASE k = End ->
             LET u == Pushed(s.h, s.p, v)
             IN  Reinsert([s EXCEPT !.h = u.h, !.p = u.p], path, i, i - 1, shared)
        [] isArray /\ isLast /\ static -> [s EXCEPT !.h = Update(h1, item, k, v, TRUE).h]
        [] isArray /\ ~isLast -> [s EXCEPT !.h = h1, !.p = item]
        [] isLast /\ ~(isArray /\ static) ->
             Reinsert([s EXCEPT !.h = stored.h, !.p = stored.p], path, i, i - 1, shared)
        [] OTHER ->
             Reinsert([s EXCEPT !.h = added.u.h, !.tmp = added.t, !.wrap = shared,
                                !.p = IF shared THEN added.u.p ELSE added.t],
                      path, i, i - 1, shared)

RECURSIVE Levels(_, _, _, _, _)
Levels(s, path, v, static, i) ==
  IF i > Len(path) THEN s.h
  ELSE Levels(Level(s, path, v, static, i), path, v, static, i + 1)

Multi(h, c, path, v, static) ==
  Levels([h |-> h, p |-> c, old |-> <<>>, tmp |-> None, wrap |-> FALSE], path, v, static, 1)
-----------------------------------------------------------------------------
(***************************************************************************)
(* The array a property's element is written to: the property's own array, *)
(* or, when others share it, a copy of it without references; a property   *)
(* that is no array becomes one (a shared number stays as element 0).      *)
(***************************************************************************)
PropertyArray(h, c) ==
  LET s == IF h[c].refs > 1 THEN Copied(h, c, 0) ELSE Unchanged(h, c)
      d == Allocated(s.h)
  IN  CASE s.h[s.p].type = "array" -> s
        [] s.p = c -> [h |-> [h EXCEPT ![d] = [FreshArray EXCEPT !.refs = 0]], p |-> d]
        [] h[c].type \in {"number", "text"} ->       \* convert_to_array
             [s EXCEPT !.h = [s.h EXCEPT ![d] = [h[c] EXCEPT !.refs = 1],
                                         ![s.p] = [FreshArray EXCEPT !.refs = 0, !.next = 1,
                                                                     !.at[0] = d]]]
        [] OTHER -> [s EXCEPT !.h = [s.h EXCEPT ![s.p] = [FreshArray EXCEPT !.refs = 0]]]

\* A copy made on the way is what the property is updated with.
Kept(s, c) == IF s.p = c THEN s.h ELSE Written(s.h, c, s.p)
Points(s, c) == [h |-> Kept(s, c), p |-> s.p]

\* zephir_update_property_array[_string|_append], k = End for the latter
PropertyItem(h, c, k, v) ==
  LET s == PropertyArray(h, c)
      a == AddRef(s.h, v)
  IN  Points(Updating([s EXCEPT !.h = a], KeyIn(s.h[s.p], k), v), c)

\* zephir_update_property_array_multi; zephir_update_static_property_array_multi_ce
PropertyPath(h, c, path, v, static) ==
  LET s == PropertyArray(h, c) IN Points([s EXCEPT !.h = Multi(@, s.p, path, v, static)], c)

StaticPath(h, c, path, v) == PropertyPath(h, c, path, v, TRUE)

\* Variant: the array is not copied before.
PropertyUnsetInPlace(h, c, k) == Points(Unset(h, c, k), c)

\* zephir_unset_property_array
PropertyUnset(h, c, k) ==
  LET s == IF h[c].refs > 1 THEN Copied(h, c, 0) ELSE Unchanged(h, c)
  IN  Points(Unset(s.h, s.p, k), c)

\* zephir_property_incr and zephir_property_decr
PropertyCount(h, c, by) ==
  LET s == IF h[c].refs > 1 THEN Copied(h, c, 0) ELSE Unchanged(h, c)
      z == s.h[s.p]
      counted == CASE z.type = "number" -> [z EXCEPT !.is = @ + by]
                   [] z.type = "null" /\ by > 0 -> [z EXCEPT !.type = "number", !.is = by]
                   [] OTHER -> z
  IN  Points([s EXCEPT !.h[s.p] = counted], c)

\* ZEPHIR_INIT_NVAR: a shared cell is left to the others, one's own emptied.
Initialised(h, c) ==
  IF h[c].refs > 1
    THEN LET g == DelRef(h, c)
             d == Allocated(g)
         IN  [h |-> [g EXCEPT ![d] = Fresh], p |-> d]
    ELSE [h |-> [Released(h, c) EXCEPT ![c] = Fresh], p |-> c]

\* ZVAL_LONG, ZVAL_NULL, array_init into an initialised variable
Assigned(h, c, contents) ==
  LET s == Initialised(h, c) IN [s EXCEPT !.h[s.p] = contents]
-----------------------------------------------------------------------------
Op(op, to, from, path, number) ==
  [op |-> op, to |-> to, from |-> from, path |-> path, number |-> number]

\* A bound: room for the cells one operation allocates at most.
Room == Cardinality(FreeCells(cell)) >= 4

Run(o, s) == /\ done < MaxDone
             /\ Room
             /\ cell' = s.h
             /\ slot' = [slot EXCEPT ![o.to] = s.p]
             /\ last' = o
             /\ done' = done + 1

\* A bound: no array is grown past Keys, no number or text past MaxNumber.
HasRoom(path) ==
  path[Len(path)] = End => \A c \in Cells : cell[c].type = "array" => cell[c].next \in Keys
Counts(c, by) == cell[c].type \in {"number", "text"} => cell[c].is + by \in 0 .. MaxNumber

SetLocal(x) ==
  \/ \E i \in Numbers : Run(Op("set", x, x, <<>>, i), Assigned(cell, slot[x], FreshNumber(i)))
  \/ Run(Op("null", x, x, <<>>, 0), Assigned(cell, slot[x], Fresh))
  \/ Run(Op("empty", x, x, <<>>, 0), Assigned(cell, slot[x], FreshArray))

\* zephir_concat_self_str, _char, _long and zephir_concat_self: a null is
\* written to where it is, any other value is printed or copied first.
Appended(h, c) ==
  CASE h[c].type = "null" -> [h |-> [h EXCEPT ![c].type = "text", ![c].is = 1], p |-> c]
    [] h[c].type = "text" -> LET s == Separated(h, c) IN [s EXCEPT !.h[s.p].is = @ + 1]
    [] OTHER -> LET g == Released(h, c)
                    d == Allocated(g)
                IN  [h |-> [g EXCEPT ![d] = FreshText(IF h[c].type = "array" THEN 6 ELSE 2)],
                     p |-> d]

AppendText(x) ==
  /\ Counts(slot[x], 1)
  /\ cell[slot[x]].type = "null" => SharedNulls \/ cell[slot[x]].refs = 1
  /\ Run(Op("text", x, x, <<>>, 0), Appended(cell, slot[x]))

\* ZEPHIR_CPY_WRT
CopyLocal(x, y) ==
  /\ x # y
  /\ Run(Op("copy", x, y, <<>>, 0),
         [h |-> Released(AddRef(cell, slot[y]), slot[x]), p |-> slot[y]])

\* ZEPHIR_OBS_NVAR and zephir_array_fetch_long
FetchLocal(x, y, k) ==
  /\ x # y
  /\ LET h == Released(cell, slot[x])
         a == h[slot[y]]
         c == IF a.type = "array" /\ a.at[k] # None THEN a.at[k] ELSE GlobalNull
     IN  Run(Op("fetch", x, y, <<k>>, 0), [h |-> AddRef(h, c), p |-> c])

StoreLocal(x, path, y) ==
  /\ x # y
  /\ HasRoom(path)
  /\ Run(Op("store", x, y, path, 0),
         CASE path = <<End>> /\ cell[slot[x]].type # "array" -> Unchanged(cell, slot[x])
           [] path = <<End>> -> Pushed(cell, slot[x], slot[y])
           [] Len(path) = 1 -> Update(cell, slot[x], path[1], slot[y], TRUE)
           [] OTHER -> LET s == Separated(cell, slot[x])
                       IN  [s EXCEPT !.h = Multi(@, s.p, path, slot[y], FALSE)])

\* zephir_array_update_zval_long, _bool, _string and the like make the zval
\* they store; zephir_array_append_long and _string leave its count to the
\* append.  Nothing frees it when x is no array.
StoreNumber(x, k, i) ==
  LET d == Allocated(cell)
  IN  Run(Op("put", x, x, <<k>>, i),
          Update([cell EXCEPT ![d] = FreshNumber(i)], slot[x], k, d, FALSE))

PushNumber(x, i) ==
  LET d == Allocated(cell)
      h == [cell EXCEPT ![d] = [FreshNumber(i) EXCEPT !.refs = 0]]
  IN  /\ HasRoom(<<End>>)
      /\ Run(Op("put", x, x, <<End>>, i),
             IF cell[slot[x]].type = "array" THEN Pushed(h, slot[x], d)
                                             ELSE Unchanged(h, slot[x]))

UnsetLocal(x, k) == Run(Op("unset", x, x, <<k>>, 0), Unset(cell, slot[x], k))

\* zephir_update_property_zval, _this, _long, _bool, _null, _empty_array
SetProperty(p) ==
  \/ \E y \in Locals :
       Run(Op("copy", p, y, <<>>, 0), [h |-> Written(cell, slot[p], slot[y]), p |-> slot[y]])
  \/ \E i \in Numbers :
       LET d == Allocated(cell)
       IN  Run(Op("set", p, p, <<>>, i),
               Points([h |-> [cell EXCEPT ![d] = [FreshNumber(i) EXCEPT !.refs = 0]], p |-> d],
                      slot[p]))
  \/ Run(Op("null", p, p, <<>>, 0),
         [h |-> Written(cell, slot[p], GlobalNull), p |-> GlobalNull])
  \/ LET d == Allocated(cell)
         h == Written([cell EXCEPT ![d] = FreshArray], slot[p], d)
     IN  Run(Op("empty", p, p, <<>>, 0), [h |-> Released(h, d), p |-> d])

StoreProperty(p, path, y) ==
  /\ HasRoom(path)
  /\ Run(Op("store", p, y, path, 0),
         IF Len(path) = 1 THEN PropertyItem(cell, slot[p], path[1], slot[y])
                          ELSE PropertyPath(cell, slot[p], path, slot[y], FALSE))

UnsetProperty(p, k) == Run(Op("unset", p, p, <<k>>, 0), PropertyUnset(cell, slot[p], k))

CountProperty(p, by) == /\ Counts(slot[p], by)
                        /\ Run(Op("count", p, p, <<>>, by), PropertyCount(cell, slot[p], by))

\* zephir_read_property and zephir_read_static_property_ce into a variable
ReadInto(x, p) ==
  LET h == Released(cell, slot[x])
  IN  Run(Op("copy", x, p, <<>>, 0), [h |-> AddRef(h, slot[p]), p |-> slot[p]])

\* zephir_return_property without a slot to return: the value is copied.
ReturnCopy(x, p) ==
  LET s == Initialised(cell, slot[x])
      t == Copied(s.h, slot[p], 1)
  IN  Run(Op("copy", x, p, <<>>, 0), [t EXCEPT !.h = Released(@, s.p)])

\* zephir_update_static_property_ex: the global null is never shared with it.
SetStatic(q, y) ==
  LET d == Allocated(cell)
  IN  Run(Op("copy", q, y, <<>>, 0),
          IF slot[y] = GlobalNull
            THEN Points([h |-> [cell EXCEPT ![d] = [Fresh EXCEPT !.refs = 0]], p |-> d], slot[q])
            ELSE [h |-> Written(cell, slot[q], slot[y]), p |-> slot[y]])

RECURSIVE CellAt(_, _)
CellAt(c, path) ==
  LET a == cell[c]
  IN  IF a.type # "array" \/ path[1] = End \/ a.at[path[1]] = None THEN None
      ELSE IF Len(path) = 1 THEN a.at[path[1]] ELSE CellAt(a.at[path[1]], Tail(path))

StoreStatic(q, path, y) ==
  /\ HasRoom(path)
  /\ LET c == CellAt(slot[q], path)
     IN  c # None /\ cell[c].type = "array" => StaticsReplaced
  /\ Run(Op("store", q, y, path, 0), StaticPath(cell, slot[q], path, slot[y]))

Init == /\ cell = [c \in Cells |-> IF c = GlobalNull
                                    THEN [Fresh EXCEPT !.refs = 2 + Cardinality(Places)] ELSE Free]
        /\ slot = [p \in Places |-> GlobalNull]
        /\ last = [op |-> "none"]
        /\ done = 0

Next == \/ \E x \in Locals : SetLocal(x)
        \/ \E x \in Locals : AppendText(x)
        \/ \E x, y \in Locals : CopyLocal(x, y)
        \/ \E x, y \in Locals, k \in Keys : FetchLocal(x, y, k)
        \/ \E x, y \in Locals, path \in Paths : StoreLocal(x, path, y)
        \/ \E x \in Locals, k \in Keys, i \in Numbers : StoreNumber(x, k, i)
        \/ \E x \in Locals, i \in Numbers : PushNumber(x, i)
        \/ \E x \in Locals, k \in Keys : UnsetLocal(x, k)
        \/ \E p \in Properties : SetProperty(p)
        \/ \E p \in Properties, path \in Paths, y \in Locals : StoreProperty(p, path, y)
        \/ \E p \in Properties, k \in Keys : UnsetProperty(p, k)
        \/ \E p \in Properties, by \in {1, -1} : CountProperty(p, by)
        \/ \E x \in Locals, p \in Properties \cup Statics : ReadInto(x, p)
        \/ \E x \in Locals, p \in Properties : ReturnCopy(x, p)
        \/ \E q \in Statics, y \in Locals : SetStatic(q, y)
        \/ \E q \in Statics, path \in Paths, y \in Locals : StoreStatic(q, path, y)

Spec == Init /\ [][Next]_vars
=============================================================================

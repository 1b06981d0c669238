------------------------------ MODULE MCValues ------------------------------
(***************************************************************************)
(* Values on a handful of cells: the values the places show, and whether   *)
(* the reference counts are what the references are.                       *)
(***************************************************************************)
EXTENDS Values

RECURSIVE ValueAt(_)
ValueAt(c) ==
  CASE cell[c].type = "number" -> Number(cell[c].is)
    [] cell[c].type = "text" -> Text(cell[c].is)
    [] cell[c].type = "array" ->
         Array([k \in Keys |-> IF cell[c].at[k] = None THEN Hole ELSE ValueAt(cell[c].at[k])],
               cell[c].next)
    [] OTHER -> Null

ValueOf == [p \in Places |-> ValueAt(slot[p])]
Store == INSTANCE ValueStore WITH value <- ValueOf

(***************************************************************************)
(* Sharing is invisible: every operation gives the place it names the      *)
(* value PHP says it has and leaves every other place its own, whatever    *)
(* cells they share (the separations of array.c and object.c).             *)
(***************************************************************************)
ImplementsValues == Store!Spec

Owners(c) == Cardinality({p \in Places : slot[p] = c})
             + Cardinality({e \in Cells \X Keys : cell[e[1]].at[e[2]] = c})
             + (IF c = GlobalNull THEN 2 ELSE 0)

(***************************************************************************)
(* No zval is freed while a variable, a property or an element still       *)
(* points at it, and none is freed twice.                                  *)
(***************************************************************************)
NothingDangling ==
  \A c \in Cells : /\ cell[c].refs >= Owners(c)
                   /\ cell[c].type = "free" => cell[c].refs = 0

\* The zvals with references nobody holds, and those nobody can free.
Lost == {c \in Cells : cell[c].refs > Owners(c) \/ (cell[c].type # "free" /\ Owners(c) = 0)}

\* Where the code is known to lose one: array.c counts a reference to every
\* element an offset of several keys leads over (object.c does for the one
\* key of a static property, too), and what it makes to store in a variable
\* that turns out to be no array it forgets.
MayLose(o) == \/ o.op = "store" /\ (Len(o.path) > 1 \/ o.to \in Statics)
              \/ o.op = "put" /\ cell[slot[o.to]].type # "array"

(***************************************************************************)
(* No other operation loses a reference, so memory of a request grows with *)
(* those writes only.                                                      *)
(***************************************************************************)
OnlyTheseLose == [][Lost' \subseteq Lost \/ MayLose(last')]_vars

(***************************************************************************)
(* The zval the whole extension uses for null stays null (object.c         *)
(* protects "super globals").                                              *)
(***************************************************************************)
GlobalStaysNull == cell[GlobalNull].type = "null"

MCPaths == {<<0>>, <<End>>, <<0, 1>>, <<1, End>>, <<0, 1, 0>>}
MCFew == {<<0>>, <<0, 1, 0>>}
MCCells == 1 .. 10
=============================================================================

------------------------------ MODULE MCQuery ------------------------------
(***************************************************************************)
(* Queries on a table of a number, a date and a datetime, with a few cells *)
(* of each.  What PHP makes of the cells is given here.                    *)
(***************************************************************************)
EXTENDS Query, TLC

\* The cells of each column, in order, and as texts: a date is told by its day.
Texts == [n |-> << <<"-", "1">>, <<"1">>, <<"1", "2">> >>,
          d |-> << <<"1", "_">>, <<"2", "_">> >>,
          t |-> << <<"1", ":", "1">>, <<"1", ":", "2">> >>]
Numbers == <<-1, 1, 12>>
NoCharacters == <<>>

AllCells    == {<<>>} \cup UNION {ToSet(Texts[c]) : c \in DOMAIN Texts}
Place(c, v) == SelectInSeq(Texts[c], LAMBDA t : t = v)

MCType      == [c \in Columns |-> [n |-> "int", d |-> "date", t |-> "datetime"][c]]
MCCellsOf   == [c \in Columns |-> ToSet(Texts[c])]
MCRank      == [c \in Columns |-> [v \in ToSet(Texts[c]) |-> Place(c, v)]]
MCIntval    == [v \in AllCells |-> IF Place("n", v) > 0 THEN Numbers[Place("n", v)]
                                   ELSE IF v = <<>> THEN 0 ELSE 2015]
MCStrtotime == [v \in AllCells |-> 24 * Place("d", v) + Place("t", v)]
MCLoosely   == {p \in AllCells \X AllCells : p[1] = p[2]}
MCText      == [v \in AllCells |-> v]

TwoPatterns  == {<<"%", "1">>, <<"1", "_">>}
FivePatterns == TwoPatterns \cup {<<"1", "\\_">>, <<"%", "1", "%">>, <<"_">>}
AnyPattern   == BoundedSeq({"1", "%", "_", "\\_", "."}, 3)

RowsOfKind   == [k \in Kinds |-> IF k = "select" THEN 3 ELSE 1]
DeleteTwice  == [k \in Kinds |-> IF k = "delete" THEN 2 ELSE 1]
OneEach      == [k \in Kinds |-> 1]
=============================================================================

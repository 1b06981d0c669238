------------------------------- MODULE Texts -------------------------------
(***************************************************************************)
(* Texts as ext/kernel/string.c cuts, joins and searches them.  A text is  *)
(* a sequence of characters; the cursor loops of the code are folds, and   *)
(* what the code takes from a smart_str is the text appended to it.        *)
(***************************************************************************)
EXTENDS Integers, SequencesExt, FiniteSetsExt

CONSTANT CapitalOf    \* the capital of each small letter

ASSUME CapitalsAssumption == IsInjective(CapitalOf)

SmallOf  == [c \in Range(CapitalOf) |-> CHOOSE s \in DOMAIN CapitalOf : CapitalOf[s] = c]
toupper(c) == IF c \in DOMAIN CapitalOf THEN CapitalOf[c] ELSE c
tolower(c) == IF c \in DOMAIN SmallOf THEN SmallOf[c] ELSE c

Lowered(text) == [i \in DOMAIN text |-> tolower(text[i])]

\* What is returned where PHP returns false or null: no text, no position.
False     == <<"false">>
NotFound  == -1
Senseless == -2
-----------------------------------------------------------------------------
(* camelize and uncamelize.                                                *)

Dash == {"_", "-"}

\* The loop runs while a character follows; a dash takes that one with it.
\* The last character is taken as it is.
CamelStep(text, s) ==
  LET dash == text[s.i + 1] \in Dash
      at   == IF dash THEN s.i + 1 ELSE s.i
      c    == text[at + 1]
  IN  [i |-> at + 1, out |-> Append(s.out, IF s.i = 0 \/ dash THEN toupper(c) ELSE tolower(c))]

zephir_camelize(text) ==
  LET end == FoldLeft(LAMBDA s, c : IF s.i < Len(text) - 1 THEN CamelStep(text, s) ELSE s,
                      [i |-> 0, out |-> <<>>], text)
  IN  IF end.i = Len(text) - 1 THEN Append(end.out, Last(text)) ELSE end.out

zephir_uncamelize(text) ==
  LET spelled(i) == IF text[i] \in DOMAIN SmallOf
                      THEN (IF i > 1 THEN <<"_">> ELSE <<>>) \o <<tolower(text[i])>>
                      ELSE <<text[i]>>
  IN  FlattenSeq([i \in DOMAIN text |-> spelled(i)])
-----------------------------------------------------------------------------
(* Searching.                                                              *)

\* php_memnstr: the positions where a text stands in another, from an offset.
Stands(needle, text, offset) ==
  {p \in offset .. Len(text) - Len(needle) : SubSeq(text, p + 1, p + Len(needle)) = needle}

zephir_memnstr(text, needle) ==
  Len(text) >= Len(needle) /\ Stands(needle, text, 0) # {}

\* Null is returned for a search that makes no sense.
zephir_fast_strpos(text, needle, offset) ==
  IF offset > Len(text) \/ needle = <<>> THEN Senseless
  ELSE IF Stands(needle, text, offset) = {} THEN NotFound ELSE Min(Stands(needle, text, offset))

zephir_fast_strpos_str(text, needle) ==
  IF Stands(needle, text, 0) = {} THEN NotFound ELSE Min(Stands(needle, text, 0))

\* The flag called case_sensitive makes the comparison insensitive.
Begins(text, compared, folded) ==
  \A i \in DOMAIN compared : IF folded THEN tolower(text[i]) = tolower(compared[i])
                                       ELSE text[i] = compared[i]
zephir_start_with(text, compared, case_sensitive) ==
  /\ compared # <<>> /\ text # <<>> /\ Len(compared) <= Len(text)
  /\ Begins(text, compared, case_sensitive)
zephir_start_with_str(text, compared) ==
  Len(compared) <= Len(text) /\ Begins(text, compared, FALSE)

LastOf(text, n) == SubSeq(text, Len(text) - n + 1, Len(text))

\* Mutant: the cursor stays at the start where the case is folded.
EndWithFromStart(text, compared, case_sensitive) ==
  /\ compared # <<>> /\ text # <<>> /\ Len(compared) <= Len(text)
  /\ Begins(IF case_sensitive THEN text ELSE LastOf(text, Len(compared)), compared, case_sensitive)

zephir_end_with(text, compared, case_sensitive) ==
  /\ compared # <<>> /\ text # <<>> /\ Len(compared) <= Len(text)
  /\ Begins(LastOf(text, Len(compared)), compared, case_sensitive)
zephir_end_with_str(text, compared) ==
  /\ compared # <<>> /\ text # <<>> /\ Len(compared) <= Len(text)
  /\ Begins(LastOf(text, Len(compared)), compared, FALSE)
-----------------------------------------------------------------------------
(* Cutting and joining.                                                    *)

\* Mutant: a start before the text is counted from its end.
SubstrFrom(text, f, l) ==
  LET n     == Len(text)
      count == IF l > n \/ l = 0 THEN n ELSE l
      start == IF f < 0 THEN n + f ELSE f
      taken == IF count < 0 THEN n - start + count ELSE Min({count, n - start})
  IN  IF l < -n \/ f > n \/ start >= n THEN False ELSE SubSeq(text, start + 1, start + taken)

\* From f, or from that many before the end; l characters, all for zero, or
\* up to that many before the end.
zephir_substr(text, f, l) ==
  LET n     == Len(text)
      count == IF l > n \/ l = 0 THEN n ELSE l
      from  == Max({f, -n})
      start == IF from < 0 THEN n + from ELSE from
      taken == IF count < 0 THEN n - start + count ELSE Min({count, n - start})
  IN  IF l < -n \/ f > n \/ (count < 0 /\ count + n - from < 0) \/ start >= n
        THEN False
        ELSE SubSeq(text, start + 1, start + taken)

\* A single slash is not at the end of anything.
zephir_remove_extra_slashes(text) ==
  IF Len(text) <= 1 THEN text
  ELSE SubSeq(text, 1, Max({0} \cup {i \in DOMAIN text : text[i] # "/"}))

zephir_lcfirst(text) == IF text = <<>> THEN text ELSE [text EXCEPT ![1] = tolower(@)]
zephir_ucfirst(text) == IF text = <<>> THEN text ELSE [text EXCEPT ![1] = toupper(@)]

\* Every piece but the last is followed by the glue.
zephir_fast_join_str(glue, pieces) ==
  FlattenSeq([i \in DOMAIN pieces |-> pieces[i] \o (IF i # Len(pieces) THEN glue ELSE <<>>)])
=============================================================================

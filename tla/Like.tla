-------------------------------- MODULE Like --------------------------------
(***************************************************************************)
(* The pattern of a like condition: execute/condition/like.zep.            *)
(*                                                                         *)
(* A text is a sequence of symbols, upper and lower case being the same.   *)
(* A pattern is one of symbols and wildcards, and of wildcards with a      *)
(* backslash before them; no other backslashes, and of the characters that *)
(* mean something to preg_match() only the dot.                            *)
(***************************************************************************)
EXTENDS Integers, SequencesExt, FiniteSetsExt

Wild    == {"%", "_"}
Escaped == {"\\%", "\\_"}

\* The sign without its backslash.
Bare(sign) == CASE sign = "\\%" -> "%" [] sign = "\\_" -> "_" [] OTHER -> sign

\* The wildcards that become groups of the regular expression: none if any is
\* escaped, or else all "%", and all "_" if there is no "%".
Replaced(p) ==
  IF ToSet(p) \cap Escaped # {} THEN {}
  ELSE IF "%" \in ToSet(p)      THEN {"%"}
  ELSE                               {"_"}

\* Variant: the backslashes are gone before the wildcards are replaced.
CompiledBare(p) ==
  [i \in DOMAIN p |->
     CASE Bare(p[i]) = "%" -> "(.*)" [] Bare(p[i]) = "_" -> "(.)" [] OTHER -> p[i]]

\* What the constructor makes of a sign: some characters, one, or that symbol.
Compiled(p) ==
  [i \in DOMAIN p |->
     IF p[i] \in Replaced(p) THEN IF p[i] = "%" THEN "(.*)" ELSE "(.)"
     ELSE Bare(p[i])]

\* Where the first i signs may end.
Ends(regex, t) ==
  LET ends[i \in 0 .. Len(regex)] ==
        IF i = 0 THEN {0}
        ELSE IF regex[i] = "(.*)" THEN {e \in 0 .. Len(t) : \E b \in ends[i - 1] : b <= e}
        ELSE {e \in 1 .. Len(t) : e - 1 \in ends[i - 1] /\
                                  (regex[i] \in {"(.)", "."} \/ regex[i] = t[e])}
  IN  ends

\* preg_match() from "^" to "$".
Matched(regex, t) == Len(t) \in Ends(regex, t)[Len(regex)]

LikeMatches(p, t) == Matched(Compiled(p), t)

-----------------------------------------------------------------------------
(* What "%" and "_" stand for.                                             *)

\* The text falls into parts, one for each sign.
LikeMeans(p, t) ==
  \E cut \in [0 .. Len(p) -> 0 .. Len(t)] :
    /\ cut[0] = 0 /\ cut[Len(p)] = Len(t)
    /\ \A i \in DOMAIN p :
         \/ p[i] = "%" /\ cut[i - 1] <= cut[i]
         \/ p[i] = "_" /\ cut[i] = cut[i - 1] + 1
         \/ p[i] \notin Wild /\ cut[i] = cut[i - 1] + 1 /\ t[cut[i]] = Bare(p[i])

\* All wildcards are "%", or all are "_", or all have the same backslash; and no dots.
OneSort(p) ==
  /\ Cardinality(ToSet(p) \cap (Wild \cup Escaped)) <= 1
  /\ "." \notin ToSet(p)
=============================================================================

------------------------------ MODULE MCKernel ------------------------------
EXTENDS Kernel

MCKeyNumber == [t \in {"0", "1"} |-> IF t = "0" THEN 0 ELSE 1]
\* "a" and "b" share their hash with each other, and with the number 1.
MCHashOf == [t \in {"", "0", "1", "a", "b"} |->
               CASE t = "" -> 3 [] t = "0" -> 2 [] t = "1" -> 4 [] OTHER -> 1]
MCIndexes ==
  {Null, Bool(0), Bool(1), Long(-1), Long(1), Double(3), Text(""), Text("1"), Text("a"),
   <<"resource", 1>>, <<"object", 1>>}
ElementsAlike == Permutations(Elements)
MCLiterals == {"1", "a", "b"}

MCCapitalOf == [c \in {"a", "b"} |-> IF c = "a" THEN "A" ELSE "B"]
MCLetters   == {"a", "b", "A", "_", "/"}

MCSpells == [t \in {"0", "1", "1.5", "-1"} |->
               CASE t = "0" -> Long(0) [] t = "1" -> Long(1) [] t = "1.5" -> Double(3) [] OTHER -> Long(-1)]
MCOperands ==
  {Null, Bool(0), Bool(1)} \cup {Long(n) : n \in -2 .. 2} \cup {Double(h) : h \in -3 .. 4}
    \cup {Text(t) : t \in {"", "0", "1", "1.5", "-1", "a"}}
    \cup {<<"array", 0>>, <<"array", 2>>, <<"object", 1>>, <<"resource", 3>>}

\* "child" extends "base"; "container" answers to every name.
MCParentOf  == [c \in {"base", "child", "container"} |-> IF c = "child" THEN "base" ELSE NoClass]
MCDeclared  == [c \in {"base", "child", "container"} |->
                  CASE c = "base" -> {"get", "set"} [] c = "child" -> {"get"} [] OTHER -> {"set"}]
MCSmallName == [n \in {"get", "GET", "set"} |-> IF n = "GET" THEN "get" ELSE n]

\* $this is an object of the class whose method runs, or there is none.
MCEnvironments ==
  {e \in [scope : DOMAIN ParentOf \cup {NoClass}, called : DOMAIN ParentOf \cup {NoClass},
          this : DOMAIN ParentOf \cup {NoClass}, active : DOMAIN ParentOf \cup {NoClass}] :
     /\ e.this # NoClass => e.scope # NoClass /\ IsA(e.this, e.scope)
     /\ e.called = IF e.this # NoClass THEN e.this ELSE e.scope
     /\ e.active \in {NoClass, e.scope}}

\* Also self:: and static:: without $this, and variables that are called.
MCCallsAnywhere(e) ==
  LET names == DOMAIN SmallName
  IN  CallsOf(e)
      \cup {SelfCall(n) : n \in IF e.scope = NoClass THEN {} ELSE names}
      \cup {StaticCall(n) : n \in IF e.scope = NoClass THEN {} ELSE names}
      \cup {ZvalCall(class, n) : class \in DOMAIN ParentOf, n \in names}
=============================================================================

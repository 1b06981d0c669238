---------------------------- MODULE KernelProofs ----------------------------
(***************************************************************************)
(* Proofs about Kernel: the cache of calls answers as the engine would, the *)
(* operators compare and convert alike whatever the compiler knows of their *)
(* operands, the functions on arrays tell of the same elements, and texts   *)
(* are searched and cut as PHP does.                                        *)
(***************************************************************************)
EXTENDS Kernel, Lists

-----------------------------------------------------------------------------
(* Classes.                                                                *)

\* A class is itself.
LEMMA IsItself ==
  ASSUME NEW c \in Classes
  PROVE  IsA(c, c)
BY DEF IsA, Lineage

\* A class is what its parent is.
LEMMA IsItsParent ==
  ASSUME NEW c \in Classes, ParentOf[c] # NoClass
  PROVE  ParentOf[c] \in Classes /\ IsA(c, ParentOf[c])
<1>1. ParentOf[c] \in Classes
  BY ClassesAssumption
<1> QED BY <1>1 DEF IsA, Lineage, Upward

\* What a class is, it has all of.
LEMMA IsAll ==
  ASSUME NEW c \in Classes, NEW d \in Classes, NEW o \in Classes, IsA(c, d), IsA(d, o)
  PROVE  IsA(c, o)
BY DEF IsA, Lineage

-----------------------------------------------------------------------------
(* The cache of calls.                                                     *)

\* What the engine finds for a key: the function, or the method from the class
\* the key was made with.
HandlerUnder(key) ==
  IF key[3] = NoClass
    THEN IF key[1] \in Defined THEN <<key[1]>> ELSE NoHandler
    ELSE Handler(key[2], key[1])

\* The invariant of the cache: every entry is what the engine finds for its key.
CacheAnswers == \A k \in DOMAIN fcache : fcache[k] = HandlerUnder(k)

\* A call that has a key finds under it what the engine finds for the call.
KeyAnswers(e, c) ==
  /\ CallKey(e, c) # NoCallKey => Resolved(e, c).handler = HandlerUnder(CallKey(e, c))
  /\ Resolved(e, c).object = Populated(e, c)

\* A call of a method starts from the class of the object.
LEMMA MethodAnswers ==
  ASSUME NEW e, NEW object \in Classes, NEW n
  PROVE  KeyAnswers(e, MethodCall(object, n))
<1> DEFINE c == MethodCall(object, n)
<1>1. /\ c.type = "method" /\ c.ce = object /\ c.object = object /\ c.name = n
      /\ object # NoClass
  BY ClassesAssumption DEF MethodCall, Called
<1> HIDE DEF c
<1>2. ObjectOf(e, c) = object /\ ClassOf(e, c) = object
  BY <1>1 DEF ObjectOf, ClassOf
<1>3. ScopeOf(e, c) = object
  BY <1>1, <1>2 DEF ScopeOf
<1>4. KeyScope(e, c) = object /\ KeyClass(e, c) = object
  BY <1>1, <1>2, <1>3 DEF KeyScope, KeyClass
<1>5. CallKey(e, c) = <<SmallName[n], object, object>>
  BY <1>1, <1>4, IsItself DEF CallKey, Related
<1>6. /\ Resolved(e, c).handler = Handler(object, SmallName[n])
      /\ Resolved(e, c).object = object
  BY <1>1, <1>2 DEF Resolved, StartOf
<1>7. Populated(e, c) = object
  BY <1>1, <1>2 DEF Populated
<1>8. HandlerUnder(CallKey(e, c)) = Handler(object, SmallName[n])
  BY <1>1, <1>5 DEF HandlerUnder
<1>9. KeyAnswers(e, c)
  BY <1>6, <1>7, <1>8 DEF KeyAnswers
<1> QED BY <1>9 DEF c

\* A call by parent:: starts above the class whose method runs.
LEMMA ParentAnswers ==
  ASSUME NEW e \in Environments, e.this # NoClass, NEW n
  PROVE  KeyAnswers(e, ParentCall(e, n))
<1> DEFINE c == ParentCall(e, n)
           above == ParentOf[e.scope]
<1>1. /\ c.type = "parent" /\ c.ce = e.scope /\ c.object = e.this /\ c.name = n
      /\ e.scope \in Classes /\ e.scope # NoClass /\ e.this \in Classes /\ IsA(e.this, e.scope)
  BY EnvironmentsAssumption DEF ParentCall, Called
<1> HIDE DEF c, above
<1>2. ObjectOf(e, c) = e.this /\ ClassOf(e, c) = e.scope
  BY <1>1 DEF ObjectOf, ClassOf
<1>3. ScopeOf(e, c) = e.scope
  BY <1>1, <1>2 DEF ScopeOf
<1>4. KeyScope(e, c) = above /\ KeyClass(e, c) = e.this
  BY <1>1, <1>2, <1>3 DEF KeyScope, KeyClass, above
<1>5. ASSUME CallKey(e, c) # NoCallKey
      PROVE  above # NoClass /\ CallKey(e, c) = <<SmallName[n], above, e.this>>
  <2>1. above # NoClass
    BY <1>1, <1>3, <1>4, <1>5 DEF CallKey
  <2>2. above \in Classes /\ IsA(e.scope, above)
    BY <1>1, <2>1, IsItsParent DEF above
  <2>3. IsA(e.this, above)
    BY <1>1, <2>2, IsAll
  <2> QED BY <1>1, <1>3, <1>4, <2>1, <2>3 DEF CallKey, Related
<1>6. /\ Resolved(e, c).handler = IF above = NoClass THEN NoHandler ELSE Handler(above, SmallName[n])
      /\ Resolved(e, c).object = e.this
  BY <1>1, <1>2, <1>3 DEF Resolved, StartOf, above
<1>7. Populated(e, c) = e.this
  BY <1>1, <1>2 DEF Populated
<1>8. CallKey(e, c) # NoCallKey => HandlerUnder(CallKey(e, c)) = Handler(above, SmallName[n])
  BY <1>1, <1>5 DEF HandlerUnder
<1>9. KeyAnswers(e, c)
  BY <1>5, <1>6, <1>7, <1>8 DEF KeyAnswers
<1> QED BY <1>9 DEF c

\* Calls by self:: and static:: in a method start from the class of $this.
LEMMA OwnAnswers ==
  ASSUME NEW e \in Environments, e.this # NoClass, NEW n,
         NEW c \in {SelfCall(n), StaticCall(n)}
  PROVE  KeyAnswers(e, c)
<1>1. /\ c.type \in {"self", "static"} /\ c.ce = NoClass /\ c.object = NoClass /\ c.name = n
      /\ e.this \in Classes /\ e.called = e.this
  BY EnvironmentsAssumption DEF SelfCall, StaticCall, Called
<1>2. ObjectOf(e, c) = e.this /\ ClassOf(e, c) = e.this
  BY <1>1 DEF ObjectOf, ClassOf
<1>3. ScopeOf(e, c) = e.this
  BY <1>2 DEF ScopeOf
<1>4. KeyScope(e, c) = e.this /\ KeyClass(e, c) = e.this
  BY <1>1, <1>2, <1>3 DEF KeyScope, KeyClass
<1>5. CallKey(e, c) = <<SmallName[n], e.this, e.this>>
  BY <1>1, <1>4, IsItself DEF CallKey, Related
<1>6. /\ Resolved(e, c).handler = Handler(e.this, SmallName[n])
      /\ Resolved(e, c).object = e.this
  BY <1>1, <1>2, <1>3 DEF Resolved, StartOf
<1>7. Populated(e, c) = e.this
  BY <1>1, <1>2 DEF Populated
<1>8. HandlerUnder(CallKey(e, c)) = Handler(e.this, SmallName[n])
  BY <1>5 DEF HandlerUnder
<1> QED BY <1>6, <1>7, <1>8 DEF KeyAnswers

\* A call of a method of a class by name starts from that class.
LEMMA CeAnswers ==
  ASSUME NEW e, NEW class \in Classes, NEW n
  PROVE  KeyAnswers(e, CeCall(class, n))
<1> DEFINE c == CeCall(class, n)
<1>1. c.type = "ce" /\ c.ce = class /\ c.object = NoClass /\ c.name = n /\ class # NoClass
  BY ClassesAssumption DEF CeCall, Called
<1> HIDE DEF c
<1>2. ClassOf(e, c) = class
  BY <1>1 DEF ClassOf
<1>3. ScopeOf(e, c) = class
  BY <1>1, <1>2 DEF ScopeOf
<1>4. KeyScope(e, c) = class /\ KeyClass(e, c) = class
  BY <1>1, <1>2, <1>3 DEF KeyScope, KeyClass
<1>5. CallKey(e, c) = <<SmallName[n], class, class>>
  BY <1>1, <1>4, IsItself DEF CallKey, Related
<1>6. /\ Resolved(e, c).handler = Handler(class, SmallName[n])
      /\ Resolved(e, c).object = ThisFor(e, class)
  BY <1>1 DEF Resolved, StartOf
<1>7. Populated(e, c) = ThisFor(e, class)
  BY <1>1, <1>3 DEF Populated
<1>8. HandlerUnder(CallKey(e, c)) = Handler(class, SmallName[n])
  BY <1>1, <1>5 DEF HandlerUnder
<1>9. KeyAnswers(e, c)
  BY <1>6, <1>7, <1>8 DEF KeyAnswers
<1> QED BY <1>9 DEF c

\* A function is the same from everywhere.
LEMMA FunctionAnswers ==
  ASSUME NEW e, NEW n
  PROVE  KeyAnswers(e, FunctionCall(n))
<1> DEFINE c == FunctionCall(n)
<1>1. /\ c.type = "function" /\ c.ce = NoClass /\ c.object = NoClass
      /\ c.listed = NoClass /\ c.name = n
  BY DEF FunctionCall, Called
<1> HIDE DEF c
<1>2. KeyClass(e, c) = NoClass
  BY <1>1 DEF KeyClass, ObjectOf, ClassOf
<1>3. CallKey(e, c) = <<SmallName[n], KeyScope(e, c), NoClass>>
  BY <1>1, <1>2 DEF CallKey, Related
<1>4. /\ Resolved(e, c).handler = IF SmallName[n] \in Defined THEN <<SmallName[n]>> ELSE NoHandler
      /\ Resolved(e, c).object = NoClass
  BY <1>1 DEF Resolved
<1>5. Populated(e, c) = NoClass
  BY <1>1 DEF Populated
<1>6. KeyAnswers(e, c)
  BY <1>3, <1>4, <1>5 DEF KeyAnswers, HandlerUnder
<1> QED BY <1>6 DEF c

\* Every call of the sources.
LEMMA CallAnswers ==
  ASSUME NEW e \in Environments, NEW c \in CallsOf(e)
  PROVE  KeyAnswers(e, c)
<1> DEFINE names == DOMAIN SmallName
           own   == IF e.this = NoClass THEN {} ELSE names
<1>a. \/ c \in {MethodCall(object, n) : object \in Classes, n \in names}
      \/ c \in {ParentCall(e, n) : n \in own}
      \/ c \in {SelfCall(n) : n \in own}
      \/ c \in {StaticCall(n) : n \in own}
      \/ c \in {CeCall(class, n) : class \in Classes, n \in names}
      \/ c \in {FunctionCall(n) : n \in names}
  BY DEF CallsOf
<1>b. \A n \in own : e.this # NoClass /\ n \in names
  OBVIOUS
<1> HIDE DEF own, names
<1>1. \/ \E object \in Classes, n \in names : c = MethodCall(object, n)
      \/ \E class \in Classes, n \in names : c = CeCall(class, n)
      \/ \E n \in names : c = FunctionCall(n)
      \/ e.this # NoClass /\ \E n \in names : c = ParentCall(e, n)
      \/ e.this # NoClass /\ \E n \in names : c \in {SelfCall(n), StaticCall(n)}
  BY <1>a, <1>b
<1> QED BY <1>1, MethodAnswers, CeAnswers, FunctionAnswers, ParentAnswers, OwnAnswers

\* What a call leaves in the cache is what the engine finds for the keys.
LEMMA RememberedAnswers ==
  ASSUME NEW e \in Environments, NEW c \in CallsOf(e), CacheAnswers,
         fcache' = Remembered(fcache, e, c)
  PROVE  CacheAnswers'
<1> DEFINE key == CallKey(e, c)
           found == Resolved(e, c).handler
<1>1. key # NoCallKey => found = HandlerUnder(key)
  BY CallAnswers DEF KeyAnswers
<1>2. \/ fcache' = fcache
      \/ /\ key # NoCallKey
         /\ fcache' = [k \in DOMAIN fcache \cup {key} |-> IF k = key THEN found ELSE fcache[k]]
  BY DEF Remembered
<1> HIDE DEF key, found
<1>3. \A k \in DOMAIN fcache' : fcache'[k] = HandlerUnder(k)
  BY <1>1, <1>2 DEF CacheAnswers
<1> QED BY <1>3 DEF CacheAnswers, HandlerUnder

\* A cache of such entries answers every call as the engine does.
LEMMA CacheReaches ==
  ASSUME CacheAnswers, NEW e \in Environments, NEW c \in CallsOf(e)
  PROVE  Reached(fcache, e, c) = Resolved(e, c)
<1>1. KeyAnswers(e, c)
  BY CallAnswers
<1>2. CASE ~Hits(fcache, e, c)
  BY <1>2 DEF Reached
<1>3. CASE Hits(fcache, e, c)
  <2>1. Resolved(e, c) = [handler |-> Resolved(e, c).handler, object |-> Resolved(e, c).object]
    BY DEF Resolved
  <2>2. CallKey(e, c) # NoCallKey /\ CallKey(e, c) \in DOMAIN fcache
    BY <1>3 DEF Hits
  <2>3. Resolved(e, c).handler = fcache[CallKey(e, c)] /\ Resolved(e, c).object = Populated(e, c)
    BY <1>1, <2>2 DEF CacheAnswers, KeyAnswers
  <2>4. Reached(fcache, e, c) = [handler |-> fcache[CallKey(e, c)], object |-> Populated(e, c)]
    BY <1>3 DEF Reached
  <2> QED BY <2>1, <2>3, <2>4
<1> QED BY <1>2, <1>3

-----------------------------------------------------------------------------
(* Operators.                                                              *)

\* The types of a value, and what each has for a content.
LEMMA ValueTypes ==
  ASSUME NEW op \in PhpValues
  PROVE  \/ op[1] = "null" /\ op[2] = 0
         \/ op[1] = "bool" /\ op[2] \in {0, 1}
         \/ op[1] = "long" /\ op[2] \in Int
         \/ op[1] = "double" /\ op[2] \in Int
         \/ op[1] = "resource" /\ op[2] \in Int
         \/ op[1] = "text" /\ op[2] \in STRING
         \/ op[1] = "array" /\ op[2] \in Nat
         \/ op[1] = "object" /\ op[2] = 1
BY DEF PhpValues

\* A number is halves, and turned around it is those halves turned around.
LEMMA SpelledNumber ==
  ASSUME NEW t, Numeric(t)
  PROVE  /\ Spells[t] = <<Spells[t][1], Spells[t][2]>>
         /\ Spells[t][1] \in {"long", "double"} /\ Spells[t][2] \in Int
         /\ Halves(Spells[t]) \in Int
BY SpellsAssumption DEF Numeric, Halves, Type

\* The number and the truth of a value.
LEMMA NumberTypes ==
  ASSUME NEW op \in PhpValues
  PROVE  NumberOf(op) \in Int /\ TruthOf(op) \in {0, 1}
<1>1. TruthOf(op) \in {0, 1}
  BY ValueTypes DEF TruthOf, Truth, Type
<1>2. NumberOf(op) \in Int
  BY ValueTypes, SpelledNumber DEF NumberOf, Halves, Type
<1> QED BY <1>1, <1>2

\* Values that compare are null, bools, numbers, and texts that are numbers.
LEMMA ComparableIs ==
  ASSUME NEW op \in Comparable
  PROVE  /\ op \in PhpValues
         /\ op = <<op[1], op[2]>>
         /\ NumberOf(op) \in Int
         /\ TruthOf(op) \in {0, 1}
         /\ \/ op[1] = "null" /\ op[2] = 0
            \/ op[1] = "bool" /\ op[2] \in {0, 1}
            \/ op[1] = "long" /\ op[2] \in Int
            \/ op[1] = "double" /\ op[2] \in Int
            \/ op[1] = "text" /\ Numeric(op[2])
<1>1. op \in PhpValues
  BY ValuesAssumption DEF Comparable
<1>2. op = <<op[1], op[2]>>
  BY <1>1 DEF PhpValues
<1>3. Type(op) \in {"null", "bool", "long", "double"} \/ (Type(op) = "text" /\ Numeric(op[2]))
  BY DEF Comparable
<1> QED BY <1>1, <1>2, <1>3, ValueTypes, NumberTypes DEF Type

\* Two values are compared by their truths where one is null or a bool, a null
\* with a text as a text, and all others by their numbers.
LEMMA ComparedBy ==
  ASSUME NEW op1, NEW op2
  PROVE  Compared(op1, op2) =
           IF op1[1] = "null" /\ op2[1] = "text" THEN -Truth(op2[2] # "")
           ELSE IF op1[1] = "text" /\ op2[1] = "null" THEN Truth(op1[2] # "")
           ELSE IF op1[1] \in {"null", "bool"} \/ op2[1] \in {"null", "bool"}
             THEN TruthOf(op1) - TruthOf(op2)
           ELSE NumberOf(op1) - NumberOf(op2)
<1> DEFINE types == {Type(op1), Type(op2)}
<1>1. ({"null", "bool"} \cap types # {}) <=> (op1[1] \in {"null", "bool"} \/ op2[1] \in {"null", "bool"})
  BY DEF Type
<1>2. (types = {"null", "text"}) <=> ((op1[1] = "null" /\ op2[1] = "text") \/ (op1[1] = "text" /\ op2[1] = "null"))
  BY DEF Type
<1> DEFINE truths == {"null", "bool"} \cap types # {} /\ types # {"null", "text"}
<1>3. Compared(op1, op2) =
        CASE Type(op1) = "null" /\ Type(op2) = "text" -> -Truth(op2[2] # "")
          [] Type(op1) = "text" /\ Type(op2) = "null" -> Truth(op1[2] # "")
          [] truths                                   -> TruthOf(op1) - TruthOf(op2)
          [] OTHER                                    -> NumberOf(op1) - NumberOf(op2)
  BY DEF Compared
<1>4. truths <=> /\ op1[1] \in {"null", "bool"} \/ op2[1] \in {"null", "bool"}
                 /\ ~(op1[1] = "null" /\ op2[1] = "text")
                 /\ ~(op1[1] = "text" /\ op2[1] = "null")
  BY <1>1, <1>2
<1> HIDE DEF truths
<1> QED BY <1>3, <1>4 DEF Type

\* The other way around it is the other way around.
LEMMA ComparedTurned ==
  ASSUME NEW op1 \in PhpValues, NEW op2 \in PhpValues
  PROVE  /\ Compared(op1, op2) \in Int /\ Compared(op1, op2) = -Compared(op2, op1)
         /\ Compared(op1, op2) + Compared(op2, op1) = 0
<1> DEFINE t1 == Truth(op1[2] # "")
           t2 == Truth(op2[2] # "")
<1>1. /\ NumberOf(op1) \in Int /\ TruthOf(op1) \in {0, 1}
      /\ NumberOf(op2) \in Int /\ TruthOf(op2) \in {0, 1}
  BY NumberTypes
<1>2. t1 \in {0, 1} /\ t2 \in {0, 1}
  BY DEF Truth
<1>3. Compared(op1, op2) =
        IF op1[1] = "null" /\ op2[1] = "text" THEN -t2
        ELSE IF op1[1] = "text" /\ op2[1] = "null" THEN t1
        ELSE IF op1[1] \in {"null", "bool"} \/ op2[1] \in {"null", "bool"}
          THEN TruthOf(op1) - TruthOf(op2)
        ELSE NumberOf(op1) - NumberOf(op2)
  BY ComparedBy
<1>4. Compared(op2, op1) =
        IF op2[1] = "null" /\ op1[1] = "text" THEN -t1
        ELSE IF op2[1] = "text" /\ op1[1] = "null" THEN t2
        ELSE IF op2[1] \in {"null", "bool"} \/ op1[1] \in {"null", "bool"}
          THEN TruthOf(op2) - TruthOf(op1)
        ELSE NumberOf(op2) - NumberOf(op1)
  BY ComparedBy
<1> HIDE DEF t1, t2
<1> QED BY <1>1, <1>2, <1>3, <1>4

\* Against true or false, every value compares as two variables do.
LEMMA BoolsAlike ==
  ASSUME NEW op1 \in Comparable, NEW op2 \in Comparable, op2[1] = "bool"
  PROVE  zephir_compare_strict_bool(op1, op2[2]) <=> zephir_is_equal(op1, op2)
<1>1. TruthOf(op2) = op2[2] /\ op2[2] \in {0, 1}
  BY ComparableIs DEF TruthOf, Truth, Type
<1>2. TruthOf(op1) \in {0, 1}
  BY ComparableIs
<1>3. Compared(op1, op2) = TruthOf(op1) - TruthOf(op2)
  BY ComparedBy
<1>4. zephir_is_equal(op1, op2) <=> TruthOf(op1) = op2[2]
  BY <1>1, <1>2, <1>3 DEF zephir_is_equal
<1>5. zephir_compare_strict_bool(op1, op2[2]) <=> TruthOf(op1) = op2[2]
  <2>1. CASE op1[1] \in {"long", "double"}
    BY <1>1, <2>1, ComparableIs DEF zephir_compare_strict_bool, TruthOf, Truth, Type
  <2>2. CASE op1[1] \in {"null", "bool"}
    BY <1>1, <2>2, ComparableIs DEF zephir_compare_strict_bool, TruthOf, Truth, Type
  <2>3. CASE op1[1] = "text"
    BY <1>1, <2>3 DEF zephir_compare_strict_bool, EqualToBool, Type
  <2> QED BY <2>1, <2>2, <2>3, ComparableIs
<1> QED BY <1>4, <1>5

\* So it does against a literal long, where true and false are 1 and 0,
LEMMA LongsAlike ==
  ASSUME NEW op1 \in Comparable, NEW op2 \in Comparable, op2[1] = "long",
         op1[1] = "bool" => op2[2] \in {0, 1}
  PROVE  zephir_compare_strict_long(op1, op2[2]) <=> zephir_is_equal(op1, op2)
<1> DEFINE n == op2[2]
<1>1. n \in Int
  BY ComparableIs
<1>2. NumberOf(op2) = 2 * n /\ TruthOf(op2) = IF n = 0 THEN 0 ELSE 1
  BY DEF NumberOf, TruthOf, Truth, Halves, Type
<1>3. CASE op1[1] \in {"null", "bool"}
  <2>1. Compared(op1, op2) = TruthOf(op1) - TruthOf(op2)
    BY <1>3, ComparedBy
  <2>2. TruthOf(op1) = op1[2] /\ op1[2] \in {0, 1} /\ (op1[1] = "null" => op1[2] = 0)
    BY <1>3, ComparableIs DEF TruthOf, Truth, Type
  <2>3. zephir_compare_strict_long(op1, n) <=> n = op1[2]
    BY <1>3, <2>2 DEF zephir_compare_strict_long, Type
  <2> HIDE DEF n
  <2> QED BY <1>1, <1>2, <1>3, <2>1, <2>2, <2>3 DEF zephir_is_equal, n
<1>4. CASE op1[1] \in {"long", "double", "text"}
  <2>1. Compared(op1, op2) = NumberOf(op1) - NumberOf(op2)
    BY <1>4, ComparedBy
  <2>2. NumberOf(op1) \in Int
    BY ComparableIs
  <2>3. zephir_compare_strict_long(op1, n) <=> NumberOf(op1) = 2 * n
    <3>1. CASE op1[1] \in {"long", "double"}
      BY <1>1, <3>1, ComparableIs DEF zephir_compare_strict_long, NumberOf, Halves, Type
    <3>2. CASE op1[1] = "text"
      <4>1. zephir_compare_strict_long(op1, n) <=> EqualToNumber(op1, Long(n))
        BY <3>2 DEF zephir_compare_strict_long, Type
      <4>2. Halves(Long(n)) = 2 * n
        BY DEF Halves, Long, Type
      <4> QED BY <3>2, <4>1, <4>2 DEF EqualToNumber, Type
    <3> QED BY <1>4, <3>1, <3>2
  <2> HIDE DEF n
  <2> QED BY <1>1, <1>2, <2>1, <2>2, <2>3 DEF zephir_is_equal, n
<1> QED BY <1>3, <1>4, ComparableIs

\* against a literal double that is a whole number for a long,
LEMMA DoublesAlike ==
  ASSUME NEW op1 \in Comparable, NEW op2 \in Comparable, op2[1] = "double",
         op1[1] = "bool" => op2[2] \in {0, 2}, op1[1] = "long" => op2[2] % 2 = 0
  PROVE  zephir_compare_strict_double(op1, op2[2]) <=> zephir_is_equal(op1, op2)
<1> DEFINE h == op2[2]
<1>1. h \in Int
  BY ComparableIs
<1>2. NumberOf(op2) = h /\ TruthOf(op2) = IF h = 0 THEN 0 ELSE 1
  BY DEF NumberOf, TruthOf, Truth, Halves, Type
<1>3. CASE op1[1] \in {"null", "bool"}
  <2>1. Compared(op1, op2) = TruthOf(op1) - TruthOf(op2)
    BY <1>3, ComparedBy
  <2>2. TruthOf(op1) = op1[2] /\ op1[2] \in {0, 1} /\ (op1[1] = "null" => op1[2] = 0)
    BY <1>3, ComparableIs DEF TruthOf, Truth, Type
  <2>3. zephir_compare_strict_double(op1, h) <=> h = 2 * op1[2]
    BY <1>3, <2>2 DEF zephir_compare_strict_double, Type
  <2> HIDE DEF h
  <2> QED BY <1>1, <1>2, <1>3, <2>1, <2>2, <2>3 DEF zephir_is_equal, h
<1>4. CASE op1[1] \in {"long", "double", "text"}
  <2>1. Compared(op1, op2) = NumberOf(op1) - NumberOf(op2)
    BY <1>4, ComparedBy
  <2>2. NumberOf(op1) \in Int
    BY ComparableIs
  <2>3. zephir_compare_strict_double(op1, h) <=> NumberOf(op1) = h
    <3>1. CASE op1[1] = "long"
      <4>1. 2 * Truncated(h) = h /\ Truncated(h) \in Int
        BY <1>1, <3>1 DEF Truncated
      <4>2. zephir_compare_strict_double(op1, h) <=> op1[2] = Truncated(h)
        BY <3>1 DEF zephir_compare_strict_double, Type
      <4>3. NumberOf(op1) = 2 * op1[2] /\ op1[2] \in Int
        BY <3>1, ComparableIs DEF NumberOf, Halves, Type
      <4> QED BY <4>1, <4>2, <4>3, <1>1
    <3>2. CASE op1[1] = "double"
      BY <3>2 DEF zephir_compare_strict_double, NumberOf, Halves, Type
    <3>3. CASE op1[1] = "text"
      <4>1. zephir_compare_strict_double(op1, h) <=> EqualToNumber(op1, Double(h))
        BY <3>3 DEF zephir_compare_strict_double, Type
      <4>2. Halves(Double(h)) = h
        BY DEF Halves, Double, Type
      <4> QED BY <3>3, <4>1, <4>2 DEF EqualToNumber, Type
    <3> QED BY <1>4, <3>1, <3>2, <3>3
  <2> HIDE DEF h
  <2> QED BY <1>1, <1>2, <2>1, <2>2, <2>3 DEF zephir_is_equal, h
<1> QED BY <1>3, <1>4, ComparableIs

\* and a literal text that is equal is equal for the engine.
LEMMA TextsAlike ==
  ASSUME NEW op1 \in Comparable, NEW op2 \in Comparable, op2[1] = "text",
         zephir_compare_strict_string(op1, op2[2])
  PROVE  zephir_is_equal(op1, op2)
<1>1. CASE op1[1] = "null"
  <2>1. op2[2] = ""
    BY <1>1 DEF zephir_compare_strict_string, Type
  <2> DEFINE t == Truth(op2[2] # "")
  <2>2. t = 0
    BY <2>1 DEF Truth
  <2>3. Compared(op2, op1) = t
    BY <1>1, ComparedBy
  <2> HIDE DEF t
  <2>4. Compared(op1, op2) \in Int /\ Compared(op1, op2) + Compared(op2, op1) = 0
    BY ComparableIs, ComparedTurned
  <2> QED BY <2>2, <2>3, <2>4 DEF zephir_is_equal
<1>2. CASE op1[1] = "bool"
  <2>1. op2[2] = (IF op1[2] = 0 THEN "0" ELSE "1") /\ op1[2] \in {0, 1}
    BY <1>2, ComparableIs DEF zephir_compare_strict_string, Type
  <2>2. TruthOf(op1) = op1[2] /\ TruthOf(op2) = op1[2]
    BY <1>2, <2>1 DEF TruthOf, Truth, Type
  <2>3. Compared(op1, op2) = TruthOf(op1) - TruthOf(op2)
    BY <1>2, ComparedBy
  <2> QED BY <2>1, <2>2, <2>3 DEF zephir_is_equal
<1>3. CASE op1[1] = "text"
  <2>1. op1 = op2
    BY <1>3, ComparableIs DEF zephir_compare_strict_string, Type
  <2>2. Compared(op1, op2) = NumberOf(op1) - NumberOf(op2)
    BY <1>3, ComparedBy
  <2>3. NumberOf(op1) \in Int
    BY ComparableIs
  <2> QED BY <2>1, <2>2, <2>3 DEF zephir_is_equal
<1>4. CASE op1[1] \in {"long", "double"}
  BY <1>4 DEF zephir_compare_strict_string, Type
<1> QED BY <1>1, <1>2, <1>3, <1>4, ComparableIs

\* Where both are longs the macros compare the longs, elsewhere they are the functions.
LEMMA OrdersAlike ==
  ASSUME NEW op1 \in Comparable, NEW op2 \in Comparable
  PROVE  /\ ZEPHIR_LT(op1, op2) <=> zephir_less(op1, op2)
         /\ zephir_greater_equal(op1, op2) <=> (zephir_greater(op1, op2) \/ zephir_is_equal(op1, op2))
         /\ zephir_less_equal(op1, op2) <=> zephir_greater_equal(op2, op1)
         /\ op2[1] = "long" =>
              /\ ZEPHIR_LT_LONG(op1, op2[2]) <=> zephir_less(op1, op2)
              /\ ZEPHIR_LE_LONG(op1, op2[2]) <=> zephir_less_equal(op1, op2)
              /\ ZEPHIR_GT_LONG(op1, op2[2]) <=> zephir_greater(op1, op2)
              /\ ZEPHIR_GE_LONG(op1, op2[2]) <=> zephir_greater_equal(op1, op2)
<1>1. Compared(op1, op2) \in Int /\ Compared(op2, op1) \in Int /\ Compared(op1, op2) = -Compared(op2, op1)
  BY ComparableIs, ComparedTurned
<1>2. ASSUME op1[1] = "long", op2[1] = "long"
      PROVE  Compared(op1, op2) = 2 * op1[2] - 2 * op2[2] /\ op1[2] \in Int /\ op2[2] \in Int
  <2>1. Compared(op1, op2) = NumberOf(op1) - NumberOf(op2)
    BY <1>2, ComparedBy
  <2> QED BY <1>2, <2>1, ComparableIs DEF NumberOf, Halves, Type
<1>3. ZEPHIR_LT(op1, op2) <=> zephir_less(op1, op2)
  BY <1>1, <1>2 DEF ZEPHIR_LT, BothLong, zephir_less, Type
<1>4. /\ zephir_greater_equal(op1, op2) <=> (zephir_greater(op1, op2) \/ zephir_is_equal(op1, op2))
      /\ zephir_less_equal(op1, op2) <=> zephir_greater_equal(op2, op1)
  BY <1>1 DEF zephir_greater_equal, zephir_greater, zephir_is_equal, zephir_less_equal
<1>5. ASSUME op2[1] = "long"
      PROVE  /\ ZEPHIR_LT_LONG(op1, op2[2]) <=> zephir_less(op1, op2)
             /\ ZEPHIR_LE_LONG(op1, op2[2]) <=> zephir_less_equal(op1, op2)
             /\ ZEPHIR_GT_LONG(op1, op2[2]) <=> zephir_greater(op1, op2)
             /\ ZEPHIR_GE_LONG(op1, op2[2]) <=> zephir_greater_equal(op1, op2)
  <2>1. Long(op2[2]) = op2
    BY <1>5, ComparableIs DEF Long
  <2>2. op1[1] = "long" =>
          /\ op1[2] < op2[2] <=> Compared(op1, op2) < 0
          /\ op1[2] <= op2[2] <=> Compared(op1, op2) <= 0
    BY <1>2, <1>5
  <2>3. op1[1] = "long" => (op1[2] > op2[2] <=> ~(op1[2] <= op2[2]))
    BY <1>2, <1>5
  <2> QED BY <1>1, <2>1, <2>2, <2>3
        DEF ZEPHIR_LT_LONG, ZEPHIR_LE_LONG, ZEPHIR_GT_LONG, ZEPHIR_GE_LONG, zephir_less,
            zephir_less_equal, zephir_greater, zephir_greater_equal, Type
<1> QED BY <1>3, <1>4, <1>5

\* Any two values, whatever the pair is.
LEMMA AllAlike == ComparesAlike
<1> SUFFICES ASSUME NEW op1 \in Comparable, NEW op2 \in Comparable
             PROVE
    /\ Type(op2) = "bool" =>
         (zephir_compare_strict_bool(op1, op2[2]) <=> zephir_is_equal(op1, op2))
    /\ Type(op2) = "long" /\ (Type(op1) = "bool" => op2[2] \in {0, 1}) =>
         (zephir_compare_strict_long(op1, op2[2]) <=> zephir_is_equal(op1, op2))
    /\ Type(op2) = "double" /\ (Type(op1) = "bool" => op2[2] \in {0, 2})
                            /\ (Type(op1) = "long" => op2[2] % 2 = 0) =>
         (zephir_compare_strict_double(op1, op2[2]) <=> zephir_is_equal(op1, op2))
    /\ Type(op2) = "text" =>
         (zephir_compare_strict_string(op1, op2[2]) => zephir_is_equal(op1, op2))
    /\ ZEPHIR_LT(op1, op2) <=> zephir_less(op1, op2)
    /\ zephir_greater_equal(op1, op2) <=> (zephir_greater(op1, op2) \/ zephir_is_equal(op1, op2))
    /\ zephir_less_equal(op1, op2) <=> zephir_greater_equal(op2, op1)
    /\ Type(op2) = "long" =>
         /\ ZEPHIR_LT_LONG(op1, op2[2]) <=> zephir_less(op1, op2)
         /\ ZEPHIR_LE_LONG(op1, op2[2]) <=> zephir_less_equal(op1, op2)
         /\ ZEPHIR_GT_LONG(op1, op2[2]) <=> zephir_greater(op1, op2)
         /\ ZEPHIR_GE_LONG(op1, op2[2]) <=> zephir_greater_equal(op1, op2)
  BY DEF ComparesAlike
<1> USE DEF Type
<1>1. op2[1] = "bool" => (zephir_compare_strict_bool(op1, op2[2]) <=> zephir_is_equal(op1, op2))
  BY BoolsAlike
<1>2. op2[1] = "long" /\ (op1[1] = "bool" => op2[2] \in {0, 1}) =>
         (zephir_compare_strict_long(op1, op2[2]) <=> zephir_is_equal(op1, op2))
  BY LongsAlike
<1>3. op2[1] = "double" /\ (op1[1] = "bool" => op2[2] \in {0, 2}) /\ (op1[1] = "long" => op2[2] % 2 = 0) =>
         (zephir_compare_strict_double(op1, op2[2]) <=> zephir_is_equal(op1, op2))
  BY DoublesAlike
<1>4. op2[1] = "text" => (zephir_compare_strict_string(op1, op2[2]) => zephir_is_equal(op1, op2))
  BY TextsAlike
<1> QED BY <1>1, <1>2, <1>3, <1>4, OrdersAlike

\* A value is one number however it is converted.
LEMMA OneNumber ==
  ASSUME NEW op \in PhpValues
  PROVE  /\ zephir_get_doubleval_ex(op) \in Int
         /\ zephir_get_intval_ex(op) = Truncated(zephir_get_doubleval_ex(op))
         /\ zephir_get_boolval_ex(op) = Truth(zephir_get_doubleval_ex(op) # 0)
         /\ Type(op) \in {"null", "bool", "long", "double", "array"} =>
              zephir_get_boolval_ex(op) = TruthOf(op)
<1>1. \A n \in Int : Truncated(2 * n) = n
  BY DEF Truncated
<1>2. CASE op[1] \in {"null", "bool", "long", "double", "array", "object", "resource"}
  <2>1. /\ op[1] = "null" => /\ zephir_get_doubleval_ex(op) = 0 /\ zephir_get_intval_ex(op) = 0
                             /\ zephir_get_boolval_ex(op) = 0 /\ TruthOf(op) = 0
        /\ op[1] \in {"object", "resource"} =>
             /\ zephir_get_doubleval_ex(op) = 2 /\ zephir_get_intval_ex(op) = 1
             /\ zephir_get_boolval_ex(op) = 1
    BY <1>2, ValueTypes
       DEF zephir_get_doubleval_ex, zephir_get_intval_ex, zephir_get_boolval_ex, TruthOf, Truth, Type
  <2>2. /\ op[1] = "bool" => /\ zephir_get_doubleval_ex(op) = 2 * op[2] /\ zephir_get_intval_ex(op) = op[2]
                             /\ zephir_get_boolval_ex(op) = op[2] /\ TruthOf(op) = op[2]
        /\ op[1] = "long" => /\ zephir_get_doubleval_ex(op) = 2 * op[2] /\ zephir_get_intval_ex(op) = op[2]
                             /\ zephir_get_boolval_ex(op) = Truth(op[2] # 0)
                             /\ TruthOf(op) = Truth(op[2] # 0)
    BY <1>2, ValueTypes
       DEF zephir_get_doubleval_ex, zephir_get_intval_ex, zephir_get_boolval_ex, TruthOf, Truth, Type
  <2>3. /\ op[1] = "double" => /\ zephir_get_doubleval_ex(op) = op[2]
                               /\ zephir_get_intval_ex(op) = Truncated(op[2])
                               /\ zephir_get_boolval_ex(op) = Truth(op[2] # 0)
                               /\ TruthOf(op) = Truth(op[2] # 0)
        /\ op[1] = "array" => /\ zephir_get_doubleval_ex(op) = 2 * Truth(op[2] # 0)
                              /\ zephir_get_intval_ex(op) = Truth(op[2] # 0)
                              /\ zephir_get_boolval_ex(op) = Truth(op[2] # 0)
                              /\ TruthOf(op) = Truth(op[2] # 0)
    BY <1>2, ValueTypes
       DEF zephir_get_doubleval_ex, zephir_get_intval_ex, zephir_get_boolval_ex, TruthOf, Truth, Type
  <2> QED BY <1>1, <1>2, <2>1, <2>2, <2>3, ValueTypes DEF Truth, Type
<1>3. CASE op[1] = "text" /\ Numeric(op[2])
  <2> DEFINE h == Halves(Spells[op[2]])
  <2>1. h \in Int /\ (h = 0 <=> Spells[op[2]][2] = 0)
    BY <1>3, SpelledNumber DEF Halves, Type
  <2>2. zephir_get_doubleval_ex(op) = h /\ zephir_get_intval_ex(op) = Truncated(h)
    BY <1>3 DEF zephir_get_doubleval_ex, zephir_get_intval_ex, Type
  <2>3. zephir_get_boolval_ex(op) = Truth(Spells[op[2]][2] # 0)
    BY <1>3 DEF zephir_get_boolval_ex, Type
  <2> HIDE DEF h
  <2> QED BY <1>3, <2>1, <2>2, <2>3 DEF Truth, Type
<1>4. CASE op[1] = "text" /\ ~Numeric(op[2])
  <2>1. zephir_get_doubleval_ex(op) = 0 /\ zephir_get_intval_ex(op) = 0 /\ zephir_get_boolval_ex(op) = 0
    BY <1>4 DEF zephir_get_doubleval_ex, zephir_get_intval_ex, zephir_get_boolval_ex, Type
  <2> QED BY <1>1, <1>4, <2>1 DEF Truth, Type
<1> QED BY <1>2, <1>3, <1>4, ValueTypes

\* A number turned around is a number, of so many halves below zero, and what
\* compares with it compares with its long.
LEMMA NegatedNumber ==
  ASSUME NEW op \in PhpValues, zephir_is_numeric_ex(op)
  PROVE  /\ zephir_negate(op)[1] \in {"long", "double"}
         /\ NumberOf(op) = zephir_get_doubleval_ex(op)
         /\ zephir_get_doubleval_ex(zephir_negate(op)) = -zephir_get_doubleval_ex(op)
         /\ NumberOf(zephir_negate(op)) = -NumberOf(op)
         /\ zephir_get_boolval_ex(zephir_negate(op)) = zephir_get_boolval_ex(op)
         /\ zephir_get_doubleval_ex(op) % 2 = 0 => zephir_compare_strict_long(op, zephir_get_intval_ex(op))
<1> USE DEF Type
<1>1. CASE op[1] = "long"
  <2>1. /\ op[2] \in Int /\ zephir_negate(op) = Long(-op[2])
        /\ zephir_get_doubleval_ex(op) = 2 * op[2] /\ zephir_get_intval_ex(op) = op[2]
        /\ NumberOf(op) = 2 * op[2]
    BY <1>1, ValueTypes DEF zephir_negate, zephir_get_doubleval_ex, zephir_get_intval_ex, NumberOf, Halves
  <2>2. /\ zephir_get_doubleval_ex(Long(-op[2])) = 2 * (-op[2])
        /\ NumberOf(Long(-op[2])) = 2 * (-op[2])
        /\ zephir_get_boolval_ex(Long(-op[2])) = Truth(-op[2] # 0)
    BY DEF zephir_get_doubleval_ex, zephir_get_boolval_ex, NumberOf, Halves, Long
  <2>3. zephir_get_boolval_ex(op) = Truth(op[2] # 0)
    BY <1>1 DEF zephir_get_boolval_ex
  <2>4. zephir_compare_strict_long(op, op[2])
    BY <1>1 DEF zephir_compare_strict_long
  <2>5. Truth(-op[2] # 0) = Truth(op[2] # 0)
    BY <2>1 DEF Truth
  <2>6. Long(-op[2])[1] = "long"
    BY DEF Long
  <2> QED BY <2>1, <2>2, <2>3, <2>4, <2>5, <2>6
<1>2. CASE op[1] = "double"
  <2>1. /\ op[2] \in Int /\ zephir_negate(op) = Double(-op[2])
        /\ zephir_get_doubleval_ex(op) = op[2] /\ zephir_get_intval_ex(op) = Truncated(op[2])
        /\ NumberOf(op) = op[2]
    BY <1>2, ValueTypes DEF zephir_negate, zephir_get_doubleval_ex, zephir_get_intval_ex, NumberOf, Halves
  <2>2. /\ zephir_get_doubleval_ex(Double(-op[2])) = -op[2]
        /\ NumberOf(Double(-op[2])) = -op[2]
        /\ zephir_get_boolval_ex(Double(-op[2])) = Truth(-op[2] # 0)
    BY DEF zephir_get_doubleval_ex, zephir_get_boolval_ex, NumberOf, Halves, Double
  <2>3. zephir_get_boolval_ex(op) = Truth(op[2] # 0)
    BY <1>2 DEF zephir_get_boolval_ex
  <2>4. op[2] % 2 = 0 => zephir_compare_strict_long(op, Truncated(op[2]))
    <3>1. op[2] % 2 = 0 => 2 * Truncated(op[2]) = op[2]
      BY <2>1 DEF Truncated
    <3> QED BY <1>2, <3>1 DEF zephir_compare_strict_long
  <2>5. Truth(-op[2] # 0) = Truth(op[2] # 0)
    BY <2>1 DEF Truth
  <2>6. Double(-op[2])[1] = "double"
    BY DEF Double
  <2> QED BY <2>1, <2>2, <2>3, <2>4, <2>5, <2>6
<1>3. CASE op[1] = "text" /\ Numeric(op[2])
  <2> DEFINE s == Spells[op[2]]
             h == Halves(s)
  <2>1. s[1] \in {"long", "double"} /\ s[2] \in Int /\ h \in Int
    BY <1>3, SpelledNumber
  <2>2. /\ zephir_negate(op) = <<s[1], -s[2]>> /\ zephir_get_boolval_ex(op) = Truth(s[2] # 0)
        /\ zephir_get_doubleval_ex(op) = h /\ zephir_get_intval_ex(op) = Truncated(h)
        /\ NumberOf(op) = h
    BY <1>3 DEF zephir_negate, zephir_get_doubleval_ex, zephir_get_intval_ex, zephir_get_boolval_ex, NumberOf
  <2> HIDE DEF s
  <2>3. Halves(<<s[1], -s[2]>>) = -h
    BY <2>1 DEF Halves
  <2>4. /\ zephir_get_doubleval_ex(<<s[1], -s[2]>>) = -h
        /\ NumberOf(<<s[1], -s[2]>>) = -h
        /\ zephir_get_boolval_ex(<<s[1], -s[2]>>) = Truth(-s[2] # 0)
    BY <2>1, <2>3 DEF zephir_get_doubleval_ex, NumberOf, zephir_get_boolval_ex, Halves
  <2>5. Truth(-s[2] # 0) = Truth(s[2] # 0)
    BY <2>1 DEF Truth
  <2>6. h % 2 = 0 => zephir_compare_strict_long(op, Truncated(h))
    <3> HIDE DEF h
    <3>1. h % 2 = 0 => 2 * Truncated(h) = h
      BY <2>1 DEF Truncated
    <3>2. \A n : Halves(Long(n)) = 2 * n
      BY DEF Halves, Long
    <3>3. zephir_compare_strict_long(op, Truncated(h)) <=> EqualToNumber(op, Long(Truncated(h)))
      BY <1>3 DEF zephir_compare_strict_long
    <3>4. EqualToNumber(op, Long(Truncated(h))) <=> NumberOf(op) = Halves(Long(Truncated(h)))
      BY <1>3 DEF EqualToNumber
    <3> QED BY <2>2, <3>1, <3>2, <3>3, <3>4
  <2>7. <<s[1], -s[2]>>[1] = s[1]
    OBVIOUS
  <2> HIDE DEF h
  <2> QED BY <2>1, <2>2, <2>4, <2>5, <2>6, <2>7
<1> QED BY <1>1, <1>2, <1>3 DEF zephir_is_numeric_ex

\* Numbers compare turned around once both are negated.
LEMMA NegatedCompare ==
  ASSUME NEW op1 \in PhpValues, NEW op2 \in PhpValues,
         zephir_is_numeric_ex(op1), zephir_is_numeric_ex(op2)
  PROVE  zephir_less(op1, op2) <=> zephir_greater(zephir_negate(op1), zephir_negate(op2))
<1> DEFINE m1 == zephir_negate(op1)
           m2 == zephir_negate(op2)
<1>1. /\ m1[1] \in {"long", "double"} /\ NumberOf(m1) = -NumberOf(op1)
      /\ m2[1] \in {"long", "double"} /\ NumberOf(m2) = -NumberOf(op2)
  BY NegatedNumber
<1>2. op1[1] \in {"long", "double", "text"} /\ op2[1] \in {"long", "double", "text"}
  BY DEF zephir_is_numeric_ex, Type
<1>3. Compared(op1, op2) = NumberOf(op1) - NumberOf(op2)
  BY <1>2, ComparedBy
<1> HIDE DEF m1, m2
<1>4. Compared(m1, m2) = NumberOf(m1) - NumberOf(m2)
  BY <1>1, ComparedBy
<1>5. NumberOf(op1) \in Int /\ NumberOf(op2) \in Int
  BY NumberTypes
<1>6. zephir_less(op1, op2) <=> zephir_greater(m1, m2)
  BY <1>1, <1>3, <1>4, <1>5 DEF zephir_less, zephir_greater
<1> QED BY <1>6 DEF m1, m2

\* The pair is two operands.
PairGiven == pair = <<>> \/ pair \in Operands \X Operands

\* Whatever the operands are, they convert alike.
LEMMA PairConverts ==
  ASSUME PairGiven
  PROVE  ConvertsAlike
<1> SUFFICES ASSUME pair # <<>> PROVE ConvertsAlike
  BY DEF ConvertsAlike
<1> DEFINE op1 == pair[1]
           op2 == pair[2]
<1>1. op1 \in PhpValues /\ op2 \in PhpValues
  BY ValuesAssumption DEF PairGiven
<1> HIDE DEF op1, op2
<1>2. /\ zephir_get_intval_ex(op1) = Truncated(zephir_get_doubleval_ex(op1))
      /\ zephir_get_boolval_ex(op1) = Truth(zephir_get_doubleval_ex(op1) # 0)
      /\ Type(op1) \in {"null", "bool", "long", "double", "array"} =>
           zephir_get_boolval_ex(op1) = TruthOf(op1)
  BY <1>1, OneNumber
<1>3. zephir_is_numeric_ex(op1) =>
        /\ zephir_get_boolval_ex(op1) = zephir_get_boolval_ex(zephir_negate(op1))
        /\ zephir_get_doubleval_ex(op1) % 2 = 0 =>
             zephir_compare_strict_long(op1, zephir_get_intval_ex(op1))
        /\ zephir_get_doubleval_ex(zephir_negate(op1)) = -zephir_get_doubleval_ex(op1)
  BY <1>1, NegatedNumber
<1>4. zephir_is_numeric_ex(op1) /\ zephir_is_numeric_ex(op2) =>
        (zephir_less(op1, op2) <=> zephir_greater(zephir_negate(op1), zephir_negate(op2)))
  BY <1>1, NegatedCompare
<1> QED BY <1>2, <1>3, <1>4 DEF ConvertsAlike, op1, op2

-----------------------------------------------------------------------------
(* Arrays.                                                                 *)

\* The texts; that the empty one is a string the provers must be told.
TextSet == STRING \cup {""}

ArrayKeySet == ({"long"} \X Int) \cup ({"text"} \X TextSet)
BucketsOf(V) == [key : ArrayKeySet, value : V]

\* An array of values of V: no key stands twice in it, and the next is free.
KeysDiffer(a) == \A i, j \in 1 .. Len(a.buckets) : a.buckets[i].key = a.buckets[j].key => i = j
NextFree(a) ==
  \A i \in 1 .. Len(a.buckets) : a.buckets[i].key[1] = "long" => a.buckets[i].key[2] < a.next
IsArray(a, V) ==
  /\ a \in [buckets : Seq(BucketsOf(V)), next : Nat]
  /\ KeysDiffer(a) /\ NextFree(a)

\* An empty array is one.
LEMMA EmptyIsArray ==
  ASSUME NEW V
  PROVE  IsArray(EmptyArray, V)
<1>1. <<>> \in Seq(BucketsOf(V)) /\ Len(<<>>) = 0
  BY EmptySeq
<1> QED BY <1>1 DEF IsArray, EmptyArray, KeysDiffer, NextFree

\* The parts of an array.
LEMMA ArrayParts ==
  ASSUME NEW V, NEW a, IsArray(a, V)
  PROVE  /\ a.buckets \in Seq(BucketsOf(V)) /\ a.next \in Nat
         /\ Len(a.buckets) \in Nat /\ DOMAIN a.buckets = 1 .. Len(a.buckets)
         /\ a = [buckets |-> a.buckets, next |-> a.next]
         /\ \A i \in 1 .. Len(a.buckets) :
              /\ a.buckets[i] \in BucketsOf(V)
              /\ a.buckets[i] = [key |-> a.buckets[i].key, value |-> a.buckets[i].value]
              /\ a.buckets[i].key \in ArrayKeySet /\ a.buckets[i].value \in V
<1>1. a.buckets \in Seq(BucketsOf(V)) /\ a.next \in Nat /\ a = [buckets |-> a.buckets, next |-> a.next]
  BY DEF IsArray
<1>2. /\ Len(a.buckets) \in Nat /\ DOMAIN a.buckets = 1 .. Len(a.buckets)
      /\ \A i \in 1 .. Len(a.buckets) : a.buckets[i] \in BucketsOf(V)
  BY <1>1, LenProperties, ElementOfSeq
<1>3. \A b \in BucketsOf(V) :
        b = [key |-> b.key, value |-> b.value] /\ b.key \in ArrayKeySet /\ b.value \in V
  BY DEF BucketsOf
<1> QED BY <1>1, <1>2, <1>3

\* A key is text or a number.
LEMMA KeyKinds ==
  ASSUME NEW k \in ArrayKeySet
  PROVE  /\ \/ k[1] = "long" /\ k[2] \in Int /\ k = Long(k[2])
            \/ k[1] = "text" /\ k[2] \in TextSet /\ k = Text(k[2])
         /\ k # NoKey
BY DEF ArrayKeySet, Long, Text, NoKey

\* The element of a key, and what is told of it.
LEMMA FoundAt ==
  ASSUME NEW V, NEW a, IsArray(a, V)
  PROVE  /\ \A i \in 1 .. Len(a.buckets) :
              /\ a.buckets[i].key \in Keys(a)
              /\ At(a, a.buckets[i].key) = i
              /\ Found(a, a.buckets[i].key) = a.buckets[i].value
         /\ \A k : k \notin Keys(a) => Found(a, k) = Absent
         /\ \A k \in Keys(a) : k \in ArrayKeySet /\ \E i \in 1 .. Len(a.buckets) : k = a.buckets[i].key
<1>1. /\ DOMAIN a.buckets = 1 .. Len(a.buckets)
      /\ \A i \in 1 .. Len(a.buckets) : a.buckets[i].key \in ArrayKeySet
  BY ArrayParts
<1>2. \A i, j \in 1 .. Len(a.buckets) : a.buckets[i].key = a.buckets[j].key => i = j
  BY DEF IsArray, KeysDiffer
<1>3. ASSUME NEW i \in 1 .. Len(a.buckets)
      PROVE  /\ a.buckets[i].key \in Keys(a)
             /\ At(a, a.buckets[i].key) = i
  BY <1>1, <1>2 DEF Keys, At
<1>4. ASSUME NEW i \in 1 .. Len(a.buckets)
      PROVE  Found(a, a.buckets[i].key) = a.buckets[i].value
  BY <1>3 DEF Found
<1>5. \A k : k \notin Keys(a) => Found(a, k) = Absent
  BY DEF Found
<1>6. \A k \in Keys(a) : k \in ArrayKeySet /\ \E i \in 1 .. Len(a.buckets) : k = a.buckets[i].key
  BY <1>1 DEF Keys
<1> QED BY <1>3, <1>4, <1>5, <1>6

\* What is put under a key is found under it, and nothing else changes.
Puts(b, a, key, value) ==
  /\ Keys(b) = Keys(a) \cup {key}
  /\ \A k : Found(b, k) = IF k = key THEN value ELSE Found(a, k)

\* A key that is there keeps its place.
LEMMA PutOver ==
  ASSUME NEW V, NEW a, IsArray(a, V), NEW key \in Keys(a), NEW value \in V
  PROVE  IsArray(Put(a, key, value), V) /\ Puts(Put(a, key, value), a, key, value)
<1> DEFINE b == Put(a, key, value)
           n == Len(a.buckets)
<1>1. PICK i \in 1 .. n : key = a.buckets[i].key /\ At(a, key) = i
  BY FoundAt
<1>2. b = [a EXCEPT !.buckets[i].value = value]
  BY <1>1 DEF Put
<1> DEFINE e == [a.buckets[i] EXCEPT !.value = value]
<1>3. b.buckets = [a.buckets EXCEPT ![i] = e] /\ b.next = a.next /\ b = [buckets |-> b.buckets, next |-> b.next]
  BY <1>2, ArrayParts
<1>4. e \in BucketsOf(V) /\ e.key = key /\ e.value = value
  <2> DEFINE o == a.buckets[i]
  <2>a. o = [key |-> key, value |-> o.value]
    BY <1>1, ArrayParts
  <2>1. e = [key |-> key, value |-> value]
    <3> HIDE DEF o
    <3>1. [o EXCEPT !.value = value] = [key |-> key, value |-> value]
      BY <2>a
    <3> QED BY <3>1 DEF o
  <2>2. key \in ArrayKeySet
    BY FoundAt
  <2> HIDE DEF e
  <2> QED BY <2>1, <2>2 DEF BucketsOf
<1> HIDE DEF b, e
<1>5. /\ b.buckets \in Seq(BucketsOf(V)) /\ Len(b.buckets) = n
      /\ \A j \in 1 .. n : b.buckets[j] = IF j = i THEN e ELSE a.buckets[j]
  <2>1. a.buckets \in Seq(BucketsOf(V))
    BY ArrayParts
  <2> DEFINE s == a.buckets
  <2> HIDE DEF s
  <2>2. /\ [s EXCEPT ![i] = e] \in Seq(BucketsOf(V)) /\ Len([s EXCEPT ![i] = e]) = Len(s)
        /\ \A j \in 1 .. Len(s) : [s EXCEPT ![i] = e][j] = IF j = i THEN e ELSE s[j]
    BY <2>1, <1>1, <1>4, ExceptSeq DEF s
  <2> QED BY <2>2, <1>3 DEF s
<1>6. \A j \in 1 .. n : b.buckets[j].key = a.buckets[j].key
  BY <1>1, <1>4, <1>5
<1>7. IsArray(b, V)
  <2>1. a.next \in Nat /\ KeysDiffer(a) /\ NextFree(a)
    BY DEF IsArray
  <2>2. KeysDiffer(b) /\ NextFree(b)
    BY <2>1, <1>3, <1>5, <1>6 DEF KeysDiffer, NextFree
  <2> QED BY <2>1, <2>2, <1>3, <1>5 DEF IsArray
<1>8. Keys(b) = Keys(a)
  <2>1. DOMAIN a.buckets = 1 .. n /\ DOMAIN b.buckets = 1 .. n
    BY <1>5, <1>7, ArrayParts
  <2> QED BY <2>1, <1>6 DEF Keys
<1>9. ASSUME NEW k
      PROVE  Found(b, k) = IF k = key THEN value ELSE Found(a, k)
  <2>1. CASE k \notin Keys(a)
    BY <2>1, <1>8 DEF Found
  <2>2. CASE k \in Keys(a)
    <3>1. PICK j \in 1 .. n : k = a.buckets[j].key /\ Found(a, k) = a.buckets[j].value
      BY <2>2, FoundAt
    <3>2. Found(b, k) = b.buckets[j].value
      BY <3>1, <1>5, <1>6, <1>7, FoundAt
    <3>3. k = key <=> j = i
      BY <3>1, <1>1 DEF IsArray, KeysDiffer
    <3> QED BY <3>1, <3>2, <3>3, <1>4, <1>5
  <2> QED BY <2>1, <2>2
<1>10. Puts(b, a, key, value)
  BY <1>8, <1>9 DEF Puts
<1> QED BY <1>7, <1>10 DEF b

\* A key that is not there is the last.
LEMMA PutLast ==
  ASSUME NEW V, NEW a, IsArray(a, V), NEW key \in ArrayKeySet, key \notin Keys(a), NEW value \in V
  PROVE  /\ IsArray(Put(a, key, value), V)
         /\ Puts(Put(a, key, value), a, key, value)
         /\ Put(a, key, value).buckets = Append(a.buckets, Bucket(key, value))
<1> DEFINE b == Put(a, key, value)
           n == Len(a.buckets)
           e == Bucket(key, value)
           next == IF key[1] = "long" /\ key[2] >= a.next THEN key[2] + 1 ELSE a.next
<1>1. b = [buckets |-> Append(a.buckets, e), next |-> next]
  BY DEF Put
<1>2. e \in BucketsOf(V) /\ e.key = key /\ e.value = value
  BY DEF BucketsOf, Bucket
<1>3. next \in Nat /\ next >= a.next /\ (key[1] = "long" => key[2] < next)
  BY KeyKinds, ArrayParts
<1> HIDE DEF e, next
<1>4. b.buckets = Append(a.buckets, e) /\ b.next = next
  BY <1>1
<1> HIDE DEF b
<1>5. /\ b.buckets \in Seq(BucketsOf(V)) /\ Len(b.buckets) = n + 1
      /\ \A j \in 1 .. n : b.buckets[j] = a.buckets[j]
      /\ b.buckets[n + 1] = e
  <2>1. a.buckets \in Seq(BucketsOf(V))
    BY ArrayParts
  <2> DEFINE s == a.buckets
  <2> HIDE DEF s
  <2>2. /\ Append(s, e) \in Seq(BucketsOf(V)) /\ Len(Append(s, e)) = Len(s) + 1
        /\ \A j \in 1 .. Len(s) : Append(s, e)[j] = s[j]
        /\ Append(s, e)[Len(s) + 1] = e
    BY <2>1, <1>2, AppendProperties DEF s
  <2> QED BY <2>2, <1>4 DEF s
<1>6. n \in Nat /\ \A j \in 1 .. n : a.buckets[j].key # key
  BY ArrayParts, FoundAt
<1>7. IsArray(b, V)
  <2>1. a.next \in Nat /\ KeysDiffer(a) /\ NextFree(a)
    BY DEF IsArray
  <2>2. KeysDiffer(b)
    <3> SUFFICES ASSUME NEW i \in 1 .. n + 1, NEW j \in 1 .. n + 1, b.buckets[i].key = b.buckets[j].key
                 PROVE  i = j
      BY <1>5 DEF KeysDiffer
    <3>1. CASE i \in 1 .. n /\ j \in 1 .. n
      BY <3>1, <2>1, <1>5 DEF KeysDiffer
    <3>2. CASE i = n + 1 /\ j \in 1 .. n
      BY <3>2, <1>2, <1>5, <1>6
    <3>3. CASE j = n + 1 /\ i \in 1 .. n
      BY <3>3, <1>2, <1>5, <1>6
    <3> QED BY <3>1, <3>2, <3>3, <1>6
  <2>3. NextFree(b)
    <3> SUFFICES ASSUME NEW i \in 1 .. n + 1, b.buckets[i].key[1] = "long"
                 PROVE  b.buckets[i].key[2] < next
      BY <1>4, <1>5 DEF NextFree
    <3>1. CASE i \in 1 .. n
      <4>1. b.buckets[i] = a.buckets[i]
        BY <3>1, <1>5
      <4>2. a.buckets[i].key[1] = "long" /\ a.buckets[i].key \in ArrayKeySet
        BY <3>1, <4>1, ArrayParts
      <4>3. a.buckets[i].key[2] \in Int
        BY <4>2, KeyKinds
      <4>4. a.buckets[i].key[2] < a.next
        BY <3>1, <4>2, <2>1 DEF NextFree
      <4> QED BY <4>1, <4>3, <4>4, <1>3, <2>1
    <3>2. CASE i = n + 1
      BY <3>2, <1>2, <1>3, <1>5
    <3> QED BY <3>1, <3>2, <1>6
  <2> QED BY <2>1, <2>2, <2>3, <1>1, <1>3, <1>4, <1>5 DEF IsArray, b
<1>8. DOMAIN a.buckets = 1 .. n /\ DOMAIN b.buckets = 1 .. n + 1
  BY <1>5, <1>7, ArrayParts
<1>9. Keys(b) = Keys(a) \cup {key}
  <2>1. ASSUME NEW k
        PROVE  k \in Keys(b) <=> \E j \in 1 .. n + 1 : k = b.buckets[j].key
    BY <1>8 DEF Keys
  <2>2. ASSUME NEW k
        PROVE  k \in Keys(a) <=> \E j \in 1 .. n : k = b.buckets[j].key
    BY <1>5, <1>8 DEF Keys
  <2>3. 1 .. n + 1 = (1 .. n) \cup {n + 1} /\ b.buckets[n + 1].key = key
    BY <1>2, <1>5, <1>6
  <2> QED BY <2>1, <2>2, <2>3
<1>10. ASSUME NEW k
       PROVE  Found(b, k) = IF k = key THEN value ELSE Found(a, k)
  <2>1. CASE k \notin Keys(a) /\ k # key
    BY <2>1, <1>9 DEF Found
  <2>2. CASE k \in Keys(a)
    <3>1. PICK j \in 1 .. n : k = a.buckets[j].key /\ Found(a, k) = a.buckets[j].value
      BY <2>2, FoundAt
    <3>2. j \in 1 .. n + 1 /\ b.buckets[j] = a.buckets[j]
      BY <1>5, <1>6
    <3>3. Found(b, k) = b.buckets[j].value
      BY <3>1, <3>2, <1>5, <1>7, FoundAt
    <3> QED BY <3>1, <3>2, <3>3, <1>6
  <2>3. CASE k = key
    <3>1. n + 1 \in 1 .. n + 1
      BY <1>6
    <3> QED BY <2>3, <3>1, <1>2, <1>5, <1>7, FoundAt
  <2> QED BY <2>1, <2>2, <2>3
<1>11. Puts(b, a, key, value)
  BY <1>9, <1>10 DEF Puts
<1> QED BY <1>4, <1>7, <1>11 DEF b, e

\* A key that is put is found with its value, and nothing else changes.
LEMMA PutIs ==
  ASSUME NEW V, NEW a, IsArray(a, V), NEW key \in ArrayKeySet, NEW value \in V
  PROVE  IsArray(Put(a, key, value), V) /\ Puts(Put(a, key, value), a, key, value)
BY PutOver, PutLast

\* A value that is pushed is the last, under the next number.
LEMMA PushedIs ==
  ASSUME NEW V, NEW a, IsArray(a, V), NEW value \in V
  PROVE  /\ IsArray(Pushed(a, value), V)
         /\ Puts(Pushed(a, value), a, Long(a.next), value)
         /\ Pushed(a, value).buckets = Append(a.buckets, Bucket(Long(a.next), value))
         /\ Pushed(a, value).next = a.next + 1
<1>1. Long(a.next) \in ArrayKeySet /\ Long(a.next)[1] = "long" /\ Long(a.next)[2] = a.next
      /\ a.next \in Nat
  BY ArrayParts DEF ArrayKeySet, Long
<1>2. Long(a.next) \notin Keys(a)
  <2> SUFFICES ASSUME NEW i \in 1 .. Len(a.buckets), a.buckets[i].key = Long(a.next)
               PROVE  FALSE
    BY FoundAt
  <2>1. NextFree(a)
    BY DEF IsArray
  <2> QED BY <2>1, <1>1 DEF NextFree
<1>3. Put(a, Long(a.next), value).next = a.next + 1
  BY <1>1, <1>2 DEF Put
<1> QED BY <1>1, <1>2, <1>3, PutLast DEF Pushed

\* What is deleted is found no more, and nothing else changes.
Deletes(b, a, key) ==
  /\ Keys(b) = Keys(a) \ {key}
  /\ \A k : Found(b, k) = IF k = key THEN Absent ELSE Found(a, k)

\* A key that is deleted is in the array no more.
LEMMA DeletedIs ==
  ASSUME NEW V, NEW a, IsArray(a, V), NEW key
  PROVE  IsArray(Deleted(a, key), V) /\ Deletes(Deleted(a, key), a, key)
<1>1. CASE key \notin Keys(a)
  <2>1. Deleted(a, key) = a
    BY <1>1 DEF Deleted
  <2>2. Deletes(a, a, key)
    BY <1>1, FoundAt DEF Deletes
  <2> QED BY <2>1, <2>2
<1>2. CASE key \in Keys(a)
  <2> DEFINE b == Deleted(a, key)
             n == Len(a.buckets)
  <2>1. PICK i \in 1 .. n : key = a.buckets[i].key /\ At(a, key) = i
    BY <1>2, FoundAt
  <2>2. b = [a EXCEPT !.buckets = RemoveAt(a.buckets, i)]
    BY <1>2, <2>1 DEF Deleted
  <2> DEFINE r == RemoveAt(a.buckets, i)
  <2>3. b = [buckets |-> r, next |-> a.next]
    <3> HIDE DEF r
    <3>1. [a EXCEPT !.buckets = r] = [buckets |-> r, next |-> a.next]
      BY ArrayParts
    <3> QED BY <2>2, <3>1 DEF r
  <2>4. /\ r \in Seq(BucketsOf(V)) /\ Len(r) = n - 1
        /\ \A j \in 1 .. n - 1 : r[j] = IF j < i THEN a.buckets[j] ELSE a.buckets[j + 1]
    BY <2>1, ArrayParts, RemoveAtIs
  <2> HIDE DEF b, r
  <2>5. b.buckets = r /\ b.next = a.next
    BY <2>3
  <2>6. n \in Nat /\ KeysDiffer(a) /\ NextFree(a) /\ a.next \in Nat
    BY ArrayParts DEF IsArray
  <2>7. IsArray(b, V)
    <3>1. KeysDiffer(b)
      <4> SUFFICES ASSUME NEW j \in 1 .. n - 1, NEW m \in 1 .. n - 1, r[j].key = r[m].key
                   PROVE  j = m
        BY <2>4, <2>5 DEF KeysDiffer
      <4>1. PICK x \in 1 .. n : x = (IF j < i THEN j ELSE j + 1) /\ r[j] = a.buckets[x]
        BY <2>4, <2>6
      <4>2. PICK y \in 1 .. n : y = (IF m < i THEN m ELSE m + 1) /\ r[m] = a.buckets[y]
        BY <2>4, <2>6
      <4>3. x = y
        BY <4>1, <4>2, <2>6 DEF KeysDiffer
      <4> QED BY <4>1, <4>2, <4>3, <2>6
    <3>2. NextFree(b)
      <4> SUFFICES ASSUME NEW j \in 1 .. n - 1, r[j].key[1] = "long"
                   PROVE  r[j].key[2] < a.next
        BY <2>4, <2>5 DEF NextFree
      <4>1. PICK x \in 1 .. n : r[j] = a.buckets[x]
        BY <2>4, <2>6
      <4> QED BY <4>1, <2>6 DEF NextFree
    <3> QED BY <3>1, <3>2, <2>3, <2>4, <2>6 DEF IsArray, b
  <2>8. \A j \in 1 .. n - 1 : r[j].key # key
    <3> SUFFICES ASSUME NEW j \in 1 .. n - 1, r[j].key = key PROVE FALSE
      OBVIOUS
    <3>1. PICK x \in 1 .. n : x = (IF j < i THEN j ELSE j + 1) /\ r[j] = a.buckets[x]
      BY <2>4, <2>6
    <3>2. x = i
      BY <3>1, <2>1, <2>6 DEF KeysDiffer
    <3> QED BY <3>1, <3>2, <2>1
  <2>9. \A x \in 1 .. n : x # i => \E j \in 1 .. n - 1 : r[j] = a.buckets[x]
    <3> SUFFICES ASSUME NEW x \in 1 .. n, x # i PROVE \E j \in 1 .. n - 1 : r[j] = a.buckets[x]
      OBVIOUS
    <3>1. CASE x < i
      <4>1. x \in 1 .. n - 1 /\ r[x] = a.buckets[x]
        BY <3>1, <2>1, <2>4, <2>6
      <4> QED BY <4>1
    <3>2. CASE x > i
      <4>1. x - 1 \in 1 .. n - 1 /\ r[x - 1] = a.buckets[x]
        BY <3>2, <2>1, <2>4, <2>6
      <4> QED BY <4>1
    <3> QED BY <3>1, <3>2
  <2>10. \A j \in 1 .. n - 1 : \E x \in 1 .. n : r[j] = a.buckets[x]
    BY <2>4, <2>6
  <2>11. Keys(b) = Keys(a) \ {key}
    <3>1. DOMAIN a.buckets = 1 .. n /\ DOMAIN b.buckets = 1 .. n - 1
      BY <2>4, <2>5, <2>7, ArrayParts
    <3>2. ASSUME NEW k
          PROVE  k \in Keys(b) <=> \E j \in 1 .. n - 1 : k = r[j].key
      BY <2>5, <3>1 DEF Keys
    <3>3. ASSUME NEW k
          PROVE  k \in Keys(a) <=> \E x \in 1 .. n : k = a.buckets[x].key
      BY <3>1 DEF Keys
    <3>4. ASSUME NEW k \in Keys(b) PROVE k \in Keys(a) /\ k # key
      BY <3>2, <3>3, <2>8, <2>10
    <3>5. ASSUME NEW k \in Keys(a), k # key PROVE k \in Keys(b)
      <4>1. PICK x \in 1 .. n : k = a.buckets[x].key
        BY <3>3
      <4>2. PICK j \in 1 .. n - 1 : r[j] = a.buckets[x]
        BY <4>1, <3>5, <2>1, <2>9
      <4> QED BY <4>1, <4>2, <3>2
    <3> QED BY <3>4, <3>5
  <2>12. ASSUME NEW k
         PROVE  Found(b, k) = IF k = key THEN Absent ELSE Found(a, k)
    <3>1. CASE k \notin Keys(b)
      <4>1. Found(b, k) = Absent
        BY <3>1 DEF Found
      <4>2. k # key => Found(a, k) = Absent
        BY <3>1, <2>11 DEF Found
      <4> QED BY <4>1, <4>2
    <3>2. CASE k \in Keys(b)
      <4>1. PICK j \in 1 .. n - 1 : k = r[j].key /\ Found(b, k) = r[j].value
        BY <3>2, <2>4, <2>5, <2>7, FoundAt
      <4>2. PICK x \in 1 .. n : r[j] = a.buckets[x]
        BY <2>10
      <4>3. Found(a, k) = a.buckets[x].value
        BY <4>1, <4>2, FoundAt
      <4> QED BY <4>1, <4>2, <4>3, <2>8
    <3> QED BY <3>1, <3>2
  <2>13. Deletes(b, a, key)
    BY <2>11, <2>12 DEF Deletes
  <2> QED BY <2>7, <2>13 DEF b
<1> QED BY <1>1, <1>2

\* hash.c finds along the chain of a slot what the engine finds.
LEMMA ChainFinds ==
  ASSUME NEW V, NEW a, IsArray(a, V), NEW t \in TextSet
  PROVE  /\ HashFind(a, t) = Found(a, Text(t))
         /\ HashExists(a, t) <=> Text(t) \in Keys(a)
<1> DEFINE n == Len(a.buckets)
           same == {i \in Chain(a, HashOf[t]) :
                      LET key == a.buckets[i].key
                      IN  key[1] = "text" /\ Hash(key) = HashOf[t] /\ key[2] = t}
<1>1. DOMAIN a.buckets = 1 .. n /\ n \in Nat /\ \A i \in 1 .. n : a.buckets[i].key \in ArrayKeySet
  BY ArrayParts
<1>2. Text(t)[1] = "text" /\ Text(t)[2] = t
  BY DEF Text
<1>3. Hash(Text(t)) = HashOf[t]
  BY <1>2 DEF Hash
<1>4. same = {i \in 1 .. n : a.buckets[i].key = Text(t)}
  <2>1. ASSUME NEW i \in 1 .. n, a.buckets[i].key = Text(t)
        PROVE  i \in same
    BY <2>1, <1>1, <1>2, <1>3 DEF Chain
  <2>2. ASSUME NEW i \in same
        PROVE  i \in 1 .. n /\ a.buckets[i].key = Text(t)
    <3>1. i \in 1 .. n /\ a.buckets[i].key[1] = "text" /\ a.buckets[i].key[2] = t
      BY <1>1 DEF Chain
    <3>2. a.buckets[i].key = Text(a.buckets[i].key[2])
      <4>1. a.buckets[i].key \in ArrayKeySet
        BY <3>1, <1>1
      <4> HIDE DEF same
      <4> QED BY <3>1, <4>1, KeyKinds
    <3> QED BY <3>1, <3>2
  <2> HIDE DEF same
  <2> QED BY <2>1, <2>2
<1>5. HashFind(a, t) = IF same = {} THEN Absent ELSE a.buckets[Min(same)].value
  BY DEF HashFind
<1>6. HashExists(a, t) <=> same # {}
  BY DEF HashExists
<1> HIDE DEF same
<1>7. CASE same = {}
  <2>1. Text(t) \notin Keys(a)
    BY <1>4, <1>7, FoundAt
  <2> QED BY <1>5, <1>6, <1>7, <2>1, FoundAt
<1>8. CASE same # {}
  <2>1. Min(same) \in same
    <3>1. same \in SUBSET Nat
      BY <1>4
    <3> QED BY <3>1, <1>8, MinIs
  <2>2. Min(same) \in 1 .. n /\ a.buckets[Min(same)].key = Text(t)
    BY <2>1, <1>4
  <2>3. Text(t) \in Keys(a) /\ Found(a, Text(t)) = a.buckets[Min(same)].value
    BY <2>2, FoundAt
  <2> QED BY <1>5, <1>6, <1>8, <2>3
<1> QED BY <1>7, <1>8

-----------------------------------------------------------------------------
(* What is stored is found.                                                *)

\* A text is a key, or the number it spells is.
LEMMA SymbolKeyIs ==
  ASSUME NEW t \in TextSet
  PROVE  /\ SymbolKey(t) \in ArrayKeySet
         /\ t \notin DOMAIN KeyNumber => SymbolKey(t) = Text(t)
BY KeyNumberAssumption DEF SymbolKey, ArrayKeySet, TextSet, Long, Text

\* Every function turns an index into the key it means.
LEMMA MeantIs ==
  ASSUME NEW index \in PhpValues
  PROVE  /\ Meant(index) \in ArrayKeySet \/ Meant(index) = NoKey
         /\ UpdateKey(index) = Meant(index)
         /\ index[1] = "null" => Meant(index) = Text("")
         /\ index[1] = "text" => Meant(index) = SymbolKey(index[2]) /\ index[2] \in TextSet
         /\ index[1] \notin {"null", "text"} => Number(index) = Meant(index)
         /\ index[1] # "null" => HashKey(index) = Meant(index)
         /\ index[1] \in {"long", "text", "null"} => ExistsKey(index) = Meant(index)
         /\ index[1] = "long" => Meant(index) = Long(index[2])
<1> USE DEF Meant
<1>1. \A n \in Int : Long(n) \in ArrayKeySet /\ Truncated(n) \in Int
  BY DEF ArrayKeySet, Long, Truncated
<1>2. CASE index[1] = "null"
  <2>1. Meant(index) = Text("") /\ UpdateKey(index) = SymbolKey("") /\ ExistsKey(index) = Text("")
    BY <1>2 DEF UpdateKey, ExistsKey
  <2>2. Text("") \in ArrayKeySet /\ SymbolKey("") = Text("")
    BY KeyNumberAssumption DEF SymbolKey, ArrayKeySet, TextSet, Text
  <2> QED BY <1>2, <2>1, <2>2
<1>3. CASE index[1] = "text"
  <2>1. /\ Meant(index) = SymbolKey(index[2]) /\ UpdateKey(index) = SymbolKey(index[2])
        /\ HashKey(index) = SymbolKey(index[2]) /\ ExistsKey(index) = SymbolKey(index[2])
        /\ index[2] \in TextSet
    BY <1>3, ValueTypes DEF UpdateKey, HashKey, ExistsKey, TextSet
  <2> QED BY <1>3, <2>1, SymbolKeyIs
<1>4. CASE index[1] \in {"long", "bool", "resource"}
  <2>1. Meant(index) = Long(index[2]) /\ index[2] \in Int
    BY <1>4, ValueTypes
  <2>2. Number(index) = Long(index[2])
    BY <1>4 DEF Number
  <2>3. UpdateKey(index) = Number(index) /\ HashKey(index) = Number(index)
    BY <1>4 DEF UpdateKey, HashKey
  <2>4. index[1] = "long" => ExistsKey(index) = Long(index[2])
    BY DEF ExistsKey
  <2> HIDE DEF Meant
  <2> QED BY <1>1, <1>4, <2>1, <2>2, <2>3, <2>4
<1>5. CASE index[1] = "double"
  <2>1. /\ Meant(index) = Long(Truncated(index[2])) /\ Number(index) = Long(Truncated(index[2]))
        /\ UpdateKey(index) = Number(index) /\ HashKey(index) = Number(index)
        /\ index[2] \in Int
    BY <1>5, ValueTypes DEF UpdateKey, HashKey, Number
  <2> QED BY <1>1, <1>5, <2>1
<1>6. CASE index[1] \in {"array", "object"}
  <2>1. /\ Meant(index) = NoKey /\ Number(index) = NoKey
        /\ UpdateKey(index) = Number(index) /\ HashKey(index) = Number(index)
    BY <1>6 DEF UpdateKey, HashKey, Number
  <2> QED BY <1>6, <2>1
<1> QED BY <1>2, <1>3, <1>4, <1>5, <1>6, ValueTypes

\* A key of an array finds a value, any other none.
LEMMA KeysFind ==
  ASSUME NEW V, Absent \notin V, NEW a, IsArray(a, V), NEW k
  PROVE  /\ k \in Keys(a) <=> Found(a, k) # Absent
         /\ k \in Keys(a) => Found(a, k) \in V
         /\ Found(a, NoKey) = Absent /\ NoKey \notin Keys(a)
<1>1. k \in Keys(a) => Found(a, k) \in V
  <2> SUFFICES ASSUME k \in Keys(a) PROVE Found(a, k) \in V
    OBVIOUS
  <2>1. PICK i \in 1 .. Len(a.buckets) : k = a.buckets[i].key /\ Found(a, k) = a.buckets[i].value
    BY FoundAt
  <2>2. a.buckets[i].value \in V
    BY <2>1, ArrayParts
  <2> QED BY <2>1, <2>2
<1>2. NoKey \notin Keys(a)
  BY FoundAt, KeyKinds
<1> QED BY <1>1, <1>2, FoundAt

\* All functions tell of the element under the key that an index means.
LEMMA TellsFound ==
  ASSUME NEW V, Absent \notin V, NEW a, IsArray(a, V), NEW index \in PhpValues
  PROVE  Tells(a, index, Found(a, Meant(index)))
<1> DEFINE key == Meant(index)
           value == Found(a, key)
           null == IF value = Absent THEN "null" ELSE value
<1>1. key \in Keys(a) <=> value # Absent
  BY KeysFind
<1>2. "" \in TextSet
  BY DEF TextSet
<1>3. HashFind(a, "") = Found(a, Text("")) /\ (HashExists(a, "") <=> Text("") \in Keys(a))
  BY <1>2, ChainFinds
<1>4. IssetFetch(a, index) = value
  BY <1>3, MeantIs DEF IssetFetch
<1>5. Isset(a, index) <=> (value # Absent)
  BY <1>1, <1>3, MeantIs DEF Isset
<1>6. Fetch(a, index) = null
  BY <1>3, MeantIs DEF Fetch
<1>7. index[1] # "null" => HashGet(a, index, FALSE).value = null
  <2> SUFFICES ASSUME index[1] # "null" PROVE HashGet(a, index, FALSE).value = null
    OBVIOUS
  <2>1. HashKey(index) = key
    BY MeantIs
  <2>2. key = NoKey => value = Absent
    BY KeysFind
  <2> HIDE DEF key
  <2> QED BY <1>1, <2>1, <2>2 DEF HashGet
<1>8. index[1] \in {"long", "text", "null"} => (KeyExists(a, index) <=> (value # Absent))
  BY <1>1, MeantIs DEF KeyExists
<1>9. index[1] = "long" =>
        IssetLongFetch(a, index[2]) = value /\ (IssetLong(a, index[2]) <=> (value # Absent))
  BY <1>1, MeantIs DEF IssetLongFetch, IssetLong
<1> HIDE DEF value
<1> QED BY <1>4, <1>5, <1>6, <1>7, <1>8, <1>9 DEF Tells, value

\* The functions of literal keys tell of the element under the text.
LEMMA LiteralTellsFound ==
  ASSUME NEW V, Absent \notin V, NEW a, IsArray(a, V), NEW t \in TextSet
  PROVE  LiteralTells(a, t, Found(a, Text(t)))
<1>1. HashFind(a, t) = Found(a, Text(t)) /\ (HashExists(a, t) <=> Text(t) \in Keys(a))
  BY ChainFinds
<1>2. Text(t) \in Keys(a) <=> Found(a, Text(t)) # Absent
  BY KeysFind
<1> QED BY <1>1, <1>2 DEF LiteralTells, IssetStringFetch, FetchString, IssetString

\* What storing and dropping under an index make of an array.
LEMMA StoredIs ==
  ASSUME NEW V, NEW a, IsArray(a, V), NEW index \in PhpValues, NEW value \in V
  PROVE  /\ IsArray(Update(a, index, value), V)
         /\ Meant(index) = NoKey => Update(a, index, value) = a
         /\ Meant(index) # NoKey => Puts(Update(a, index, value), a, Meant(index), value)
<1>1. UpdateKey(index) = Meant(index) /\ (Meant(index) \in ArrayKeySet \/ Meant(index) = NoKey)
  BY MeantIs
<1> DEFINE key == Meant(index)
<1> HIDE DEF key
<1>2. Update(a, index, value) = IF key = NoKey THEN a ELSE Put(a, key, value)
  BY <1>1 DEF Update, key
<1> QED BY <1>1, <1>2, PutIs DEF key

\* Dropped under an index is the key that it means.
LEMMA DroppedIs ==
  ASSUME NEW V, NEW a, IsArray(a, V), NEW index \in PhpValues
  PROVE  IsArray(Unset(a, index), V) /\ Deletes(Unset(a, index), a, Meant(index))
<1>1. Unset(a, index) = Deleted(a, Meant(index))
  BY MeantIs DEF Unset
<1> QED BY <1>1, DeletedIs

-----------------------------------------------------------------------------
(* Loops over arrays.                                                      *)

\* The values of an array, in order.
LEMMA ValuesAre ==
  ASSUME NEW V, NEW a, IsArray(a, V)
  PROVE  /\ Values(a) \in Seq(V) /\ Len(Values(a)) = Len(a.buckets)
         /\ \A i \in 1 .. Len(a.buckets) : Values(a)[i] = a.buckets[i].value
<1> DEFINE n == Len(a.buckets)
           f == [i \in 1 .. n |-> a.buckets[i].value]
<1>1. n \in Nat /\ f \in [1 .. n -> V]
  BY ArrayParts
<1>2. Values(a) = f
  BY ArrayParts DEF Values
<1>3. f \in Seq(V) /\ Len(f) = n
  <2> HIDE DEF f, n
  <2> QED BY <1>1, BuiltSeq
<1> QED BY <1>2, <1>3

\* The loop that pushes values: after each round there is an array.
LEMMA PushedRounds ==
  ASSUME NEW V, NEW a, IsArray(a, V), NEW values \in Seq(V)
  PROVE  LET g == PushedAll(a, values) IN
           /\ g[0] = a
           /\ \A i \in 1 .. Len(values) : g[i] = Pushed(g[i - 1], values[i])
           /\ \A i \in 0 .. Len(values) : IsArray(g[i], V)
<1> DEFINE n == Len(values)
           S == {x \in [buckets : Seq(BucketsOf(V)), next : Nat] : IsArray(x, V)}
           step == [i \in 1 .. n |-> [x \in S |-> Pushed(x, values[i])]]
           P(h) == h = [i \in 0 .. n |-> IF i = 0 THEN a ELSE Pushed(h[i - 1], values[i])]
           g == PushedAll(a, values)
<1>1. n \in Nat /\ \A i \in 1 .. n : values[i] \in V
  BY LenProperties, ElementOfSeq
<1>2. \A x : IsArray(x, V) <=> x \in S
  BY DEF IsArray
<1>3. \A i \in 1 .. n, x \in S : Pushed(x, values[i]) \in S
  <2> HIDE DEF S, n
  <2> QED BY <1>1, <1>2, PushedIs
<1>4. g = CHOOSE h : P(h)
  BY DEF PushedAll
<1> HIDE DEF S, g
<1>5. step \in [1 .. n -> [S -> S]] /\ \A i \in 1 .. n, x \in S : step[i][x] = Pushed(x, values[i])
  <2> HIDE DEF n
  <2> QED BY <1>3
<1> HIDE DEF step, n
<1>6. PICK f : Rounds(f, n, S, a, step)
  <2>1. a \in S
    BY <1>2
  <2>2. step \in [1 .. n -> [S -> S]]
    BY <1>5
  <2> QED BY <2>1, <2>2, <1>1, Stepwise
<1>7. P(f)
  <2>0. f \in [0 .. n -> S] /\ f[0] = a /\ \A i \in 1 .. n : f[i] = step[i][f[i - 1]]
    BY <1>6 DEF Rounds
  <2>1. \A i \in 1 .. n : i - 1 \in 0 .. n /\ f[i - 1] \in S /\ f[i] = Pushed(f[i - 1], values[i])
    BY <1>1, <1>5, <2>0
  <2>2. \A i \in 0 .. n : i = 0 \/ i \in 1 .. n
    BY <1>1
  <2>3. \A i \in 0 .. n : f[i] = IF i = 0 THEN a ELSE Pushed(f[i - 1], values[i])
    BY <2>0, <2>1, <2>2
  <2>4. f = [i \in 0 .. n |-> f[i]]
    BY <2>0
  <2> QED BY <2>3, <2>4
<1>8. P(g)
  <2> HIDE DEF P
  <2> QED BY <1>4, <1>7
<1>9. g[0] = a /\ \A i \in 1 .. n : g[i] = Pushed(g[i - 1], values[i])
  <2>1. 0 \in 0 .. n /\ \A i \in 1 .. n : i \in 0 .. n /\ i # 0
    BY <1>1
  <2> QED BY <1>8, <2>1
<1> HIDE DEF P
<1>10. 0 .. n \subseteq {i \in 0 .. n : g[i] \in S}
  <2> DEFINE T == {i \in 0 .. n : g[i] \in S}
  <2>1. 0 \in T
    BY <1>1, <1>2, <1>9
  <2>2. \A i \in 1 .. n : i - 1 \in T => i \in T
    BY <1>1, <1>3, <1>9
  <2> HIDE DEF T
  <2>3. 0 .. n \subseteq T
    BY <1>1, <2>1, <2>2, Inductive
  <2> QED BY <2>3 DEF T
<1> QED BY <1>2, <1>9, <1>10 DEF g, n

\* What is there after m values were pushed.
AllPushed(b, a, values, m) ==
  /\ b.next = a.next + m /\ Len(b.buckets) = Len(a.buckets) + m
  /\ \A j \in 1 .. Len(a.buckets) : b.buckets[j] = a.buckets[j]
  /\ \A j \in 1 .. m : b.buckets[Len(a.buckets) + j] = Bucket(Long(a.next + j - 1), values[j])

\* Values pushed one by one follow what was there, under the next numbers.
LEMMA PushedAllIs ==
  ASSUME NEW V, NEW a, IsArray(a, V), NEW values \in Seq(V)
  PROVE  LET b == PushedAll(a, values)[Len(values)]
         IN  IsArray(b, V) /\ AllPushed(b, a, values, Len(values))
<1> DEFINE g == PushedAll(a, values)
           n == Len(values)
           T == {i \in 0 .. n : AllPushed(g[i], a, values, i)}
<1> HIDE DEF g
<1>1. /\ g[0] = a
      /\ \A i \in 1 .. n : g[i] = Pushed(g[i - 1], values[i])
      /\ \A i \in 0 .. n : IsArray(g[i], V)
  BY PushedRounds DEF g
<1>2. n \in Nat /\ \A i \in 1 .. n : values[i] \in V
  BY LenProperties, ElementOfSeq
<1>3. Len(a.buckets) \in Nat /\ a.next \in Nat
  BY ArrayParts
<1>4. 0 \in T
  BY <1>1, <1>2, <1>3 DEF AllPushed
<1>5. ASSUME NEW i \in 1 .. n, i - 1 \in T
      PROVE  i \in T
  <2> DEFINE x == g[i - 1]
             y == g[i]
             e == Bucket(Long(x.next), values[i])
             k == Len(a.buckets)
  <2>1. AllPushed(x, a, values, i - 1) /\ i - 1 \in 0 .. n
    BY <1>5
  <2>2. IsArray(x, V) /\ values[i] \in V /\ y = Pushed(x, values[i])
    BY <1>1, <1>2, <2>1
  <2> HIDE DEF x, y, n
  <2>3. y.buckets = Append(x.buckets, e) /\ y.next = x.next + 1
    BY <2>2, PushedIs
  <2>4. x.buckets \in Seq(BucketsOf(V)) /\ e \in BucketsOf(V) /\ x.next \in Nat
    <3>1. x.buckets \in Seq(BucketsOf(V)) /\ x.next \in Nat
      BY <2>2, ArrayParts
    <3>2. e \in BucketsOf(V)
      BY <2>2, <3>1 DEF BucketsOf, Bucket, ArrayKeySet, Long
    <3> QED BY <3>1, <3>2
  <2>5. Len(x.buckets) = k + (i - 1) /\ x.next = a.next + (i - 1)
    BY <2>1 DEF AllPushed
  <2>6. e = Bucket(Long(a.next + i - 1), values[i])
    BY <1>2, <1>3, <2>5
  <2> DEFINE s == x.buckets
  <2> HIDE DEF e, s
  <2>7. /\ Len(Append(s, e)) = Len(s) + 1
        /\ \A j \in 1 .. Len(s) : Append(s, e)[j] = s[j]
        /\ Append(s, e)[Len(s) + 1] = e
    BY <2>4, AppendProperties DEF s
  <2>8. /\ Len(y.buckets) = k + i
        /\ \A j \in 1 .. k + (i - 1) : y.buckets[j] = x.buckets[j]
        /\ y.buckets[k + i] = e
    <3>1. k + (i - 1) + 1 = k + i
      BY <1>2, <1>3
    <3> QED BY <2>3, <2>5, <2>7, <3>1 DEF s
  <2>9. \A j \in 1 .. k : y.buckets[j] = a.buckets[j]
    BY <1>2, <1>3, <2>1, <2>8 DEF AllPushed
  <2>10. ASSUME NEW j \in 1 .. i
         PROVE  y.buckets[k + j] = Bucket(Long(a.next + j - 1), values[j])
    <3>1. CASE j = i
      BY <3>1, <2>6, <2>8
    <3>2. CASE j # i
      <4>1. j \in 1 .. i - 1 /\ k + j \in 1 .. k + (i - 1)
        BY <3>2, <1>2, <1>3
      <4> QED BY <4>1, <2>1, <2>8 DEF AllPushed
    <3> QED BY <3>1, <3>2
  <2>11. y.next = a.next + i
    BY <2>3, <2>5, <1>2, <1>3
  <2>12. AllPushed(y, a, values, i)
    BY <2>8, <2>9, <2>10, <2>11 DEF AllPushed
  <2> QED BY <2>12, <1>2 DEF y, n
<1> HIDE DEF T
<1>6. 0 .. n \subseteq T
  BY <1>2, <1>4, <1>5, Inductive
<1>7. n \in 0 .. n
  BY <1>2
<1>8. n \in T
  BY <1>6, <1>7
<1> QED BY <1>1, <1>7, <1>8 DEF T, g

\* An element put into an array: under its text, or as the next value.
Taken(x, b) == IF b.key[1] = "text" THEN Put(x, b.key, b.value) ELSE Pushed(x, b.value)

\* An array that takes an element is one.
LEMMA TakenIs ==
  ASSUME NEW V, NEW x, IsArray(x, V), NEW b \in BucketsOf(V)
  PROVE  IsArray(Taken(x, b), V)
<1>1. b.key \in ArrayKeySet /\ b.value \in V
  BY DEF BucketsOf
<1> QED BY <1>1, PutIs, PushedIs DEF Taken

\* The loop that puts elements: after each round there is an array.
LEMMA PutRounds ==
  ASSUME NEW V, NEW a, IsArray(a, V), NEW buckets \in Seq(BucketsOf(V))
  PROVE  LET g == PutAll(a, buckets) IN
           /\ g[0] = a
           /\ \A i \in 1 .. Len(buckets) : g[i] = Taken(g[i - 1], buckets[i])
           /\ \A i \in 0 .. Len(buckets) : IsArray(g[i], V)
<1> DEFINE n == Len(buckets)
           S == {x \in [buckets : Seq(BucketsOf(V)), next : Nat] : IsArray(x, V)}
           step == [i \in 1 .. n |-> [x \in S |-> Taken(x, buckets[i])]]
           P(h) == h = [i \in 0 .. n |-> IF i = 0 THEN a ELSE Taken(h[i - 1], buckets[i])]
           g == PutAll(a, buckets)
<1>1. n \in Nat /\ \A i \in 1 .. n : buckets[i] \in BucketsOf(V)
  BY LenProperties, ElementOfSeq
<1>2. \A x : IsArray(x, V) <=> x \in S
  BY DEF IsArray
<1>3. \A i \in 1 .. n, x \in S : Taken(x, buckets[i]) \in S
  <2> HIDE DEF S, n
  <2> QED BY <1>1, <1>2, TakenIs
<1>4. g = CHOOSE h : P(h)
  BY DEF PutAll, Taken
<1> HIDE DEF S, g
<1>5. step \in [1 .. n -> [S -> S]] /\ \A i \in 1 .. n, x \in S : step[i][x] = Taken(x, buckets[i])
  <2> HIDE DEF n
  <2> QED BY <1>3
<1> HIDE DEF step, n
<1>6. PICK f : Rounds(f, n, S, a, step)
  <2>1. a \in S
    BY <1>2
  <2>2. step \in [1 .. n -> [S -> S]]
    BY <1>5
  <2> QED BY <2>1, <2>2, <1>1, Stepwise
<1>7. P(f)
  <2>0. f \in [0 .. n -> S] /\ f[0] = a /\ \A i \in 1 .. n : f[i] = step[i][f[i - 1]]
    BY <1>6 DEF Rounds
  <2>1. \A i \in 1 .. n : i - 1 \in 0 .. n /\ f[i - 1] \in S /\ f[i] = Taken(f[i - 1], buckets[i])
    BY <1>1, <1>5, <2>0
  <2>2. \A i \in 0 .. n : i = 0 \/ i \in 1 .. n
    BY <1>1
  <2>3. \A i \in 0 .. n : f[i] = IF i = 0 THEN a ELSE Taken(f[i - 1], buckets[i])
    BY <2>0, <2>1, <2>2
  <2>4. f = [i \in 0 .. n |-> f[i]]
    BY <2>0
  <2> QED BY <2>3, <2>4
<1>8. P(g)
  <2> HIDE DEF P
  <2> QED BY <1>4, <1>7
<1>9. g[0] = a /\ \A i \in 1 .. n : g[i] = Taken(g[i - 1], buckets[i])
  <2>1. 0 \in 0 .. n /\ \A i \in 1 .. n : i \in 0 .. n /\ i # 0
    BY <1>1
  <2> QED BY <1>8, <2>1
<1> HIDE DEF P
<1>10. 0 .. n \subseteq {i \in 0 .. n : g[i] \in S}
  <2> DEFINE T == {i \in 0 .. n : g[i] \in S}
  <2>1. 0 \in T
    BY <1>1, <1>2, <1>9
  <2>2. \A i \in 1 .. n : i - 1 \in T => i \in T
    BY <1>1, <1>3, <1>9
  <2> HIDE DEF T
  <2>3. 0 .. n \subseteq T
    BY <1>1, <2>1, <2>2, Inductive
  <2> QED BY <2>3 DEF T
<1> QED BY <1>2, <1>9, <1>10 DEF g, n

\* Texts, each once, are found with their values, and the others as before.
TextsDiffer(buckets) ==
  \A i, j \in 1 .. Len(buckets) :
    buckets[i].key = buckets[j].key /\ buckets[i].key[1] = "text" => i = j
TextsPut(b, a, buckets, m) ==
  /\ \A j \in 1 .. m : buckets[j].key[1] = "text" =>
       Found(b, buckets[j].key) = buckets[j].value /\ buckets[j].key \in Keys(b)
  /\ \A k \in ArrayKeySet : k[1] = "text" /\ (\A j \in 1 .. m : buckets[j].key # k) =>
       Found(b, k) = Found(a, k) /\ (k \in Keys(b) <=> k \in Keys(a))

\* After each round a text finds the element that was put under it, or what was there.
LEMMA TextsPutIs ==
  ASSUME NEW V, NEW a, IsArray(a, V), NEW buckets \in Seq(BucketsOf(V)), TextsDiffer(buckets),
         NEW m \in 0 .. Len(buckets)
  PROVE  TextsPut(PutAll(a, buckets)[m], a, buckets, m)
<1> DEFINE g == PutAll(a, buckets)
           n == Len(buckets)
           T == {i \in 0 .. n : TextsPut(g[i], a, buckets, i)}
<1> HIDE DEF g
<1>1. /\ g[0] = a
      /\ \A i \in 1 .. n : g[i] = Taken(g[i - 1], buckets[i])
      /\ \A i \in 0 .. n : IsArray(g[i], V)
  BY PutRounds DEF g
<1>2. n \in Nat /\ \A i \in 1 .. n : buckets[i] \in BucketsOf(V)
  BY LenProperties, ElementOfSeq
<1>3. 0 \in T
  BY <1>1, <1>2 DEF TextsPut
<1>4. ASSUME NEW i \in 1 .. n, i - 1 \in T
      PROVE  i \in T
  <2> DEFINE x == g[i - 1]
             y == g[i]
             e == buckets[i]
  <2>1. TextsPut(x, a, buckets, i - 1) /\ i - 1 \in 0 .. n
    BY <1>4
  <2>2. IsArray(x, V) /\ y = Taken(x, e)
    BY <1>1, <2>1
  <2>3. e.key \in ArrayKeySet /\ e.value \in V
    BY <1>2 DEF BucketsOf
  <2>4. \A j \in 1 .. i : j \in 1 .. n /\ (j = i \/ j \in 1 .. i - 1)
    BY <1>2
  <2>5. \A j \in 1 .. i - 1 : e.key[1] = "text" => buckets[j].key # e.key
    <3>1. \A j \in 1 .. i - 1 : j \in 1 .. n /\ j # i
      BY <1>2
    <3> QED BY <3>1 DEF TextsDiffer
  <2>6. \A j \in 1 .. i - 1 : j \in 1 .. i
    BY <1>2
  <2>7. TextsPut(y, a, buckets, i)
    <3> HIDE DEF x, y
    <3>1. CASE e.key[1] = "text"
      <4>1. Puts(y, x, e.key, e.value)
        BY <2>2, <2>3, <3>1, PutIs DEF Taken
      <4> HIDE DEF e
      <4>2. /\ Keys(y) = Keys(x) \cup {e.key}
            /\ \A k : Found(y, k) = IF k = e.key THEN e.value ELSE Found(x, k)
        BY <4>1 DEF Puts
      <4>3. ASSUME NEW j \in 1 .. i, buckets[j].key[1] = "text"
            PROVE  Found(y, buckets[j].key) = buckets[j].value /\ buckets[j].key \in Keys(y)
        <5>1. CASE j = i
          BY <5>1, <4>2 DEF e
        <5>2. CASE j \in 1 .. i - 1
          <6>1. buckets[j].key # e.key
            BY <5>2, <2>5, <3>1
          <6>2. Found(x, buckets[j].key) = buckets[j].value /\ buckets[j].key \in Keys(x)
            BY <5>2, <4>3, <2>1 DEF TextsPut
          <6> QED BY <6>1, <6>2, <4>2
        <5> QED BY <5>1, <5>2, <2>4
      <4>4. ASSUME NEW k \in ArrayKeySet, k[1] = "text", \A j \in 1 .. i : buckets[j].key # k
            PROVE  Found(y, k) = Found(a, k) /\ (k \in Keys(y) <=> k \in Keys(a))
        <5>1. k # e.key
          BY <4>4, <1>2 DEF e
        <5>2. Found(x, k) = Found(a, k) /\ (k \in Keys(x) <=> k \in Keys(a))
          BY <4>4, <2>1, <2>6 DEF TextsPut
        <5> QED BY <5>1, <5>2, <4>2
      <4> QED BY <4>3, <4>4 DEF TextsPut
    <3>2. CASE e.key[1] # "text"
      <4> DEFINE key == Long(x.next)
      <4>1. Puts(y, x, key, e.value)
        BY <2>2, <2>3, <3>2, PushedIs DEF Taken
      <4>2. \A k : k[1] = "text" => k # key
        BY DEF Long
      <4> HIDE DEF e, key
      <4>3. \A k : k[1] = "text" => (k \in Keys(y) <=> k \in Keys(x)) /\ Found(y, k) = Found(x, k)
        BY <4>1, <4>2 DEF Puts
      <4>4. ASSUME NEW j \in 1 .. i, buckets[j].key[1] = "text"
            PROVE  Found(y, buckets[j].key) = buckets[j].value /\ buckets[j].key \in Keys(y)
        <5>1. j \in 1 .. i - 1
          BY <2>4, <3>2, <4>4 DEF e
        <5>2. Found(x, buckets[j].key) = buckets[j].value /\ buckets[j].key \in Keys(x)
          BY <5>1, <4>4, <2>1 DEF TextsPut
        <5> QED BY <5>2, <4>3, <4>4
      <4>5. ASSUME NEW k \in ArrayKeySet, k[1] = "text", \A j \in 1 .. i : buckets[j].key # k
            PROVE  Found(y, k) = Found(a, k) /\ (k \in Keys(y) <=> k \in Keys(a))
        <5>1. Found(x, k) = Found(a, k) /\ (k \in Keys(x) <=> k \in Keys(a))
          BY <4>5, <2>1, <2>6 DEF TextsPut
        <5> QED BY <5>1, <4>3, <4>5
      <4> QED BY <4>4, <4>5 DEF TextsPut
    <3> QED BY <3>1, <3>2
  <2> QED BY <2>7, <1>2
<1> HIDE DEF T
<1>5. 0 .. n \subseteq T
  BY <1>2, <1>3, <1>4, Inductive
<1> QED BY <1>5 DEF T, g

\* One more element at the end of an array.
Extends(y, x, key, value) ==
  /\ Len(y.buckets) = Len(x.buckets) + 1
  /\ \A j \in 1 .. Len(x.buckets) : y.buckets[j] = x.buckets[j]
  /\ y.buckets[Len(x.buckets) + 1] = Bucket(key, value)

\* An element appended is such an element.
LEMMA AppendExtends ==
  ASSUME NEW V, NEW x, IsArray(x, V), NEW key \in ArrayKeySet, NEW value \in V,
         NEW y, y.buckets = Append(x.buckets, Bucket(key, value))
  PROVE  Extends(y, x, key, value)
<1> DEFINE s == x.buckets
           e == Bucket(key, value)
<1>1. s \in Seq(BucketsOf(V)) /\ e \in BucketsOf(V)
  BY ArrayParts DEF BucketsOf, Bucket
<1> HIDE DEF s, e
<1>2. /\ Len(Append(s, e)) = Len(s) + 1
      /\ \A j \in 1 .. Len(s) : Append(s, e)[j] = s[j]
      /\ Append(s, e)[Len(s) + 1] = e
  BY <1>1, AppendProperties
<1> QED BY <1>2 DEF Extends, s, e

\* Elements whose texts are new follow those that were there.
AllPut(b, a, buckets, m) ==
  /\ Len(b.buckets) = Len(a.buckets) + m
  /\ \A j \in 1 .. Len(a.buckets) : b.buckets[j].value = a.buckets[j].value
  /\ \A j \in 1 .. m : b.buckets[Len(a.buckets) + j].value = buckets[j].value

\* After the loop the values follow those that were there.
LEMMA AllPutIs ==
  ASSUME NEW V, NEW a, IsArray(a, V), NEW buckets \in Seq(BucketsOf(V)), TextsDiffer(buckets),
         \A j \in 1 .. Len(buckets) : buckets[j].key[1] = "text" => buckets[j].key \notin Keys(a)
  PROVE  LET b == PutAll(a, buckets)[Len(buckets)]
         IN  IsArray(b, V) /\ AllPut(b, a, buckets, Len(buckets))
<1> DEFINE g == PutAll(a, buckets)
           n == Len(buckets)
           T == {i \in 0 .. n : AllPut(g[i], a, buckets, i)}
<1> HIDE DEF g
<1>1. /\ g[0] = a
      /\ \A i \in 1 .. n : g[i] = Taken(g[i - 1], buckets[i])
      /\ \A i \in 0 .. n : IsArray(g[i], V)
  BY PutRounds DEF g
<1>2. n \in Nat /\ \A i \in 1 .. n : buckets[i] \in BucketsOf(V)
  BY LenProperties, ElementOfSeq
<1>3. Len(a.buckets) \in Nat
  BY ArrayParts
<1>4. 0 \in T
  BY <1>1, <1>2, <1>3 DEF AllPut
<1>5. ASSUME NEW i \in 1 .. n, i - 1 \in T
      PROVE  i \in T
  <2> DEFINE x == g[i - 1]
             y == g[i]
             e == buckets[i]
             k == Len(a.buckets)
  <2>1. AllPut(x, a, buckets, i - 1) /\ i - 1 \in 0 .. n
    BY <1>5
  <2>2. IsArray(x, V) /\ y = Taken(x, e)
    BY <1>1, <2>1
  <2>3. e.key \in ArrayKeySet /\ e.value \in V
    BY <1>2 DEF BucketsOf
  <2>4. TextsPut(x, a, buckets, i - 1)
    BY <2>1, TextsPutIs DEF g
  <2>5. PICK key \in ArrayKeySet : y.buckets = Append(x.buckets, Bucket(key, e.value))
    <3> HIDE DEF x, y
    <3>1. CASE e.key[1] = "text"
      <4>1. \A j \in 1 .. i - 1 : buckets[j].key # e.key
        <5>1. \A j \in 1 .. i - 1 : j \in 1 .. n /\ j # i
          BY <1>2
        <5> QED BY <3>1, <5>1 DEF TextsDiffer
      <4>2. e.key \notin Keys(x)
        BY <2>3, <2>4, <3>1, <4>1 DEF TextsPut
      <4> QED BY <2>2, <2>3, <3>1, <4>2, PutLast DEF Taken
    <3>2. CASE e.key[1] # "text"
      <4>1. Long(x.next) \in ArrayKeySet
        BY <2>2, ArrayParts DEF ArrayKeySet, Long
      <4> QED BY <2>2, <2>3, <3>2, <4>1, PushedIs DEF Taken
    <3> QED BY <3>1, <3>2
  <2> HIDE DEF x, y
  <2>6. Extends(y, x, key, e.value)
    BY <2>2, <2>3, <2>5, AppendExtends
  <2>7. Len(x.buckets) = k + (i - 1)
    BY <2>1 DEF AllPut
  <2>8. /\ Len(y.buckets) = k + i
        /\ \A j \in 1 .. k + (i - 1) : y.buckets[j] = x.buckets[j]
        /\ y.buckets[k + i].value = e.value
    <3>1. k + (i - 1) + 1 = k + i
      BY <1>2, <1>3
    <3> HIDE DEF e
    <3> QED BY <2>6, <2>7, <3>1 DEF Extends, Bucket
  <2>9. ASSUME NEW j \in 1 .. k
        PROVE  y.buckets[j].value = a.buckets[j].value
    <3>1. j \in 1 .. k + (i - 1)
      BY <1>2, <1>3
    <3>2. y.buckets[j] = x.buckets[j]
      BY <3>1, <2>8
    <3>3. x.buckets[j].value = a.buckets[j].value
      BY <2>1 DEF AllPut
    <3> QED BY <3>2, <3>3
  <2>10. ASSUME NEW j \in 1 .. i
         PROVE  y.buckets[k + j].value = buckets[j].value
    <3>1. CASE j = i
      BY <3>1, <2>8
    <3>2. CASE j # i
      <4>1. j \in 1 .. i - 1 /\ k + j \in 1 .. k + (i - 1)
        BY <3>2, <1>2, <1>3
      <4> QED BY <4>1, <2>1, <2>8 DEF AllPut
    <3> QED BY <3>1, <3>2
  <2>11. AllPut(y, a, buckets, i)
    BY <2>8, <2>9, <2>10 DEF AllPut
  <2> QED BY <2>11, <1>2 DEF y
<1> HIDE DEF T
<1>6. 0 .. n \subseteq T
  BY <1>2, <1>4, <1>5, Inductive
<1>7. n \in 0 .. n
  BY <1>2
<1>8. n \in T
  BY <1>6, <1>7
<1> QED BY <1>1, <1>7, <1>8 DEF T, g

\* A list that numbers are put into stays one.
IsList(a) ==
  a.next = Len(a.buckets) /\ \A j \in 1 .. Len(a.buckets) : a.buckets[j].key = Long(j - 1)

\* After the loop that puts no texts, a list is one still.
LEMMA ListPutIs ==
  ASSUME NEW V, NEW a, IsArray(a, V), NEW buckets \in Seq(BucketsOf(V)), IsList(a),
         \A j \in 1 .. Len(buckets) : buckets[j].key[1] # "text"
  PROVE  IsList(PutAll(a, buckets)[Len(buckets)])
<1> DEFINE g == PutAll(a, buckets)
           n == Len(buckets)
           T == {i \in 0 .. n : IsList(g[i])}
<1> HIDE DEF g
<1>1. /\ g[0] = a
      /\ \A i \in 1 .. n : g[i] = Taken(g[i - 1], buckets[i])
      /\ \A i \in 0 .. n : IsArray(g[i], V)
  BY PutRounds DEF g
<1>2. n \in Nat /\ \A i \in 1 .. n : buckets[i] \in BucketsOf(V)
  BY LenProperties, ElementOfSeq
<1>3. 0 \in T
  BY <1>1, <1>2
<1>4. ASSUME NEW i \in 1 .. n, i - 1 \in T
      PROVE  i \in T
  <2> DEFINE x == g[i - 1]
             y == g[i]
             value == buckets[i].value
             k == Len(x.buckets)
  <2>1. IsList(x) /\ IsArray(x, V) /\ y = Pushed(x, value) /\ value \in V
    BY <1>1, <1>2, <1>4 DEF Taken, BucketsOf
  <2> HIDE DEF x, y, value
  <2>2. /\ x.next \in Nat /\ k \in Nat
        /\ y.buckets = Append(x.buckets, Bucket(Long(x.next), value)) /\ y.next = x.next + 1
    <3>1. x.next \in Nat /\ k \in Nat
      BY <2>1, ArrayParts
    <3>2. y.buckets = Append(x.buckets, Bucket(Long(x.next), value)) /\ y.next = x.next + 1
      BY <2>1, PushedIs
    <3> QED BY <3>1, <3>2
  <2>3. Long(x.next) \in ArrayKeySet
    BY <2>2 DEF ArrayKeySet, Long
  <2>4. Extends(y, x, Long(x.next), value)
    BY <2>1, <2>2, <2>3, AppendExtends
  <2>5. /\ Len(y.buckets) = k + 1
        /\ \A j \in 1 .. k : y.buckets[j] = x.buckets[j]
        /\ y.buckets[k + 1].key = Long(x.next)
    BY <2>4 DEF Extends, Bucket
  <2>6. ASSUME NEW j \in 1 .. k + 1
        PROVE  y.buckets[j].key = Long(j - 1)
    <3>1. CASE j \in 1 .. k
      BY <3>1, <2>1, <2>5 DEF IsList
    <3>2. CASE j = k + 1
      <4>1. x.next = j - 1
        BY <3>2, <2>1, <2>2 DEF IsList
      <4> QED BY <3>2, <4>1, <2>5
    <3> QED BY <3>1, <3>2, <2>2
  <2>7. y.next = k + 1
    BY <2>1, <2>2 DEF IsList
  <2>8. IsList(y)
    BY <2>5, <2>6, <2>7 DEF IsList
  <2> QED BY <2>8, <1>2 DEF y
<1> HIDE DEF T
<1>5. 0 .. n \subseteq T
  BY <1>2, <1>3, <1>4, Inductive
<1>6. n \in T
  BY <1>2, <1>5
<1> QED BY <1>6 DEF T, g

-----------------------------------------------------------------------------
(* Whole arrays.                                                           *)

\* The keys of an array are those of its elements, in order.
LEMMA KeysAre ==
  ASSUME NEW V, NEW a, IsArray(a, V)
  PROVE  LET keys == Values(ArrayKeys(a)) IN
           /\ keys \in Seq(ArrayKeySet) /\ Len(keys) = Len(a.buckets)
           /\ \A i \in 1 .. Len(a.buckets) : keys[i] = a.buckets[i].key
<1> DEFINE n == Len(a.buckets)
           f == [i \in 1 .. n |-> a.buckets[i].key]
           b == ArrayKeys(a)
<1>1. n \in Nat /\ DOMAIN a.buckets = 1 .. n /\ f \in [1 .. n -> ArrayKeySet]
  BY ArrayParts
<1>2. b = PushedAll(EmptyArray, f)[Len(f)]
  BY <1>1 DEF ArrayKeys
<1>3. f \in Seq(ArrayKeySet) /\ Len(f) = n
  <2> HIDE DEF f, n
  <2> QED BY <1>1, BuiltSeq
<1>4. \A i \in 1 .. n : f[i] = a.buckets[i].key
  OBVIOUS
<1> HIDE DEF f, b
<1>5. IsArray(b, ArrayKeySet) /\ AllPushed(b, EmptyArray, f, n)
  BY <1>2, <1>3, EmptyIsArray, PushedAllIs
<1>6. Len(EmptyArray.buckets) = 0 /\ EmptyArray.next = 0
  BY EmptySeq DEF EmptyArray
<1>7. Len(b.buckets) = n /\ \A j \in 1 .. n : b.buckets[j].value = f[j]
  <2>1. Len(b.buckets) = 0 + n /\ \A j \in 1 .. n : b.buckets[0 + j] = Bucket(Long(0 + j - 1), f[j])
    BY <1>5, <1>6 DEF AllPushed
  <2>2. 0 + n = n /\ \A j \in 1 .. n : 0 + j = j
    BY <1>1
  <2>3. ASSUME NEW j \in 1 .. n
        PROVE  b.buckets[j].value = f[j]
    <3>1. b.buckets[j] = Bucket(Long(0 + j - 1), f[j])
      BY <2>1, <2>2
    <3> QED BY <3>1 DEF Bucket
  <2> QED BY <2>1, <2>2, <2>3
<1>8. /\ Values(b) \in Seq(ArrayKeySet) /\ Len(Values(b)) = n
      /\ \A i \in 1 .. n : Values(b)[i] = b.buckets[i].value
  BY <1>5, <1>7, ValuesAre
<1>9. \A i \in 1 .. n : Values(b)[i] = a.buckets[i].key
  BY <1>4, <1>7, <1>8
<1> QED BY <1>8, <1>9 DEF b

\* The values of an array, alone, are a list.
LEMMA ValuesListed ==
  ASSUME NEW V, NEW a, IsArray(a, V)
  PROVE  LET all == ArrayValues(a) IN
           /\ IsArray(all, V) /\ IsList(all) /\ Len(all.buckets) = Len(a.buckets)
           /\ \A i \in 1 .. Len(a.buckets) : all.buckets[i] = Bucket(Long(i - 1), a.buckets[i].value)
<1> DEFINE n == Len(a.buckets)
           b == ArrayValues(a)
           f == Values(a)
<1>1. n \in Nat
  BY ArrayParts
<1>2. f \in Seq(V) /\ Len(f) = n /\ \A i \in 1 .. n : f[i] = a.buckets[i].value
  BY ValuesAre
<1>3. b = PushedAll(EmptyArray, f)[Len(f)]
  BY DEF ArrayValues, MergeAppend
<1> HIDE DEF f, b
<1>4. IsArray(b, V) /\ AllPushed(b, EmptyArray, f, n)
  BY <1>2, <1>3, EmptyIsArray, PushedAllIs
<1>5. Len(EmptyArray.buckets) = 0 /\ EmptyArray.next = 0
  BY EmptySeq DEF EmptyArray
<1>6. /\ Len(b.buckets) = n /\ b.next = n
      /\ \A j \in 1 .. n : b.buckets[j] = Bucket(Long(j - 1), f[j])
  <2>1. /\ Len(b.buckets) = 0 + n /\ b.next = 0 + n
        /\ \A j \in 1 .. n : b.buckets[0 + j] = Bucket(Long(0 + j - 1), f[j])
    BY <1>4, <1>5 DEF AllPushed
  <2>2. 0 + n = n /\ \A j \in 1 .. n : 0 + j = j
    BY <1>1
  <2> QED BY <2>1, <2>2
<1>7. IsList(b)
  <2>1. ASSUME NEW j \in 1 .. n
        PROVE  b.buckets[j].key = Long(j - 1)
    <3>1. b.buckets[j] = Bucket(Long(j - 1), f[j])
      BY <1>6
    <3> QED BY <3>1 DEF Bucket
  <2> QED BY <1>6, <2>1 DEF IsList
<1> QED BY <1>2, <1>4, <1>6, <1>7 DEF b

\* An array whose keys count its elements is one that is not associative.
LEMMA ListIs ==
  ASSUME NEW V, NEW a, IsArray(a, V)
  PROVE  ~IsAssociative(a) <=> \A i \in 1 .. Len(a.buckets) : a.buckets[i].key = Long(i - 1)
BY ArrayParts DEF IsAssociative

\* The buckets of an array, put somewhere else, differ in their texts.
LEMMA BucketsPut ==
  ASSUME NEW V, NEW a, IsArray(a, V)
  PROVE  a.buckets \in Seq(BucketsOf(V)) /\ TextsDiffer(a.buckets)
BY ArrayParts DEF IsArray, KeysDiffer, TextsDiffer

\* What is in an array merged into another follows its values, where no text is in both.
LEMMA MergedIs ==
  ASSUME NEW V, NEW a, IsArray(a, V), NEW b, IsArray(b, V),
         \A k \in Keys(b) : k[1] = "text" => k \notin Keys(a)
  PROVE  IsArray(Merged(a, b), V) /\ Values(Merged(a, b)) = Values(a) \o Values(b)
<1> DEFINE c == Merged(a, b)
           m == Len(b.buckets)
           n == Len(a.buckets)
<1>1. \A j \in 1 .. m : b.buckets[j].key \in Keys(b)
  BY FoundAt
<1>2. IsArray(c, V) /\ AllPut(c, a, b.buckets, m)
  BY <1>1, BucketsPut, AllPutIs DEF Merged
<1> HIDE DEF c
<1>3. n \in Nat /\ m \in Nat
  BY ArrayParts
<1>4. /\ Len(c.buckets) = n + m
      /\ \A j \in 1 .. n : c.buckets[j].value = a.buckets[j].value
      /\ \A j \in 1 .. m : c.buckets[n + j].value = b.buckets[j].value
  BY <1>2 DEF AllPut
<1>5. /\ Values(a) \in Seq(V) /\ Len(Values(a)) = n
      /\ \A i \in 1 .. n : Values(a)[i] = a.buckets[i].value
  BY ValuesAre
<1>6. /\ Values(b) \in Seq(V) /\ Len(Values(b)) = m
      /\ \A i \in 1 .. m : Values(b)[i] = b.buckets[i].value
  BY ValuesAre
<1>7. /\ Values(c) \in Seq(V) /\ Len(Values(c)) = n + m
      /\ \A i \in 1 .. n + m : Values(c)[i] = c.buckets[i].value
  BY <1>2, <1>4, ValuesAre
<1> DEFINE va == Values(a)
           vb == Values(b)
           vc == Values(c)
<1> HIDE DEF va, vb, vc
<1>8. /\ va \o vb \in Seq(V) /\ Len(va \o vb) = n + m
      /\ \A i \in 1 .. n + m : (va \o vb)[i] = IF i <= n THEN va[i] ELSE vb[i - n]
  <2>1. va \in Seq(V) /\ Len(va) = n /\ vb \in Seq(V) /\ Len(vb) = m
    BY <1>5, <1>6 DEF va, vb
  <2>2. /\ va \o vb \in Seq(V) /\ Len(va \o vb) = Len(va) + Len(vb)
        /\ \A i \in 1 .. Len(va) + Len(vb) :
             (va \o vb)[i] = IF i <= Len(va) THEN va[i] ELSE vb[i - Len(va)]
    BY <2>1, ConcatProperties
  <2> QED BY <2>1, <2>2
<1> HIDE DEF n, m
<1>9. ASSUME NEW i \in 1 .. n + m
      PROVE  vc[i] = (va \o vb)[i]
  <2>1. vc[i] = c.buckets[i].value
    BY <1>7 DEF vc
  <2>2. CASE i <= n
    <3>1. i \in 1 .. n
      BY <2>2, <1>3
    <3>2. va[i] = a.buckets[i].value
      BY <3>1, <1>5 DEF va
    <3> QED BY <2>1, <2>2, <3>1, <3>2, <1>4, <1>8
  <2>3. CASE ~(i <= n)
    <3>1. i - n \in 1 .. m /\ n + (i - n) = i
      BY <2>3, <1>3
    <3>2. vb[i - n] = b.buckets[i - n].value
      BY <3>1, <1>6 DEF vb
    <3>3. c.buckets[i].value = b.buckets[i - n].value
      BY <3>1, <1>4
    <3> QED BY <2>1, <2>3, <3>2, <3>3, <1>8
  <2> QED BY <2>2, <2>3
<1>10. vc = va \o vb
  BY <1>7, <1>8, <1>9, SeqEqual DEF vc
<1> QED BY <1>2, <1>10 DEF va, vb, vc, c

\* Under a text a merged array finds what the other had, or else what was there.
LEMMA MergedTexts ==
  ASSUME NEW V, NEW a, IsArray(a, V), NEW b, IsArray(b, V), NEW k \in ArrayKeySet, k[1] = "text"
  PROVE  Found(Merged(a, b), k) = IF k \in Keys(b) THEN Found(b, k) ELSE Found(a, k)
<1> DEFINE m == Len(b.buckets)
<1>1. m \in 0 .. m
  BY ArrayParts
<1>2. TextsPut(Merged(a, b), a, b.buckets, m)
  BY <1>1, BucketsPut, TextsPutIs DEF Merged
<1>3. CASE k \in Keys(b)
  <2>1. PICK j \in 1 .. m : k = b.buckets[j].key /\ Found(b, k) = b.buckets[j].value
    BY <1>3, FoundAt
  <2> QED BY <2>1, <1>2, <1>3 DEF TextsPut
<1>4. CASE k \notin Keys(b)
  <2>1. \A j \in 1 .. m : b.buckets[j].key # k
    BY <1>4, FoundAt
  <2> QED BY <2>1, <1>2, <1>4 DEF TextsPut
<1> QED BY <1>3, <1>4

\* Nothing is in the empty array.
LEMMA EmptyHas ==
  /\ Keys(EmptyArray) = {} /\ Len(EmptyArray.buckets) = 0 /\ IsList(EmptyArray)
  /\ Values(EmptyArray) = <<>> /\ \A k : Found(EmptyArray, k) = Absent
<1>1. IsArray(EmptyArray, {}) /\ Len(EmptyArray.buckets) = 0 /\ EmptyArray.next = 0
  BY EmptyIsArray, EmptySeq DEF EmptyArray
<1>2. Keys(EmptyArray) = {}
  BY <1>1, FoundAt
<1>3. Values(EmptyArray) \in Seq({}) /\ Len(Values(EmptyArray)) = 0
  BY <1>1, ValuesAre
<1>4. Values(EmptyArray) = <<>>
  BY <1>3, EmptySeq
<1> QED BY <1>1, <1>2, <1>4 DEF IsList, Found

\* Merged into the empty array first, an array is the same but for its numbers.
LEMMA CopyIs ==
  ASSUME NEW V, NEW a, IsArray(a, V)
  PROVE  /\ IsArray(Merged(EmptyArray, a), V) /\ Values(Merged(EmptyArray, a)) = Values(a)
         /\ \A k \in ArrayKeySet : k[1] = "text" => Found(Merged(EmptyArray, a), k) = Found(a, k)
<1>1. IsArray(EmptyArray, V)
  BY EmptyIsArray
<1>2. IsArray(Merged(EmptyArray, a), V) /\ Values(Merged(EmptyArray, a)) = <<>> \o Values(a)
  BY <1>1, EmptyHas, MergedIs
<1>3. <<>> \o Values(a) = Values(a)
  BY ValuesAre, ConcatEmptySeq
<1>4. ASSUME NEW k \in ArrayKeySet, k[1] = "text"
      PROVE  Found(Merged(EmptyArray, a), k) = Found(a, k)
  <2>1. Found(Merged(EmptyArray, a), k) = IF k \in Keys(a) THEN Found(a, k) ELSE Absent
    BY <1>1, <1>4, MergedTexts, EmptyHas
  <2> QED BY <2>1, FoundAt
<1> QED BY <1>2, <1>3, <1>4

\* An array that got a first value is that value and the others.
LEMMA UnshiftIs ==
  ASSUME NEW V, NEW a, IsArray(a, V), NEW value \in V
  PROVE  /\ IsArray(Unshift(a, value), V)
         /\ Values(Unshift(a, value)) = <<value>> \o Values(a)
         /\ ~IsAssociative(a) => ~IsAssociative(Unshift(a, value))
<1> DEFINE base == Pushed(EmptyArray, value)
<1>1. Unshift(a, value) = Merged(base, a)
  BY DEF Unshift, Merged
<1>2. IsArray(EmptyArray, V) /\ EmptyArray.next = 0 /\ EmptyArray.buckets = <<>>
  BY EmptyIsArray DEF EmptyArray
<1>3. /\ IsArray(base, V) /\ Puts(base, EmptyArray, Long(0), value)
      /\ base.buckets = Append(<<>>, Bucket(Long(0), value)) /\ base.next = 0 + 1
  BY <1>2, PushedIs
<1> HIDE DEF base
<1>4. Long(0) \in ArrayKeySet /\ Long(0)[1] = "long"
  BY DEF ArrayKeySet, Long
<1>5. Extends(base, EmptyArray, Long(0), value)
  BY <1>2, <1>3, <1>4, AppendExtends
<1>6. Len(base.buckets) = 1 /\ base.buckets[1] = Bucket(Long(0), value)
  BY <1>5, EmptyHas DEF Extends
<1>7. \A k \in Keys(base) : k[1] # "text"
  BY <1>3, <1>4, EmptyHas DEF Puts
<1>8. IsList(base)
  BY <1>3, <1>6 DEF IsList, Bucket
<1>9. Values(base) = <<value>>
  <2>1. Values(base) \in Seq(V) /\ Len(Values(base)) = 1 /\ Values(base)[1] = value
    <3>1. base.buckets[1].value = value /\ 1 \in 1 .. Len(base.buckets)
      BY <1>6 DEF Bucket
    <3>2. /\ Values(base) \in Seq(V) /\ Len(Values(base)) = Len(base.buckets)
          /\ \A i \in 1 .. Len(base.buckets) : Values(base)[i] = base.buckets[i].value
      BY <1>3, ValuesAre
    <3> QED BY <3>1, <3>2, <1>6
  <2>2. <<value>> \in Seq(V) /\ Len(<<value>>) = 1 /\ <<value>>[1] = value
    OBVIOUS
  <2> QED BY <2>1, <2>2, SeqEqual
<1>10. IsArray(Merged(base, a), V) /\ Values(Merged(base, a)) = Values(base) \o Values(a)
  BY <1>3, <1>7, MergedIs
<1>11. ASSUME ~IsAssociative(a)
       PROVE  ~IsAssociative(Merged(base, a))
  <2>1. \A i \in 1 .. Len(a.buckets) : a.buckets[i].key = Long(i - 1)
    BY <1>11, ListIs
  <2>2. \A i \in 1 .. Len(a.buckets) : a.buckets[i].key[1] # "text"
    BY <2>1 DEF Long
  <2>3. IsList(Merged(base, a))
    BY <2>2, <1>3, <1>8, BucketsPut, ListPutIs DEF Merged
  <2> QED BY <2>3, <1>10, ListIs DEF IsList
<1> QED BY <1>1, <1>9, <1>10, <1>11

\* What reads a whole array tells of the same elements.
LEMMA WholeIs ==
  ASSUME IsArray(array, Elements \cup {"null"})
  PROVE  WholeArrays
<1> DEFINE V == Elements \cup {"null"}
           list == ~IsAssociative(array)
           keys == Values(ArrayKeys(array))
           all == ArrayValues(array)
           n == Len(array.buckets)
<1>0. IsArray(array, V) /\ n \in Nat /\ DOMAIN array.buckets = 1 .. n
  <2>1. IsArray(array, V)
    OBVIOUS
  <2> HIDE DEF V
  <2> QED BY <2>1, ArrayParts
<1> HIDE DEF V
<1>1. ASSUME NEW i \in 1 .. n
      PROVE  /\ Found(array, keys[i]) = Values(array)[i]
             /\ CurrentKey(array.buckets[i]) = keys[i]
             /\ InArray(Values(array)[i], array)
             /\ keys[i][1] = "long" => keys[i][2] < array.next
  <2>1. keys[i] = array.buckets[i].key /\ array.buckets[i].key \in ArrayKeySet
    BY <1>0, KeysAre, ArrayParts
  <2>2. Values(array)[i] = array.buckets[i].value
    BY <1>0, ValuesAre
  <2>3. Found(array, keys[i]) = Values(array)[i]
    BY <1>0, <2>1, <2>2, FoundAt
  <2>4. CurrentKey(array.buckets[i]) = keys[i]
    BY <2>1, KeyKinds DEF CurrentKey
  <2>5. InArray(Values(array)[i], array)
    BY <1>0, <2>2 DEF InArray
  <2>6. keys[i][1] = "long" => keys[i][2] < array.next
    BY <1>0, <2>1 DEF IsArray, NextFree
  <2> QED BY <2>3, <2>4, <2>5, <2>6
<1>2. /\ IsArray(all, V) /\ IsList(all) /\ Len(all.buckets) = n
      /\ \A i \in 1 .. n : all.buckets[i] = Bucket(Long(i - 1), array.buckets[i].value)
  BY <1>0, ValuesListed
<1> HIDE DEF all
<1>3. Values(all) = Values(array)
  <2>1. /\ Values(array) \in Seq(V) /\ Len(Values(array)) = n
        /\ \A i \in 1 .. n : Values(array)[i] = array.buckets[i].value
    BY <1>0, ValuesAre
  <2>2. /\ Values(all) \in Seq(V) /\ Len(Values(all)) = n
        /\ \A i \in 1 .. n : Values(all)[i] = all.buckets[i].value
    BY <1>2, ValuesAre
  <2>3. ASSUME NEW i \in 1 .. n
        PROVE  all.buckets[i].value = array.buckets[i].value
    <3>1. all.buckets[i] = Bucket(Long(i - 1), array.buckets[i].value)
      BY <1>2
    <3> QED BY <3>1 DEF Bucket
  <2>4. \A i \in 1 .. n : Values(all)[i] = Values(array)[i]
    BY <2>1, <2>2, <2>3
  <2> QED BY <2>1, <2>2, <2>4, SeqEqual
<1>4. ~IsAssociative(all)
  BY <1>2, ListIs DEF IsList
<1>5. list => all.buckets = array.buckets
  <2> SUFFICES ASSUME list PROVE all.buckets = array.buckets
    OBVIOUS
  <2>1. all.buckets \in Seq(BucketsOf(V)) /\ array.buckets \in Seq(BucketsOf(V))
    BY <1>0, <1>2, ArrayParts
  <2>2. ASSUME NEW i \in 1 .. n
        PROVE  all.buckets[i] = array.buckets[i]
    <3>1. array.buckets[i] = [key |-> array.buckets[i].key, value |-> array.buckets[i].value]
      BY <1>0, ArrayParts
    <3>2. array.buckets[i].key = Long(i - 1)
      BY <1>0, ListIs
    <3> QED BY <3>1, <3>2, <1>2 DEF Bucket
  <2> QED BY <2>1, <2>2, <1>2, SeqEqual
<1>6. list /\ keys # <<>> => HasNumericKeys(array)
  <2> SUFFICES ASSUME list, keys # <<>> PROVE HasNumericKeys(array)
    OBVIOUS
  <2>1. keys \in Seq(ArrayKeySet) /\ Len(keys) = n
    BY <1>0, KeysAre
  <2>2. n \in Nat \ {0}
    BY <2>1, EmptySeq
  <2>3. 1 \in 1 .. n /\ array.buckets[1].key = Long(1 - 1)
    BY <1>0, <2>2, ListIs
  <2> QED BY <1>0, <2>3 DEF HasNumericKeys, Long
<1>7. ASSUME NEW value \in Elements
      PROVE  /\ Values(Unshift(array, value)) = <<value>> \o Values(array)
             /\ list => ~IsAssociative(Unshift(array, value))
  <2>1. value \in V
    BY DEF V
  <2> QED BY <1>0, <2>1, UnshiftIs
<1>8. Values(FastMerge(array, all)) = Values(array) \o Values(array)
  <2>1. \A k \in Keys(all) : k[1] # "text"
    BY <1>2, FoundAt DEF IsList, Long
  <2>2. IsArray(Merged(EmptyArray, array), V) /\ Values(Merged(EmptyArray, array)) = Values(array)
    BY <1>0, CopyIs
  <2>3. Values(Merged(Merged(EmptyArray, array), all)) = Values(Merged(EmptyArray, array)) \o Values(all)
    <3> DEFINE copy == Merged(EmptyArray, array)
    <3> HIDE DEF copy
    <3>1. IsArray(copy, V) /\ IsArray(all, V)
      BY <1>2, <2>2 DEF copy
    <3>2. \A k \in Keys(all) : k[1] = "text" => k \notin Keys(copy)
      BY <2>1
    <3>3. Values(Merged(copy, all)) = Values(copy) \o Values(all)
      BY <3>1, <3>2, MergedIs
    <3> QED BY <3>3 DEF copy
  <2> QED BY <1>3, <2>2, <2>3 DEF FastMerge
<1>9. ASSUME NEW index \in Indexes, NEW value \in Elements,
             NEW key \in Keys(Update(EmptyArray, index, value)) \cup Keys(array), key[1] = "text"
      PROVE  Found(FastMerge(array, Update(EmptyArray, index, value)), key)
               = IF key \in Keys(Update(EmptyArray, index, value))
                   THEN Found(Update(EmptyArray, index, value), key) ELSE Found(array, key)
  <2> DEFINE other == Update(EmptyArray, index, value)
  <2>1. IsArray(other, V)
    <3>1. index \in PhpValues /\ value \in V /\ IsArray(EmptyArray, V)
      BY ValuesAssumption, EmptyIsArray DEF V
    <3> QED BY <3>1, StoredIs
  <2> HIDE DEF other
  <2>2. key \in ArrayKeySet
    BY <1>0, <2>1, FoundAt DEF other
  <2>3. IsArray(Merged(EmptyArray, array), V) /\ Found(Merged(EmptyArray, array), key) = Found(array, key)
    BY <1>0, <1>9, <2>2, CopyIs
  <2>4. Found(Merged(Merged(EmptyArray, array), other), key)
          = IF key \in Keys(other) THEN Found(other, key) ELSE Found(Merged(EmptyArray, array), key)
    BY <1>9, <2>1, <2>2, <2>3, MergedTexts
  <2> QED BY <2>3, <2>4 DEF FastMerge, other
<1> HIDE DEF list, keys
<1>10. \A other \in {Update(EmptyArray, index, value) : index \in Indexes, value \in Elements} :
         \A key \in Keys(other) \cup Keys(array) : key[1] = "text" =>
           Found(FastMerge(array, other), key)
             = IF key \in Keys(other) THEN Found(other, key) ELSE Found(array, key)
  BY <1>9
<1> QED BY <1>0, <1>1, <1>3, <1>4, <1>5, <1>6, <1>7, <1>8, <1>10 DEF WholeArrays, list, keys, all

\* What is stored is found, and what is dropped is not.
LEMMA StoredFound ==
  ASSUME IsArray(array, Elements \cup {"null"})
  PROVE  StoredIsFound
<1> DEFINE V == Elements \cup {"null"}
<1>1. IsArray(array, V) /\ Absent \notin V /\ Elements \subseteq V
  BY ElementsAssumption DEF Absent
<1> HIDE DEF V
<1>2. ASSUME NEW index \in Indexes, NEW value \in Elements, NEW j \in Indexes
      PROVE  LET stored  == Update(array, index, value)
                 dropped == Unset(array, index)
                 same    == Meant(j) = Meant(index) /\ Meant(j) # NoKey
                 old     == IssetFetch(array, j)
             IN  /\ Tells(array, j, old)
                 /\ Tells(stored, j, IF same THEN value ELSE old)
                 /\ Tells(dropped, j, IF same THEN Absent ELSE old)
  <2> DEFINE stored  == Update(array, index, value)
             dropped == Unset(array, index)
             same    == Meant(j) = Meant(index) /\ Meant(j) # NoKey
             old     == Found(array, Meant(j))
  <2>1. index \in PhpValues /\ j \in PhpValues /\ value \in V
    BY <1>1, ValuesAssumption
  <2>2. IsArray(stored, V) /\ IsArray(dropped, V)
    BY <1>1, <2>1, StoredIs, DroppedIs
  <2>3. Tells(array, j, old)
    BY <1>1, <2>1, TellsFound
  <2>4. IssetFetch(array, j) = old
    BY <2>3 DEF Tells
  <2>5. Tells(stored, j, Found(stored, Meant(j))) /\ Tells(dropped, j, Found(dropped, Meant(j)))
    BY <1>1, <2>1, <2>2, TellsFound
  <2>6. Found(stored, Meant(j)) = IF same THEN value ELSE old
    <3>1. CASE Meant(index) = NoKey
      BY <1>1, <2>1, <3>1, StoredIs
    <3>2. CASE Meant(index) # NoKey
      <4>1. Puts(stored, array, Meant(index), value)
        BY <1>1, <2>1, <3>2, StoredIs
      <4> HIDE DEF stored
      <4> QED BY <3>2, <4>1 DEF Puts
    <3> QED BY <3>1, <3>2
  <2>7. Found(dropped, Meant(j)) = IF same THEN Absent ELSE old
    <3>1. Deletes(dropped, array, Meant(index))
      BY <1>1, <2>1, DroppedIs
    <3>2. Meant(j) = NoKey => old = Absent
      BY <1>1, KeysFind
    <3> HIDE DEF dropped, old
    <3>3. Found(dropped, Meant(j)) = IF Meant(j) = Meant(index) THEN Absent ELSE Found(array, Meant(j))
      BY <3>1 DEF Deletes
    <3> QED BY <3>2, <3>3 DEF old
  <2> HIDE DEF stored, dropped, same, old
  <2> QED BY <2>3, <2>4, <2>5, <2>6, <2>7 DEF stored, dropped, same
<1>3. ASSUME NEW t \in Literals, NEW u \in Literals, NEW value \in Elements
      PROVE  LET old == IssetStringFetch(array, u)
             IN  /\ LiteralTells(UpdateString(array, t, value), u, IF t = u THEN value ELSE old)
                 /\ LiteralTells(UnsetString(array, t), u, IF t = u THEN Absent ELSE old)
                 /\ u \notin DOMAIN KeyNumber => Tells(array, Text(u), old)
  <2> DEFINE old     == Found(array, Text(u))
             stored  == UpdateString(array, t, value)
             dropped == UnsetString(array, t)
  <2>1. t \in TextSet /\ u \in TextSet /\ value \in V /\ Text(t) \in ArrayKeySet
    BY <1>1, ValuesAssumption DEF TextSet, ArrayKeySet, Text
  <2>2. IssetStringFetch(array, u) = old
    BY <1>1, <2>1, ChainFinds DEF IssetStringFetch
  <2>3. IsArray(stored, V) /\ Puts(stored, array, Text(t), value)
    BY <1>1, <2>1, PutIs DEF UpdateString
  <2>4. IsArray(dropped, V) /\ Deletes(dropped, array, Text(t))
    BY <1>1, <2>1, DeletedIs DEF UnsetString
  <2>5. Text(u) = Text(t) <=> t = u
    BY DEF Text
  <2> HIDE DEF stored, dropped, old
  <2>6. Found(stored, Text(u)) = IF t = u THEN value ELSE old
    BY <2>3, <2>5 DEF Puts, old
  <2>7. Found(dropped, Text(u)) = IF t = u THEN Absent ELSE old
    BY <2>4, <2>5 DEF Deletes, old
  <2>8. /\ LiteralTells(stored, u, Found(stored, Text(u)))
        /\ LiteralTells(dropped, u, Found(dropped, Text(u)))
    BY <1>1, <2>1, <2>3, <2>4, LiteralTellsFound
  <2>9. u \notin DOMAIN KeyNumber => Tells(array, Text(u), old)
    <3> SUFFICES ASSUME u \notin DOMAIN KeyNumber PROVE Tells(array, Text(u), old)
      OBVIOUS
    <3>1. Text(u) \in PhpValues
      BY ValuesAssumption DEF PhpValues, Text
    <3>2. Meant(Text(u)) = Text(u)
      <4>1. Text(u)[1] = "text" /\ Text(u)[2] = u
        BY DEF Text
      <4>2. Meant(Text(u)) = SymbolKey(u)
        BY <3>1, <4>1, MeantIs
      <4> QED BY <4>2, <2>1, SymbolKeyIs
    <3>3. Tells(array, Text(u), Found(array, Meant(Text(u))))
      BY <1>1, <3>1, TellsFound
    <3> QED BY <3>2, <3>3 DEF old
  <2> QED BY <2>2, <2>6, <2>7, <2>8, <2>9 DEF stored, dropped
<1> QED BY <1>2, <1>3 DEF StoredIsFound

-----------------------------------------------------------------------------
(* Texts.                                                                  *)

\* A piece of a text.
LEMMA PieceIs ==
  ASSUME NEW S, NEW s \in Seq(S), NEW p \in Nat, NEW k \in Nat, p + k <= Len(s)
  PROVE  /\ SubSeq(s, p + 1, p + k) \in Seq(S)
         /\ Len(SubSeq(s, p + 1, p + k)) = k
         /\ \A i \in 1 .. k : SubSeq(s, p + 1, p + k)[i] = s[p + i]
<1> DEFINE from == p + 1
           to == p + k
<1>1. from \in Int /\ to \in Int /\ Len(s) \in Nat
  BY LenProperties
<1>2. \A i \in from .. to : i \in 1 .. Len(s)
  BY <1>1
<1>3. \A i \in from .. to : s[i] \in S
  BY <1>2, ElementOfSeq
<1>4. /\ to - from + 1 = k
      /\ (IF from <= to THEN to - from + 1 ELSE 0) = k
      /\ \A i \in 1 .. k : from + i - 1 = p + i
  OBVIOUS
<1> HIDE DEF from, to
<1>5. /\ SubSeq(s, from, to) \in Seq(S)
      /\ Len(SubSeq(s, from, to)) = IF from <= to THEN to - from + 1 ELSE 0
      /\ \A i \in 1 .. to - from + 1 : SubSeq(s, from, to)[i] = s[from + i - 1]
  BY <1>1, <1>3, SubSeqProperties
<1>6. /\ SubSeq(s, from, to) \in Seq(S)
      /\ Len(SubSeq(s, from, to)) = k
      /\ \A i \in 1 .. k : SubSeq(s, from, to)[i] = s[p + i]
  BY <1>4, <1>5
<1> QED BY <1>6 DEF from, to

\* A text stands at a position of another, character by character.
StandsAt(needle, s, p) == \A i \in 1 .. Len(needle) : s[p + i] = needle[i]

\* A piece is a text where the text stands.
LEMMA PieceStands ==
  ASSUME NEW S, NEW s \in Seq(S), NEW needle \in Seq(S), NEW p \in Nat, p + Len(needle) <= Len(s)
  PROVE  SubSeq(s, p + 1, p + Len(needle)) = needle <=> StandsAt(needle, s, p)
<1> DEFINE k == Len(needle)
           piece == SubSeq(s, p + 1, p + k)
<1>1. k \in Nat /\ p + k <= Len(s)
  BY LenProperties
<1>2. piece \in Seq(S) /\ Len(piece) = k /\ \A i \in 1 .. k : piece[i] = s[p + i]
  <2> HIDE DEF k
  <2> QED BY <1>1, PieceIs
<1> HIDE DEF piece
<1>3. ASSUME StandsAt(needle, s, p) PROVE piece = needle
  <2>1. \A i \in 1 .. Len(piece) : piece[i] = needle[i]
    BY <1>2, <1>3 DEF StandsAt
  <2> QED BY <1>2, <2>1, SeqEqual
<1>4. ASSUME piece = needle PROVE StandsAt(needle, s, p)
  BY <1>2, <1>4 DEF StandsAt
<1> QED BY <1>3, <1>4 DEF piece

\* The positions a search finds are those where the text stands.
LEMMA StandsIs ==
  ASSUME NEW S, NEW s \in Seq(S), NEW needle \in Seq(S), NEW offset \in Nat
  PROVE  /\ Stands(needle, s, offset)
              = {p \in offset .. Len(s) - Len(needle) : StandsAt(needle, s, p)}
         /\ Stands(needle, s, offset) \in SUBSET Nat
<1>1. Len(s) \in Nat /\ Len(needle) \in Nat
  BY LenProperties
<1>2. ASSUME NEW p \in offset .. Len(s) - Len(needle)
      PROVE  SubSeq(s, p + 1, p + Len(needle)) = needle <=> StandsAt(needle, s, p)
  <2>1. p \in Nat /\ p + Len(needle) <= Len(s)
    BY <1>1
  <2> QED BY <2>1, PieceStands
<1>3. Stands(needle, s, offset) = {p \in offset .. Len(s) - Len(needle) : StandsAt(needle, s, p)}
  BY <1>2 DEF Stands
<1> QED BY <1>1, <1>3

\* The search from an offset finds the first of them.
LEMMA FirstFound ==
  ASSUME NEW S, NEW s \in Seq(S), NEW needle \in Seq(S), needle # <<>>, NEW offset \in 0 .. Len(s)
  PROVE  LET found == zephir_fast_strpos(s, needle, offset)
             all == Stands(needle, s, offset)
         IN  /\ all = {} => found = -1
             /\ all # {} => found \in all /\ found >= 0 /\ \A p \in all : found <= p
<1> DEFINE all == Stands(needle, s, offset)
<1>1. all \in SUBSET Nat /\ offset \in Nat
  BY StandsIs, LenProperties
<1>2. ~(offset > Len(s))
  BY LenProperties
<1>3. zephir_fast_strpos(s, needle, offset) = IF all = {} THEN -1 ELSE Min(all)
  BY <1>2 DEF zephir_fast_strpos, NotFound
<1> HIDE DEF all
<1>4. ASSUME all # {}
      PROVE  Min(all) \in all /\ Min(all) >= 0 /\ \A p \in all : Min(all) <= p
  <2>1. Min(all) \in all /\ \A p \in all : Min(all) <= p
    BY <1>1, <1>4, MinIs
  <2>2. \A p \in all : p \in Nat
    BY <1>1
  <2> DEFINE least == Min(all)
  <2> HIDE DEF least
  <2>3. least >= 0
    BY <2>1, <2>2 DEF least
  <2> QED BY <2>1, <2>3 DEF least
<1> QED BY <1>3, <1>4 DEF all

\* Beginning with a text is that it stands at position 0.
LEMMA BeginsIs ==
  ASSUME NEW S, NEW s \in Seq(S), NEW needle \in Seq(S)
  PROVE  Begins(s, needle, FALSE) <=> StandsAt(needle, s, 0)
<1>1. DOMAIN needle = 1 .. Len(needle) /\ \A i \in 1 .. Len(needle) : 0 + i = i
  BY LenProperties
<1> QED BY <1>1 DEF Begins, StandsAt

\* The last characters of a text.
LEMMA LastIs ==
  ASSUME NEW S, NEW s \in Seq(S), NEW k \in Nat, k <= Len(s)
  PROVE  /\ LastOf(s, k) \in Seq(S) /\ Len(LastOf(s, k)) = k
         /\ \A i \in 1 .. k : LastOf(s, k)[i] = s[Len(s) - k + i]
<1> DEFINE p == Len(s) - k
<1>1. p \in Nat /\ p + k = Len(s)
  BY LenProperties
<1> HIDE DEF p
<1>2. p + k <= Len(s)
  BY <1>1, LenProperties
<1>3. /\ SubSeq(s, p + 1, p + k) \in Seq(S) /\ Len(SubSeq(s, p + 1, p + k)) = k
      /\ \A i \in 1 .. k : SubSeq(s, p + 1, p + k)[i] = s[p + i]
  BY <1>1, <1>2, PieceIs
<1>4. LastOf(s, k) = SubSeq(s, p + 1, p + k)
  BY <1>1 DEF LastOf, p
<1> QED BY <1>3, <1>4 DEF p

\* A text in small letters.
LEMMA LoweredIs ==
  ASSUME NEW S, NEW s \in Seq(S)
  PROVE  LET T == {tolower(c) : c \in S} IN
         /\ Lowered(s) \in Seq(T) /\ Len(Lowered(s)) = Len(s)
         /\ \A i \in 1 .. Len(s) : Lowered(s)[i] = tolower(s[i])
<1> DEFINE T == {tolower(c) : c \in S}
           n == Len(s)
           f == [i \in 1 .. n |-> tolower(s[i])]
<1>1. n \in Nat /\ DOMAIN s = 1 .. n
  BY LenProperties
<1>2. Lowered(s) = f
  BY <1>1 DEF Lowered
<1>3. \A i \in 1 .. n : s[i] \in S
  BY ElementOfSeq
<1>4. \A i \in 1 .. n : tolower(s[i]) \in T
  BY <1>3
<1> HIDE DEF T
<1>5. f \in [1 .. n -> T] /\ \A i \in 1 .. n : f[i] = tolower(s[i])
  BY <1>4
<1> HIDE DEF f, n
<1>6. f \in Seq(T) /\ Len(f) = n
  BY <1>1, <1>5, BuiltSeq
<1> QED BY <1>2, <1>5, <1>6 DEF T, n

\* Folding the case is the same as lowering both texts.
LEMMA FoldedIs ==
  ASSUME NEW S, NEW s \in Seq(S), NEW needle \in Seq(S), Len(needle) <= Len(s)
  PROVE  Begins(s, needle, TRUE) <=> Begins(Lowered(s), Lowered(needle), FALSE)
<1> DEFINE T == {tolower(c) : c \in S}
           low == Lowered(needle)
<1>1. /\ Lowered(s) \in Seq(T) /\ \A i \in 1 .. Len(s) : Lowered(s)[i] = tolower(s[i])
      /\ low \in Seq(T) /\ Len(low) = Len(needle)
      /\ \A i \in 1 .. Len(needle) : low[i] = tolower(needle[i])
  BY LoweredIs
<1> HIDE DEF low
<1>2. DOMAIN needle = 1 .. Len(needle) /\ DOMAIN low = 1 .. Len(needle)
  <2> HIDE DEF T
  <2> QED BY <1>1, LenProperties
<1>3. \A i \in 1 .. Len(needle) : i \in 1 .. Len(s)
  BY LenProperties
<1> QED BY <1>1, <1>2, <1>3 DEF Begins, low

\* What is cut out at a position, as many characters as there are at least.
LEMMA SubstrAt ==
  ASSUME NEW S, NEW s \in Seq(S), NEW p \in Nat, NEW k \in Nat \ {0}, p + k <= Len(s)
  PROVE  zephir_substr(s, p, k) = SubSeq(s, p + 1, p + k)
<1> DEFINE n == Len(s)
<1>1. n \in Nat
  BY LenProperties
<1>2. (IF k > n \/ k = 0 THEN n ELSE k) = k
  BY <1>1
<1>3. Max({p, -n}) = p
  BY <1>1 DEF Max
<1>4. Min({k, n - p}) = k
  BY <1>1 DEF Min
<1>5. ~(p < 0) /\ ~(k < 0) /\ ~(k < -n) /\ ~(p > n) /\ ~(p >= n)
  BY <1>1
<1> QED BY <1>2, <1>3, <1>4, <1>5 DEF zephir_substr

\* And before the end.
LEMMA SubstrLast ==
  ASSUME NEW S, NEW s \in Seq(S), NEW k \in Nat \ {0}, k <= Len(s)
  PROVE  zephir_substr(s, -k, 0) = LastOf(s, k)
<1> DEFINE n == Len(s)
           start == n + (-k)
<1>1. n \in Nat
  BY LenProperties
<1>2. (IF 0 > n \/ 0 = 0 THEN n ELSE 0) = n
  OBVIOUS
<1>3. Max({-k, -n}) = -k
  BY <1>1 DEF Max
<1>4. n - start = k /\ Min({n, k}) = k
  BY <1>1 DEF Min
<1>5. /\ -k < 0 /\ ~(n < 0) /\ ~(0 < -n) /\ ~(-k > n) /\ ~(start >= n)
      /\ start + 1 = n - k + 1 /\ start + k = n
  BY <1>1
<1>6. zephir_substr(s, -k, 0) = SubSeq(s, start + 1, start + Min({n, n - start}))
  BY <1>2, <1>3, <1>5 DEF zephir_substr
<1>7. zephir_substr(s, -k, 0) = SubSeq(s, n - k + 1, n)
  <2>1. start + Min({n, n - start}) = n
    BY <1>4, <1>5
  <2> QED BY <1>6, <2>1, <1>5
<1> QED BY <1>7 DEF LastOf

\* The searches from the start agree.
LEMMA StartsAgree ==
  ASSUME NEW S, NEW s \in Seq(S), NEW needle \in Seq(S), needle # <<>>
  PROVE  LET first == zephir_fast_strpos(s, needle, 0)
         IN  /\ zephir_memnstr(s, needle) <=> (first >= 0)
             /\ zephir_fast_strpos_str(s, needle) = first
             /\ zephir_start_with(s, needle, FALSE) <=> (first = 0)
             /\ zephir_start_with_str(s, needle) <=> (first = 0)
<1> DEFINE first == zephir_fast_strpos(s, needle, 0)
           all == Stands(needle, s, 0)
           n == Len(s)
           k == Len(needle)
<1>1. n \in Nat /\ k \in Nat \ {0} /\ (s = <<>> <=> n = 0)
  BY LenProperties, EmptySeq
<1>2. /\ all = {} => first = -1
      /\ all # {} => first \in all /\ first >= 0 /\ \A p \in all : first <= p
  <2>1. 0 \in 0 .. Len(s)
    BY <1>1
  <2> QED BY <2>1, FirstFound
<1>3. all = {p \in 0 .. n - k : StandsAt(needle, s, p)} /\ all \in SUBSET Nat
  BY StandsIs
<1>4. zephir_fast_strpos_str(s, needle) = first
  BY <1>1 DEF zephir_fast_strpos_str, zephir_fast_strpos
<1>5. zephir_memnstr(s, needle) <=> n >= k /\ all # {}
  BY DEF zephir_memnstr
<1>6. zephir_start_with(s, needle, FALSE) <=> k <= n /\ StandsAt(needle, s, 0)
  <2>1. k <= n => s # <<>>
    BY <1>1
  <2>2. Begins(s, needle, FALSE) <=> StandsAt(needle, s, 0)
    BY BeginsIs
  <2> QED BY <2>1, <2>2, Zenon DEF zephir_start_with
<1>7. zephir_start_with_str(s, needle) <=> k <= n /\ StandsAt(needle, s, 0)
  BY BeginsIs DEF zephir_start_with_str
<1> HIDE DEF first, all, n, k
<1>8. all # {} => n >= k
  BY <1>1, <1>3
<1>9. 0 \in all <=> k <= n /\ StandsAt(needle, s, 0)
  BY <1>1, <1>3
<1>10. 0 \in all <=> first = 0
  <2>1. ASSUME 0 \in all PROVE first = 0
    <3>1. first \in Nat /\ first <= 0
      BY <1>2, <1>3, <2>1
    <3> QED BY <3>1
  <2>2. ASSUME first = 0 PROVE 0 \in all
    BY <1>2, <2>2
  <2> QED BY <2>1, <2>2
<1>11. all # {} <=> first >= 0
  BY <1>2
<1> QED BY <1>4, <1>5, <1>6, <1>7, <1>8, <1>9, <1>10, <1>11 DEF first

\* So do those at the end, and what is cut out there.
LEMMA EndsAgree ==
  ASSUME NEW S, NEW s \in Seq(S), NEW needle \in Seq(S), needle # <<>>
  PROVE  /\ zephir_end_with(s, needle, FALSE)
              <=> (zephir_substr(s, -Len(needle), 0) = needle /\ Len(needle) <= Len(s))
         /\ zephir_end_with_str(s, needle) <=> zephir_end_with(s, needle, FALSE)
<1> DEFINE n == Len(s)
           k == Len(needle)
<1>1. n \in Nat /\ k \in Nat \ {0} /\ (s = <<>> <=> n = 0)
  BY LenProperties, EmptySeq
<1>2. zephir_end_with_str(s, needle) <=> zephir_end_with(s, needle, FALSE)
  BY DEF zephir_end_with_str, zephir_end_with
<1>3. zephir_end_with(s, needle, FALSE) <=> k <= n /\ Begins(LastOf(s, k), needle, FALSE)
  <2>1. k <= n => s # <<>>
    BY <1>1
  <2> QED BY <2>1, Zenon DEF zephir_end_with
<1>4. ASSUME k <= n
      PROVE  Begins(LastOf(s, k), needle, FALSE) <=> zephir_substr(s, -k, 0) = needle
  <2> DEFINE end == LastOf(s, k)
  <2>1. zephir_substr(s, -k, 0) = end
    BY <1>1, <1>4, SubstrLast
  <2>2. end \in Seq(S) /\ Len(end) = k
    BY <1>1, <1>4, LastIs
  <2> HIDE DEF end
  <2>3. Begins(end, needle, FALSE) <=> \A i \in 1 .. k : end[i] = needle[i]
    BY LenProperties DEF Begins
  <2>4. end = needle <=> \A i \in 1 .. k : end[i] = needle[i]
    BY <2>2, SeqEqual
  <2> QED BY <2>1, <2>3, <2>4 DEF end
<1> QED BY <1>2, <1>3, <1>4

\* Searches that fold the case are searches in the lowered texts.
LEMMA FoldsAgree ==
  ASSUME NEW S, NEW s \in Seq(S), NEW needle \in Seq(S), needle # <<>>
  PROVE  /\ zephir_start_with(s, needle, TRUE)
              <=> zephir_start_with(Lowered(s), Lowered(needle), FALSE)
         /\ zephir_end_with(s, needle, TRUE)
              <=> zephir_end_with(Lowered(s), Lowered(needle), FALSE)
<1> DEFINE T == {tolower(c) : c \in S}
           low == Lowered(needle)
           ls == Lowered(s)
           k == Len(needle)
<1>1. /\ ls \in Seq(T) /\ Len(ls) = Len(s)
      /\ \A i \in 1 .. Len(s) : ls[i] = tolower(s[i])
      /\ low \in Seq(T) /\ Len(low) = k
  BY LoweredIs
<1>2. Len(s) \in Nat /\ k \in Nat \ {0} /\ (s = <<>> <=> Len(s) = 0)
  BY LenProperties, EmptySeq
<1>3. (ls = <<>> <=> Len(s) = 0) /\ low # <<>>
  <2> HIDE DEF T, ls, low, k
  <2> QED BY <1>1, <1>2, EmptySeq
<1>4. k <= Len(s) => (Begins(s, needle, TRUE) <=> Begins(ls, low, FALSE))
  BY FoldedIs
<1>5. ASSUME k <= Len(s)
      PROVE  Begins(LastOf(s, k), needle, TRUE) <=> Begins(LastOf(ls, k), low, FALSE)
  <2> DEFINE end == LastOf(s, k)
             lend == LastOf(ls, k)
  <2>1. end \in Seq(S) /\ Len(end) = k /\ \A i \in 1 .. k : end[i] = s[Len(s) - k + i]
    BY <1>2, <1>5, LastIs
  <2>2. lend \in Seq(T) /\ Len(lend) = k /\ \A i \in 1 .. k : lend[i] = ls[Len(s) - k + i]
    <3> HIDE DEF T, ls, k
    <3>1. /\ LastOf(ls, k) \in Seq(T) /\ Len(LastOf(ls, k)) = k
          /\ \A i \in 1 .. k : LastOf(ls, k)[i] = ls[Len(ls) - k + i]
      <4>1. ls \in Seq(T) /\ k \in Nat /\ k <= Len(ls)
        BY <1>1, <1>2, <1>5
      <4> QED BY <4>1, LastIs
    <3>2. \A i \in 1 .. k : Len(ls) - k + i = Len(s) - k + i
      BY <1>1
    <3> QED BY <3>1, <3>2
  <2>3. \A i \in 1 .. k : Len(s) - k + i \in 1 .. Len(s)
    BY <1>2, <1>5
  <2>4. Begins(end, needle, TRUE) <=> Begins(Lowered(end), low, FALSE)
    <3> HIDE DEF low
    <3>1. Len(needle) <= Len(end)
      BY <2>1, <1>2
    <3> HIDE DEF end
    <3> QED BY <2>1, <3>1, FoldedIs DEF low
  <2>5. Lowered(end) = lend
    <3>1. Lowered(end) \in Seq(T) /\ Len(Lowered(end)) = k /\ \A i \in 1 .. k : Lowered(end)[i] = tolower(end[i])
      <4> HIDE DEF end, k
      <4> QED BY <2>1, LoweredIs
    <3>2. \A i \in 1 .. k : Lowered(end)[i] = lend[i]
      <4> HIDE DEF end, lend, ls, k
      <4> QED BY <1>1, <2>1, <2>2, <2>3, <3>1
    <3> HIDE DEF T, end, lend, k
    <3> QED BY <2>2, <3>1, <3>2, SeqEqual
  <2> QED BY <2>4, <2>5
<1> HIDE DEF ls, low
<1>6. zephir_start_with(s, needle, TRUE) <=> zephir_start_with(ls, low, FALSE)
  BY <1>1, <1>2, <1>3, <1>4 DEF zephir_start_with
<1>7. zephir_end_with(s, needle, TRUE) <=> zephir_end_with(ls, low, FALSE)
  BY <1>1, <1>2, <1>3, <1>5 DEF zephir_end_with
<1> QED BY <1>6, <1>7 DEF ls, low

\* A search from an offset finds the first position from there on where the text begins.
LEMMA OffsetsAgree ==
  ASSUME NEW S, NEW s \in Seq(S), NEW needle \in Seq(S), needle # <<>>, NEW offset \in 0 .. Len(s)
  PROVE  LET found == zephir_fast_strpos(s, needle, offset)
         IN  /\ found >= 0 => found >= offset /\ zephir_substr(s, found, Len(needle)) = needle
             /\ \A p \in offset .. Len(s) - 1 :
                  zephir_start_with(SubSeq(s, p + 1, Len(s)), needle, FALSE)
                    => found \in offset .. p
<1> DEFINE found == zephir_fast_strpos(s, needle, offset)
           all == Stands(needle, s, offset)
           n == Len(s)
           k == Len(needle)
<1>1. n \in Nat /\ k \in Nat \ {0} /\ offset \in Nat /\ offset <= n
  BY LenProperties, EmptySeq
<1>2. /\ all = {} => found = -1
      /\ all # {} => found \in all /\ found >= 0 /\ \A p \in all : found <= p
  BY FirstFound
<1>3. all = {p \in offset .. n - k : StandsAt(needle, s, p)}
  BY <1>1, StandsIs
<1> HIDE DEF found, all
<1>4. ASSUME found >= 0
      PROVE  found >= offset /\ zephir_substr(s, found, k) = needle
  <2>1. found \in offset .. n - k /\ StandsAt(needle, s, found)
    BY <1>2, <1>3, <1>4
  <2>2. found \in Nat /\ found + k <= n /\ found >= offset
    BY <1>1, <2>1
  <2>3. zephir_substr(s, found, k) = SubSeq(s, found + 1, found + k)
    BY <1>1, <2>2, SubstrAt
  <2>4. SubSeq(s, found + 1, found + k) = needle
    BY <2>1, <2>2, PieceStands
  <2> QED BY <2>2, <2>3, <2>4
<1>5. ASSUME NEW p \in offset .. n - 1,
             zephir_start_with(SubSeq(s, p + 1, n), needle, FALSE)
      PROVE  found \in offset .. p
  <2> DEFINE m == n - p
             rest == SubSeq(s, p + 1, n)
  <2>1. p \in Nat /\ m \in Nat /\ p + m = n
    BY <1>1
  <2>2. rest \in Seq(S) /\ Len(rest) = m /\ \A i \in 1 .. m : rest[i] = s[p + i]
    <3> HIDE DEF m
    <3>1. p + m <= Len(s)
      BY <1>1, <2>1
    <3>2. /\ SubSeq(s, p + 1, p + m) \in Seq(S) /\ Len(SubSeq(s, p + 1, p + m)) = m
          /\ \A i \in 1 .. m : SubSeq(s, p + 1, p + m)[i] = s[p + i]
      BY <2>1, <3>1, PieceIs
    <3> QED BY <2>1, <3>2
  <2> HIDE DEF m
  <2>3. k <= m /\ Begins(rest, needle, FALSE)
    BY <1>5, <2>2 DEF zephir_start_with
  <2> HIDE DEF rest
  <2>4. p \in offset .. n - k
    BY <1>1, <2>1, <2>3
  <2>5. \A i \in 1 .. k : rest[i] = needle[i] /\ i \in 1 .. m
    <3>1. DOMAIN needle = 1 .. k
      BY LenProperties
    <3> QED BY <1>1, <2>1, <2>3, <3>1 DEF Begins
  <2>6. StandsAt(needle, s, p)
    BY <2>2, <2>5 DEF StandsAt
  <2>7. p \in all
    BY <1>3, <2>4, <2>6
  <2>8. found \in all /\ found <= p
    BY <1>2, <2>7
  <2>9. found \in offset .. n - k
    BY <1>3, <2>8
  <2> QED BY <1>1, <2>8, <2>9
<1> QED BY <1>4, <1>5 DEF found

\* All searches in the text agree.
LEMMA SearchesIn ==
  ASSUME text \in Seq(Letters)
  PROVE  SearchesAgree
<1> SUFFICES ASSUME NEW needle \in UNION {[1 .. n -> Letters] : n \in 1 .. 2}
    PROVE LET first == zephir_fast_strpos(text, needle, 0)
    IN  /\ zephir_memnstr(text, needle) <=> (first >= 0)
        /\ zephir_fast_strpos_str(text, needle) = first
        /\ zephir_start_with(text, needle, FALSE) <=> (first = 0)
        /\ zephir_start_with_str(text, needle) <=> (first = 0)
        /\ zephir_end_with(text, needle, FALSE)
             <=> (zephir_substr(text, -Len(needle), 0) = needle /\ Len(needle) <= Len(text))
        /\ zephir_end_with_str(text, needle) <=> zephir_end_with(text, needle, FALSE)
        /\ zephir_start_with(text, needle, TRUE)
             <=> zephir_start_with(Lowered(text), Lowered(needle), FALSE)
        /\ zephir_end_with(text, needle, TRUE)
             <=> zephir_end_with(Lowered(text), Lowered(needle), FALSE)
        /\ \A offset \in 0 .. Len(text) :
             LET found == zephir_fast_strpos(text, needle, offset)
             IN  /\ found >= 0 => found >= offset /\ zephir_substr(text, found, Len(needle)) = needle
                 /\ \A p \in offset .. Len(text) - 1 :
                      zephir_start_with(SubSeq(text, p + 1, Len(text)), needle, FALSE)
                        => found \in offset .. p
  BY DEF SearchesAgree
<1>1. PICK n \in 1 .. 2 : needle \in [1 .. n -> Letters]
  OBVIOUS
<1>2. needle \in Seq(Letters) /\ Len(needle) = n
  BY <1>1, BuiltSeq
<1>3. needle # <<>>
  BY <1>2, EmptySeq
<1> QED BY <1>2, <1>3, StartsAgree, EndsAgree, FoldsAgree, OffsetsAgree

\* With a length that stands for itself, zephir_substr() cuts out what PHP's substr() does.
LEMMA SubstrOf ==
  ASSUME NEW S, NEW s \in Seq(S), NEW f \in Int, NEW l \in Int, l = 0 => Len(s) = 0
  PROVE  zephir_substr(s, f, l) = Cut(s, f, l)
<1> DEFINE n     == Len(s)
           count == IF l > n \/ l = 0 THEN n ELSE l
           from  == Max({f, -n})
           start == IF from < 0 THEN n + from ELSE from
           taken == IF count < 0 THEN n - start + count ELSE Min({count, n - start})
           refused == l < -n \/ f > n \/ (count < 0 /\ count + n - from < 0) \/ start >= n
           at    == IF f < 0 THEN Max({0, n + f}) ELSE f
           to    == IF l < 0 THEN n + l ELSE Min({n, at + l})
           none  == at >= n \/ to < 0 \/ (f >= 0 /\ to < at)
<1>1. n \in Nat /\ (l = 0 => n = 0)
  BY LenProperties
<1>2. \A a, b \in Int : /\ Max({a, b}) = IF a >= b THEN a ELSE b
                        /\ Min({a, b}) = IF a <= b THEN a ELSE b
  BY DEF Max, Min
<1>3. zephir_substr(s, f, l) = IF refused THEN False ELSE SubSeq(s, start + 1, start + taken)
  BY DEF zephir_substr
<1>4. Cut(s, f, l) = IF none THEN False ELSE SubSeq(s, at + 1, to)
  BY DEF Cut
<1> HIDE DEF n
<1>5. from = (IF f >= -n THEN f ELSE -n) /\ from \in Int
  BY <1>1, <1>2
<1> HIDE DEF from
<1>6. start = (IF f < 0 THEN IF n + f >= 0 THEN n + f ELSE 0 ELSE f) /\ start \in Nat
  BY <1>1, <1>5
<1>7. at = start
  <2>1. f < 0 => Max({0, n + f}) = IF 0 >= n + f THEN 0 ELSE n + f
    BY <1>1, <1>2
  <2> QED BY <1>1, <1>6, <2>1
<1>8. count \in Int /\ count = IF l > n THEN n ELSE l
  BY <1>1
<1> HIDE DEF start, at, count
<1>9. taken = IF count < 0 THEN n - start + count ELSE IF count <= n - start THEN count ELSE n - start
  <2> DEFINE rest == n - start
  <2>1. rest \in Int
    BY <1>1, <1>6
  <2> HIDE DEF rest
  <2>2. Min({count, rest}) = IF count <= rest THEN count ELSE rest
    BY <1>2, <1>8, <2>1
  <2> QED BY <2>2 DEF rest
<1>10. to = IF l < 0 THEN n + l ELSE IF n <= start + l THEN n ELSE start + l
  <2> DEFINE reach == start + l
  <2>1. n \in Int /\ reach \in Int
    BY <1>1, <1>6
  <2> HIDE DEF reach
  <2>2. Min({n, reach}) = IF n <= reach THEN n ELSE reach
    BY <1>2, <2>1
  <2> QED BY <1>7, <2>2 DEF reach
<1> HIDE DEF taken, to
<1>11. refused <=> none
  <2>1. none <=> (start >= n \/ to < 0 \/ (f >= 0 /\ to < start))
    BY <1>7
  <2>2. CASE l < 0
    <3>1. to = n + l /\ count = l
      BY <1>1, <1>8, <1>10, <2>2
    <3>2. l < -n <=> to < 0
      BY <1>1, <3>1
    <3>3. CASE f < 0
      <4>1. l >= -n => ~(count + n - from < 0)
        BY <1>1, <1>5, <3>1, <3>3
      <4> QED BY <1>1, <2>1, <3>1, <3>2, <3>3, <4>1
    <3>4. CASE f >= 0
      <4>1. start = f /\ from = f
        BY <1>1, <1>5, <1>6, <3>4
      <4> QED BY <1>1, <2>1, <2>2, <3>1, <3>2, <3>4, <4>1
    <3> QED BY <3>3, <3>4
  <2>3. CASE l >= 0
    <3>1. ~(count < 0) /\ ~(l < -n) /\ to >= 0
      BY <1>1, <1>6, <1>8, <1>10, <2>3
    <3>2. f > n => start >= n
      BY <1>1, <1>6
    <3>3. ~(start >= n) => ~(to < start)
      BY <1>1, <1>6, <1>10, <2>3
    <3>4. refused <=> start >= n
      BY <3>1, <3>2
    <3>5. none <=> start >= n
      <4>1. ~(to < 0)
        <5>1. to \in Int
          BY <1>1, <1>6, <1>10
        <5> QED BY <3>1, <5>1
      <4> HIDE DEF none
      <4> QED BY <2>1, <3>3, <4>1
    <3> QED BY <3>4, <3>5
  <2> QED BY <2>2, <2>3
<1>12. ASSUME ~none PROVE start + taken = to
  <2>1. start < n
    BY <1>1, <1>6, <1>7, <1>12
  <2>2. CASE l < 0
    BY <1>1, <1>6, <1>8, <1>9, <1>10, <2>2
  <2>3. CASE l >= 0
    BY <1>1, <1>6, <1>8, <1>9, <1>10, <2>1, <2>3
  <2> QED BY <2>2, <2>3
<1> HIDE DEF refused, none
<1> QED BY <1>3, <1>4, <1>7, <1>11, <1>12

\* What zephir_substr() cuts out is what PHP's substr() does, for every text, start and
\* length but zero: where PHP then cuts an empty text, zephir_substr() cuts all the rest.
THEOREM SubstrCuts ==
  ASSUME NEW S, NEW s \in Seq(S), NEW f \in Int, NEW l \in Int
  PROVE  /\ l # 0 => zephir_substr(s, f, l) = Cut(s, f, l)
         /\ zephir_substr(s, f, 0) = Cut(s, f, Len(s))
<1> DEFINE n == Len(s)
<1>1. n \in Nat
  BY LenProperties
<1>2. ASSUME l # 0 PROVE zephir_substr(s, f, l) = Cut(s, f, l)
  BY <1>2, SubstrOf
<1>3. zephir_substr(s, f, n) = Cut(s, f, n)
  BY <1>1, SubstrOf
<1>4. zephir_substr(s, f, 0) = zephir_substr(s, f, n)
  BY <1>1 DEF zephir_substr
<1> QED BY <1>2, <1>3, <1>4

\* A finite set of numbers has its greatest.
LEMMA MaxIs ==
  ASSUME NEW n \in Nat, NEW T \in SUBSET (0 .. n), T # {}
  PROVE  Max(T) \in T /\ \A y \in T : Max(T) >= y
<1> DEFINE U == {i \in 0 .. n : n - i \in T}
<1>1. U \in SUBSET Nat
  OBVIOUS
<1>2. U # {}
  <2>1. PICK y \in T : TRUE
    OBVIOUS
  <2>2. n - y \in 0 .. n /\ n - (n - y) = y
    OBVIOUS
  <2> QED BY <2>2
<1> HIDE DEF U
<1>3. PICK x \in U : \A y \in U : x <= y
  BY <1>1, <1>2, LeastNat
<1>4. n - x \in T /\ x \in 0 .. n
  BY <1>3 DEF U
<1>5. ASSUME NEW y \in T PROVE n - x >= y
  <2>1. y \in 0 .. n /\ n - y \in 0 .. n /\ n - (n - y) = y
    OBVIOUS
  <2>2. n - y \in U
    BY <2>1 DEF U
  <2>3. x <= n - y
    BY <2>2, <1>3
  <2> QED BY <1>4, <2>1, <2>3
<1> QED BY <1>4, <1>5 DEF Max

\* The capital of a small letter, made small, is the letter.
LEMMA FirstReturns ==
  ASSUME NEW S, NEW s \in Seq(S), s # <<>>, s[1] \in DOMAIN CapitalOf
  PROVE  zephir_lcfirst(zephir_ucfirst(s)) = s
<1> DEFINE c == s[1]
           u == CapitalOf[c]
           up == [s EXCEPT ![1] = u]
           T == S \cup {u}
<1>1. toupper(c) = u
  BY DEF toupper
<1>2. tolower(u) = c
  <2>1. u \in Range(CapitalOf)
    BY DEF Range
  <2>2. SmallOf[u] = CHOOSE small \in DOMAIN CapitalOf : CapitalOf[small] = u
    BY <2>1 DEF SmallOf
  <2>3. SmallOf[u] \in DOMAIN CapitalOf /\ CapitalOf[SmallOf[u]] = CapitalOf[c]
    BY <2>2
  <2>4. SmallOf[u] = c
    BY <2>3, CapitalsAssumption DEF IsInjective
  <2> QED BY <2>1, <2>4 DEF tolower, SmallOf
<1>3. zephir_ucfirst(s) = up
  BY <1>1 DEF zephir_ucfirst
<1>4. s \in Seq(T) /\ u \in T /\ c \in T /\ 1 \in 1 .. Len(s)
  <2>1. Len(s) \in Nat /\ Len(s) # 0
    BY LenProperties, EmptySeq
  <2>2. 1 \in 1 .. Len(s)
    BY <2>1
  <2>3. c \in S
    BY <2>2, ElementOfSeq
  <2>4. s \in Seq(T)
    <3>1. \A i \in 1 .. Len(s) : s[i] \in T
      BY ElementOfSeq
    <3> HIDE DEF T
    <3> QED BY <3>1
  <2> QED BY <2>2, <2>3, <2>4
<1> HIDE DEF T, c, u
<1>5. /\ up \in Seq(T) /\ Len(up) = Len(s)
      /\ \A j \in 1 .. Len(s) : up[j] = IF j = 1 THEN u ELSE s[j]
  BY <1>4, ExceptSeq
<1> HIDE DEF up
<1>6. up # <<>> /\ up[1] = u
  BY <1>4, <1>5, EmptySeq
<1>7. zephir_lcfirst(up) = [up EXCEPT ![1] = c]
  BY <1>2, <1>6 DEF zephir_lcfirst
<1>8. /\ [up EXCEPT ![1] = c] \in Seq(T) /\ Len([up EXCEPT ![1] = c]) = Len(up)
      /\ \A j \in 1 .. Len(up) : [up EXCEPT ![1] = c][j] = IF j = 1 THEN c ELSE up[j]
  BY <1>4, <1>5, ExceptSeq
<1> DEFINE back == [up EXCEPT ![1] = c]
<1> HIDE DEF back
<1>9. \A j \in 1 .. Len(s) : back[j] = s[j]
  BY <1>5, <1>8 DEF back, c
<1>10. back = s
  BY <1>4, <1>5, <1>8, <1>9, SeqEqual DEF back
<1> QED BY <1>3, <1>7, <1>10 DEF back

\* Without its last slashes a text is the same up to them, and ends with none.
LEMMA SlashesGone ==
  ASSUME NEW S, NEW s \in Seq(S)
  PROVE  LET kept == zephir_remove_extra_slashes(s)
         IN  /\ IsPrefix(kept, s)
             /\ \A i \in Len(kept) + 1 .. Len(s) : s[i] = "/"
             /\ Len(s) > 1 => ~zephir_end_with_str(kept, <<"/">>)
<1> DEFINE n == Len(s)
           T == {0} \cup {i \in DOMAIN s : s[i] # "/"}
           m == Max(T)
<1>1. n \in Nat /\ DOMAIN s = 1 .. n
  BY LenProperties
<1>2. CASE n <= 1
  <2>1. zephir_remove_extra_slashes(s) = s
    BY <1>2 DEF zephir_remove_extra_slashes
  <2>2. IsPrefix(s, s) /\ n + 1 .. n = {} /\ ~(n > 1)
    BY <1>1, <1>2 DEF IsPrefix
  <2> QED BY <2>1, <2>2
<1>3. CASE ~(n <= 1)
  <2> DEFINE kept == SubSeq(s, 1, m)
  <2>1. zephir_remove_extra_slashes(s) = kept
    BY <1>3 DEF zephir_remove_extra_slashes
  <2>2. m \in T /\ \A y \in T : m >= y
    <3>1. T \in SUBSET (0 .. n) /\ T # {}
      BY <1>1
    <3> HIDE DEF T
    <3> QED BY <1>1, <3>1, MaxIs
  <2>3. m \in 0 .. n /\ (m # 0 => s[m] # "/")
    BY <1>1, <2>2
  <2>4. ASSUME NEW i \in m + 1 .. n PROVE s[i] = "/"
    <3>1. i \in DOMAIN s /\ ~(m >= i)
      BY <1>1, <2>3
    <3> HIDE DEF m
    <3> QED BY <2>2, <3>1
  <2> HIDE DEF m, T
  <2>5. kept \in Seq(S) /\ Len(kept) = m /\ \A i \in 1 .. m : kept[i] = s[i]
    <3>1. 0 \in Nat /\ m \in Nat /\ 0 + m <= n /\ 0 + 1 = 1 /\ 0 + m = m /\ \A i \in 1 .. m : 0 + i = i
      BY <1>1, <2>3
    <3>2. /\ SubSeq(s, 0 + 1, 0 + m) \in Seq(S) /\ Len(SubSeq(s, 0 + 1, 0 + m)) = m
          /\ \A i \in 1 .. m : SubSeq(s, 0 + 1, 0 + m)[i] = s[0 + i]
      <4>1. 0 \in Nat /\ m \in Nat /\ 0 + m <= Len(s)
        BY <3>1
      <4> QED BY <4>1, PieceIs
    <3> QED BY <3>1, <3>2
  <2>6. IsPrefix(kept, s)
    <3>1. SubSeq(kept, 1, Len(kept)) = kept
      <4> HIDE DEF kept
      <4> QED BY <2>5, SubSeqFull
    <3> QED BY <1>1, <2>3, <2>5, <3>1 DEF IsPrefix
  <2> HIDE DEF kept
  <2>7. ~zephir_end_with_str(kept, <<"/">>)
    <3> DEFINE slash == <<"/">>
    <3>1. slash[1] = "/" /\ Len(slash) = 1 /\ 1 \in DOMAIN slash
      OBVIOUS
    <3> HIDE DEF slash
    <3> SUFFICES ASSUME kept # <<>>, Begins(LastOf(kept, Len(slash)), slash, FALSE) PROVE FALSE
      BY DEF zephir_end_with_str, slash
    <3>2. m # 0 /\ 1 <= m
      BY <2>3, <2>5, EmptySeq
    <3>3. LastOf(kept, 1)[1] = kept[m - 1 + 1]
      <4>1. 1 \in Nat /\ 1 <= Len(kept) /\ 1 \in 1 .. 1
        BY <2>5, <3>2
      <4>2. \A i \in 1 .. 1 : LastOf(kept, 1)[i] = kept[Len(kept) - 1 + i]
        BY <2>5, <4>1, LastIs
      <4> QED BY <2>5, <4>1, <4>2
    <3>4. m - 1 + 1 = m /\ m \in 1 .. m
      BY <2>3, <3>2
    <3>5. LastOf(kept, 1)[1] = s[m]
      BY <2>5, <3>3, <3>4
    <3>6. LastOf(kept, 1)[1] = "/"
      BY <3>1 DEF Begins
    <3> QED BY <2>3, <3>2, <3>5, <3>6
  <2> QED BY <2>1, <2>4, <2>5, <2>6, <2>7
<1> QED BY <1>2, <1>3

\* All that is cut out of the text is.
LEMMA PiecesIn ==
  ASSUME text \in Seq(Letters)
  PROVE  PiecesCut
<1> DEFINE bounds == -(MaxLength + 1) .. MaxLength + 1
<1>1. \A f \in bounds, l \in bounds :
        zephir_substr(text, f, l) = Cut(text, f, IF l = 0 THEN Len(text) ELSE l)
  <2>1. \A f \in bounds : f \in Int
    OBVIOUS
  <2> HIDE DEF bounds
  <2>2. ASSUME NEW f \in bounds, NEW l \in bounds
        PROVE  zephir_substr(text, f, l) = Cut(text, f, IF l = 0 THEN Len(text) ELSE l)
    <3>1. l # 0 => zephir_substr(text, f, l) = Cut(text, f, l)
      BY <2>1, SubstrCuts
    <3>2. zephir_substr(text, f, 0) = Cut(text, f, Len(text))
      BY <2>1, SubstrCuts
    <3> QED BY <3>1, <3>2
  <2> QED BY <2>2
<1> QED BY <1>1, FirstReturns, SlashesGone DEF PiecesCut

-----------------------------------------------------------------------------
(* The invariant of the data.                                              *)

\* The keys of an array differ, numbers are below the next, and all it holds
\* was stored or is a null that was made.
DataInv ==
  /\ IsArray(array, Elements \cup {"null"})
  /\ text \in Seq(Letters)
  /\ PairGiven

\* Merged with another, an array is one.
LEMMA MergedArray ==
  ASSUME NEW V, NEW a, IsArray(a, V), NEW b, IsArray(b, V)
  PROVE  IsArray(Merged(a, b), V)
<1> DEFINE m == Len(b.buckets)
<1>1. m \in 0 .. m
  BY ArrayParts
<1>2. \A i \in 0 .. m : IsArray(PutAll(a, b.buckets)[i], V)
  BY BucketsPut, PutRounds
<1> QED BY <1>1, <1>2 DEF Merged

\* So it is with itself appended to it, and merged with its values.
LEMMA WithItself ==
  ASSUME NEW V, NEW a, IsArray(a, V)
  PROVE  IsArray(MergeAppend(a, a), V) /\ IsArray(FastMerge(a, ArrayValues(a)), V)
<1> DEFINE values == Values(a)
<1>1. values \in Seq(V)
  BY ValuesAre
<1>2. IsArray(MergeAppend(a, a), V)
  <2>1. MergeAppend(a, a) = PushedAll(a, values)[Len(values)]
    BY DEF MergeAppend
  <2> HIDE DEF values
  <2> QED BY <1>1, <2>1, PushedAllIs
<1> DEFINE all == ArrayValues(a)
           copy == Merged(EmptyArray, a)
<1>3. IsArray(all, V) /\ IsArray(copy, V)
  BY ValuesListed, CopyIs
<1> HIDE DEF all, copy
<1>4. IsArray(Merged(copy, all), V)
  BY <1>3, MergedArray
<1> QED BY <1>2, <1>4 DEF FastMerge, all, copy

\* What the functions of hash.c make of an array is one.
LEMMA HashArrays ==
  ASSUME NEW V, NEW a, IsArray(a, V), NEW index \in PhpValues, NEW value \in V, "null" \in V
  PROVE  /\ IsArray(HashInsert(a, index, value), V)
         /\ IsArray(HashGet(a, index, TRUE).array, V)
         /\ IsArray(HashUnset(a, index), V)
<1>1. CASE index[1] = "null"
  <2>1. HashKey(index) = NoKey
    BY <1>1 DEF HashKey, Number
  <2>2. HashInsert(a, index, value) = Pushed(a, value)
    BY <1>1 DEF HashInsert
  <2>3. HashGet(a, index, TRUE).array = a
    BY <2>1 DEF HashGet
  <2> QED BY <2>2, <2>3, PushedIs, DeletedIs DEF HashUnset
<1>2. CASE index[1] # "null"
  <2> DEFINE key == HashKey(index)
  <2>1. key \in ArrayKeySet \/ key = NoKey
    BY <1>2, MeantIs
  <2>2. IsArray(HashUnset(a, index), V)
    BY DeletedIs DEF HashUnset
  <2>3. IsArray(HashInsert(a, index, value), V)
    <3>1. HashInsert(a, index, value) = IF key = NoKey THEN a ELSE Put(a, key, value)
      BY <1>2 DEF HashInsert
    <3> HIDE DEF key
    <3> QED BY <2>1, <3>1, PutIs
  <2>4. IsArray(HashGet(a, index, TRUE).array, V)
    <3>1. HashGet(a, index, TRUE).array
            = IF key = NoKey \/ key \in Keys(a) THEN a ELSE Put(a, key, "null")
      BY DEF HashGet
    <3> HIDE DEF key
    <3> QED BY <2>1, <3>1, PutIs
  <2> QED BY <2>2, <2>3, <2>4
<1> QED BY <1>1, <1>2

\* Whatever a step does to an array leaves an array.
LEMMA ArraySteps ==
  ASSUME IsArray(array, Elements \cup {"null"}), Next
  PROVE  IsArray(array, Elements \cup {"null"})'
<1> DEFINE V == Elements \cup {"null"}
<1>1. IsArray(array, V) /\ "null" \in V /\ Elements \subseteq V
  OBVIOUS
<1>2. \A t \in Literals : t \in TextSet
  BY ValuesAssumption DEF TextSet
<1>3. Indexes \subseteq PhpValues
  BY ValuesAssumption
<1> SUFFICES IsArray(array', V)
  OBVIOUS
<1> HIDE DEF V
<1>4. ASSUME NEW index \in Indexes, NEW value \in Elements, Store(index, value) \/ Insert(index, value)
      PROVE  IsArray(array', V)
  <2>1. index \in PhpValues /\ value \in V
    BY <1>1, <1>3
  <2>2. CASE Store(index, value)
    BY <2>1, <2>2, <1>1, StoredIs DEF Store, Becomes
  <2>3. CASE Insert(index, value)
    BY <2>1, <2>3, <1>1, HashArrays DEF Insert, Becomes
  <2> QED BY <1>4, <2>2, <2>3
<1>5. ASSUME NEW index \in Indexes, ReadToWrite(index) \/ Drop(index) \/ DropInHandler(index)
      PROVE  IsArray(array', V)
  <2>1. index \in PhpValues
    BY <1>3
  <2>2. CASE ReadToWrite(index)
    BY <2>1, <2>2, <1>1, HashArrays DEF ReadToWrite, Becomes
  <2>3. CASE Drop(index)
    BY <2>1, <2>3, <1>1, DroppedIs DEF Drop, Becomes
  <2>4. CASE DropInHandler(index)
    BY <2>4, <1>1, DeletedIs DEF DropInHandler, HashUnset, Becomes
  <2> QED BY <1>5, <2>2, <2>3, <2>4
<1>6. ASSUME NEW t \in Literals, NEW value \in Elements, StoreLiteral(t, value)
      PROVE  IsArray(array', V)
  <2>1. t \in TextSet /\ value \in V
    BY <1>1, <1>2
  <2>2. Text(t) \in ArrayKeySet
    BY <2>1 DEF ArrayKeySet, Text
  <2> QED BY <2>1, <2>2, <1>1, <1>6, PutIs DEF StoreLiteral, UpdateString, Becomes
<1>7. ASSUME NEW t \in Literals, DropLiteral(t)
      PROVE  IsArray(array', V)
  BY <1>1, <1>7, DeletedIs DEF DropLiteral, UnsetString, Becomes
<1>8. ASSUME NEW value \in Elements, PutFirst(value)
      PROVE  IsArray(array', V)
  <2>1. value \in V
    BY <1>1
  <2> QED BY <2>1, <1>1, <1>8, UnshiftIs DEF PutFirst, Becomes
<1>9. CASE AppendItself
  BY <1>1, <1>9, WithItself DEF AppendItself, Becomes
<1>10. CASE MergeWithValues
  BY <1>1, <1>10, WithItself DEF MergeWithValues, Becomes
<1>11. CASE Reindex
  BY <1>1, <1>11, ValuesListed DEF Reindex, Becomes
<1>12. ASSUME NEW c \in Letters, Write(c)
       PROVE  IsArray(array', V)
  BY <1>1, <1>12 DEF Write
<1>13. ASSUME NEW op1 \in Operands, NEW op2 \in Operands, Take(op1, op2)
       PROVE  IsArray(array', V)
  BY <1>1, <1>13 DEF Take
<1>14. ASSUME NEW e \in Environments, NEW c \in CallsFrom(e), zephir_call_user_function(e, c)
       PROVE  IsArray(array', V)
  BY <1>1, <1>14 DEF zephir_call_user_function
<1>15. CASE EndRequest
  BY <1>1, <1>15 DEF EndRequest
<1> QED BY <1>4, <1>5, <1>6, <1>7, <1>8, <1>9, <1>10, <1>11, <1>12, <1>13, <1>14, <1>15 DEF Next

\* A text is letters, and a pair is two operands.
LEMMA OthersStep ==
  ASSUME text \in Seq(Letters), PairGiven, Next
  PROVE  (text \in Seq(Letters) /\ PairGiven)'
<1>1. CASE UNCHANGED <<text, pair>>
  BY <1>1 DEF PairGiven
<1>2. ASSUME NEW c \in Letters, Write(c)
      PROVE  (text \in Seq(Letters) /\ PairGiven)'
  <2>1. text' = Append(text, c) /\ pair' = pair
    BY <1>2 DEF Write
  <2>2. Append(text, c) \in Seq(Letters)
    BY AppendProperties
  <2> QED BY <2>1, <2>2 DEF PairGiven
<1>3. ASSUME NEW op1 \in Operands, NEW op2 \in Operands, Take(op1, op2)
      PROVE  (text \in Seq(Letters) /\ PairGiven)'
  BY <1>3 DEF Take, PairGiven
<1>4. ASSUME NEW a, Becomes(a)
      PROVE  UNCHANGED <<text, pair>>
  BY <1>4 DEF Becomes
<1>5. ASSUME NEW e \in Environments, NEW c \in CallsFrom(e), zephir_call_user_function(e, c)
      PROVE  UNCHANGED <<text, pair>>
  BY <1>5 DEF zephir_call_user_function
<1>6. CASE EndRequest
  <2>1. UNCHANGED <<text, pair>>
    BY <1>6 DEF EndRequest
  <2> QED BY <1>1, <2>1
<1>7. \/ UNCHANGED <<text, pair>>
      \/ \E c \in Letters : Write(c)
      \/ \E op1, op2 \in Operands : Take(op1, op2)
      \/ EndRequest
  BY <1>4, <1>5 DEF Next, Store, Insert, ReadToWrite, Drop, DropInHandler, StoreLiteral,
       DropLiteral, PutFirst, AppendItself, MergeWithValues, Reindex
<1> QED BY <1>1, <1>2, <1>3, <1>6, <1>7

\* The data are what they should be, after every step of every program.
THEOREM DataStays == Spec => []DataInv
<1>1. Init => DataInv
  <2> SUFFICES ASSUME Init PROVE DataInv
    OBVIOUS
  <2>1. array = EmptyArray /\ text = <<>> /\ pair = <<>>
    BY DEF Init
  <2>2. IsArray(array, Elements \cup {"null"})
    BY <2>1, EmptyIsArray
  <2> QED BY <2>1, <2>2 DEF DataInv, PairGiven
<1>2. DataInv /\ [Next]_vars => DataInv'
  <2> SUFFICES ASSUME DataInv, [Next]_vars PROVE DataInv'
    OBVIOUS
  <2>1. CASE Next
    BY <2>1, ArraySteps, OthersStep DEF DataInv
  <2>2. CASE UNCHANGED vars
    BY <2>2 DEF DataInv, PairGiven, vars
  <2> QED BY <2>1, <2>2
<1> QED BY <1>1, <1>2, PTL DEF Spec

\* What is stored under an index is found under every index that means the same
\* element by every function of array.c and hash.c, and what is dropped by none,
\* in every array that a program of any length comes to.
THEOREM StoredFoundAlways == Spec => []StoredIsFound
<1>1. DataInv => StoredIsFound
  BY StoredFound DEF DataInv
<1> QED BY <1>1, DataStays, PTL

\* What reads a whole array (its keys, its values, merged, unshifted) tells of
\* the same elements in the same order, and the next key is free.
THEOREM WholeAlways == Spec => []WholeArrays
<1>1. DataInv => WholeArrays
  BY WholeIs DEF DataInv
<1> QED BY <1>1, DataStays, PTL

\* The searches of string.c agree on every text, from every offset, folded or not.
THEOREM SearchesAlways == Spec => []SearchesAgree
<1>1. DataInv => SearchesAgree
  BY SearchesIn DEF DataInv
<1> QED BY <1>1, DataStays, PTL

\* What is cut out of a text is what PHP cuts, a length of zero standing for all the
\* rest; the first letter made small and capital, and a text without its last slashes,
\* are the same again.
THEOREM CutAlways == Spec => []PiecesCut
<1>1. DataInv => PiecesCut
  BY PiecesIn DEF DataInv
<1> QED BY <1>1, DataStays, PTL

\* However much the compiler knows of two operands, they compare the same.
THEOREM AlikeAlways == Spec => []ComparesAlike
BY AllAlike, PTL

\* A value is one number however operators.c converts it, and compares turned
\* around once it is negated.
THEOREM ConvertsAlways == Spec => []ConvertsAlike
<1>1. DataInv => ConvertsAlike
  BY PairConverts DEF DataInv
<1> QED BY <1>1, DataStays, PTL

-----------------------------------------------------------------------------
(* The invariant of the cache.                                             *)

\* Calls are those that the sources make.
CallsGiven == \A e \in Environments : CallsFrom(e) \subseteq CallsOf(e)

\* Where calls are those that the sources make, every entry of the cache is what
\* the engine finds for its key: a call reaches what it would without the cache.
THEOREM CallsReachAlways ==
  ASSUME CallsGiven
  PROVE  Spec => []CallsReach
<1>1. Init => CacheAnswers
  BY DEF Init, NothingCached, CacheAnswers
<1>2. CacheAnswers /\ [Next]_vars => CacheAnswers'
  <2> SUFFICES ASSUME CacheAnswers, [Next]_vars PROVE CacheAnswers'
    OBVIOUS
  <2>1. CASE UNCHANGED fcache
    BY <2>1 DEF CacheAnswers
  <2>2. ASSUME NEW e \in Environments, NEW c \in CallsFrom(e), zephir_call_user_function(e, c)
        PROVE  CacheAnswers'
    <3>1. c \in CallsOf(e) /\ fcache' = Remembered(fcache, e, c)
      BY <2>2, CallsGiven DEF CallsGiven, zephir_call_user_function
    <3> QED BY <3>1, RememberedAnswers
  <2>3. CASE EndRequest
    BY <2>3 DEF EndRequest, NothingCached, CacheAnswers
  <2>4. ASSUME NEW a, Becomes(a)
        PROVE  UNCHANGED fcache
    BY <2>4 DEF Becomes
  <2>5. ASSUME NEW c, Write(c)
        PROVE  UNCHANGED fcache
    BY <2>5 DEF Write
  <2>6. ASSUME NEW op1, NEW op2, Take(op1, op2)
        PROVE  UNCHANGED fcache
    BY <2>6 DEF Take
  <2>7. \/ UNCHANGED fcache
        \/ \E e \in Environments : \E c \in CallsFrom(e) : zephir_call_user_function(e, c)
        \/ EndRequest
    BY <2>4, <2>5, <2>6 DEF Next, vars, Store, Insert, ReadToWrite, Drop, DropInHandler,
         StoreLiteral, DropLiteral, PutFirst, AppendItself, MergeWithValues, Reindex
  <2> QED BY <2>1, <2>2, <2>3, <2>7
<1>3. CacheAnswers => CallsReach
  BY CacheReaches, CallsGiven DEF CallsReach, CallsGiven
<1> QED BY <1>1, <1>2, <1>3, PTL DEF Spec
=============================================================================

------------------------------- MODULE Calls --------------------------------
(***************************************************************************)
(* Which function a call of compiled code reaches: zephir_call_user_function *)
(* of ext/kernel/fcall.c asks the engine once and keeps the answer in the  *)
(* cache of the request, under a key of the name and two classes.          *)
(*                                                                         *)
(* An object is told by its class.  The environment of a call is the class *)
(* whose method runs (EG(scope)), the class it was called on, $this, and   *)
(* the class of the PHP method below on the stack (EG(active_op_array)).   *)
(***************************************************************************)
EXTENDS Sequences

CONSTANTS ParentOf,      \* the class that each class extends, or NoClass
          Declared,      \* the methods each class declares
          Magic,         \* the classes with __call
          Defined,       \* the functions there are
          SmallName      \* each name as it is spelled, in small letters

NoClass    == "no class"
NoHandler  == <<"no handler">>
NoCallKey  == <<"no key">>
Trampoline == "__call"

Classes == DOMAIN ParentOf

ASSUME ClassesAssumption == ParentOf \in [Classes -> Classes \cup {NoClass}] /\ NoClass \notin Classes

\* With a class, these have all that it extends.
Upward(classes) == \A c \in classes : ParentOf[c] # NoClass => ParentOf[c] \in classes

\* What each class is: the class, and all that it extends.
Lineage ==
  [class \in Classes |->
    {other \in Classes :
       \A classes \in SUBSET Classes : class \in classes /\ Upward(classes) => other \in classes}]

\* instanceof_function
IsA(class, other) == other \in Lineage[class]
-----------------------------------------------------------------------------
(* The calls that the macros of fcall.h make.                              *)

Called(type, ce, object, name) ==
  [type |-> type, ce |-> ce, object |-> object, listed |-> NoClass, name |-> name]

MethodCall(object, name) == Called("method", object, object, name)
ParentCall(e, name)      == Called("parent", e.scope, e.this, name)
SelfCall(name)           == Called("self", NoClass, NoClass, name)
StaticCall(name)         == Called("static", NoClass, NoClass, name)
CeCall(ce, name)         == Called("ce", ce, NoClass, name)
FunctionCall(name)       == Called("function", NoClass, NoClass, name)
\* A variable that is called: [object, name].
ZvalCall(class, name)    == [FunctionCall(name) EXCEPT !.listed = class]

\* The calls of the sources from a method or, with no $this, a function: they make
\* no call by parent::, self:: or static:: without an object, and call no variable.
CallsOf(e) ==
  LET names == DOMAIN SmallName
      own   == IF e.this = NoClass THEN {} ELSE names
  IN  {MethodCall(object, n) : object \in Classes, n \in names}
      \cup {ParentCall(e, n) : n \in own}
      \cup {SelfCall(n) : n \in own}
      \cup {StaticCall(n) : n \in own}
      \cup {CeCall(class, n) : class \in Classes, n \in names}
      \cup {FunctionCall(n) : n \in names}
-----------------------------------------------------------------------------
(* zephir_call_user_function: the object and the class, where none is given, *)
(* are those of $this, and that class is the scope of the call.            *)

ObjectOf(e, c) == IF c.type # "function" /\ c.object = NoClass THEN e.this ELSE c.object
ClassOf(e, c)  ==
  IF c.type # "function" /\ c.object = NoClass /\ c.ce = NoClass THEN e.this ELSE c.ce
ScopeOf(e, c)  == IF ClassOf(e, c) # NoClass THEN ClassOf(e, c) ELSE e.scope

\* zephir_make_fcall_key
Related(class, other) == class = NoClass \/ other = NoClass \/ IsA(class, other) \/ IsA(other, class)
KeyScope(e, c) ==
  CASE c.type = "parent" /\ ScopeOf(e, c) # NoClass -> ParentOf[ScopeOf(e, c)]
    [] c.type = "static"                            -> e.called
    [] OTHER                                        -> ScopeOf(e, c)
KeyClass(e, c) ==
  IF ObjectOf(e, c) # NoClass /\ c.type # "ce" THEN ObjectOf(e, c) ELSE ClassOf(e, c)

\* Mutant: the class of the object alone.
CallKeyOfObject(e, c) == <<SmallName[c.name], KeyClass(e, c)>>

CallKey(e, c) ==
  IF \/ c.type = "parent" /\ ScopeOf(e, c) # NoClass /\ KeyScope(e, c) = NoClass
     \/ c.type = "static" /\ e.called = NoClass
    THEN NoCallKey
    ELSE <<SmallName[c.name],
           IF Related(KeyScope(e, c), KeyClass(e, c)) THEN KeyScope(e, c) ELSE NoClass,
           KeyClass(e, c)>>
-----------------------------------------------------------------------------
(* The engine (zend_is_callable_ex), in the scope of the call.             *)

\* The method of the first class on the way up that declares it.
Handler(class, small) ==
  LET declaring == {d \in Classes : IsA(class, d) /\ small \in Declared[d]}
  IN  IF declaring # {} THEN <<CHOOSE d \in declaring : \A o \in declaring : IsA(d, o), small>>
      ELSE IF \E m \in Magic : IsA(class, m) THEN <<class, Trampoline>>
      ELSE NoHandler

\* $this goes along to a method of a class by name only where the PHP method
\* below is of a subclass of it.
ThisFor(e, class) ==
  IF /\ e.active # NoClass /\ e.this # NoClass
     /\ IsA(e.this, e.active) /\ IsA(e.active, class)
    THEN e.this ELSE NoClass

StartOf(e, c) ==
  CASE c.type = "method"   -> ObjectOf(e, c)
    [] c.type = "parent"   -> IF ScopeOf(e, c) = NoClass THEN NoClass ELSE ParentOf[ScopeOf(e, c)]
    [] c.type = "self"     -> ScopeOf(e, c)
    [] c.type = "static"   -> e.called
    [] c.type = "ce"       -> c.ce
    [] c.type = "function" -> c.listed

Resolved(e, c) ==
  IF c.type = "function" /\ c.listed = NoClass
    THEN [handler |-> IF SmallName[c.name] \in Defined THEN <<SmallName[c.name]>> ELSE NoHandler,
          object  |-> NoClass]
    ELSE [handler |-> IF StartOf(e, c) = NoClass THEN NoHandler
                      ELSE Handler(StartOf(e, c), SmallName[c.name]),
          object  |-> CASE c.type = "ce"       -> ThisFor(e, c.ce)
                        [] c.type = "function" -> c.listed
                        [] OTHER               -> ObjectOf(e, c)]
-----------------------------------------------------------------------------
(* A call that finds its key is told to the engine whole: the handler of   *)
(* the cache, and what zephir_fcall_populate_fci_cache says.               *)

Populates(e, c) ==
  CASE c.type = "parent" -> ScopeOf(e, c) # NoClass /\ ParentOf[ScopeOf(e, c)] # NoClass
    [] c.type = "self"   -> ScopeOf(e, c) # NoClass
    [] c.type = "static" -> e.called # NoClass
    [] OTHER             -> TRUE

Populated(e, c) ==
  CASE c.type = "function" -> NoClass
    [] c.type = "ce"       -> ThisFor(e, ScopeOf(e, c))
    [] OTHER               -> ObjectOf(e, c)

Hits(cache, e, c) == CallKey(e, c) # NoCallKey /\ CallKey(e, c) \in DOMAIN cache /\ Populates(e, c)

\* What is called, and with which object.  That a call site keeps the function of its
\* own (fcall.c:441-449 and 504-508) is left out: the compiled code gives
\* NULL for its place in every call.
Reached(cache, e, c) ==
  IF Hits(cache, e, c)
    THEN [handler |-> cache[CallKey(e, c)], object |-> Populated(e, c)]
    ELSE Resolved(e, c)

\* What the engine found is kept, unless it was made for this call.
Remembered(cache, e, c) ==
  LET found == Resolved(e, c).handler
  IN  IF \/ CallKey(e, c) = NoCallKey \/ CallKey(e, c) \in DOMAIN cache
         \/ found = NoHandler \/ found[Len(found)] = Trampoline
        THEN cache
        ELSE [k \in DOMAIN cache \cup {CallKey(e, c)} |->
                IF k = CallKey(e, c) THEN found ELSE cache[k]]
=============================================================================

------------------------------ MODULE Runtime ------------------------------
(***************************************************************************)
(* How methods of the extension run: ext/kernel/memory.c, exception.c and  *)
(* the calls of fcall.c and fcall.h, for methods of the shape the compiler *)
(* gives them (ext/zatabase/db.zep.c).                                     *)
(*                                                                         *)
(* A method grows a memory frame, observes its variables in it, reads a    *)
(* service (which may call __get of Injectable), calls a method of it, and *)
(* restores its frame wherever it leaves.  What it calls may be another    *)
(* method or PHP code; either may throw, and PHP code may catch or exit.   *)
(* The engine is modelled from how the extension calls it.                 *)
(*                                                                         *)
(* Each level of the C stack is an activation; a frame observes variables  *)
(* that live in the activation of one level.                               *)
(***************************************************************************)
EXTENDS Integers, FiniteSets, SequencesExt

CONSTANTS Limit,           \* calls within calls before the run is ended (2048)
          MaxDepth,        \* bound: levels of the C stack
          ContainerThrows  \* whether __get may throw

ASSUME BoundsAssumption == Limit \in Nat /\ MaxDepth \in Nat \ {0}
ASSUME ThrowsAssumption == ContainerThrows \in BOOLEAN

VARIABLES phase,     \* "idle", "running", "shutdown", "ended" or "dead"
          stack,     \* the activations
          memory,    \* the frames: whose variables, and which of them
          active,    \* the number of the active frame, zero for none
          exception, \* whether an exception is pending
          lock,      \* recursive_lock
          unclean,   \* whether the engine gave up on this request
          held       \* the references that methods have taken and not given back;
                     \* after an exit() the engine frees what is left, uncounted

vars == <<phase, stack, memory, active, exception, lock, unclean, held>>

Frames  == 1 .. 2 * MaxDepth    \* those left by an exit, and those of save()

Nobody  == 0    \* the level of a frame whose activation is gone
NoFrame == [level |-> Nobody, observed |-> {}]

\* An activation: PHP code, a method, or one of the functions that throw;
\* where it is, which of its variables hold a reference, and whether its
\* call was counted.
Variables == {"name", "service"}
Activation == [runs : {"php", "method", "throw"},
               at : {"code", "fetched", "named", "getting", "ready", "null", "calling", "leave"},
               holds : SUBSET Variables, counted : BOOLEAN]

Started(runs, at, counted) == [runs |-> runs, at |-> at, holds |-> {}, counted |-> counted]
Script(counted) == Started("php", "code", counted)
Method(counted) == Started("method", "fetched", counted)
Thrower         == Started("throw", "code", FALSE)

TypeOK ==
  /\ phase \in {"idle", "running", "shutdown", "ended", "dead"}
  /\ stack \in Seq(Activation) /\ Len(stack) <= MaxDepth
  /\ memory \in [Frames -> [level : 0 .. MaxDepth, observed : SUBSET Variables]]
  /\ active \in 0 .. 2 * MaxDepth
  /\ exception \in BOOLEAN /\ unclean \in BOOLEAN
  /\ lock \in Nat /\ held \in Int

depth == Len(stack)
Top   == stack[depth]
Is(runs, at) == stack # <<>> /\ Top.runs = runs /\ Top.at = at

\* Nothing throws below a property that is being looked up.
MayThrow == ContainerThrows \/ \A d \in 1 .. depth - 1 : stack[d].at # "getting"

Moved(at)              == stack' = [stack EXCEPT ![depth].at = at]
Called(at, activation) == /\ depth < MaxDepth
                          /\ stack' = Append([stack EXCEPT ![depth].at = at], activation)
-----------------------------------------------------------------------------
(* Frames.                                                                 *)

\* zephir_memory_grow_stack
Grown(level) ==
  /\ active' = active + 1
  /\ memory' = [memory EXCEPT ![active + 1] = [@ EXCEPT !.level = level]]

\* Mutant: the variable is not observed.
GivenUnobserved(variable, at) ==
  /\ stack' = [stack EXCEPT ![depth].holds = @ \cup {variable}, ![depth].at = at]
  /\ held' = IF unclean THEN held ELSE held + 1
  /\ UNCHANGED memory

\* zephir_memory_observe, and the variable gets a value.
Given(variable, at) ==
  /\ memory' = [memory EXCEPT ![active].observed = @ \cup {variable}]
  /\ stack' = [stack EXCEPT ![depth].holds = @ \cup {variable}, ![depth].at = at]
  /\ held' = IF unclean THEN held ELSE held + 1

\* What the variables of a frame hold.
HeldThrough(frame) ==
  IF frame.level = Nobody THEN {} ELSE frame.observed \cap stack[frame.level].holds

\* Mutant: the frame keeps what it observed.
RestoredFull ==
  /\ active' = active - 1
  /\ held' = IF unclean THEN held ELSE held - Cardinality(HeldThrough(memory[active]))
  /\ UNCHANGED memory

\* zephir_memory_restore_stack_common on the active frame, whoever grew it.
Restored ==
  /\ memory' = [memory EXCEPT ![active] = NoFrame]
  /\ active' = active - 1
  /\ held' = IF unclean THEN held ELSE held - Cardinality(HeldThrough(memory[active]))

\* Control is back where the call was made, and a call that was counted is over.
Count(condition) == IF condition THEN 1 ELSE 0
Popped ==
  /\ stack' = Front(stack)
  /\ lock' = lock - Count(Top.counted)

\* Without a frame to restore the process dies.
Left ==
  IF active = 0
    THEN /\ phase' = "dead"
         /\ UNCHANGED <<stack, memory, active, lock, held>>
    ELSE /\ Restored
         /\ Popped
         /\ UNCHANGED phase

\* Fatal errors and exit() jump out of every activation.
GivenUp ==
  /\ phase' = IF phase = "running" THEN "shutdown" ELSE "ended"
  /\ stack' = <<>>
  /\ memory' = [f \in Frames |-> [memory[f] EXCEPT !.level = Nobody]]
  /\ exception' = FALSE
  /\ unclean' = TRUE
  /\ UNCHANGED <<active, held>>
-----------------------------------------------------------------------------
(* Requests.                                                               *)

Init ==
  /\ phase = "idle"
  /\ stack = <<>>
  /\ memory = [f \in Frames |-> NoFrame]
  /\ active = 0
  /\ exception = FALSE
  /\ lock = 0
  /\ unclean = FALSE
  /\ held = 0

\* Mutant: the lock is not reset.
StartRequestLocked ==
  /\ phase = "idle"
  /\ phase' = "running"
  /\ stack' = <<Script(FALSE)>>
  /\ active' = 0
  /\ unclean' = FALSE
  /\ held' = 0
  /\ UNCHANGED <<memory, exception, lock>>

\* php_zephir_init_globals, and the script starts.
StartRequest ==
  /\ phase = "idle"
  /\ phase' = "running"
  /\ stack' = <<Script(FALSE)>>
  /\ active' = 0
  /\ lock' = 0
  /\ unclean' = FALSE
  /\ held' = 0
  /\ UNCHANGED <<memory, exception>>

\* The script is over; an exception that nobody caught is a fatal error.
EndScript ==
  /\ phase = "running"
  /\ stack = <<>>
  /\ phase' = "shutdown"
  /\ exception' = FALSE
  /\ unclean' = exception
  /\ UNCHANGED <<stack, memory, active, lock, held>>

\* The schema has registered save() for the end of the request.
SaveAtEnd ==
  /\ phase = "shutdown"
  /\ stack = <<>>
  /\ phase' = "ended"
  /\ stack' = <<Method(FALSE)>>
  /\ Grown(1)
  /\ UNCHANGED <<exception, lock, unclean, held>>

\* zephir_clean_restore_stack: every frame still there is restored.
EndRequest ==
  /\ phase \in {"shutdown", "ended"}
  /\ stack = <<>>
  /\ phase' = "idle"
  /\ memory' = [f \in Frames |-> IF f <= active THEN NoFrame ELSE memory[f]]
  /\ active' = 0
  /\ exception' = FALSE
  /\ UNCHANGED <<stack, lock, unclean, held>>
-----------------------------------------------------------------------------
(* PHP code.                                                               *)

\* The engine calls a method, which grows its frame.
CallMethod ==
  /\ Is("php", "code")
  /\ ~exception
  /\ Called("code", Method(FALSE))
  /\ Grown(depth + 1)
  /\ UNCHANGED <<phase, exception, lock, unclean, held>>

ThrowInScript ==
  /\ Is("php", "code")
  /\ ~exception
  /\ MayThrow
  /\ exception' = TRUE
  /\ UNCHANGED <<phase, stack, memory, active, lock, unclean, held>>

CatchInScript ==
  /\ Is("php", "code")
  /\ exception
  /\ exception' = FALSE
  /\ UNCHANGED <<phase, stack, memory, active, lock, unclean, held>>

ReturnFromScript ==
  /\ Is("php", "code")
  /\ Popped
  /\ UNCHANGED <<phase, memory, active, exception, unclean, held>>

ExitInScript ==
  /\ Is("php", "code")
  /\ ~exception
  /\ GivenUp
  /\ UNCHANGED lock
-----------------------------------------------------------------------------
(* A method.                                                               *)

\* The parameters are not what the method takes.
RefuseParameters ==
  /\ Is("method", "fetched")
  /\ MayThrow
  /\ Called("leave", Thrower)
  /\ UNCHANGED <<phase, memory, active, exception, lock, unclean, held>>

\* The parameters are taken, and a variable gets the name of the service.
InitName ==
  /\ Is("method", "fetched")
  /\ Given("name", "named")
  /\ UNCHANGED <<phase, active, exception, lock, unclean>>

\* The service is a property of the object.
ReadService ==
  /\ Is("method", "named")
  /\ Given("service", "ready")
  /\ UNCHANGED <<phase, active, exception, lock, unclean>>

\* It is not yet, and the engine calls __get.
AskContainer ==
  /\ Is("method", "named")
  /\ Called("getting", Method(FALSE))
  /\ Grown(depth + 1)
  /\ UNCHANGED <<phase, exception, lock, unclean, held>>

\* __get answers with a service, or with null.
ServiceAnswered ==
  /\ Is("method", "getting")
  /\ ~exception
  /\ Given("service", "ready")
  /\ UNCHANGED <<phase, active, exception, lock, unclean>>
NullAnswered ==
  /\ Is("method", "getting")
  /\ MayThrow
  /\ depth < MaxDepth
  /\ Moved("null")
  /\ UNCHANGED <<phase, memory, active, exception, lock, unclean, held>>

\* zephir_call_user_function: one call more, unless that is one too many.
CallCounted(activation) ==
  /\ lock < Limit
  /\ lock' = lock + 1
  /\ Called("calling", activation)
CallService ==
  /\ Is("method", "ready")
  /\ CallCounted(Method(TRUE))
  /\ Grown(depth + 1)
  /\ UNCHANGED <<phase, exception, unclean, held>>
CallScript ==
  /\ Is("method", "ready")
  /\ CallCounted(Script(TRUE))
  /\ UNCHANGED <<phase, memory, active, exception, unclean, held>>
CallTooDeep ==
  /\ Is("method", "ready") \/ Is("throw", "code")
  /\ lock >= Limit
  /\ lock' = lock + 1
  /\ GivenUp

\* The service has no such method, or there is no service.
CallMissing ==
  /\ Is("method", "ready") \/ Is("method", "null")
  /\ MayThrow
  /\ Called("calling", Thrower)
  /\ UNCHANGED <<phase, memory, active, exception, lock, unclean, held>>

\* The method throws what it was given or has made.
ThrowInMethod ==
  /\ Is("method", "ready")
  /\ MayThrow
  /\ Called("leave", Thrower)
  /\ UNCHANGED <<phase, memory, active, exception, lock, unclean, held>>

\* After a call that succeeded the method may make another, or return.
CallReturned ==
  /\ Is("method", "calling")
  /\ ~exception
  /\ Moved("ready")
  /\ UNCHANGED <<phase, memory, active, exception, lock, unclean, held>>
Return ==
  /\ Is("method", "ready")
  /\ Moved("leave")
  /\ UNCHANGED <<phase, memory, active, exception, lock, unclean, held>>

\* Mutant: the method ends and its frame stays.
CallFailedKept ==
  /\ Is("method", "calling")
  /\ exception
  /\ Popped
  /\ UNCHANGED <<phase, memory, active, exception, unclean, held>>

\* zephir_check_call_status: a call that failed ends the method.
CallFailed ==
  /\ Is("method", "calling")
  /\ exception
  /\ Left
  /\ UNCHANGED <<exception, unclean>>

\* RETURN_MM and ZEPHIR_MM_RESTORE
Leave ==
  /\ Is("method", "leave")
  /\ Left
  /\ UNCHANGED <<exception, unclean>>
-----------------------------------------------------------------------------
(* zephir_throw_exception_string, _format, _zval: no frame of their own.   *)

\* The exception is constructed, in a call, and is pending.
Throw ==
  /\ Is("throw", "code")
  /\ lock < Limit
  /\ ~exception
  /\ exception' = TRUE
  /\ Popped
  /\ UNCHANGED <<phase, memory, active, unclean, held>>

\* One is pending already: the constructor is not called, and the check of
\* that call restores the active frame.
ThrowFails ==
  /\ Is("throw", "code")
  /\ lock < Limit
  /\ exception
  /\ Left
  /\ UNCHANGED <<exception, unclean>>

ScriptStep == CallMethod \/ ThrowInScript \/ CatchInScript \/ ReturnFromScript \/ ExitInScript
MethodStep ==
  \/ RefuseParameters \/ InitName \/ ReadService \/ AskContainer
  \/ ServiceAnswered \/ NullAnswered
  \/ CallService \/ CallScript \/ CallTooDeep \/ CallMissing
  \/ ThrowInMethod \/ CallFailed \/ CallReturned \/ Return \/ Leave \/ Throw

Next == StartRequest \/ EndScript \/ SaveAtEnd \/ EndRequest \/ ScriptStep \/ MethodStep
Spec == Init /\ [][Next]_vars

\* With a container that throws, an exception may be raised over another.
ThrowingNext == Next \/ ThrowFails
ThrowingSpec == Init /\ [][ThrowingNext]_vars
-----------------------------------------------------------------------------
(* Properties.                                                             *)

Running == {d \in DOMAIN stack : stack[d].runs = "method"}

\* Every method that runs has its own frame and every frame its method, in
\* the order of the calls, above the frames that an exit() left behind: so
\* restoring the active frame releases what the method that returns observed
\* ("Trying to free someone else's memory frame!", memory.c:305).
OwnFrames ==
  /\ {memory[f].level : f \in 1 .. active} \ {Nobody} = Running
  /\ \A f, g \in 1 .. active :
       f < g => memory[f].level = Nobody \/ memory[f].level < memory[g].level

\* A frame is handed out empty, also after a request that was given up: what
\* an earlier method observed is not released by a later one (the assertions
\* of memory.c:86).
FreeFramesEmpty == \A f \in Frames : f > active => memory[f] = NoFrame

FramesMatch == OwnFrames /\ FreeFramesEmpty

\* Until the engine gives up, the references that methods have taken are
\* those of the variables of running methods: none is kept or given back
\* twice, whichever way a method was left.
References == {p \in (DOMAIN stack) \X Variables : p[2] \in stack[p[1]].holds}
ReferencesHeld == ~unclean => held = Cardinality(References)

\* recursive_lock counts the calls in progress, as long as nothing was given
\* up, and one request does not inherit it from another.
Counted    == {d \in DOMAIN stack : stack[d].counted}
LockCounts == (phase = "running" \/ ~unclean) => lock = Cardinality(Counted)

CountsMatch == ReferencesHeld /\ LockCounts

\* What is not kept: the save() of the end of the request finds the lock free.
SaveMayCall == phase = "shutdown" => lock < Limit
=============================================================================

--------------------------- MODULE RuntimeProofs ---------------------------
(***************************************************************************)
(* Theorems about the methods of the extension, for every number of levels *)
(* and every recursion limit.                                              *)
(***************************************************************************)
EXTENDS Runtime, FiniteSetTheorems, SequenceTheorems, TLAPS

\* Where a request is tells whether anything runs and what is left over.
PhasesFit ==
  /\ phase # "dead"
  /\ phase \in {"idle", "shutdown"} => stack = <<>> /\ ~exception
  /\ phase = "idle" => active = 0
  /\ phase = "running" => ~unclean

\* PHP code and functions that throw own nothing, and a variable holds
\* nothing before the method gives it a value.
VariablesFit ==
  \A d \in DOMAIN stack :
    /\ stack[d].runs # "method" => stack[d].holds = {}
    /\ stack[d].at = "fetched" => stack[d].holds = {}
    /\ stack[d].at \in {"named", "getting"} => stack[d].holds \subseteq {"name"}

\* What a running method holds is observed by its frame.
HeldObserved ==
  \A f \in 1 .. active :
    memory[f].level # Nobody => stack[memory[f].level].holds \subseteq memory[f].observed

\* The frames that an exit() left are the lowest, and they leave room for one
\* frame per level: there are none while a script runs, and those of the
\* script while the request ends.
LeftBelow(base) ==
  /\ \A f \in 1 .. base : memory[f].level = Nobody
  /\ \A f \in base + 1 .. active : memory[f].level >= f - base
LeftFew(base) ==
  /\ phase \in {"idle", "running"} => base = 0
  /\ phase = "shutdown" \/ stack # <<>> => base <= MaxDepth
LeftFit == \E base \in 0 .. active : LeftBelow(base) /\ LeftFew(base)

\* No call that is counted is forgotten, whatever was given up.
LockEnough ==
  /\ lock >= Cardinality(Counted)
  /\ ~unclean => lock = Cardinality(Counted)

\* Below the top a method waits for what it called, and only the top throws.
WaitingFit ==
  \A d \in DOMAIN stack :
    /\ stack[d].runs # "method" => stack[d].at = "code"
    /\ stack[d].runs = "method" => stack[d].at # "code"
    /\ d < depth => \/ stack[d].runs = "php"
                    \/ stack[d].runs = "method" /\ stack[d].at \in {"getting", "calling", "leave"}

\* If __get does not throw: while a property is looked up nothing is pending
\* and nothing throws; what is pending is on its way to whoever catches it,
\* and nothing is thrown over it.
Getting == \E d \in DOMAIN stack : stack[d].at = "getting"
PendingFit ==
  /\ Getting => ~exception
  /\ Is("throw", "code") => ~exception /\ ~Getting
  /\ exception /\ stack # <<>> => Top.at \in {"code", "calling", "leave"}

\* The inductive invariant.
FramesInv == TypeOK /\ PhasesFit /\ OwnFrames /\ FreeFramesEmpty /\ HeldObserved /\ LeftFit
CountsInv == VariablesFit /\ ReferencesHeld /\ LockEnough
CallsInv  == WaitingFit /\ (ContainerThrows \/ PendingFit)
IInv      == FramesInv /\ CountsInv /\ CallsInv
-----------------------------------------------------------------------------
(* What the steps are made of.                                             *)

Places == {"code", "fetched", "named", "getting", "ready", "null", "calling", "leave"}

\* What a step makes of the stack below the top and of the top.
SameBelow(s) == \A d \in 1 .. depth - 1 : s[d] = stack[d]
SameTop(s)   == /\ s[depth].runs = Top.runs
                /\ s[depth].holds = Top.holds
                /\ s[depth].counted = Top.counted

\* The stack is a sequence of activations, numbered by the levels.
LEMMA StackType ==
  ASSUME TypeOK
  PROVE  /\ depth \in Nat
         /\ DOMAIN stack = 1 .. depth
         /\ stack # <<>> <=> depth > 0
         /\ \A d \in DOMAIN stack : stack[d] \in Activation
         /\ \A d \in DOMAIN stack : stack[d].holds \subseteq Variables
<1>1. stack \in Seq(Activation)  BY DEF TypeOK
<1>2. /\ Len(stack) \in Nat
      /\ DOMAIN stack = 1 .. Len(stack)
      /\ \A d \in 1 .. Len(stack) : stack[d] \in Activation
  BY <1>1
<1>3. stack # <<>> <=> Len(stack) > 0  BY <1>1, EmptySeq
<1> QED  BY <1>2, <1>3 DEF depth, Activation

\* The top is another activation.
LEMMA ChangedStack ==
  ASSUME TypeOK, stack # <<>>, NEW a \in Activation, NEW s, s = [stack EXCEPT ![depth] = a]
  PROVE  /\ s \in Seq(Activation)
         /\ Len(s) = depth
         /\ DOMAIN s = 1 .. depth
         /\ SameBelow(s)
         /\ s[depth] = a
<1>1. depth \in 1 .. Len(stack) /\ depth = Len(stack)  BY StackType DEF depth
<1>2. /\ s \in Seq(Activation)
      /\ Len(s) = Len(stack)
      /\ \A j \in 1 .. Len(stack) : s[j] = IF j = depth THEN a ELSE stack[j]
  BY <1>1, ExceptSeq DEF TypeOK
<1> QED  BY <1>1, <1>2 DEF SameBelow

\* The method goes on elsewhere.
LEMMA MovedStack ==
  ASSUME TypeOK, stack # <<>>, NEW at \in Places, NEW s, s = [stack EXCEPT ![depth].at = at]
  PROVE  /\ s \in Seq(Activation)
         /\ Len(s) = depth
         /\ DOMAIN s = 1 .. depth
         /\ SameBelow(s)
         /\ SameTop(s)
         /\ s[depth].at = at
<1> DEFINE a == [Top EXCEPT !.at = at]
<1>1. Top \in Activation  BY StackType DEF Top
<1>2. a \in Activation  BY <1>1 DEF Activation, Places
<1>3. s = [stack EXCEPT ![depth] = a]  BY DEF Top
<1>4. a.runs = Top.runs /\ a.holds = Top.holds /\ a.counted = Top.counted /\ a.at = at
  BY <1>1 DEF Activation
<1> HIDE DEF a
<1> QED  BY <1>2, <1>3, <1>4, ChangedStack DEF SameTop

\* The method goes on and a variable holds a reference.
LEMMA GivenStack ==
  ASSUME TypeOK, stack # <<>>, NEW at \in Places, NEW v \in Variables,
         Given(v, at)
  PROVE  /\ stack' \in Seq(Activation)
         /\ depth' = depth
         /\ DOMAIN stack' = 1 .. depth
         /\ SameBelow(stack')
         /\ stack'[depth].runs = Top.runs
         /\ stack'[depth].counted = Top.counted
         /\ stack'[depth].holds = Top.holds \cup {v}
         /\ stack'[depth].at = at
<1> DEFINE a == [Top EXCEPT !.holds = Top.holds \cup {v}, !.at = at]
<1>1. Top \in Activation  BY StackType DEF Top
<1>2. a \in Activation  BY <1>1 DEF Activation, Places
<1>3. stack' = [stack EXCEPT ![depth] = a]
  <2>1. stack' = [stack EXCEPT ![depth].holds = @ \cup {v}, ![depth].at = at]  BY DEF Given
  <2> QED  BY <1>1, <2>1, StackType DEF Activation, Top
<1>4. /\ a.runs = Top.runs /\ a.counted = Top.counted
      /\ a.holds = Top.holds \cup {v} /\ a.at = at
  BY <1>1 DEF Activation
<1> HIDE DEF a
<1>5. /\ stack' \in Seq(Activation) /\ Len(stack') = depth /\ DOMAIN stack' = 1 .. depth
      /\ SameBelow(stack') /\ stack'[depth] = a
  BY <1>2, <1>3, ChangedStack
<1>6. depth' = depth  BY <1>5 DEF depth
<1> QED  BY <1>4, <1>5, <1>6

\* The method waits for what it has called.
LEMMA CalledStack ==
  ASSUME TypeOK, stack # <<>>, NEW at \in Places, NEW a \in Activation, Called(at, a)
  PROVE  /\ stack' \in Seq(Activation)
         /\ depth' = depth + 1
         /\ depth' <= MaxDepth
         /\ DOMAIN stack' = 1 .. depth + 1
         /\ SameBelow(stack')
         /\ SameTop(stack')
         /\ stack'[depth].at = at
         /\ stack'[depth + 1] = a
<1> DEFINE s == [stack EXCEPT ![depth].at = at]
<1>1. /\ s \in Seq(Activation) /\ Len(s) = depth
      /\ SameBelow(s) /\ SameTop(s) /\ s[depth].at = at
  BY MovedStack
<1>2. depth \in Nat /\ depth > 0 /\ depth < MaxDepth /\ stack' = Append(s, a)
  BY StackType DEF Called
<1> HIDE DEF s
<1>3. /\ stack' \in Seq(Activation) /\ Len(stack') = depth + 1
      /\ \A d \in 1 .. depth : stack'[d] = s[d]
      /\ stack'[depth + 1] = a
  BY <1>1, <1>2, AppendProperties
<1>4. DOMAIN stack' = 1 .. depth + 1  BY <1>3, LenProperties
<1> QED  BY <1>1, <1>2, <1>3, <1>4, BoundsAssumption DEF SameBelow, SameTop, depth

\* Control is back one level below.
LEMMA PoppedStack ==
  ASSUME TypeOK, stack # <<>>, stack' = Front(stack)
  PROVE  /\ stack' \in Seq(Activation)
         /\ depth' = depth - 1
         /\ DOMAIN stack' = 1 .. depth - 1
         /\ SameBelow(stack')
<1>1. depth \in Nat /\ depth > 0 /\ \A d \in 1 .. depth : stack[d] \in Activation  BY StackType
<1>2. stack' = SubSeq(stack, 1, depth - 1)  BY DEF Front, depth
<1>3. \A d \in 1 .. depth - 1 : stack[d] \in Activation  BY <1>1
<1>4. /\ stack' \in Seq(Activation)
      /\ Len(stack') = IF 1 <= depth - 1 THEN depth - 1 - 1 + 1 ELSE 0
      /\ \A d \in 1 .. depth - 1 - 1 + 1 : stack'[d] = stack[1 + d - 1]
  <2>1. 1 \in Int /\ depth - 1 \in Int  BY <1>1
  <2> QED  BY <1>1, <1>2, <1>3, <2>1, SubSeqProperties
<1>5. Len(stack') = depth - 1  BY <1>1, <1>4
<1>6. DOMAIN stack' = 1 .. depth - 1  BY <1>4, <1>5, LenProperties
<1>7. SameBelow(stack')  BY <1>1, <1>4 DEF SameBelow
<1> QED  BY <1>4, <1>5, <1>6, <1>7 DEF depth
-----------------------------------------------------------------------------
(* The frames after each kind of step.                                     *)

FramesFit  == OwnFrames /\ FreeFramesEmpty /\ HeldObserved /\ LeftFit
FramesType == /\ memory \in [Frames -> [level : 0 .. MaxDepth, observed : SUBSET Variables]]
              /\ active \in 0 .. 2 * MaxDepth

\* Each frame is of a method that runs, or left behind.
LEMMA FrameLevels ==
  ASSUME TypeOK, OwnFrames
  PROVE  /\ \A f \in 1 .. active : f \in Frames /\ memory[f].level \in 0 .. depth
         /\ \A f \in 1 .. active : memory[f].level = Nobody \/ memory[f].level \in Running
         /\ \A d \in Running : \E f \in 1 .. active : memory[f].level = d
         /\ \A d \in Running : d \in 1 .. depth
<1>1. \A d \in Running : d \in 1 .. depth  BY StackType DEF Running
<1>2. \A f \in 1 .. active : f \in Frames  BY BoundsAssumption DEF TypeOK, Frames
<1>3. \A f \in 1 .. active : memory[f].level = Nobody \/ memory[f].level \in Running
  BY DEF OwnFrames
<1>4. \A d \in Running : \E f \in 1 .. active : memory[f].level = d
  BY DEF OwnFrames
<1>5. depth \in Nat  BY StackType
<1> QED  BY <1>1, <1>2, <1>3, <1>4, <1>5 DEF Nobody

\* The active frame is that of the method at the top.
LEMMA TopFrame ==
  ASSUME TypeOK, OwnFrames, stack # <<>>, Top.runs = "method"
  PROVE  /\ active > 0 /\ active \in Frames
         /\ memory[active].level = depth
         /\ \A f \in 1 .. active - 1 : memory[f].level < depth
<1>1. depth \in Nat /\ depth > 0  BY StackType
<1>2. depth \in Running  BY <1>1, StackType DEF Running, Top
<1>3. PICK f \in 1 .. active : memory[f].level = depth  BY <1>2, FrameLevels
<1>4. active \in Nat  BY BoundsAssumption DEF TypeOK
<1>5. active > 0 /\ active \in Frames  BY <1>3, <1>4, FrameLevels
<1>6. f = active
  <2>1. SUFFICES ASSUME f < active PROVE FALSE  BY <1>3, <1>4
  <2>2. memory[f].level = Nobody \/ memory[f].level < memory[active].level
    BY <1>3, <1>4, <1>5, <2>1 DEF OwnFrames
  <2>3. memory[active].level \in 0 .. depth  BY <1>4, <1>5, FrameLevels
  <2> QED  BY <1>1, <1>3, <2>2, <2>3 DEF Nobody
<1>7. \A g \in 1 .. active - 1 : memory[g].level = Nobody \/ memory[g].level < depth
  BY <1>3, <1>4, <1>5, <1>6 DEF OwnFrames
<1> QED  BY <1>1, <1>3, <1>5, <1>6, <1>7 DEF Nobody

\* Above the frames left behind there is at most one for each level.
LEMMA FewFrames ==
  ASSUME TypeOK, OwnFrames, NEW base \in 0 .. active, LeftBelow(base)
  PROVE  active - base <= depth
<1>1. active \in Nat /\ depth \in Nat  BY StackType, BoundsAssumption DEF TypeOK
<1>2. CASE active = base  BY <1>1, <1>2
<1>3. CASE active > base
  <2>1. active \in base + 1 .. active  BY <1>1, <1>3
  <2>2. memory[active].level >= active - base  BY <2>1 DEF LeftBelow
  <2>3. memory[active].level \in 0 .. depth  BY <1>1, <1>3, FrameLevels
  <2> QED  BY <1>1, <2>2, <2>3
<1> QED  BY <1>1, <1>2, <1>3

\* Where a method may be called there is a frame for it.
LEMMA RoomForFrame ==
  ASSUME FramesInv, depth < MaxDepth, phase = "shutdown" \/ stack # <<>>
  PROVE  active + 1 \in Frames
<1>1. PICK base \in 0 .. active : LeftBelow(base) /\ LeftFew(base)
  BY DEF FramesInv, LeftFit
<1>2. base <= MaxDepth  BY <1>1 DEF LeftFew
<1>3. active - base <= depth  BY <1>1, FewFrames DEF FramesInv
<1>4. active \in Nat /\ depth \in Nat  BY StackType, BoundsAssumption DEF FramesInv, TypeOK
<1> QED  BY <1>1, <1>2, <1>3, <1>4, BoundsAssumption DEF Frames, LeftFew

\* The same methods run, and hold what they held.
LEMMA FramesStay ==
  ASSUME FramesInv, stack # <<>>, UNCHANGED <<phase, memory, active>>, Running' = Running,
         \A d \in Running : stack'[d].holds = stack[d].holds
  PROVE  FramesFit'
<1>1. OwnFrames' /\ FreeFramesEmpty'
  BY DEF FramesInv, OwnFrames, FreeFramesEmpty
<1>2. HeldObserved'  BY FrameLevels DEF FramesInv, HeldObserved
<1>3. LeftFit'  BY DEF FramesInv, LeftFit, LeftBelow, LeftFew
<1> QED  BY <1>1, <1>2, <1>3 DEF FramesFit

\* A method is called and grows its frame.
LEMMA FramesGrow ==
  ASSUME FramesInv, depth < MaxDepth, Grown(depth + 1),
         \/ stack # <<>> /\ phase' = phase
         \/ phase = "shutdown" /\ phase' = "ended",
         Running' = Running \cup {depth + 1},
         \A d \in Running : stack'[d].holds = stack[d].holds,
         stack'[depth + 1].holds = {}
  PROVE  FramesFit' /\ FramesType'
<1> DEFINE new == active + 1
           grown == [NoFrame EXCEPT !.level = depth + 1]
<1>1. new \in Frames  BY RoomForFrame
<1>2. active \in Nat /\ depth \in Nat /\ TypeOK /\ OwnFrames
  BY StackType, BoundsAssumption DEF FramesInv, TypeOK
<1>3. memory[new] = NoFrame  BY <1>1, <1>2 DEF FramesInv, FreeFramesEmpty
<1>4. memory' = [memory EXCEPT ![new] = grown] /\ active' = new
  BY <1>3 DEF Grown
<1>5. /\ grown \in [level : 0 .. MaxDepth, observed : SUBSET Variables]
      /\ grown.level = depth + 1 /\ grown.observed = {}
  BY <1>2, BoundsAssumption DEF NoFrame, Nobody
<1>6. FramesType'
  <2>1. active' \in 0 .. 2 * MaxDepth
    BY <1>1, <1>2, <1>4, BoundsAssumption DEF Frames
  <2>2. memory' \in [Frames -> [level : 0 .. MaxDepth, observed : SUBSET Variables]]
    BY <1>2, <1>4, <1>5 DEF TypeOK
  <2> QED  BY <2>1, <2>2 DEF FramesType
<1>7. memory'[new] = grown /\ \A f \in Frames \ {new} : memory'[f] = memory[f]
  BY <1>1, <1>2, <1>4 DEF TypeOK
<1>8. /\ \A f \in 1 .. active : f \in Frames /\ f # new /\ memory'[f] = memory[f]
      /\ \A f \in 1 .. active' : f = new \/ f \in 1 .. active
      /\ new \in 1 .. active'
  BY <1>2, <1>4, <1>7, FrameLevels
<1>9. memory'[new].level = depth + 1 /\ memory'[new].observed = {}  BY <1>5, <1>7
<1> HIDE DEF new, grown
<1>10. OwnFrames'
  <2>1. \A f \in 1 .. active' : memory'[f].level # Nobody => memory'[f].level \in Running'
    BY <1>2, <1>8, <1>9, FrameLevels
  <2>2. \A d \in Running' : d # Nobody /\ \E f \in 1 .. active' : memory'[f].level = d
    <3>1. \A d \in Running : \E f \in 1 .. active' : memory'[f].level = d
      BY <1>2, <1>4, <1>8, FrameLevels DEF new
    <3> QED  BY <1>2, <1>8, <1>9, <3>1, FrameLevels DEF Nobody
  <2>3. ASSUME NEW f \in 1 .. active', NEW g \in 1 .. active', f < g
        PROVE  memory'[f].level = Nobody \/ memory'[f].level < memory'[g].level
    <3>1. CASE g = new
      <4>1. f \in 1 .. active  BY <1>2, <1>8, <2>3, <3>1
      <4>2. memory'[f].level \in 0 .. depth  BY <1>2, <1>8, <4>1, FrameLevels
      <4> QED  BY <1>2, <1>9, <3>1, <4>2
    <3>2. CASE g # new
      <4>1. g \in 1 .. active /\ f \in 1 .. active  BY <1>2, <1>8, <2>3, <3>2
      <4> QED  BY <1>2, <1>8, <2>3, <4>1 DEF OwnFrames
    <3> QED  BY <3>1, <3>2
  <2> QED  BY <2>1, <2>2, <2>3 DEF OwnFrames
<1>11. FreeFramesEmpty'
  BY <1>2, <1>4, <1>7 DEF FreeFramesEmpty, FramesInv, new, Frames
<1>12. HeldObserved'
  <2>1. ASSUME NEW f \in 1 .. active', memory'[f].level # Nobody
        PROVE  stack'[memory'[f].level].holds \subseteq memory'[f].observed
    <3>1. CASE f = new  BY <1>9, <3>1
    <3>2. CASE f # new
      <4>1. f \in 1 .. active /\ memory'[f] = memory[f]  BY <1>8, <3>2
      <4> QED  BY <1>2, <2>1, <4>1, FrameLevels DEF FramesInv, HeldObserved
    <3> QED  BY <3>1, <3>2
  <2> QED  BY <2>1 DEF HeldObserved
<1>13. LeftFit'
  <2>1. PICK base \in 0 .. active : LeftBelow(base) /\ LeftFew(base)
    BY DEF FramesInv, LeftFit
  <2>2. active - base <= depth  BY <1>2, <2>1, FewFrames
  <2>3. base \in 0 .. active'  BY <1>2, <1>4, <2>1 DEF new
  <2>4. \A f \in 1 .. base : memory'[f].level = Nobody
    BY <1>2, <1>8, <2>1 DEF LeftBelow
  <2>5. \A f \in base + 1 .. active' : memory'[f].level >= f - base
    <3>1. TAKE f \in base + 1 .. active'
    <3>2. CASE f = new  BY <1>2, <1>9, <2>1, <2>2, <3>2 DEF new
    <3>3. CASE f # new
      <4>1. f \in base + 1 .. active /\ f \in 1 .. active
        BY <1>2, <1>4, <2>1, <3>3 DEF new
      <4> QED  BY <1>8, <2>1, <4>1 DEF LeftBelow
    <3> QED  BY <3>2, <3>3
  <2>6. LeftFew(base)'  BY <2>1 DEF LeftFew
  <2> QED  BY <2>3, <2>4, <2>5, <2>6 DEF LeftFit, LeftBelow
<1> QED  BY <1>6, <1>10, <1>11, <1>12, <1>13 DEF FramesFit

\* The method at the top is left and its frame restored.
LEMMA FramesShrink ==
  ASSUME FramesInv, stack # <<>>, Top.runs = "method", phase' = phase, Restored,
         Running' = Running \ {depth},
         \A d \in Running' : stack'[d].holds = stack[d].holds
  PROVE  FramesFit' /\ FramesType'
<1>1. /\ active > 0 /\ active \in Frames
      /\ memory[active].level = depth
      /\ \A f \in 1 .. active - 1 : memory[f].level < depth
  BY TopFrame DEF FramesInv
<1>2. active \in Nat /\ depth \in Nat /\ TypeOK /\ OwnFrames
  BY StackType, BoundsAssumption DEF FramesInv, TypeOK
<1>3. /\ active' = active - 1
      /\ memory' \in [Frames -> [level : 0 .. MaxDepth, observed : SUBSET Variables]]
      /\ memory'[active] = NoFrame
      /\ \A f \in Frames \ {active} : memory'[f] = memory[f]
  <2>1. NoFrame \in [level : 0 .. MaxDepth, observed : SUBSET Variables]
    BY BoundsAssumption DEF NoFrame, Nobody
  <2>2. memory' = [memory EXCEPT ![active] = NoFrame] /\ active' = active - 1  BY DEF Restored
  <2> QED  BY <1>1, <1>2, <2>1, <2>2 DEF TypeOK
<1>4. FramesType'  BY <1>1, <1>2, <1>3, BoundsAssumption DEF FramesType, Frames
<1>5. \A f \in 1 .. active' : /\ f \in 1 .. active /\ f # active
                              /\ memory'[f] = memory[f] /\ memory[f].level < depth
  BY <1>1, <1>2, <1>3, FrameLevels
<1>6. OwnFrames'
  <2>1. \A f \in 1 .. active' : memory'[f].level # Nobody => memory'[f].level \in Running'
    BY <1>2, <1>5, FrameLevels
  <2>2. \A d \in Running' : d # Nobody /\ \E f \in 1 .. active' : memory'[f].level = d
    <3>1. TAKE d \in Running'
    <3>2. d \in 1 .. depth /\ d # depth  BY <1>2, FrameLevels
    <3>3. PICK f \in 1 .. active : memory[f].level = d  BY <1>2, FrameLevels
    <3>4. f \in 1 .. active'  BY <1>1, <1>2, <1>3, <3>2, <3>3
    <3> QED  BY <1>5, <3>2, <3>3, <3>4 DEF Nobody
  <2>3. \A f, g \in 1 .. active' :
          f < g => memory'[f].level = Nobody \/ memory'[f].level < memory'[g].level
    BY <1>2, <1>5 DEF OwnFrames
  <2> QED  BY <2>1, <2>2, <2>3 DEF OwnFrames
<1>7. FreeFramesEmpty'
  BY <1>1, <1>2, <1>3 DEF FreeFramesEmpty, FramesInv, Frames
<1>8. HeldObserved'
  BY <1>2, <1>5, FrameLevels DEF FramesInv, HeldObserved
<1>9. LeftFit'
  <2>1. PICK base \in 0 .. active : LeftBelow(base) /\ LeftFew(base)
    BY DEF FramesInv, LeftFit
  <2>2. base # active
    <3>1. SUFFICES ASSUME base = active PROVE FALSE  OBVIOUS
    <3>2. memory[active].level = Nobody  BY <1>1, <1>2, <2>1, <3>1 DEF LeftBelow
    <3> QED  BY <1>1, <1>2, <3>2, StackType DEF Nobody
  <2>3. base \in 0 .. active'  BY <1>1, <1>2, <1>3, <2>1, <2>2
  <2>4. LeftBelow(base)'  BY <1>2, <1>3, <1>5, <2>1, <2>3 DEF LeftBelow
  <2>5. LeftFew(base)'  BY <2>1 DEF LeftFew
  <2> QED  BY <2>3, <2>4, <2>5 DEF LeftFit
<1> QED  BY <1>4, <1>6, <1>7, <1>8, <1>9 DEF FramesFit

\* The method at the top observes a variable, which gets a value.
LEMMA FramesGiven ==
  ASSUME FramesInv, stack # <<>>, Top.runs = "method", UNCHANGED <<phase, active>>,
         NEW v \in Variables,
         memory' = [memory EXCEPT ![active].observed = @ \cup {v}],
         Running' = Running,
         \A d \in Running \ {depth} : stack'[d].holds = stack[d].holds,
         stack'[depth].holds = Top.holds \cup {v}
  PROVE  FramesFit' /\ FramesType'
<1>1. /\ active > 0 /\ active \in Frames
      /\ memory[active].level = depth
      /\ \A f \in 1 .. active - 1 : memory[f].level < depth
  BY TopFrame DEF FramesInv
<1>2. active \in Nat /\ depth \in Nat /\ TypeOK /\ OwnFrames
  BY StackType, BoundsAssumption DEF FramesInv, TypeOK
<1>3. /\ memory' \in [Frames -> [level : 0 .. MaxDepth, observed : SUBSET Variables]]
      /\ \A f \in Frames \ {active} : memory'[f] = memory[f]
      /\ memory'[active].level = depth
      /\ memory'[active].observed = memory[active].observed \cup {v}
  <2> DEFINE frame == [memory[active] EXCEPT !.observed = memory[active].observed \cup {v}]
  <2>1. memory[active] \in [level : 0 .. MaxDepth, observed : SUBSET Variables]
    BY <1>1, <1>2 DEF TypeOK
  <2>2. /\ frame \in [level : 0 .. MaxDepth, observed : SUBSET Variables]
        /\ frame.level = depth
        /\ frame.observed = memory[active].observed \cup {v}
    BY <1>1, <2>1
  <2>3. memory' = [memory EXCEPT ![active] = frame]  OBVIOUS
  <2> HIDE DEF frame
  <2> QED  BY <1>1, <1>2, <2>2, <2>3 DEF TypeOK
<1>4. \A f \in Frames : memory'[f].level = memory[f].level  BY <1>1, <1>3
<1>5. FramesType'  BY <1>2, <1>3 DEF FramesType, TypeOK
<1>6. OwnFrames'  BY <1>2, <1>4, FrameLevels DEF OwnFrames
<1>7. FreeFramesEmpty'
  BY <1>2, <1>3 DEF FreeFramesEmpty, FramesInv, Frames
<1>8. HeldObserved'
  <2>1. SUFFICES ASSUME NEW f \in 1 .. active', memory'[f].level # Nobody
                 PROVE  stack'[memory'[f].level].holds \subseteq memory'[f].observed
    BY DEF HeldObserved
  <2>2. CASE f = active
    <3>1. stack[depth].holds \subseteq memory[active].observed
      BY <1>1, <1>2, StackType DEF FramesInv, HeldObserved, Nobody
    <3> QED  BY <1>3, <2>2, <3>1 DEF Top
  <2>3. CASE f # active
    <3>1. f \in 1 .. active - 1 /\ f \in Frames  BY <1>2, <2>3, FrameLevels
    <3>2. memory'[f] = memory[f] /\ memory[f].level # depth  BY <1>1, <1>2, <1>3, <2>3, <3>1, FrameLevels
    <3> QED  BY <1>2, <2>1, <3>1, <3>2, FrameLevels DEF FramesInv, HeldObserved
  <2> QED  BY <2>2, <2>3
<1>9. LeftFit'
  <2>1. PICK base \in 0 .. active : LeftBelow(base) /\ LeftFew(base)
    BY DEF FramesInv, LeftFit
  <2>2. LeftBelow(base)'
    BY <1>2, <1>4, <2>1, FrameLevels DEF LeftBelow
  <2>3. LeftFew(base)'  BY <2>1 DEF LeftFew
  <2> QED  BY <2>1, <2>2, <2>3 DEF LeftFit
<1> QED  BY <1>5, <1>6, <1>7, <1>8, <1>9 DEF FramesFit

\* Everything is given up: the frames stay, and nobody runs in them.
LEMMA FramesGivenUp ==
  ASSUME FramesInv, phase \in {"running", "ended"}, GivenUp
  PROVE  FramesFit' /\ FramesType' /\ Running' = {}
<1>1. TypeOK /\ OwnFrames /\ active \in Nat /\ depth \in Nat
  BY StackType, BoundsAssumption DEF FramesInv, TypeOK
<1>2. /\ stack' = <<>> /\ active' = active
      /\ phase' = IF phase = "running" THEN "shutdown" ELSE "ended"
      /\ memory' = [f \in Frames |-> [memory[f] EXCEPT !.level = Nobody]]
  BY DEF GivenUp
<1>3. Running' = {}
  <2>1. DOMAIN stack' = {}  BY <1>2
  <2> QED  BY <2>1 DEF Running
<1>4. ASSUME NEW f \in Frames
      PROVE  /\ memory'[f] \in [level : 0 .. MaxDepth, observed : SUBSET Variables]
             /\ memory'[f].level = Nobody
             /\ memory[f] = NoFrame => memory'[f] = NoFrame
  <2>1. memory[f] \in [level : 0 .. MaxDepth, observed : SUBSET Variables]
    BY <1>1 DEF TypeOK
  <2>2. memory'[f] = [memory[f] EXCEPT !.level = Nobody]  BY <1>2
  <2>3. memory'[f] \in [level : 0 .. MaxDepth, observed : SUBSET Variables]
        /\ memory'[f].level = Nobody
    BY <2>1, <2>2, BoundsAssumption DEF Nobody
  <2>4. ASSUME memory[f] = NoFrame PROVE memory'[f] = NoFrame
    BY <2>2, <2>4 DEF NoFrame
  <2> QED  BY <2>3, <2>4
<1>5. FramesType'
  <2>1. memory' \in [Frames -> [level : 0 .. MaxDepth, observed : SUBSET Variables]]
    BY <1>2, <1>4
  <2> QED  BY <1>1, <1>2, <2>1 DEF FramesType, TypeOK
<1>6. \A f \in 1 .. active' : memory'[f].level = Nobody  BY <1>1, <1>2, <1>4, FrameLevels
<1>7. OwnFrames'  BY <1>3, <1>6 DEF OwnFrames
<1>8. FreeFramesEmpty'  BY <1>2, <1>4 DEF FreeFramesEmpty, FramesInv
<1>9. HeldObserved'  BY <1>6 DEF HeldObserved
<1>10. LeftFit'
  <2>1. LeftBelow(active)'  BY <1>1, <1>2, <1>6 DEF LeftBelow
  <2>2. phase = "running" => active <= MaxDepth
    <3>1. PICK base \in 0 .. active : LeftBelow(base) /\ LeftFew(base)
      BY DEF FramesInv, LeftFit
    <3>2. active - base <= depth  BY <1>1, <3>1, FewFrames
    <3> QED  BY <1>1, <3>1, <3>2, BoundsAssumption DEF LeftFew, TypeOK, depth
  <2>3. LeftFew(active)'  BY <1>2, <2>2 DEF LeftFew
  <2>4. active \in 0 .. active'  BY <1>1, <1>2
  <2> QED  BY <1>2, <2>1, <2>3, <2>4 DEF LeftFit
<1> QED  BY <1>3, <1>5, <1>7, <1>8, <1>9, <1>10 DEF FramesFit

-----------------------------------------------------------------------------
(* The counters after each kind of step.                                   *)

\* The calls in progress can be counted.
LEMMA CountedFinite ==
  ASSUME TypeOK
  PROVE  IsFiniteSet(Counted) /\ Cardinality(Counted) \in Nat
<1>1. IsFiniteSet(1 .. depth)  BY StackType, FS_Interval
<1>2. Counted \in SUBSET (1 .. depth)  BY StackType DEF Counted
<1> QED  BY <1>1, <1>2, FS_Subset, FS_CardinalityType

\* A method has finitely many variables.
LEMMA VariablesFinite ==
  IsFiniteSet(Variables)
<1>1. IsFiniteSet({"name"})  BY FS_Singleton
<1>2. IsFiniteSet({"name"} \cup {"service"})  BY <1>1, FS_AddElement
<1>3. {"name"} \cup {"service"} = Variables  BY DEF Variables
<1> QED  BY <1>2, <1>3

\* The references that methods hold can be counted.
LEMMA ReferencesFinite ==
  ASSUME TypeOK
  PROVE  IsFiniteSet(References) /\ Cardinality(References) \in Nat
<1>1. IsFiniteSet(1 .. depth)  BY StackType, FS_Interval
<1>3. IsFiniteSet((1 .. depth) \X Variables)  BY <1>1, VariablesFinite, FS_Product
<1>4. References \in SUBSET ((1 .. depth) \X Variables)  BY StackType DEF References
<1> QED  BY <1>3, <1>4, FS_Subset, FS_CardinalityType

\* No call starts or ends.
LEMMA LockStays ==
  ASSUME TypeOK, LockEnough, DOMAIN stack' = DOMAIN stack,
         \A d \in DOMAIN stack : stack'[d].counted = stack[d].counted,
         lock' = lock, unclean' = unclean
  PROVE  lock' \in Nat /\ LockEnough'
<1>1. Counted' = Counted  BY DEF Counted
<1> QED  BY <1>1 DEF LockEnough, TypeOK

\* A call starts.
LEMMA LockPushed ==
  ASSUME TypeOK, LockEnough, DOMAIN stack' = 1 .. depth + 1,
         \A d \in DOMAIN stack : stack'[d].counted = stack[d].counted,
         stack'[depth + 1].counted \in BOOLEAN,
         lock' = lock + Count(stack'[depth + 1].counted), unclean' = unclean
  PROVE  lock' \in Nat /\ LockEnough'
<1>1. depth \in Nat /\ DOMAIN stack = 1 .. depth /\ lock \in Nat  BY StackType DEF TypeOK
<1>2. CASE stack'[depth + 1].counted
  <2>1. Counted' = Counted \cup {depth + 1} /\ depth + 1 \notin Counted
    BY <1>1, <1>2 DEF Counted
  <2>2. Cardinality(Counted') = Cardinality(Counted) + 1  BY <2>1, CountedFinite, FS_AddElement
  <2>3. lock' = lock + 1  BY <1>2 DEF Count
  <2> QED  BY <1>1, <2>2, <2>3, CountedFinite DEF LockEnough
<1>3. CASE ~stack'[depth + 1].counted
  <2>1. Counted' = Counted  BY <1>1, <1>3 DEF Counted
  <2>2. lock' = lock  BY <1>1, <1>3 DEF Count
  <2> QED  BY <1>1, <2>1, <2>2 DEF LockEnough
<1> QED  BY <1>2, <1>3

\* A call ends.
LEMMA LockPopped ==
  ASSUME TypeOK, LockEnough, stack # <<>>, DOMAIN stack' = 1 .. depth - 1, SameBelow(stack'),
         lock' = lock - Count(Top.counted), unclean' = unclean
  PROVE  lock' \in Nat /\ LockEnough'
<1>1. /\ depth \in Nat /\ depth > 0 /\ DOMAIN stack = 1 .. depth
      /\ lock \in Nat /\ Top.counted \in BOOLEAN
  BY StackType DEF TypeOK, Top, Activation
<1>2. CASE Top.counted
  <2>1. Counted' = Counted \ {depth} /\ depth \in Counted
    BY <1>1, <1>2 DEF Counted, SameBelow, Top
  <2>2. Cardinality(Counted') = Cardinality(Counted) - 1
    BY <2>1, CountedFinite, FS_RemoveElement
  <2>3. lock' = lock - 1  BY <1>2 DEF Count
  <2>4. Cardinality(Counted) > 0  BY <2>1, CountedFinite, FS_EmptySet
  <2> QED  BY <1>1, <2>2, <2>3, <2>4, CountedFinite DEF LockEnough
<1>3. CASE ~Top.counted
  <2>1. Counted' = Counted  BY <1>1, <1>3 DEF Counted, SameBelow, Top
  <2>2. lock' = lock  BY <1>1, <1>3 DEF Count
  <2> QED  BY <1>1, <2>1, <2>2 DEF LockEnough
<1> QED  BY <1>1, <1>2, <1>3

\* Nobody takes or gives back a reference.
LEMMA HeldStays ==
  ASSUME TypeOK, ReferencesHeld,
         \A d \in DOMAIN stack \cap DOMAIN stack' : stack'[d].holds = stack[d].holds,
         \A d \in DOMAIN stack \ DOMAIN stack' : stack[d].holds = {},
         \A d \in DOMAIN stack' \ DOMAIN stack : stack'[d].holds = {},
         held' = held, unclean' = unclean
  PROVE  ReferencesHeld'
<1>1. References' = References  BY DEF References
<1> QED  BY <1>1 DEF ReferencesHeld

\* A variable of the method at the top gets a value.
LEMMA HeldGiven ==
  ASSUME TypeOK, ReferencesHeld, stack # <<>>, DOMAIN stack' = DOMAIN stack,
         SameBelow(stack'), NEW v \in Variables, v \notin Top.holds,
         stack'[depth].holds = Top.holds \cup {v},
         held' = (IF unclean THEN held ELSE held + 1), unclean' = unclean
  PROVE  ReferencesHeld'
<1>1. depth \in Nat /\ depth > 0 /\ DOMAIN stack = 1 .. depth  BY StackType
<1>2. References' = References \cup {<<depth, v>>} /\ <<depth, v>> \notin References
  BY <1>1 DEF References, SameBelow, Top
<1>3. Cardinality(References') = Cardinality(References) + 1
  BY <1>2, ReferencesFinite, FS_AddElement
<1> QED  BY <1>3 DEF ReferencesHeld

\* The method at the top gives back what it holds.
LEMMA HeldPopped ==
  ASSUME TypeOK, ReferencesHeld, stack # <<>>, DOMAIN stack' = 1 .. depth - 1,
         SameBelow(stack'),
         held' = (IF unclean THEN held ELSE held - Cardinality(Top.holds)), unclean' = unclean
  PROVE  ReferencesHeld'
<1>1. /\ depth \in Nat /\ depth > 0 /\ DOMAIN stack = 1 .. depth
      /\ Top.holds \in SUBSET Variables
  BY StackType DEF Top
<1> DEFINE H == Top.holds
           given == {depth} \X H
<1>2. IsFiniteSet(H)  BY <1>1, VariablesFinite, FS_Subset
<1>3. Cardinality(given) = Cardinality(H) /\ Cardinality(H) \in Nat
  <2>1. IsFiniteSet({depth}) /\ Cardinality({depth}) = 1  BY FS_Singleton
  <2>2. Cardinality(H) \in Nat  BY <1>2, FS_CardinalityType
  <2>3. Cardinality(given) = 1 * Cardinality(H)  BY <1>2, <2>1, FS_Product
  <2> QED  BY <2>2, <2>3
<1>4. References' = References \ given /\ given = References \cap given
  BY <1>1 DEF References, SameBelow, Top
<1>5. Cardinality(References') = Cardinality(References) - Cardinality(H)
  <2>1. Cardinality(References \ given) = Cardinality(References) - Cardinality(References \cap given)
    BY ReferencesFinite, FS_Difference
  <2> HIDE DEF given
  <2> QED  BY <1>3, <1>4, <2>1
<1> QED  BY <1>3, <1>5, ReferencesFinite DEF ReferencesHeld

\* Nothing runs: nothing is counted and nothing held.
LEMMA NoneLeft ==
  ASSUME DOMAIN stack' = {}
  PROVE  Cardinality(Counted') = 0 /\ Cardinality(References') = 0
<1>1. Counted' = {} /\ References' = {}  BY DEF Counted, References
<1> QED  BY <1>1, FS_EmptySet
-----------------------------------------------------------------------------
(* What each kind of step keeps.                                           *)

\* All but what phases and exceptions are about.
Kept ==
  /\ stack \in Seq(Activation) /\ depth <= MaxDepth /\ FramesType
  /\ lock \in Nat /\ held \in Int
  /\ FramesFit /\ CountsInv /\ WaitingFit

\* What a place of a method that waits or goes on is.
Waits(at) == \/ Top.runs = "php" /\ at = "code"
             \/ Top.runs = "method" /\ at \in {"calling", "leave"}
             \/ Top.runs = "method" /\ Top.at = "named" /\ at = "getting"

\* PHP code or a function that throws is called.
LEMMA PlainCall ==
  ASSUME IInv, stack # <<>>, NEW at \in Places, Waits(at), NEW a \in Activation,
         a.runs # "method", a.at = "code", a.holds = {}, Called(at, a),
         lock' = lock + Count(a.counted), UNCHANGED <<phase, memory, active, unclean, held>>
  PROVE  Kept'
<1>1. TypeOK /\ FramesInv /\ CountsInv /\ WaitingFit  BY DEF IInv, FramesInv, CallsInv
<1>2. /\ stack' \in Seq(Activation) /\ depth' = depth + 1 /\ depth' <= MaxDepth
      /\ DOMAIN stack' = 1 .. depth + 1
      /\ SameBelow(stack') /\ SameTop(stack')
      /\ stack'[depth].at = at
      /\ stack'[depth + 1] = a
  BY <1>1, CalledStack
<1>3. depth \in Nat /\ depth > 0 /\ DOMAIN stack = 1 .. depth  BY <1>1, StackType
<1>4. \A d \in DOMAIN stack : /\ stack'[d].runs = stack[d].runs
                              /\ stack'[d].holds = stack[d].holds
                              /\ stack'[d].counted = stack[d].counted
  BY <1>2, <1>3 DEF SameBelow, SameTop, Top
<1>5. Running' = Running  BY <1>2, <1>3, <1>4 DEF Running
<1>6. FramesFit'  BY <1>1, <1>4, <1>5, FramesStay, FrameLevels DEF Running
<1>7. FramesType'  BY <1>1 DEF TypeOK, FramesType
<1>8. lock' \in Nat /\ LockEnough'
  BY <1>1, <1>2, <1>4, LockPushed DEF CountsInv, Activation
<1>9. ReferencesHeld'  BY <1>1, <1>2, <1>3, <1>4, HeldStays DEF CountsInv
<1>10. VariablesFit'
  BY <1>1, <1>2, <1>3 DEF VariablesFit, CountsInv, SameBelow, SameTop, Top, Waits
<1>11. WaitingFit'
  BY <1>1, <1>2, <1>3 DEF WaitingFit, SameBelow, SameTop, Top, Waits
<1>12. held' \in Int  BY <1>1 DEF TypeOK
<1> QED  BY <1>2, <1>6, <1>7, <1>8, <1>9, <1>10, <1>11, <1>12 DEF Kept, CountsInv

\* A method is called.
LEMMA MethodCall ==
  ASSUME IInv, stack # <<>>, NEW at \in Places, Waits(at), NEW a \in Activation,
         a.runs = "method", a.at = "fetched", a.holds = {}, Called(at, a), Grown(depth + 1),
         lock' = lock + Count(a.counted), UNCHANGED <<phase, unclean, held>>
  PROVE  Kept'
<1>1. TypeOK /\ FramesInv /\ CountsInv /\ WaitingFit  BY DEF IInv, FramesInv, CallsInv
<1>2. /\ stack' \in Seq(Activation) /\ depth' = depth + 1 /\ depth' <= MaxDepth
      /\ DOMAIN stack' = 1 .. depth + 1
      /\ SameBelow(stack') /\ SameTop(stack')
      /\ stack'[depth].at = at
      /\ stack'[depth + 1] = a
  BY <1>1, CalledStack
<1>3. depth \in Nat /\ depth > 0 /\ DOMAIN stack = 1 .. depth  BY <1>1, StackType
<1>4. \A d \in DOMAIN stack : /\ stack'[d].runs = stack[d].runs
                              /\ stack'[d].holds = stack[d].holds
                              /\ stack'[d].counted = stack[d].counted
  BY <1>2, <1>3 DEF SameBelow, SameTop, Top
<1>5. Running' = Running \cup {depth + 1}  BY <1>2, <1>3, <1>4 DEF Running
<1>6. FramesFit' /\ FramesType'
  <2>1. depth < MaxDepth  BY DEF Called
  <2>2. \A d \in Running : stack'[d].holds = stack[d].holds  BY <1>4 DEF Running
  <2> QED  BY <1>1, <1>2, <1>5, <2>1, <2>2, FramesGrow
<1>7. lock' \in Nat /\ LockEnough'
  BY <1>1, <1>2, <1>4, LockPushed DEF CountsInv, Activation
<1>8. ReferencesHeld'  BY <1>1, <1>2, <1>3, <1>4, HeldStays DEF CountsInv
<1>9. VariablesFit'
  BY <1>1, <1>2, <1>3 DEF VariablesFit, CountsInv, SameBelow, SameTop, Top, Waits
<1>10. WaitingFit'
  BY <1>1, <1>2, <1>3 DEF WaitingFit, SameBelow, SameTop, Top, Waits
<1>11. held' \in Int  BY <1>1 DEF TypeOK
<1> QED  BY <1>2, <1>6, <1>7, <1>8, <1>9, <1>10, <1>11 DEF Kept, CountsInv

\* PHP code or a function that throws is over.
LEMMA PlainReturn ==
  ASSUME IInv, stack # <<>>, Top.runs # "method", Popped,
         UNCHANGED <<phase, memory, active, unclean, held>>
  PROVE  Kept'
<1>1. TypeOK /\ FramesInv /\ CountsInv /\ WaitingFit  BY DEF IInv, FramesInv, CallsInv
<1>2. /\ stack' \in Seq(Activation) /\ depth' = depth - 1
      /\ DOMAIN stack' = 1 .. depth - 1
      /\ SameBelow(stack')
  BY <1>1, PoppedStack DEF Popped
<1>3. depth \in Nat /\ depth > 0 /\ DOMAIN stack = 1 .. depth /\ depth <= MaxDepth
  BY <1>1, StackType DEF TypeOK, depth
<1>4. depth' <= MaxDepth  BY <1>2, <1>3, BoundsAssumption
<1>5. Running' = Running /\ \A d \in Running : stack'[d].holds = stack[d].holds
  BY <1>2, <1>3 DEF Running, SameBelow, Top
<1>6. FramesFit'  BY <1>1, <1>5, FramesStay
<1>7. FramesType'  BY <1>1 DEF TypeOK, FramesType
<1>8. lock' \in Nat /\ LockEnough'  BY <1>1, <1>2, LockPopped DEF CountsInv, Popped
<1>9. stack[depth].holds = {}  BY <1>1, <1>3 DEF CountsInv, VariablesFit, Top
<1>10. ReferencesHeld'  BY <1>1, <1>2, <1>3, <1>9, HeldStays DEF CountsInv, SameBelow
<1>11. VariablesFit'  BY <1>1, <1>2, <1>3 DEF VariablesFit, CountsInv, SameBelow
<1>12. WaitingFit'  BY <1>1, <1>2, <1>3 DEF WaitingFit, SameBelow
<1>13. held' \in Int  BY <1>1 DEF TypeOK
<1> QED  BY <1>2, <1>4, <1>6, <1>7, <1>8, <1>10, <1>11, <1>12, <1>13 DEF Kept, CountsInv

\* A method is over: there is a frame to restore.
LEMMA MethodReturn ==
  ASSUME IInv, stack # <<>>, Top.runs = "method", Left, unclean' = unclean
  PROVE  Kept' /\ phase' = phase /\ Popped
<1>1. TypeOK /\ FramesInv /\ CountsInv /\ WaitingFit /\ OwnFrames
  BY DEF IInv, FramesInv, CallsInv
<1>2. active > 0 /\ active \in Frames /\ memory[active].level = depth  BY <1>1, TopFrame
<1>3. Restored /\ Popped /\ phase' = phase  BY <1>1, <1>2, BoundsAssumption DEF Left, TypeOK
<1>4. /\ stack' \in Seq(Activation) /\ depth' = depth - 1
      /\ DOMAIN stack' = 1 .. depth - 1
      /\ SameBelow(stack')
  BY <1>1, <1>3, PoppedStack DEF Popped
<1>5. depth \in Nat /\ depth > 0 /\ DOMAIN stack = 1 .. depth /\ depth <= MaxDepth
  BY <1>1, StackType DEF TypeOK, depth
<1>6. depth' <= MaxDepth  BY <1>4, <1>5, BoundsAssumption
<1>7. Running' = Running \ {depth} /\ \A d \in Running' : stack'[d].holds = stack[d].holds
  BY <1>4, <1>5 DEF Running, SameBelow
<1>8. FramesFit' /\ FramesType'  BY <1>1, <1>3, <1>7, FramesShrink
<1>9. lock' \in Nat /\ LockEnough'  BY <1>1, <1>3, <1>4, LockPopped DEF CountsInv, Popped
<1>10. HeldThrough(memory[active]) = Top.holds
  <2>1. active \in 1 .. active  BY <1>2, BoundsAssumption DEF Frames
  <2>2. stack[depth].holds \subseteq memory[active].observed
    BY <1>1, <1>2, <1>5, <2>1 DEF FramesInv, HeldObserved, Nobody
  <2>3. HeldThrough(memory[active]) = memory[active].observed \cap stack[depth].holds
    BY <1>2, <1>5 DEF HeldThrough, Nobody
  <2> QED  BY <2>2, <2>3 DEF Top
<1>11. held' = IF unclean THEN held ELSE held - Cardinality(Top.holds)
  BY <1>3, <1>10 DEF Restored
<1>12. ReferencesHeld'  BY <1>1, <1>4, <1>11, HeldPopped DEF CountsInv
<1>13. held' \in Int
  <2>1. Top.holds \in SUBSET Variables  BY <1>1, <1>5, StackType DEF Top
  <2>2. Cardinality(Top.holds) \in Nat  BY <2>1, VariablesFinite, FS_Subset, FS_CardinalityType
  <2> QED  BY <1>1, <1>11, <2>2 DEF TypeOK
<1>14. VariablesFit'  BY <1>1, <1>4, <1>5 DEF VariablesFit, CountsInv, SameBelow
<1>15. WaitingFit'  BY <1>1, <1>4, <1>5 DEF WaitingFit, SameBelow
<1> QED  BY <1>3, <1>4, <1>6, <1>8, <1>9, <1>12, <1>13, <1>14, <1>15 DEF Kept, CountsInv

\* A method gives a variable its value and goes on.
LEMMA ValueGiven ==
  ASSUME IInv, stack # <<>>, Top.runs = "method", NEW v \in Variables, v \notin Top.holds,
         NEW at \in Places, at = "ready" \/ (at = "named" /\ Top.at = "fetched" /\ v = "name"),
         Given(v, at), UNCHANGED <<phase, active, lock, unclean>>
  PROVE  Kept'
<1>1. TypeOK /\ FramesInv /\ CountsInv /\ WaitingFit  BY DEF IInv, FramesInv, CallsInv
<1>2. /\ stack' \in Seq(Activation) /\ depth' = depth
      /\ DOMAIN stack' = 1 .. depth
      /\ SameBelow(stack')
      /\ stack'[depth].runs = Top.runs
      /\ stack'[depth].counted = Top.counted
      /\ stack'[depth].holds = Top.holds \cup {v}
      /\ stack'[depth].at = at
  BY <1>1, GivenStack
<1>3. depth \in Nat /\ depth > 0 /\ DOMAIN stack = 1 .. depth /\ depth <= MaxDepth
  BY <1>1, StackType DEF TypeOK, depth
<1>4. /\ Running' = Running
      /\ \A d \in Running \ {depth} : stack'[d].holds = stack[d].holds
  BY <1>2, <1>3 DEF Running, SameBelow, Top
<1>5. FramesFit' /\ FramesType'  BY <1>1, <1>2, <1>4, FramesGiven DEF Given
<1>6. lock' \in Nat /\ LockEnough'
  BY <1>1, <1>2, <1>3, LockStays DEF CountsInv, SameBelow, Top
<1>7. ReferencesHeld'  BY <1>1, <1>2, <1>3, HeldGiven DEF CountsInv, Given
<1>8. held' \in Int  BY <1>1 DEF TypeOK, Given
<1>9. VariablesFit'
  BY <1>1, <1>2, <1>3 DEF VariablesFit, CountsInv, SameBelow, Top
<1>10. WaitingFit'  BY <1>1, <1>2, <1>3 DEF WaitingFit, SameBelow
<1> QED  BY <1>2, <1>3, <1>5, <1>6, <1>7, <1>8, <1>9, <1>10 DEF Kept, CountsInv

\* A method goes on.
LEMMA MethodMoves ==
  ASSUME IInv, stack # <<>>, Top.runs = "method", NEW at \in {"null", "ready", "leave"},
         Moved(at), UNCHANGED <<phase, memory, active, lock, unclean, held>>
  PROVE  Kept'
<1>1. TypeOK /\ FramesInv /\ CountsInv /\ WaitingFit  BY DEF IInv, FramesInv, CallsInv
<1>2. /\ stack' \in Seq(Activation) /\ depth' = depth
      /\ DOMAIN stack' = 1 .. depth
      /\ SameBelow(stack') /\ SameTop(stack')
      /\ stack'[depth].at = at
  BY <1>1, MovedStack DEF Moved, depth, Places
<1>3. depth \in Nat /\ depth > 0 /\ DOMAIN stack = 1 .. depth /\ depth <= MaxDepth
  BY <1>1, StackType DEF TypeOK, depth
<1>4. /\ Running' = Running
      /\ \A d \in Running : stack'[d].holds = stack[d].holds
  BY <1>2, <1>3 DEF Running, SameBelow, SameTop, Top
<1>5. FramesFit'  BY <1>1, <1>4, FramesStay
<1>6. FramesType'  BY <1>1 DEF TypeOK, FramesType
<1>7. lock' \in Nat /\ LockEnough'
  BY <1>1, <1>2, <1>3, LockStays DEF CountsInv, SameBelow, SameTop, Top
<1>8. ReferencesHeld'
  BY <1>1, <1>2, <1>3, HeldStays DEF CountsInv, SameBelow, SameTop, Top
<1>9. held' \in Int  BY <1>1 DEF TypeOK
<1>10. VariablesFit'
  BY <1>1, <1>2, <1>3 DEF VariablesFit, CountsInv, SameBelow, SameTop, Top
<1>11. WaitingFit'  BY <1>1, <1>2, <1>3 DEF WaitingFit, SameBelow, SameTop, Top
<1> QED  BY <1>2, <1>3, <1>5, <1>6, <1>7, <1>8, <1>9, <1>10, <1>11 DEF Kept, CountsInv

\* Everything is given up.
LEMMA AllGivenUp ==
  ASSUME IInv, stack # <<>>, GivenUp, lock' \in Nat
  PROVE  Kept' /\ PhasesFit' /\ phase' \in {"shutdown", "ended"}
<1>1. TypeOK /\ FramesInv /\ PhasesFit  BY DEF IInv, FramesInv
<1>2. phase \in {"running", "ended"}  BY <1>1 DEF PhasesFit, TypeOK
<1>3. FramesFit' /\ FramesType'  BY <1>1, <1>2, FramesGivenUp
<1>4. stack' = <<>> /\ unclean' = TRUE /\ held' = held /\ exception' = FALSE
  BY DEF GivenUp
<1>5. stack' \in Seq(Activation) /\ depth' = 0 /\ DOMAIN stack' = {}  BY <1>4 DEF depth
<1>6. LockEnough'  BY <1>4, <1>5, NoneLeft DEF LockEnough
<1>7. ReferencesHeld' /\ held' \in Int  BY <1>1, <1>4 DEF ReferencesHeld, TypeOK
<1>8. VariablesFit' /\ WaitingFit'  BY <1>5 DEF VariablesFit, WaitingFit
<1>9. phase' = IF phase = "running" THEN "shutdown" ELSE "ended"  BY DEF GivenUp
<1>10. PhasesFit'  BY <1>1, <1>2, <1>4, <1>9 DEF PhasesFit
<1> QED
  BY <1>2, <1>3, <1>4, <1>5, <1>6, <1>7, <1>8, <1>9, <1>10, BoundsAssumption
  DEF Kept, CountsInv

\* Nothing or a script runs, and no frame is left.
NoneFit == /\ stack = <<>> \/ stack = <<Script(FALSE)>>
           /\ active = 0 /\ FreeFramesEmpty
           /\ memory \in [Frames -> [level : 0 .. MaxDepth, observed : SUBSET Variables]]
NoneRuns == /\ FramesFit /\ FramesType
            /\ stack \in Seq(Activation) /\ depth <= MaxDepth
            /\ VariablesFit /\ WaitingFit /\ Counted = {} /\ References = {}

\* Then all the frames and counters are about fits.
LEMMA NoFrameFit == NoneFit => NoneRuns
<1> SUFFICES ASSUME NoneFit PROVE NoneRuns  OBVIOUS
<1>1. /\ stack \in Seq(Activation) /\ Len(stack) \in {0, 1} /\ DOMAIN stack = 1 .. Len(stack)
      /\ \A d \in DOMAIN stack : stack[d] = Script(FALSE)
  <2>1. Script(FALSE) \in Activation  BY DEF Script, Started, Activation
  <2>2. stack = <<>> \/ stack = <<Script(FALSE)>>  BY DEF NoneFit
  <2>3. CASE stack = <<>>  BY <2>3
  <2>4. CASE stack = <<Script(FALSE)>>
    <3>1. Len(stack) = 1 /\ stack[1] = Script(FALSE) /\ DOMAIN stack = 1 .. 1  BY <2>4
    <3>2. stack = Append(<<>>, Script(FALSE))  BY <2>4
    <3>3. stack \in Seq(Activation)  BY <2>1, <3>2, AppendProperties, EmptySeq
    <3>4. \A d \in DOMAIN stack : d = 1  BY <3>1
    <3> QED  BY <3>1, <3>3, <3>4
  <2> QED  BY <2>2, <2>3, <2>4
<1>2. Script(FALSE).runs = "php" /\ Script(FALSE).at = "code"
      /\ Script(FALSE).holds = {} /\ Script(FALSE).counted = FALSE
  BY DEF Script, Started
<1>3. Running = {} /\ Counted = {} /\ References = {}
  BY <1>1, <1>2 DEF Running, Counted, References
<1>4. active = 0 /\ 1 .. active = {}  BY DEF NoneFit
<1>5. OwnFrames /\ HeldObserved  BY <1>3, <1>4 DEF OwnFrames, HeldObserved
<1>6. LeftFit
  <2>1. 0 \in 0 .. active /\ LeftBelow(0) /\ LeftFew(0)
    BY <1>4, BoundsAssumption DEF LeftBelow, LeftFew
  <2> QED  BY <2>1 DEF LeftFit
<1>7. VariablesFit /\ WaitingFit  BY <1>1, <1>2 DEF VariablesFit, WaitingFit, depth
<1> QED
  BY <1>1, <1>3, <1>4, <1>5, <1>6, <1>7, BoundsAssumption
  DEF NoneRuns, FramesFit, FramesType, NoneFit, depth
-----------------------------------------------------------------------------
(* What is pending.                                                        *)

\* Whether a property is looked up below the top.
GettingBelow == \E d \in 1 .. depth - 1 : stack[d].at = "getting"

\* It is below the top or at the top.
LEMMA GettingSplit ==
  ASSUME TypeOK
  PROVE  /\ Getting <=> (GettingBelow \/ (stack # <<>> /\ Top.at = "getting"))
         /\ MayThrow <=> ContainerThrows \/ ~GettingBelow
<1>1. depth \in Nat /\ DOMAIN stack = 1 .. depth /\ (stack # <<>> <=> depth > 0)
  BY StackType
<1>2. ASSUME Getting PROVE GettingBelow \/ (stack # <<>> /\ Top.at = "getting")
  <2>1. PICK d \in 1 .. depth : stack[d].at = "getting"  BY <1>1, <1>2 DEF Getting
  <2>2. CASE d = depth
    <3>1. stack # <<>>  BY <1>1, <2>1
    <3> QED  BY <2>1, <2>2, <3>1 DEF Top
  <2>3. CASE d \in 1 .. depth - 1  BY <2>1, <2>3 DEF GettingBelow
  <2> QED  BY <1>1, <2>1, <2>2, <2>3
<1>3. ASSUME GettingBelow PROVE Getting
  <2>1. PICK d \in 1 .. depth - 1 : stack[d].at = "getting"  BY <1>3 DEF GettingBelow
  <2> QED  BY <1>1, <2>1 DEF Getting
<1>4. ASSUME stack # <<>>, Top.at = "getting" PROVE Getting  BY <1>1, <1>4 DEF Getting, Top
<1>5. MayThrow <=> ContainerThrows \/ ~GettingBelow  BY DEF MayThrow, GettingBelow
<1> QED  BY <1>2, <1>3, <1>4, <1>5

\* Nothing is pending, and nothing about to be thrown.
LEMMA NothingPending ==
  ASSUME exception' = FALSE, ~Is("throw", "code")'
  PROVE  PendingFit'
  BY DEF PendingFit

\* A method calls a function that throws.
LEMMA PendingThrower ==
  ASSUME IInv, PendingFit, ~ContainerThrows, MayThrow, stack # <<>>,
         Top.at \in {"fetched", "ready", "null"},
         NEW at \in {"leave", "calling"}, Called(at, Thrower), exception' = exception
  PROVE  PendingFit'
<1>1. TypeOK  BY DEF IInv, FramesInv
<1>2. Thrower \in Activation /\ Thrower.at = "code"  BY DEF Thrower, Started, Activation
<1>3. /\ depth' = depth + 1
      /\ DOMAIN stack' = 1 .. depth + 1
      /\ SameBelow(stack')
      /\ stack'[depth].at = at
      /\ stack'[depth + 1] = Thrower
  BY <1>1, <1>2, CalledStack DEF Places
<1>4. depth \in Nat /\ depth > 0  BY <1>1, StackType
<1>5. ~GettingBelow  BY <1>1, GettingSplit
<1>6. ~Getting'  BY <1>2, <1>3, <1>4, <1>5 DEF Getting, GettingBelow, SameBelow
<1>7. ~exception'  BY DEF PendingFit
<1> QED  BY <1>6, <1>7 DEF PendingFit

\* Control is back where a method or PHP code waited.
LEMMA PendingReturn ==
  ASSUME IInv, PendingFit, Popped, stack # <<>>, exception' => ~Getting
  PROVE  PendingFit'
<1>1. TypeOK /\ WaitingFit  BY DEF IInv, FramesInv, CallsInv
<1>2. /\ depth' = depth - 1 /\ DOMAIN stack' = 1 .. depth - 1 /\ SameBelow(stack')
      /\ stack' \in Seq(Activation)
  BY <1>1, PoppedStack DEF Popped
<1>3. depth \in Nat /\ depth > 0 /\ DOMAIN stack = 1 .. depth  BY <1>1, StackType
<1>4. Getting' => Getting  BY <1>2, <1>3 DEF Getting, SameBelow
<1>5. stack' # <<>> => depth - 1 \in 1 .. depth - 1 /\ Top' = stack[depth - 1]
  <2>1. ASSUME stack' # <<>> PROVE depth' > 0  BY <1>2, <2>1, EmptySeq DEF depth
  <2> QED  BY <1>2, <1>3, <2>1 DEF SameBelow, Top
<1>6. ASSUME stack' # <<>>
      PROVE  Top'.runs # "throw" /\ (Top'.at \in {"code", "calling", "leave"} \/ Getting)
  BY <1>1, <1>3, <1>5, <1>6 DEF WaitingFit, Getting
<1>7. ~Is("throw", "code")'  BY <1>6 DEF Is
<1> QED  BY <1>4, <1>6, <1>7 DEF PendingFit
-----------------------------------------------------------------------------
(* One lemma for each action.                                              *)

\* What is left to show beside what is kept.
Flags == /\ phase \in {"idle", "running", "shutdown", "ended"}
         /\ exception \in BOOLEAN /\ unclean \in BOOLEAN

\* What a step keeps makes up the invariant.
LEMMA AllKept ==
  ASSUME Kept', Flags', PhasesFit', ContainerThrows \/ PendingFit'
  PROVE  IInv'
<1>1. TypeOK'  BY DEF Kept, Flags, FramesType, TypeOK, depth
<1> QED  BY <1>1 DEF Kept, FramesFit, IInv, FramesInv, CallsInv

\* What the invariant says of flags.
LEMMA InvFlags ==
  ASSUME IInv
  PROVE  /\ TypeOK /\ Flags /\ PhasesFit /\ VariablesFit /\ WaitingFit
         /\ ContainerThrows \/ PendingFit
         /\ lock \in Nat
         /\ stack # <<>> => phase \in {"running", "ended"}
         /\ stack # <<>> => Top \in Activation
<1>1. TypeOK /\ PhasesFit  BY DEF IInv, FramesInv
<1>2. stack # <<>> => Top \in Activation  BY <1>1, StackType DEF Top
<1> QED  BY <1>1, <1>2 DEF IInv, TypeOK, Flags, PhasesFit, CallsInv, CountsInv

\* What the top of the stack is.
LEMMA TopFits ==
  ASSUME IInv, stack # <<>>
  PROVE  /\ Top.runs # "method" => Top.at = "code"
         /\ Top.at = "fetched" => Top.holds = {}
         /\ Top.at \in {"named", "getting"} => "service" \notin Top.holds
<1>1. TypeOK /\ VariablesFit /\ WaitingFit  BY InvFlags
<1>2. depth \in Nat /\ depth > 0 /\ DOMAIN stack = 1 .. depth  BY <1>1, StackType
<1> QED  BY <1>1, <1>2 DEF VariablesFit, WaitingFit, Top

\* Activations that are called.
LEMMA Starts ==
  ASSUME NEW counted \in BOOLEAN
  PROVE  /\ Script(counted) \in Activation /\ Method(counted) \in Activation
         /\ Thrower \in Activation
         /\ Script(counted).runs = "php" /\ Script(counted).at = "code"
         /\ Method(counted).runs = "method" /\ Method(counted).at = "fetched"
         /\ Thrower.runs = "throw" /\ Thrower.at = "code" /\ Thrower.counted = FALSE
         /\ Script(counted).holds = {} /\ Method(counted).holds = {} /\ Thrower.holds = {}
         /\ Script(counted).counted = counted /\ Method(counted).counted = counted
  BY DEF Script, Method, Thrower, Started, Activation

\* PHP code calls a method.
LEMMA CallMethodInv ==
  ASSUME IInv, CallMethod
  PROVE  IInv'
<1>1. stack # <<>> /\ Top.runs = "php"  BY DEF CallMethod, Is
<1>2. Waits("code") /\ lock' = lock + Count(Method(FALSE).counted)
  <2>1. Count(Method(FALSE).counted) = 0  BY Starts DEF Count
  <2>2. lock' = lock + 0  BY InvFlags DEF CallMethod
  <2> QED  BY <1>1, <2>1, <2>2 DEF Waits
<1>3. Kept'  BY <1>1, <1>2, MethodCall, Starts DEF CallMethod, Places
<1>4. Flags' /\ PhasesFit'  BY <1>1, InvFlags DEF CallMethod, Flags, PhasesFit
<1>5. Top'.runs = "method"
  <2>1. stack'[depth + 1] = Method(FALSE) /\ depth' = depth + 1
    BY <1>1, CalledStack, InvFlags, Starts DEF CallMethod, Places
  <2> QED  BY <2>1, Starts DEF Top
<1>6. PendingFit'  BY <1>5, NothingPending, InvFlags DEF CallMethod, Is, Flags
<1> QED  BY <1>3, <1>4, <1>6, AllKept

\* PHP code throws, or catches.
LEMMA ExceptionInScriptInv ==
  ASSUME IInv, ThrowInScript \/ CatchInScript
  PROVE  IInv'
<1>1. /\ Is("php", "code") /\ exception' \in BOOLEAN
      /\ UNCHANGED <<phase, stack, memory, active, lock, unclean, held>>
  BY DEF ThrowInScript, CatchInScript
<1>2. Kept'
  <2>1. Kept
    BY InvFlags
    DEF Kept, FramesFit, FramesType, IInv, FramesInv, TypeOK, depth
  <2>2. (OwnFrames /\ FreeFramesEmpty /\ HeldObserved)'
    BY <1>1, <2>1
    DEF Kept, FramesFit, OwnFrames, Running, FreeFramesEmpty, HeldObserved
  <2>3. LeftFit'  BY <1>1, <2>1 DEF Kept, FramesFit, LeftFit, LeftBelow, LeftFew
  <2>4. (VariablesFit /\ WaitingFit)'
    BY <1>1, <2>1 DEF Kept, CountsInv, VariablesFit, WaitingFit, depth
  <2>5. (ReferencesHeld /\ LockEnough)'
    BY <1>1, <2>1 DEF Kept, CountsInv, ReferencesHeld, References, LockEnough, Counted
  <2>6. FramesType' /\ depth' = depth  BY <1>1, <2>1 DEF Kept, FramesType, depth
  <2> QED  BY <1>1, <2>1, <2>2, <2>3, <2>4, <2>5, <2>6 DEF Kept, FramesFit, CountsInv
<1>3. Flags' /\ PhasesFit'  BY <1>1, InvFlags DEF Flags, PhasesFit, Is
<1>4. ASSUME ~ContainerThrows PROVE PendingFit'
  <2>1. exception' => ~Getting
    BY <1>1, <1>4, GettingSplit, InvFlags DEF ThrowInScript, CatchInScript, Is
  <2>2. Getting' = Getting /\ Top' = Top /\ stack' = stack
    BY <1>1 DEF Getting, Top, depth
  <2> QED  BY <1>1, <2>1, <2>2 DEF PendingFit, Is
<1> QED  BY <1>2, <1>3, <1>4, AllKept

\* PHP code returns to what called it.
LEMMA ReturnFromScriptInv ==
  ASSUME IInv, ReturnFromScript
  PROVE  IInv'
<1>1. stack # <<>> /\ Top.runs = "php" /\ Popped  BY DEF ReturnFromScript, Is
<1>2. Kept'  BY <1>1, PlainReturn DEF ReturnFromScript
<1>3. Flags' /\ PhasesFit'  BY <1>1, InvFlags DEF ReturnFromScript, Flags, PhasesFit
<1>4. ASSUME ~ContainerThrows PROVE PendingFit'
  BY <1>1, <1>4, PendingReturn, InvFlags DEF ReturnFromScript, PendingFit
<1> QED  BY <1>2, <1>3, <1>4, AllKept

\* exit() and a call too many.
LEMMA GiveUpInv ==
  ASSUME IInv, ExitInScript \/ CallTooDeep
  PROVE  IInv'
<1>1. stack # <<>> /\ GivenUp /\ lock' \in Nat
  BY InvFlags DEF ExitInScript, CallTooDeep, Is
<1>2. Kept' /\ PhasesFit' /\ phase' \in {"shutdown", "ended"}  BY <1>1, AllGivenUp
<1>3. Flags' /\ exception' = FALSE /\ stack' = <<>>  BY <1>1, <1>2 DEF GivenUp, Flags
<1>4. PendingFit'  BY <1>3, NothingPending DEF Is
<1> QED  BY <1>2, <1>3, <1>4, AllKept

\* A function that throws is called.
LEMMA CallThrowerInv ==
  ASSUME IInv, RefuseParameters \/ CallMissing \/ ThrowInMethod
  PROVE  IInv'
<1>1. PICK at \in {"leave", "calling"} :
        /\ stack # <<>> /\ Top.runs = "method" /\ Top.at \in {"fetched", "ready", "null"}
        /\ MayThrow /\ Called(at, Thrower)
        /\ UNCHANGED <<phase, memory, active, exception, lock, unclean, held>>
  BY DEF RefuseParameters, CallMissing, ThrowInMethod, Is
<1>2. Waits(at) /\ lock' = lock + Count(Thrower.counted) /\ at \in Places
  <2>1. Count(Thrower.counted) = 0  BY Starts DEF Count
  <2>2. lock' = lock + 0  BY <1>1, InvFlags
  <2> QED  BY <1>1, <2>1, <2>2 DEF Waits, Places
<1>3. Kept'  BY <1>1, <1>2, PlainCall, Starts
<1>4. Flags' /\ PhasesFit'  BY <1>1, InvFlags DEF Flags, PhasesFit
<1>5. ASSUME ~ContainerThrows PROVE PendingFit'
  BY <1>1, <1>5, PendingThrower, InvFlags
<1> QED  BY <1>3, <1>4, <1>5, AllKept

\* A method takes its parameters and its service.
LEMMA GivenInv ==
  ASSUME IInv, InitName \/ ReadService \/ ServiceAnswered
  PROVE  IInv'
<1>1. PICK v \in Variables, at \in Places :
        /\ stack # <<>> /\ Top.runs = "method" /\ v \notin Top.holds
        /\ at = "ready" \/ (at = "named" /\ Top.at = "fetched" /\ v = "name")
        /\ Given(v, at)
        /\ UNCHANGED <<phase, active, exception, lock, unclean>>
        /\ Top.at \in {"fetched", "named"} \/ ~exception
  <2>1. CASE InitName
    <3>1. stack # <<>> /\ Top.runs = "method" /\ Top.at = "fetched"  BY <2>1 DEF InitName, Is
    <3>2. "name" \in Variables /\ "name" \notin Top.holds /\ "named" \in Places
      BY <3>1, TopFits DEF Variables, Places
    <3> QED  BY <2>1, <3>1, <3>2 DEF InitName
  <2>2. CASE ReadService \/ ServiceAnswered
    <3>3. /\ Given("service", "ready")
          /\ UNCHANGED <<phase, active, exception, lock, unclean>>
      BY <2>2 DEF ReadService, ServiceAnswered
    <3>1. /\ stack # <<>> /\ Top.runs = "method" /\ Top.at \in {"named", "getting"}
          /\ Top.at = "named" \/ ~exception
      BY <2>2 DEF ReadService, ServiceAnswered, Is
    <3>2. "service" \in Variables /\ "service" \notin Top.holds /\ "ready" \in Places
      BY <3>1, TopFits DEF Variables, Places
    <3> QED  BY <3>1, <3>2, <3>3
  <2> QED  BY <2>1, <2>2
<1>2. Kept'  BY <1>1, ValueGiven
<1>3. Flags' /\ PhasesFit'  BY <1>1, InvFlags, GivenStack, EmptySeq DEF Flags, PhasesFit
<1>4. ASSUME ~ContainerThrows PROVE PendingFit'
  <2>1. ~exception  BY <1>1, <1>4, InvFlags DEF PendingFit
  <2>2. depth' = depth /\ stack'[depth].runs = "method"  BY <1>1, GivenStack, InvFlags
  <2> QED  BY <1>1, <2>1, <2>2, NothingPending, InvFlags DEF Is, Top, Flags
<1> QED  BY <1>2, <1>3, <1>4, AllKept

\* A method asks for a service, or calls it.
LEMMA CallFromMethodInv ==
  ASSUME IInv, AskContainer \/ CallService
  PROVE  IInv'
<1>1. PICK at \in Places, counted \in BOOLEAN :
        /\ stack # <<>> /\ Top.runs = "method" /\ Top.at \in {"named", "ready"}
        /\ (at = "getting" /\ Top.at = "named") \/ at = "calling"
        /\ lock' = lock + Count(counted)
        /\ Called(at, Method(counted)) /\ Grown(depth + 1)
        /\ UNCHANGED <<phase, exception, unclean, held>>
  <2>1. CASE AskContainer
    <3>1. lock' = lock + Count(FALSE)  BY <2>1, InvFlags DEF AskContainer, Count
    <3> QED  BY <2>1, <3>1 DEF AskContainer, Is, Places
  <2>2. CASE CallService
    <3>1. lock' = lock + Count(TRUE)  BY <2>2 DEF CallService, CallCounted, Count
    <3> QED  BY <2>2, <3>1 DEF CallService, CallCounted, Is, Places
  <2> QED  BY <2>1, <2>2
<1>2. Waits(at)  BY <1>1 DEF Waits
<1>3. Kept'  BY <1>1, <1>2, MethodCall, Starts
<1>4. Flags' /\ PhasesFit'  BY <1>1, InvFlags DEF Flags, PhasesFit
<1>5. ASSUME ~ContainerThrows PROVE PendingFit'
  <2>1. ~exception  BY <1>1, <1>5, InvFlags DEF PendingFit
  <2>2. stack'[depth + 1] = Method(counted) /\ depth' = depth + 1
    BY <1>1, CalledStack, InvFlags, Starts
  <2>3. Top'.runs = "method"  BY <2>2, Starts DEF Top
  <2> QED  BY <1>1, <2>1, <2>3, NothingPending, InvFlags DEF Is, Flags
<1> QED  BY <1>3, <1>4, <1>5, AllKept

\* A method calls PHP code.
LEMMA CallScriptInv ==
  ASSUME IInv, CallScript
  PROVE  IInv'
<1>1. /\ stack # <<>> /\ Top.runs = "method" /\ Top.at = "ready"
      /\ lock' = lock + 1 /\ Called("calling", Script(TRUE))
      /\ UNCHANGED <<phase, memory, active, exception, unclean, held>>
  BY DEF CallScript, CallCounted, Is
<1>2. Waits("calling") /\ lock' = lock + Count(Script(TRUE).counted)
  BY <1>1, Starts DEF Waits, Count
<1>3. Kept'  BY <1>1, <1>2, PlainCall, Starts DEF Places
<1>4. Flags' /\ PhasesFit'  BY <1>1, InvFlags DEF Flags, PhasesFit
<1>5. ASSUME ~ContainerThrows PROVE PendingFit'
  <2>1. ~exception  BY <1>1, <1>5, InvFlags DEF PendingFit
  <2>2. stack'[depth + 1] = Script(TRUE) /\ depth' = depth + 1
    BY <1>1, CalledStack, InvFlags, Starts DEF Places
  <2>3. Top'.runs = "php"  BY <2>2, Starts DEF Top
  <2> QED  BY <1>1, <2>1, <2>3, NothingPending, InvFlags DEF Is, Flags
<1> QED  BY <1>3, <1>4, <1>5, AllKept

\* A method goes on.
LEMMA MovesInv ==
  ASSUME IInv, NullAnswered \/ CallReturned \/ Return
  PROVE  IInv'
<1>1. PICK at \in {"null", "ready", "leave"} :
        /\ stack # <<>> /\ Top.runs = "method" /\ Moved(at)
        /\ Top.at \in {"getting", "ready"} \/ ~exception
        /\ UNCHANGED <<phase, memory, active, exception, lock, unclean, held>>
  BY DEF NullAnswered, CallReturned, Return, Is
<1>2. Kept'  BY <1>1, MethodMoves
<1>3. Flags' /\ PhasesFit'
  <2>1. stack # <<>> => phase \notin {"idle", "shutdown"}  BY InvFlags DEF PhasesFit
  <2> QED  BY <1>1, <2>1, InvFlags DEF Flags, PhasesFit
<1>4. ASSUME ~ContainerThrows PROVE PendingFit'
  <2>1. ~exception
    <3>1. Top.at = "getting" => Getting  BY <1>1, GettingSplit, InvFlags
    <3> QED  BY <1>1, <1>4, <3>1, InvFlags DEF PendingFit
  <2>2. Len(stack') = depth /\ stack'[depth].runs = "method"
    BY <1>1, MovedStack, InvFlags DEF Moved, Places, SameTop
  <2>3. Top'.runs = "method"  BY <2>2 DEF Top, depth
  <2> QED  BY <1>1, <2>1, <2>3, NothingPending, InvFlags DEF Is, Flags
<1> QED  BY <1>2, <1>3, <1>4, AllKept

\* A method is left.
LEMMA LeaveInv ==
  ASSUME IInv, CallFailed \/ Leave
  PROVE  IInv'
<1>1. /\ stack # <<>> /\ Top.runs = "method" /\ Top.at \in {"calling", "leave"} /\ Left
      /\ UNCHANGED <<exception, unclean>>
  BY DEF CallFailed, Leave, Is
<1>2. Kept' /\ phase' = phase /\ Popped  BY <1>1, MethodReturn
<1>3. Flags' /\ PhasesFit'  BY <1>1, <1>2, InvFlags DEF Flags, PhasesFit
<1>4. ASSUME ~ContainerThrows PROVE PendingFit'
  <2>1. exception' => ~Getting  BY <1>1, <1>4, InvFlags DEF PendingFit
  <2> QED  BY <1>1, <1>2, <1>4, <2>1, PendingReturn, InvFlags
<1> QED  BY <1>2, <1>3, <1>4, AllKept

\* The exception is pending.
LEMMA ThrowInv ==
  ASSUME IInv, Throw
  PROVE  IInv'
<1>1. /\ stack # <<>> /\ Top.runs = "throw" /\ Is("throw", "code") /\ Popped /\ exception'
      /\ exception' \in BOOLEAN
      /\ UNCHANGED <<phase, memory, active, unclean, held>>
  BY DEF Throw, Is
<1>2. Kept'  BY <1>1, PlainReturn
<1>3. Flags' /\ PhasesFit'  BY <1>1, InvFlags DEF Flags, PhasesFit
<1>4. ASSUME ~ContainerThrows PROVE PendingFit'
  <2>1. ~Getting  BY <1>1, <1>4, InvFlags DEF PendingFit
  <2> QED  BY <1>1, <1>4, <2>1, PendingReturn, InvFlags
<1> QED  BY <1>2, <1>3, <1>4, AllKept

\* A request starts with no frame and nothing counted.
LEMMA StartRequestInv ==
  ASSUME IInv, StartRequest
  PROVE  IInv'
<1>1. /\ phase' = "running" /\ stack' = <<Script(FALSE)>> /\ active' = 0 /\ lock' = 0
      /\ unclean' = FALSE /\ held' = 0 /\ memory' = memory /\ exception' = exception
      /\ stack = <<>> /\ active = 0 /\ exception = FALSE
  BY InvFlags DEF StartRequest, PhasesFit, Flags
<1>2. NoneFit'
  BY <1>1 DEF NoneFit, IInv, FramesInv, FreeFramesEmpty, TypeOK
<1>3. NoneFit' => NoneRuns'  BY NoFrameFit, PTL
<1>4. ReferencesHeld' /\ LockEnough'
  <2>1. Counted' = {} /\ References' = {}  BY <1>2, <1>3 DEF NoneRuns
  <2>2. Cardinality(Counted') = 0 /\ Cardinality(References') = 0  BY <2>1, FS_EmptySet
  <2> QED  BY <1>1, <2>2 DEF ReferencesHeld, LockEnough
<1>5. Kept'
  <2>1. lock' \in Nat /\ held' \in Int  BY <1>1
  <2> QED  BY <1>2, <1>3, <1>4, <2>1 DEF NoneRuns, Kept, CountsInv
<1>6. Flags' /\ PhasesFit'  BY <1>1 DEF Flags, PhasesFit
<1>7. Top'.runs = "php"  BY <1>1, Starts DEF Top, depth
<1>8. PendingFit'  BY <1>1, <1>7, NothingPending DEF Is
<1> QED  BY <1>5, <1>6, <1>8, AllKept

\* The script is over.
LEMMA EndScriptInv ==
  ASSUME IInv, EndScript
  PROVE  IInv'
<1>1. /\ phase = "running" /\ stack = <<>> /\ phase' = "shutdown" /\ exception' = FALSE
      /\ unclean' = exception /\ UNCHANGED <<stack, memory, active, lock, held>>
      /\ unclean = FALSE
  BY InvFlags DEF EndScript, PhasesFit, Flags
<1>2. TypeOK /\ FramesInv /\ CountsInv /\ WaitingFit  BY DEF IInv, FramesInv, CallsInv
<1>3. FramesFit'
  <2>1. OwnFrames' /\ FreeFramesEmpty' /\ HeldObserved'
    BY <1>1, <1>2 DEF FramesInv, OwnFrames, Running, FreeFramesEmpty, HeldObserved
  <2>2. PICK base \in 0 .. active : LeftBelow(base) /\ LeftFew(base)
    BY <1>2 DEF FramesInv, LeftFit
  <2>3. LeftBelow(base)' /\ LeftFew(base)'
    BY <1>1, <2>2, BoundsAssumption DEF LeftBelow, LeftFew
  <2> QED  BY <1>1, <2>1, <2>2, <2>3 DEF FramesFit, LeftFit
<1>4. FramesType' /\ stack' \in Seq(Activation) /\ depth' <= MaxDepth
      /\ lock' \in Nat /\ held' \in Int
  BY <1>1, <1>2 DEF TypeOK, FramesType, depth
<1>5. VariablesFit' /\ WaitingFit'
  BY <1>1, <1>2 DEF VariablesFit, WaitingFit, CountsInv, depth
<1>6. ReferencesHeld' /\ LockEnough'
  BY <1>1, <1>2 DEF CountsInv, ReferencesHeld, References, LockEnough, Counted
<1>7. Kept'  BY <1>3, <1>4, <1>5, <1>6 DEF Kept, CountsInv
<1>8. Flags' /\ PhasesFit'  BY <1>1, InvFlags DEF Flags, PhasesFit
<1>9. PendingFit'  BY <1>1, NothingPending DEF Is
<1> QED  BY <1>7, <1>8, <1>9, AllKept

\* save() runs in the first frame above those left behind.
LEMMA SaveAtEndInv ==
  ASSUME IInv, SaveAtEnd
  PROVE  IInv'
<1>1. /\ phase = "shutdown" /\ stack = <<>> /\ phase' = "ended"
      /\ stack' = <<Method(FALSE)>> /\ Grown(1) /\ exception = FALSE
      /\ UNCHANGED <<exception, lock, unclean, held>>
  BY InvFlags DEF SaveAtEnd, PhasesFit, Flags
<1>2. TypeOK /\ FramesInv /\ CountsInv  BY DEF IInv, FramesInv
<1>3. depth = 0 /\ DOMAIN stack = {}  BY <1>1 DEF depth
<1>4. /\ stack' \in Seq(Activation) /\ depth' = 1 /\ DOMAIN stack' = 1 .. 1
      /\ stack'[1] = Method(FALSE)
  <2>1. stack' = Append(<<>>, Method(FALSE))  BY <1>1
  <2>2. stack' \in Seq(Activation)  BY <2>1, Starts, AppendProperties, EmptySeq
  <2>3. Len(stack') = 1 /\ stack'[1] = Method(FALSE) /\ DOMAIN stack' = 1 .. 1  BY <1>1
  <2> QED  BY <2>2, <2>3 DEF depth
<1>5. \A d \in DOMAIN stack' : d = 1  BY <1>4
<1>16. /\ stack'[1].runs = "method" /\ stack'[1].at = "fetched"
       /\ stack'[1].holds = {}
  BY <1>4, Starts
<1>17. stack'[1].counted = FALSE  BY <1>4, Starts
<1>18. 1 \in DOMAIN stack'  BY <1>4
<1>6. Running = {} /\ Running' = {1}
  <2>1. Running = {}  BY <1>3 DEF Running
  <2>2. Running' = {1}  BY <1>5, <1>16, <1>18 DEF Running
  <2> QED  BY <2>1, <2>2
<1>7. FramesFit' /\ FramesType'
  <2>1. depth < MaxDepth /\ Grown(depth + 1)  BY <1>1, <1>3, BoundsAssumption
  <2>2. Running' = Running \cup {depth + 1} /\ stack'[depth + 1].holds = {}
    BY <1>3, <1>6, <1>16
  <2> QED  BY <1>1, <1>2, <1>6, <2>1, <2>2, FramesGrow
<1>8. lock' \in Nat /\ LockEnough'
  <2>1. DOMAIN stack' = 1 .. depth + 1 /\ depth + 1 = 1  BY <1>3, <1>4
  <2>2. Count(stack'[1].counted) = 0  BY <1>17 DEF Count
  <2>3. lock' = lock + Count(stack'[depth + 1].counted)
    <3>1. Count(stack'[depth + 1].counted) = 0  BY <2>1, <2>2, Zenon
    <3> QED  BY <1>1, <1>2, <3>1 DEF TypeOK
  <2>4. stack'[depth + 1].counted \in BOOLEAN  BY <1>17, <2>1, Zenon
  <2> QED  BY <1>1, <1>2, <1>3, <2>1, <2>3, <2>4, LockPushed DEF CountsInv
<1>9. ReferencesHeld'
  <2>1. \A d \in DOMAIN stack' : stack'[d].holds = {}  BY <1>5, <1>16
  <2> QED  BY <1>1, <1>2, <1>3, <2>1, HeldStays DEF CountsInv
<1>10. VariablesFit' /\ WaitingFit'
  <2>1. VariablesFit'  BY <1>5, <1>16 DEF VariablesFit
  <2>2. depth' = 1  BY <1>4
  <2>3. WaitingFit'  BY <1>5, <1>16, <2>2 DEF WaitingFit
  <2> QED  BY <2>1, <2>3
<1>11. held' \in Int /\ depth' <= MaxDepth
  BY <1>1, <1>2, <1>4, BoundsAssumption DEF TypeOK
<1>12. Kept'  BY <1>4, <1>7, <1>8, <1>9, <1>10, <1>11 DEF Kept, CountsInv
<1>13. Flags' /\ PhasesFit'  BY <1>1, InvFlags DEF Flags, PhasesFit
<1>14. Top'.runs = "method"  BY <1>4, <1>16 DEF Top
<1>15. PendingFit'  BY <1>1, <1>14, NothingPending DEF Is
<1> QED  BY <1>12, <1>13, <1>15, AllKept

\* Every frame is restored.
LEMMA EndRequestInv ==
  ASSUME IInv, EndRequest
  PROVE  IInv'
<1>1. /\ stack = <<>> /\ phase' = "idle" /\ active' = 0 /\ exception' = FALSE
      /\ memory' = [f \in Frames |-> IF f <= active THEN NoFrame ELSE memory[f]]
      /\ UNCHANGED <<stack, lock, unclean, held>>
  BY DEF EndRequest
<1>2. TypeOK /\ FramesInv /\ CountsInv  BY DEF IInv, FramesInv
<1>3. NoneFit'
  <2>1. active \in Int /\ Frames \subseteq Int  BY <1>2, BoundsAssumption DEF TypeOK, Frames
  <2>2. \A f \in Frames : f <= active \/ memory[f] = NoFrame
    BY <1>2, <2>1 DEF FramesInv, FreeFramesEmpty
  <2>3. NoFrame \in [level : 0 .. MaxDepth, observed : SUBSET Variables]
    BY BoundsAssumption DEF NoFrame, Nobody
  <2>4. \A f \in Frames : memory'[f] = NoFrame  BY <1>1, <2>2
  <2>5. memory' \in [Frames -> [level : 0 .. MaxDepth, observed : SUBSET Variables]]
    BY <1>1, <2>3, <2>4
  <2> QED  BY <1>1, <2>4, <2>5 DEF NoneFit, FreeFramesEmpty
<1>4. NoneFit' => NoneRuns'  BY NoFrameFit, PTL
<1>5. ReferencesHeld' /\ LockEnough'
  BY <1>1, <1>2 DEF CountsInv, ReferencesHeld, References, LockEnough, Counted
<1>6. lock' \in Nat /\ held' \in Int  BY <1>1, <1>2 DEF TypeOK
<1>7. Kept'  BY <1>3, <1>4, <1>5, <1>6 DEF NoneRuns, Kept, CountsInv
<1>8. Flags' /\ PhasesFit'  BY <1>1, InvFlags DEF Flags, PhasesFit
<1>9. PendingFit'  BY <1>1, NothingPending DEF Is
<1> QED  BY <1>7, <1>8, <1>9, AllKept
-----------------------------------------------------------------------------
(* The theorems.                                                           *)

\* The invariant holds before the first request,
LEMMA InitInv ==
  ASSUME Init
  PROVE  IInv
<1>1. NoneFit
  <2>1. NoFrame \in [level : 0 .. MaxDepth, observed : SUBSET Variables]
    BY BoundsAssumption DEF NoFrame, Nobody
  <2> QED  BY <2>1 DEF Init, NoneFit, FreeFramesEmpty
<1>2. NoneRuns  BY <1>1, NoFrameFit
<1>3. TypeOK
  <2>1. /\ phase \in {"idle", "running", "shutdown", "ended", "dead"}
        /\ lock \in Nat /\ held \in Int
    BY DEF Init
  <2>2. exception \in BOOLEAN /\ unclean \in BOOLEAN  BY DEF Init
  <2> QED  BY <1>2, <2>1, <2>2 DEF NoneRuns, TypeOK, FramesType, depth
<1>4. PhasesFit /\ ReferencesHeld /\ LockEnough
  BY <1>2, FS_EmptySet DEF Init, NoneRuns, PhasesFit, ReferencesHeld, LockEnough
<1>5. PendingFit  BY DEF Init, PendingFit, Is
<1> QED  BY <1>2, <1>3, <1>4, <1>5 DEF NoneRuns, FramesFit, IInv, FramesInv, CountsInv, CallsInv

\* when nothing happens,
LEMMA StutterInv ==
  ASSUME IInv, UNCHANGED vars
  PROVE  IInv'
<1>1. (TypeOK /\ PhasesFit)'
  BY DEF vars, IInv, FramesInv, TypeOK, PhasesFit, depth
<1>2. (OwnFrames /\ FreeFramesEmpty /\ HeldObserved)'
  BY DEF vars, IInv, FramesInv, OwnFrames, Running, FreeFramesEmpty, HeldObserved
<1>3. LeftFit'  BY DEF vars, IInv, FramesInv, LeftFit, LeftBelow, LeftFew
<1>4. (VariablesFit /\ WaitingFit)'
  BY DEF vars, IInv, CountsInv, CallsInv, VariablesFit, WaitingFit, depth
<1>5. (ReferencesHeld /\ LockEnough)'
  BY DEF vars, IInv, CountsInv, ReferencesHeld, References, LockEnough, Counted
<1>6. ContainerThrows \/ PendingFit'
  BY DEF vars, IInv, CallsInv, PendingFit, Getting, Is, Top, depth
<1> QED  BY <1>1, <1>2, <1>3, <1>4, <1>5, <1>6 DEF IInv, FramesInv, CountsInv, CallsInv

\* and after every step.
LEMMA NextInv ==
  ASSUME IInv, Next
  PROVE  IInv'
<1>1. CASE StartRequest \/ EndScript \/ SaveAtEnd \/ EndRequest
  BY <1>1, StartRequestInv, EndScriptInv, SaveAtEndInv, EndRequestInv
<1>2. CASE ScriptStep
  BY <1>2, CallMethodInv, ExceptionInScriptInv, ReturnFromScriptInv, GiveUpInv DEF ScriptStep
<1>3. CASE MethodStep
  BY <1>3, CallThrowerInv, GivenInv, CallFromMethodInv, CallScriptInv, GiveUpInv, MovesInv,
     LeaveInv, ThrowInv
  DEF MethodStep
<1> QED  BY <1>1, <1>2, <1>3 DEF Next

\* What the invariant is for.
LEMMA InvGives ==
  ASSUME IInv
  PROVE  TypeOK /\ FramesMatch /\ CountsMatch /\ phase # "dead"
  BY DEF IInv, FramesInv, FramesMatch, CountsInv, CountsMatch, LockEnough, LockCounts, PhasesFit

\* Whatever methods and PHP code call, throw, catch and give up, every method
\* that runs has its own frame and no frame keeps what another method observed
\* (zephir_memory_grow_stack, zephir_memory_restore_stack and the checks of
\* fcall.h), for every depth and recursion limit.
THEOREM FramesAlwaysMatch == Spec => []FramesMatch
<1>1. Init => IInv  BY InitInv
<1>2. IInv /\ [Next]_vars => IInv'  BY NextInv, StutterInv
<1>3. IInv => FramesMatch  BY InvGives
<1> QED  BY <1>1, <1>2, <1>3, PTL DEF Spec

\* Every reference that a method took is given back once, and the calls in
\* progress are what recursive_lock counts, for every depth and limit.
THEOREM CountsAlwaysMatch == Spec => []CountsMatch
<1>1. Init => IInv  BY InitInv
<1>2. IInv /\ [Next]_vars => IInv'  BY NextInv, StutterInv
<1>3. IInv => CountsMatch  BY InvGives
<1> QED  BY <1>1, <1>2, <1>3, PTL DEF Spec

\* No method restores a frame where there is none (the process would die in
\* zephir_memory_restore_stack_common).
THEOREM NeverDead == Spec => [](TypeOK /\ phase # "dead")
<1>1. Init => IInv  BY InitInv
<1>2. IInv /\ [Next]_vars => IInv'  BY NextInv, StutterInv
<1>3. IInv => TypeOK /\ phase # "dead"  BY InvGives
<1> QED  BY <1>1, <1>2, <1>3, PTL DEF Spec

\* Where no __get throws, nothing is thrown over a pending exception: the
\* case of zephir_throw_exception that restores the frame of another method
\* does not arise, and the frames match without leaving it out.
THEOREM NothingThrownOver ==
  ASSUME ~ContainerThrows
  PROVE  ThrowingSpec => [](FramesMatch /\ ~(Is("throw", "code") /\ exception))
<1>1. Init => IInv  BY InitInv
<1>2. IInv => FramesMatch /\ ~(Is("throw", "code") /\ exception)
  BY InvGives DEF IInv, CallsInv, PendingFit
<1>3. IInv /\ [ThrowingNext]_vars => IInv'
  <2>1. ASSUME IInv, ThrowFails PROVE FALSE  BY <1>2, <2>1 DEF ThrowFails
  <2> QED  BY <2>1, NextInv, StutterInv DEF ThrowingNext
<1> QED  BY <1>1, <1>2, <1>3, PTL DEF ThrowingSpec
=============================================================================

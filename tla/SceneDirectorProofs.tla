------------------------- MODULE SceneDirectorProofs -------------------------
(***************************************************************************)
(* Proofs about SceneDirector for any set of scenes: the state is well     *)
(* formed, every live scene has exactly one owner, the running scene is    *)
(* never deleted memory, the pending swap follows the stack, and onActive  *)
(* and onDeactive are paired.                                              *)
(*                                                                         *)
(* The inductive invariant is built in three layers. Control says where    *)
(* the frame is and that there is a scene to pop whenever the game may     *)
(* pop; on it rest the ownership of the scenes and the pairing of the      *)
(* delegates.                                                              *)
(***************************************************************************)
EXTENDS SceneDirector, SequenceFacts

-----------------------------------------------------------------------------
(* Where the frame is. *)

SwapPosition ==
    /\ phase = "onDeactive" => next # NoScene
    /\ phase \in Swapping => itr >= 1
    /\ phase \notin Swapping \cup {"exited"} => itr = 0
    /\ phase = "onDestroy" => itr <= Len(toDestroy)

Control == TypeOK /\ SwapTracksTheStack /\ SwapPosition

\* Where a scene may be popped there is one: the running scene is on the stack or
\* a pending one is.
LEMMA StackIsNotEmpty ==
    ASSUME Control, MayChange
    PROVE  /\ stack # <<>>
           /\ Front(stack) \in Seq(Scenes)
           /\ Len(stack) \in Nat \ {0}
           /\ Len(Front(stack)) = Len(stack) - 1
           /\ \A i \in 1..(Len(stack) - 1) : Front(stack)[i] = stack[i]
           /\ Last(stack) = stack[Len(stack)]
           /\ Last(stack) \in Scenes
<1>1. stack # <<>>
  BY DEF Control, MayChange, SwapTracksTheStack, Callbacks
<1>2. stack \in Seq(Scenes)
  BY DEF Control, TypeOK
<1>q. QED
  BY <1>1, <1>2, FrontOfSeq

LEMMA ControlInit == Init => Control
<1> SUFFICES ASSUME Init PROVE Control
  OBVIOUS
<1> USE DEF Init
<1>1. stack \in Seq(Scenes) /\ toDestroy \in Seq(Scenes) /\ Len(toDestroy) = 0
  BY EmptySeq
<1>2. TypeOK
  <2>1. /\ itr \in 0..(Len(toDestroy) + 1)
        /\ life \in [Scenes -> {"fresh", "live", "deleted"}]
        /\ phase \in Phases
    BY <1>1 DEF Phases, Callbacks
  <2>2. current \in Scenes \cup {NoScene} /\ next \in Scenes \cup {NoScene}
    OBVIOUS
  <2>3. paused \in BOOLEAN /\ invalid \in BOOLEAN /\ active \in SUBSET Scenes
    OBVIOUS
  <2>q. QED
    BY <1>1, <2>1, <2>2, <2>3 DEF TypeOK
<1>3. SwapTracksTheStack /\ SwapPosition
  BY <1>1 DEF SwapTracksTheStack, SwapPosition, Swapping
<1>q. QED
  BY <1>2, <1>3 DEF Control

LEMMA ControlPush ==
    ASSUME Control, NEW s \in Scenes, PushSceneManager(s)
    PROVE  Control'
<1> USE DEF Control, PushSceneManager, frameVars
<1>1. /\ stack' \in Seq(Scenes)
      /\ stack' # <<>>
      /\ Last(stack') = s
  BY AppendToSeq DEF TypeOK
<1>2. TypeOK'
  BY <1>1 DEF TypeOK
<1>3. SwapTracksTheStack'
  BY <1>1, NoSceneAssumption DEF SwapTracksTheStack, Swapping
<1>4. SwapPosition'
  BY NoSceneAssumption DEF SwapPosition, Swapping, Callbacks
<1>q. QED
  BY <1>2, <1>3, <1>4

LEMMA ControlReplace ==
    ASSUME Control, NEW s \in Scenes, ReplaceSceneManager(s)
    PROVE  Control'
<1> USE DEF ReplaceSceneManager, frameVars
<1>1. /\ Front(stack) \in Seq(Scenes)
      /\ Last(stack) \in Scenes
  BY StackIsNotEmpty
<1>2. /\ stack' \in Seq(Scenes)
      /\ stack' # <<>>
      /\ Last(stack') = s
  BY <1>1, AppendToSeq
<1>3. /\ toDestroy' \in Seq(Scenes)
      /\ Len(toDestroy) \in Nat
      /\ Len(toDestroy') = Len(toDestroy) + 1
  BY <1>1, AppendToSeq DEF Control, TypeOK
<1>4. TypeOK'
  BY <1>2, <1>3 DEF TypeOK, Control
<1>5. SwapTracksTheStack'
  BY <1>2, NoSceneAssumption DEF SwapTracksTheStack, Swapping
<1>6. SwapPosition'
  BY <1>3, NoSceneAssumption DEF SwapPosition, Swapping, Callbacks, Control, MayChange
<1>q. QED
  BY <1>4, <1>5, <1>6 DEF Control

LEMMA ControlPop ==
    ASSUME Control, PopSceneManager
    PROVE  Control'
<1> USE DEF PopSceneManager
<1>1. /\ stack' \in Seq(Scenes)
      /\ stack' # <<>>
      /\ Last(stack) \in Scenes
  BY StackIsNotEmpty, EmptySeq
<1>2. Last(stack') \in Scenes
  BY <1>1, FrontOfSeq
<1>3. /\ toDestroy' \in Seq(Scenes)
      /\ Len(toDestroy) \in Nat
      /\ Len(toDestroy') = Len(toDestroy) + 1
  BY <1>1, AppendToSeq DEF Control, TypeOK
<1>4. TypeOK'
  BY <1>1, <1>2, <1>3 DEF TypeOK, Control, frameVars
<1>5. SwapTracksTheStack'
  BY <1>1, <1>2, NoSceneAssumption DEF SwapTracksTheStack, Swapping, frameVars
<1>6. SwapPosition'
  BY <1>2, <1>3, NoSceneAssumption
     DEF SwapPosition, Swapping, Control, MayChange, Callbacks, frameVars
<1>q. QED
  BY <1>4, <1>5, <1>6 DEF Control

LEMMA ControlPopAndReplace ==
    ASSUME Control, NEW s \in Scenes, PopAndReplaceSceneManager(s)
    PROVE  Control'
<1> USE DEF PopAndReplaceSceneManager
<1>1. /\ Front(stack) \in Seq(Scenes)
      /\ Front(stack) # <<>>
      /\ Last(stack) \in Scenes
  BY StackIsNotEmpty, EmptySeq
<1>2. Front(Front(stack)) \in Seq(Scenes)
  BY <1>1, FrontOfSeq
<1>3. /\ stack' \in Seq(Scenes)
      /\ stack' # <<>>
      /\ Last(stack') = s
  BY <1>2, AppendToSeq
<1>4. /\ toDestroy' \in Seq(Scenes)
      /\ Len(toDestroy) \in Nat
      /\ Len(toDestroy') = Len(toDestroy) + 1
  BY <1>1, AppendToSeq DEF Control, TypeOK
<1>5. TypeOK'
  <2>1. life' \in [Scenes -> {"fresh", "live", "deleted"}]
    BY DEF TypeOK, Control
  <2>2. active' \in SUBSET Scenes
    BY DEF TypeOK, Control
  <2>3. UNCHANGED <<itr, current, phase, paused, invalid>> /\ next' = s
    OBVIOUS
  <2> HIDE DEF PopAndReplaceSceneManager
  <2>q. QED
    BY <1>3, <1>4, <2>1, <2>2, <2>3 DEF TypeOK, Control
<1>6. SwapTracksTheStack'
  BY <1>3, NoSceneAssumption DEF SwapTracksTheStack, Swapping
<1>7. SwapPosition'
  BY <1>4, NoSceneAssumption DEF SwapPosition, Swapping, Callbacks, Control, MayChange
<1>q. QED
  BY <1>5, <1>6, <1>7 DEF Control

LEMMA ControlPopLast ==
    ASSUME Control, PopLastScene
    PROVE  Control'
<1> USE DEF PopLastScene
<1>1. /\ Append(toDestroy, Last(stack)) \in Seq(Scenes)
      /\ Len(toDestroy) \in Nat
      /\ Len(Append(toDestroy, Last(stack))) = Len(toDestroy) + 1
  BY StackIsNotEmpty, AppendToSeq DEF Control, TypeOK
<1>2. stack' \in Seq(Scenes)
  BY EmptySeq
<1>3. TypeOK'
  <2>0. /\ toDestroy \in Seq(Scenes) /\ itr \in 0..(Len(toDestroy) + 1)
        /\ toDestroy' \in {toDestroy, Append(toDestroy, Last(stack))} /\ itr' = itr
    BY DEF TypeOK, Control
  <2>1. toDestroy' \in Seq(Scenes) /\ itr' \in 0..(Len(toDestroy') + 1)
    <3> HIDE DEF PopLastScene
    <3>1. CASE toDestroy' = toDestroy
      BY <2>0, <3>1
    <3>2. CASE toDestroy' = Append(toDestroy, Last(stack))
      BY <1>1, <2>0, <3>2
    <3>q. QED
      BY <2>0, <3>1, <3>2
  <2>2. UNCHANGED <<next, life, current, active, paused, invalid>> /\ phase' \in Phases
    BY DEF Phases
  <2> HIDE DEF PopLastScene
  <2>q. QED
    BY <1>2, <2>1, <2>2 DEF TypeOK, Control
<1>4. SwapTracksTheStack' /\ SwapPosition'
  BY DEF SwapTracksTheStack, SwapPosition, Swapping
<1>q. QED
  BY <1>3, <1>4 DEF Control

\* The frame keeps the stack; it only moves phase, itr and the pointers.
LEMMA ControlFrame ==
    ASSUME Control, Frame
    PROVE  Control'
<1> USE DEF Control, TypeOK, Phases, Callbacks, Swapping, SwapTracksTheStack,
            SwapPosition, sceneVars
<1>0. Len(toDestroy) \in Nat
  OBVIOUS
<1>1. CASE BeginFrame
  BY <1>0, <1>1 DEF BeginFrame, AfterSwap
<1>2. CASE EndDeactive
  BY <1>0, <1>2 DEF EndDeactive
<1>3. CASE BeginDestroy
  BY <1>0, <1>3 DEF BeginDestroy
<1>4. CASE EndDestroy
  BY <1>0, <1>4 DEF EndDestroy
<1>5. CASE ActivateNext
  <2>1. toDestroy' \in Seq(Scenes) /\ Len(toDestroy') = 0
    BY <1>5, EmptySeq DEF ActivateNext
  <2>q. QED
    BY <1>0, <1>5, <2>1 DEF ActivateNext
<1>6. CASE EndActive
  BY <1>0, <1>6 DEF EndActive, AfterSwap
<1>7. CASE EndUpdate
  BY <1>0, <1>7 DEF EndUpdate
<1>8. CASE EndDraw
  BY <1>0, <1>8 DEF EndDraw
<1>q. QED
  BY <1>1, <1>2, <1>3, <1>4, <1>5, <1>6, <1>7, <1>8 DEF Frame

LEMMA ControlSwitches ==
    ASSUME Control, Pause \/ Resume \/ StopAnimation \/ StartAnimation
    PROVE  Control'
<1> USE DEF Control, TypeOK, SwapTracksTheStack, SwapPosition, sceneVars
<1>1. CASE Pause \/ Resume
  BY <1>1 DEF Pause, Resume
<1>2. CASE StopAnimation \/ StartAnimation
  BY <1>2 DEF StopAnimation, StartAnimation
<1>q. QED
  BY <1>1, <1>2

LEMMA ControlStutter ==
    ASSUME Control, UNCHANGED vars
    PROVE  Control'
  BY DEF Control, TypeOK, SwapTracksTheStack, SwapPosition, vars

LEMMA ControlNext == Control /\ [Next]_vars => Control'
  BY ControlPush, ControlReplace, ControlPop, ControlPopAndReplace, ControlPopLast,
     ControlFrame, ControlSwitches, ControlStutter DEF Next, Game, Exited

LEMMA ControlAlways == Spec => []Control
  BY ControlInit, ControlNext, PTL DEF Spec

\* The state stays well formed, whatever the game and the frame do. TypeOK is not
\* inductive by itself: that replace and pop find a scene to pop needs Control.
THEOREM TypeCorrect == Spec => []TypeOK
  BY ControlAlways, PTL DEF Control

\* The pending scene is the top of the stack, and so is the running scene when no
\* swap is pending; no scene waits for its destruction without a swap to come.
THEOREM SwapTracks == Spec => []SwapTracksTheStack
  BY ControlAlways, PTL DEF Control
-----------------------------------------------------------------------------
(* Ownership: every live scene is on the stack once, or waits once. *)

Owner == Control /\ OwnedOnce /\ RunningSceneIsLive

LEMMA OwnerInit == Init => Owner
<1> SUFFICES ASSUME Init PROVE Owner
  OBVIOUS
<1>1. Len(stack) = 0 /\ Len(toDestroy) = 0
  BY EmptySeq DEF Init
<1>q. QED
  BY <1>1, ControlInit DEF Owner, OwnedOnce, RunningSceneIsLive, Doomed, Init

LEMMA OwnerPush ==
    ASSUME Owner, NEW s \in Scenes, PushSceneManager(s)
    PROVE  Owner'
<1> USE DEF Owner, PushSceneManager, frameVars
<1>1. /\ Len(stack) \in Nat
      /\ Len(stack') = Len(stack) + 1
      /\ \A i \in 1..Len(stack) : stack'[i] = stack[i]
      /\ stack'[Len(stack) + 1] = s
  BY AppendToSeq DEF Control, TypeOK
<1>2. Doomed' = Doomed
  BY DEF Doomed
<1>3. /\ \A i \in 1..Len(stack) : stack[i] # s
      /\ \A j \in Doomed : toDestroy[j] # s
  BY DEF OwnedOnce, Callbacks
<1>4. OwnedOnce'
  <2>0. /\ \A i, j \in 1..Len(stack) : stack[i] = stack[j] => i = j
        /\ \A i, j \in Doomed : toDestroy[i] = toDestroy[j] => i = j
        /\ \A i \in 1..Len(stack), j \in Doomed : stack[i] # toDestroy[j]
        /\ \A t \in Scenes :
              life[t] = "live" <=> \/ \E i \in 1..Len(stack) : stack[i] = t
                                   \/ \E j \in Doomed : toDestroy[j] = t
    BY DEF OwnedOnce, MayChange, Callbacks
  <2>1. \A i, j \in 1..Len(stack') : stack'[i] = stack'[j] => i = j
    BY <2>0, <1>1, <1>2, <1>3
  <2>2. \A i, j \in Doomed' : toDestroy'[i] = toDestroy'[j] => i = j
    BY <2>0, <1>1, <1>2, <1>3
  <2>3. \A i \in 1..Len(stack'), j \in Doomed' : stack'[i] # toDestroy'[j]
    BY <2>0, <1>1, <1>2, <1>3
  <2>4. ASSUME NEW t \in Scenes
        PROVE  life'[t] = "live" <=> \/ \E i \in 1..Len(stack') : stack'[i] = t
                                     \/ \E j \in Doomed' : toDestroy'[j] = t
    BY <2>0, <1>1, <1>2, <1>3 DEF Control, TypeOK
  <2>q. QED
    BY <2>1, <2>2, <2>3, <2>4 DEF OwnedOnce
<1>5. RunningSceneIsLive'
  BY DEF RunningSceneIsLive, Swapping, Control, TypeOK
<1>q. QED
  BY <1>4, <1>5, ControlPush

\* What replace, pop and popAndReplace do to mSceneToDestroy: the scene that was on
\* top waits behind the others.
LEMMA TopIsDoomed ==
    ASSUME Control, MayChange, toDestroy' = Append(toDestroy, Last(stack)), itr' = itr
    PROVE  /\ Len(toDestroy) \in Nat
           /\ Doomed' = Doomed \cup {Len(toDestroy) + 1}
           /\ \A j \in Doomed : j \in 1..Len(toDestroy) /\ toDestroy'[j] = toDestroy[j]
           /\ toDestroy'[Len(toDestroy) + 1] = stack[Len(stack)]
<1>1. /\ Len(toDestroy) \in Nat
      /\ Len(toDestroy') = Len(toDestroy) + 1
      /\ \A i \in 1..Len(toDestroy) : toDestroy'[i] = toDestroy[i]
      /\ toDestroy'[Len(toDestroy) + 1] = stack[Len(stack)]
  BY StackIsNotEmpty, AppendToSeq DEF Control, TypeOK
<1>q. QED
  BY <1>1 DEF Doomed, Control, TypeOK

LEMMA OwnerReplace ==
    ASSUME Owner, NEW s \in Scenes, ReplaceSceneManager(s)
    PROVE  Owner'
<1> USE DEF Owner, ReplaceSceneManager, frameVars
<1>1. /\ Front(stack) \in Seq(Scenes)
      /\ Len(stack) \in Nat \ {0}
      /\ Len(Front(stack)) = Len(stack) - 1
      /\ \A i \in 1..(Len(stack) - 1) : Front(stack)[i] = stack[i]
  BY StackIsNotEmpty
<1>2. /\ Len(stack') = Len(stack)
      /\ \A i \in 1..(Len(stack) - 1) : stack'[i] = stack[i]
      /\ stack'[Len(stack)] = s
  BY <1>1, AppendToSeq
<1>3. /\ Len(toDestroy) \in Nat
      /\ Doomed' = Doomed \cup {Len(toDestroy) + 1}
      /\ \A j \in Doomed : j \in 1..Len(toDestroy) /\ toDestroy'[j] = toDestroy[j]
      /\ toDestroy'[Len(toDestroy) + 1] = stack[Len(stack)]
  BY TopIsDoomed
<1>4. /\ \A i \in 1..Len(stack) : stack[i] # s
      /\ \A j \in Doomed : toDestroy[j] # s
  BY DEF OwnedOnce, MayChange, Callbacks
<1>5. OwnedOnce'
  <2>0. /\ \A i, j \in 1..Len(stack) : stack[i] = stack[j] => i = j
        /\ \A i, j \in Doomed : toDestroy[i] = toDestroy[j] => i = j
        /\ \A i \in 1..Len(stack), j \in Doomed : stack[i] # toDestroy[j]
        /\ \A t \in Scenes :
              life[t] = "live" <=> \/ \E i \in 1..Len(stack) : stack[i] = t
                                   \/ \E j \in Doomed : toDestroy[j] = t
    BY DEF OwnedOnce, MayChange, Callbacks
  <2>1. \A i, j \in 1..Len(stack') : stack'[i] = stack'[j] => i = j
    BY <2>0, <1>1, <1>2, <1>3, <1>4
  <2>2. \A i, j \in Doomed' : toDestroy'[i] = toDestroy'[j] => i = j
    BY <2>0, <1>1, <1>2, <1>3, <1>4
  <2>3. \A i \in 1..Len(stack'), j \in Doomed' : stack'[i] # toDestroy'[j]
    BY <2>0, <1>1, <1>2, <1>3, <1>4
  <2>4. ASSUME NEW t \in Scenes
        PROVE  life'[t] = "live" <=> \/ \E i \in 1..Len(stack') : stack'[i] = t
                                     \/ \E j \in Doomed' : toDestroy'[j] = t
    <3>1. life'[s] = "live" /\ (t # s => life'[t] = life[t])
      BY DEF Control, TypeOK
    <3>2. CASE t = s
      BY <1>1, <1>2, <3>1, <3>2
    <3>3. CASE t = stack[Len(stack)]
      BY <2>0, <1>1, <1>3, <1>4, <3>1, <3>3
    <3>4. CASE t # s /\ t # stack[Len(stack)]
      <4>1. (\E i \in 1..Len(stack') : stack'[i] = t) <=> (\E i \in 1..Len(stack) : stack[i] = t)
        <5> HIDE DEF ReplaceSceneManager
        <5>q. QED
          BY <1>1, <1>2, <3>4
      <4>2. (\E j \in Doomed' : toDestroy'[j] = t) <=> (\E j \in Doomed : toDestroy[j] = t)
        BY <1>3, <3>4
      <4>q. QED
        BY <2>0, <3>1, <3>4, <4>1, <4>2
    <3>q. QED
      BY <3>2, <3>3, <3>4
  <2>q. QED
    BY <2>1, <2>2, <2>3, <2>4 DEF OwnedOnce
<1>6. RunningSceneIsLive'
  BY DEF RunningSceneIsLive, Swapping, Control, TypeOK
<1>q. QED
  BY <1>5, <1>6, ControlReplace

LEMMA OwnerPop ==
    ASSUME Owner, PopSceneManager
    PROVE  Owner'
<1> USE DEF Owner, PopSceneManager, frameVars
<1>1. /\ Len(stack) \in Nat \ {0}
      /\ Len(stack') = Len(stack) - 1
      /\ \A i \in 1..(Len(stack) - 1) : stack'[i] = stack[i]
  BY StackIsNotEmpty
<1>2. /\ Len(toDestroy) \in Nat
      /\ Doomed' = Doomed \cup {Len(toDestroy) + 1}
      /\ \A j \in Doomed : j \in 1..Len(toDestroy) /\ toDestroy'[j] = toDestroy[j]
      /\ toDestroy'[Len(toDestroy) + 1] = stack[Len(stack)]
  BY TopIsDoomed
<1>3. OwnedOnce'
  <2>0. /\ \A i, j \in 1..Len(stack) : stack[i] = stack[j] => i = j
        /\ \A i, j \in Doomed : toDestroy[i] = toDestroy[j] => i = j
        /\ \A i \in 1..Len(stack), j \in Doomed : stack[i] # toDestroy[j]
        /\ \A t \in Scenes :
              life[t] = "live" <=> \/ \E i \in 1..Len(stack) : stack[i] = t
                                   \/ \E j \in Doomed : toDestroy[j] = t
    BY DEF OwnedOnce, MayChange, Callbacks
  <2>1. \A i, j \in 1..Len(stack') : stack'[i] = stack'[j] => i = j
    BY <2>0, <1>1, <1>2
  <2>2. \A i, j \in Doomed' : toDestroy'[i] = toDestroy'[j] => i = j
    BY <2>0, <1>1, <1>2
  <2>3. \A i \in 1..Len(stack'), j \in Doomed' : stack'[i] # toDestroy'[j]
    BY <2>0, <1>1, <1>2
  <2>4. ASSUME NEW t \in Scenes
        PROVE  life'[t] = "live" <=> \/ \E i \in 1..Len(stack') : stack'[i] = t
                                     \/ \E j \in Doomed' : toDestroy'[j] = t
    <3>1. CASE t = stack[Len(stack)]
      BY <2>0, <1>1, <1>2, <3>1
    <3>2. CASE t # stack[Len(stack)]
      <4>1. (\E i \in 1..Len(stack') : stack'[i] = t) <=> (\E i \in 1..Len(stack) : stack[i] = t)
        BY <1>1, <3>2
      <4>2. (\E j \in Doomed' : toDestroy'[j] = t) <=> (\E j \in Doomed : toDestroy[j] = t)
        BY <1>2, <3>2
      <4>q. QED
        BY <2>0, <4>1, <4>2
    <3>q. QED
      BY <3>1, <3>2
  <2>q. QED
    BY <2>1, <2>2, <2>3, <2>4 DEF OwnedOnce
<1>4. RunningSceneIsLive'
  BY DEF RunningSceneIsLive
<1>q. QED
  BY <1>3, <1>4, ControlPop

\* The scene under the top is deleted in place, it is not the running one: with no
\* swap pending that is the top.
LEMMA OwnerPopAndReplace ==
    ASSUME Owner, NEW s \in Scenes, PopAndReplaceSceneManager(s)
    PROVE  Owner'
<1> USE DEF Owner, PopAndReplaceSceneManager
<1>1. /\ Front(stack) \in Seq(Scenes)
      /\ Len(stack) \in Nat \ {0}
      /\ Len(Front(stack)) = Len(stack) - 1
      /\ \A i \in 1..(Len(stack) - 1) : Front(stack)[i] = stack[i]
      /\ Last(stack) = stack[Len(stack)]
  BY StackIsNotEmpty
<1>2. Front(stack) # <<>>
  BY <1>1, EmptySeq
<1>3. /\ Front(Front(stack)) \in Seq(Scenes)
      /\ Len(Front(Front(stack))) = Len(stack) - 2
      /\ \A i \in 1..(Len(stack) - 2) : Front(Front(stack))[i] = stack[i]
      /\ Second = stack[Len(stack) - 1]
      /\ Second \in Scenes
      /\ Len(stack) - 1 \in 1..Len(stack)
  <2> DEFINE front == Front(stack)
  <2>1. /\ Front(front) \in Seq(Scenes)
        /\ Len(front) \in Nat \ {0}
        /\ Len(Front(front)) = Len(front) - 1
        /\ \A i \in 1..(Len(front) - 1) : Front(front)[i] = front[i]
        /\ Last(front) = front[Len(front)]
        /\ Last(front) \in Scenes
    BY <1>1, <1>2, FrontOfSeq
  <2>2. Second = front[Len(stack) - 1]
    BY <1>1, <2>1 DEF Second
  <2>3. Len(stack) - 1 \in 1..Len(stack) /\ Len(stack) - 1 \in 1..(Len(stack) - 1)
    BY <1>1
  <2>4. Second = stack[Len(stack) - 1]
    BY <1>1, <2>2, <2>3
  <2>5. \A i \in 1..(Len(stack) - 2) : i \in 1..(Len(front) - 1) /\ i \in 1..(Len(stack) - 1)
    BY <1>1
  <2>6. \A i \in 1..(Len(stack) - 2) : Front(front)[i] = stack[i]
    BY <1>1, <2>1, <2>5
  <2>7. Len(Front(front)) = Len(stack) - 2 /\ Second \in Scenes
    BY <1>1, <2>1 DEF Second
  <2>q. QED
    BY <2>1, <2>3, <2>4, <2>6, <2>7
<1>4. /\ Len(stack') = Len(stack) - 1
      /\ \A i \in 1..(Len(stack) - 2) : stack'[i] = stack[i]
      /\ stack'[Len(stack) - 1] = s
  BY <1>1, <1>3, AppendToSeq
<1>5. /\ Len(toDestroy) \in Nat
      /\ Doomed' = Doomed \cup {Len(toDestroy) + 1}
      /\ \A j \in Doomed : j \in 1..Len(toDestroy) /\ toDestroy'[j] = toDestroy[j]
      /\ toDestroy'[Len(toDestroy) + 1] = stack[Len(stack)]
  BY TopIsDoomed
<1>6. /\ \A i, j \in 1..Len(stack) : stack[i] = stack[j] => i = j
      /\ \A i, j \in Doomed : toDestroy[i] = toDestroy[j] => i = j
      /\ \A i \in 1..Len(stack), j \in Doomed : stack[i] # toDestroy[j]
      /\ \A t \in Scenes :
            life[t] = "live" <=> \/ \E i \in 1..Len(stack) : stack[i] = t
                                 \/ \E j \in Doomed : toDestroy[j] = t
  BY DEF OwnedOnce, MayChange, Callbacks
<1>7. /\ \A i \in 1..Len(stack) : stack[i] # s
      /\ \A j \in Doomed : toDestroy[j] # s
  BY <1>6
<1>8. /\ Second # s
      /\ life'[s] = "live"
      /\ life'[Second] = "deleted"
      /\ \A t \in Scenes \ {s, Second} : life'[t] = life[t]
  <2>1. Second # s
    BY <1>1, <1>3, <1>7
  <2>q. QED
    BY <1>3, <2>1 DEF Control, TypeOK
<1>9. OwnedOnce'
  <2>1. \A i, j \in 1..Len(stack') : stack'[i] = stack'[j] => i = j
    <3> HIDE DEF Owner, PopAndReplaceSceneManager
    <3>0. \A p, q \in 1..Len(stack) : stack[p] = stack[q] => p = q
      BY <1>6
    <3>1. ASSUME NEW i \in 1..Len(stack')
          PROVE  \/ i \in 1..Len(stack) /\ stack'[i] = stack[i]
                 \/ i = Len(stack) - 1 /\ stack'[i] = s
      <4>1. i \in 1..(Len(stack) - 1)
        BY <1>4
      <4>2. CASE i = Len(stack) - 1
        BY <1>4, <4>2
      <4>3. CASE i # Len(stack) - 1
        <5>1. i \in 1..(Len(stack) - 2) /\ i \in 1..Len(stack)
          BY <1>1, <4>1, <4>3
        <5>q. QED
          BY <1>4, <5>1
      <4>q. QED
        BY <4>2, <4>3
    <3> SUFFICES ASSUME NEW i \in 1..Len(stack'), NEW j \in 1..Len(stack'),
                        stack'[i] = stack'[j]
                 PROVE  i = j
      OBVIOUS
    <3>2. CASE i \in 1..Len(stack) /\ stack'[i] = stack[i]
      <4>1. stack'[j] # s
        BY <1>7, <3>2
      <4>2. j \in 1..Len(stack) /\ stack'[j] = stack[j]
        BY <3>1, <4>1
      <4>q. QED
        BY <3>0, <3>2, <4>2
    <3>3. CASE i = Len(stack) - 1 /\ stack'[i] = s
      <4>1. ~(j \in 1..Len(stack) /\ stack'[j] = stack[j])
        BY <1>7, <3>3
      <4>2. j = Len(stack) - 1
        BY <3>1, <4>1
      <4>q. QED
        BY <3>3, <4>2
    <3>q. QED
      BY <3>1, <3>2, <3>3
  <2>2. \A i, j \in Doomed' : toDestroy'[i] = toDestroy'[j] => i = j
    BY <1>1, <1>5, <1>6
  <2>3. \A i \in 1..Len(stack'), j \in Doomed' : stack'[i] # toDestroy'[j]
    BY <1>1, <1>4, <1>5, <1>6, <1>7
  <2>4. ASSUME NEW t \in Scenes
        PROVE  life'[t] = "live" <=> \/ \E i \in 1..Len(stack') : stack'[i] = t
                                     \/ \E j \in Doomed' : toDestroy'[j] = t
    <3> HIDE DEF PopAndReplaceSceneManager
    <3>1. CASE t = s
      BY <1>1, <1>3, <1>4, <1>8, <3>1
    <3>2. CASE t = stack[Len(stack)]
      <4>1. t # s /\ t # Second
        BY <1>1, <1>3, <1>6, <1>7, <3>2
      <4>2. life[t] = "live"
        BY <1>1, <1>6, <3>2
      <4>q. QED
        BY <1>5, <1>8, <3>2, <4>1, <4>2
    <3>3. CASE t = Second
      BY <1>1, <1>3, <1>4, <1>5, <1>6, <1>8, <3>3
    <3>4. CASE t \notin {s, Second, stack[Len(stack)]}
      <4>1. (\E i \in 1..Len(stack') : stack'[i] = t) <=> (\E i \in 1..Len(stack) : stack[i] = t)
        <5>1. \A i \in 1..Len(stack') : stack'[i] = t => i \in 1..(Len(stack) - 2)
          BY <1>1, <1>3, <1>4, <3>4
        <5>2. \A i \in 1..Len(stack) : stack[i] = t => i \in 1..(Len(stack) - 2)
          BY <1>1, <1>3, <3>4
        <5>3. \A i \in 1..(Len(stack) - 2) : i \in 1..Len(stack) /\ i \in 1..Len(stack')
          BY <1>1, <1>3, <1>4
        <5>q. QED
          BY <1>4, <5>1, <5>2, <5>3
      <4>2. (\E j \in Doomed' : toDestroy'[j] = t) <=> (\E j \in Doomed : toDestroy[j] = t)
        BY <1>5, <3>4
      <4>q. QED
        BY <1>6, <1>8, <3>4, <4>1, <4>2
    <3>q. QED
      BY <3>1, <3>2, <3>3, <3>4
  <2>q. QED
    BY <2>1, <2>2, <2>3, <2>4 DEF OwnedOnce
<1>10. RunningSceneIsLive'
  <2>1. current = stack[Len(stack)] /\ life[current] = "live" /\ current \in Scenes
    BY <1>1, <1>6, SMTT(30) DEF MayChange, Callbacks, Control, TypeOK, SwapTracksTheStack
  <2>2. current # s /\ current # Second
    BY <1>1, <1>3, <1>6, <1>7, <2>1
  <2>q. QED
    BY <1>8, <2>1, <2>2 DEF RunningSceneIsLive
<1>q. QED
  BY <1>9, <1>10, ControlPopAndReplace

LEMMA OwnerPopLast ==
    ASSUME Owner, PopLastScene
    PROVE  Owner'
  BY ControlPopLast DEF Owner, PopLastScene, OwnedOnce, RunningSceneIsLive

\* The frame: a scene leaves mSceneToDestroy as it is deleted, and the pending
\* scene becomes the running one only when it is the live top of the stack.
LEMMA OwnerFrame ==
    ASSUME Owner, Frame
    PROVE  Owner'
<1> USE DEF Owner, Swapping, sceneVars
<1>0. Len(toDestroy) \in Nat /\ Control'
  BY ControlFrame DEF Control, TypeOK
<1>1. CASE BeginFrame \/ EndDeactive
  <2>1. Doomed' = Doomed
    BY <1>0, <1>1 DEF Doomed, BeginFrame, EndDeactive, Control, SwapPosition
  <2>2. OwnedOnce'
    BY <1>1, <2>1 DEF BeginFrame, EndDeactive, OwnedOnce
  <2>3. RunningSceneIsLive'
    BY <1>1 DEF BeginFrame, EndDeactive, RunningSceneIsLive, Callbacks
  <2>q. QED
    BY <1>0, <2>2, <2>3
<1>2. CASE BeginDestroy
  BY <1>0, <1>2 DEF BeginDestroy, OwnedOnce, RunningSceneIsLive, Doomed
<1>3. CASE EndDestroy
  <2>1. /\ itr \in Doomed
        /\ Doomed' = Doomed \ {itr}
        /\ toDestroy[itr] \in Scenes
    BY <1>0, <1>3 DEF EndDestroy, Doomed, Control, TypeOK, SwapPosition
  <2>2. life'[toDestroy[itr]] = "deleted"
        /\ \A t \in Scenes \ {toDestroy[itr]} : life'[t] = life[t]
    BY <1>3, <2>1 DEF EndDestroy, Control, TypeOK
  <2>3. OwnedOnce'
    BY <1>3, <2>1, <2>2 DEF EndDestroy, OwnedOnce
  <2>q. QED
    BY <1>0, <1>3, <2>3 DEF EndDestroy, RunningSceneIsLive
<1>4. CASE ActivateNext
  <2>1. Doomed = {} /\ Doomed' = {}
    BY <1>0, <1>4, EmptySeq DEF ActivateNext, Doomed, Control, TypeOK
  <2>2. OwnedOnce'
    BY <1>4, <2>1 DEF ActivateNext, OwnedOnce
  <2>3. stack # <<>> /\ current' = Last(stack)
    BY <1>4 DEF ActivateNext, Control, SwapTracksTheStack
  <2>4. /\ Len(stack) \in Nat \ {0}
        /\ current' = stack[Len(stack)]
        /\ current' \in Scenes
    BY <2>3, FrontOfSeq DEF Control, TypeOK
  <2>5. life'[current'] = "live"
    BY <1>4, <2>4 DEF ActivateNext, OwnedOnce
  <2>q. QED
    BY <1>0, <2>2, <2>5 DEF RunningSceneIsLive
<1>5. CASE EndActive \/ EndUpdate \/ EndDraw
  BY <1>0, <1>5
     DEF EndActive, EndUpdate, EndDraw, AfterSwap, OwnedOnce, RunningSceneIsLive, Doomed
<1>q. QED
  BY <1>1, <1>2, <1>3, <1>4, <1>5 DEF Frame

LEMMA OwnerSwitches ==
    ASSUME Owner, Pause \/ Resume \/ StopAnimation \/ StartAnimation \/ UNCHANGED vars
    PROVE  Owner'
<1> USE DEF Owner, OwnedOnce, RunningSceneIsLive, Doomed, sceneVars
<1>1. CASE Pause \/ Resume
  <2>1. Control'
    BY <1>1, ControlSwitches
  <2>q. QED
    BY <1>1, <2>1 DEF Pause, Resume
<1>2. CASE StopAnimation \/ StartAnimation
  <2>1. Control'
    BY <1>2, ControlSwitches
  <2>q. QED
    BY <1>2, <2>1 DEF StopAnimation, StartAnimation
<1>3. CASE UNCHANGED vars
  BY <1>3, ControlStutter DEF vars
<1>q. QED
  BY <1>1, <1>2, <1>3

LEMMA OwnerNext == Owner /\ [Next]_vars => Owner'
  BY OwnerPush, OwnerReplace, OwnerPop, OwnerPopAndReplace, OwnerPopLast, OwnerFrame,
     OwnerSwitches DEF Next, Game, Exited

LEMMA OwnerAlways == Spec => []Owner
  BY OwnerInit, OwnerNext, PTL DEF Spec

\* Every live scene has exactly one owner: no scene is leaked or deleted twice.
THEOREM ScenesAreOwnedOnce == Spec => []OwnedOnce
  BY OwnerAlways, PTL DEF Owner

\* The running scene is never deleted memory while the game or the frame uses it.
THEOREM RunningSceneAlwaysLive == Spec => []RunningSceneIsLive
  BY OwnerAlways, PTL DEF Owner

-----------------------------------------------------------------------------
(* The delegates are paired. *)

\* While a swap runs, the scene that still counts as active is the old running
\* scene, and only because it waits to hear of its destruction.
Paired ==
    /\ active \in SUBSET {current}
    /\ ActiveIsCurrent
    /\ phase = "onDeactive" => active = {}
    /\ (phase \in Swapping /\ active # {}) => \E j \in Doomed : toDestroy[j] = current
    /\ phase = "onDestroy" => toDestroy[itr] \notin active

LEMMA PairedInit == Init => Paired
  BY NoSceneAssumption DEF Init, Paired, ActiveIsCurrent, Swapping

\* The scene popAndReplace deletes in place is not the active one.
LEMMA PairedGame ==
    ASSUME Owner, Paired, Game
    PROVE  Paired'
<1> USE DEF Paired, ActiveIsCurrent, Swapping, Callbacks
<1>1. ASSUME NEW s \in Scenes, PushSceneManager(s) PROVE Paired'
  BY <1>1 DEF PushSceneManager, frameVars, Doomed
<1>2. ASSUME NEW s \in Scenes, ReplaceSceneManager(s) PROVE Paired'
  BY <1>2 DEF ReplaceSceneManager, frameVars, MayChange
<1>3. ASSUME NEW s \in Scenes, PopAndReplaceSceneManager(s) PROVE Paired'
  <2>1. /\ Len(stack) \in Nat \ {0}
        /\ Len(stack) > 1
        /\ Front(stack) \in Seq(Scenes)
        /\ Len(Front(stack)) = Len(stack) - 1
        /\ \A i \in 1..(Len(stack) - 1) : Front(stack)[i] = stack[i]
        /\ current = stack[Len(stack)]
    BY <1>3, StackIsNotEmpty
       DEF PopAndReplaceSceneManager, Owner, Control, SwapTracksTheStack, MayChange
  <2>2. Second = stack[Len(stack) - 1]
    BY <2>1 DEF Second, Last
  <2>3. \A i, j \in 1..Len(stack) : stack[i] = stack[j] => i = j
    BY <1>3 DEF PopAndReplaceSceneManager, MayChange, Owner, OwnedOnce
  <2>4. Second # current
    BY <2>1, <2>2, <2>3
  <2>5. active' = active /\ UNCHANGED <<current, phase>> /\ phase \notin Swapping
    BY <1>3, <2>4 DEF PopAndReplaceSceneManager, MayChange
  <2>q. QED
    BY <2>5
<1>4. CASE PopSceneManager
  BY <1>4 DEF PopSceneManager, frameVars, MayChange
<1>5. CASE PopLastScene
  BY <1>5 DEF PopLastScene, MayChange
<1>6. CASE Pause \/ Resume
  BY <1>6 DEF Pause, Resume, sceneVars, Doomed
<1>7. CASE StopAnimation \/ StartAnimation
  BY <1>7 DEF StopAnimation, StartAnimation, sceneVars, Doomed
<1>q. QED
  BY <1>1, <1>2, <1>3, <1>4, <1>5, <1>6, <1>7 DEF Game

LEMMA PairedFrame ==
    ASSUME Owner, Paired, Frame
    PROVE  Paired'
<1> USE DEF Paired, ActiveIsCurrent, Swapping, sceneVars
<1>0. Len(toDestroy) \in Nat /\ itr \in Nat
  BY DEF Owner, Control, TypeOK
<1>1. CASE BeginFrame
  <2>1. CASE next = NoScene
    BY <1>1, <2>1 DEF BeginFrame, AfterSwap
  <2>2. CASE phase' = "onDeactive"
    BY <1>1, <2>2 DEF BeginFrame, AfterSwap
  <2>3. CASE next # NoScene /\ phase' = "swap"
    <3>1. /\ phase = "between"
          /\ current = NoScene \/ current \in ToSet(toDestroy)
          /\ itr' = 1
          /\ UNCHANGED <<toDestroy, current, active>>
      BY <1>1, <2>3 DEF BeginFrame
    <3>2. current \in ToSet(toDestroy) => \E j \in Doomed' : toDestroy'[j] = current
      BY <1>0, <3>1, ToSetOfSeq DEF Doomed, Owner, Control, TypeOK
    <3>q. QED
      BY <2>3, <3>1, <3>2
  <2>q. QED
    BY <1>1, <2>1, <2>2, <2>3 DEF BeginFrame
<1>2. CASE EndDeactive
  BY <1>2 DEF EndDeactive
<1>3. CASE BeginDestroy
  BY <1>3 DEF BeginDestroy, Doomed
<1>4. CASE EndDestroy
  <2>1. Doomed' = Doomed \ {itr}
    BY <1>0, <1>4 DEF EndDestroy, Doomed
  <2>q. QED
    BY <1>4, <2>1 DEF EndDestroy
<1>5. CASE ActivateNext
  <2>1. Doomed = {}
    BY <1>0, <1>5 DEF ActivateNext, Doomed
  <2>2. active = {} /\ next # NoScene
    BY <1>5, <2>1 DEF ActivateNext, Owner, Control, SwapTracksTheStack
  <2>q. QED
    BY <1>5, <2>2 DEF ActivateNext
<1>6. CASE EndActive \/ EndUpdate \/ EndDraw
  BY <1>6 DEF EndActive, EndUpdate, EndDraw, AfterSwap
<1>q. QED
  BY <1>1, <1>2, <1>3, <1>4, <1>5, <1>6 DEF Frame

LEMMA PairedNext == Owner /\ Paired /\ [Next]_vars => Paired'
<1> SUFFICES ASSUME Owner, Paired, [Next]_vars PROVE Paired'
  OBVIOUS
<1>1. CASE UNCHANGED vars
  BY <1>1 DEF Paired, ActiveIsCurrent, Doomed, vars
<1>q. QED
  BY <1>1, PairedGame, PairedFrame DEF Next, Exited

\* Whenever game code runs in a frame or outside one, exactly the running scene had
\* its onActive without an onDeactive or onDestroy since.
THEOREM DelegatesArePaired == Spec => []ActiveIsCurrent
<1>1. Paired => ActiveIsCurrent
  BY DEF Paired
<1>q. QED
  BY OwnerAlways, PairedInit, PairedNext, <1>1, PTL DEF Spec

-----------------------------------------------------------------------------
(* The director implements the scene stack. While a swap runs nothing counts  *)
(* as shown, so the refinement maps its first step to Hide, its last one to   *)
(* Show, and each onDestroy that returns to a Delete.                         *)

Shown == IF phase \in Swapping THEN NoScene ELSE current
Used == {s \in Scenes : life[s] # "fresh"}
Deleted == {s \in Scenes : life[s] = "deleted"}

\* The scene stack's variables stay what they are.
AbstractStutters == UNCHANGED <<stack, Shown, Used, Deleted>>

LEMMA StuttersIsUnchanged == AbstractStutters => UNCHANGED Abstract!abstractVars
  BY DEF AbstractStutters, Abstract!abstractVars, Shown, Used, Deleted

\* Init of the director is Init of the scene stack.
LEMMA StackInit == Init => Abstract!Init
  BY DEF Init, Abstract!Init, Swapping

\* What a change of the stack by the game comes to: n scenes leave at the top, the
\* pushed ones arrive, and the gone ones, under the top, are deleted at once.
Changes(n, pushed, gone) ==
    /\ n <= Len(stack)
    /\ stack' = SubSeq(stack, 1, Len(stack) - n) \o pushed
    /\ ToSet(pushed) \cap Used = {}
    /\ Used' = Used \cup ToSet(pushed)
    /\ gone \subseteq Used \ (ToSet(stack') \cup {Shown})
    /\ Deleted' = Deleted \cup gone
    /\ Shown' = Shown

LEMMA ChangeRefines ==
    ASSUME NEW n \in 0..2,
           NEW pushed \in {<<>>} \cup {<<s>> : s \in Scenes},
           \E gone : Changes(n, pushed, gone)
    PROVE  Abstract!Next
<1>1. PICK gone : Changes(n, pushed, gone)
  OBVIOUS
<1>2. Abstract!Change(n, pushed)
  BY <1>1 DEF Changes, Abstract!Change, Shown, Used, Deleted, ToSet, Abstract!ToSet
<1>q. QED
  BY <1>2 DEF Abstract!Next

\* Without a deletion or a change of the scene on screen, only the new scene's
\* memory changes hands.
LEMMA PushedIsUsed ==
    ASSUME NEW s \in Scenes, life[s] = "fresh",
           life \in [Scenes -> {"fresh", "live", "deleted"}],
           life' = [life EXCEPT ![s] = "live"]
    PROVE  /\ ToSet(<<s>>) = {s}
           /\ s \notin Used
           /\ Used' = Used \cup {s}
           /\ Deleted' = Deleted
<1>1. ToSet(<<s>>) = {s}
  BY DEF ToSet
<1>2. Used' = Used \cup {s} /\ s \notin Used
  BY DEF Used
<1>3. Deleted' = Deleted
  BY DEF Deleted
<1>q. QED
  BY <1>1, <1>2, <1>3

LEMMA PushRefines ==
    ASSUME Owner, NEW s \in Scenes, PushSceneManager(s)
    PROVE  Abstract!Next
<1>1. stack \in Seq(Scenes) /\ life \in [Scenes -> {"fresh", "live", "deleted"}]
  BY DEF Owner, Control, TypeOK
<1>2. stack' = SubSeq(stack, 1, Len(stack) - 0) \o <<s>>
  BY <1>1, AppendIsConcat, PrefixOfSeq DEF PushSceneManager
<1>3. ToSet(<<s>>) = {s} /\ s \notin Used /\ Used' = Used \cup {s} /\ Deleted' = Deleted
  BY <1>1, PushedIsUsed DEF PushSceneManager
<1>4. Shown' = Shown
  BY DEF PushSceneManager, frameVars, Shown
<1>5. Changes(0, <<s>>, {})
  BY <1>1, <1>2, <1>3, <1>4 DEF Changes
<1>6. 0 \in 0..2 /\ <<s>> \in {<<>>} \cup {<<t>> : t \in Scenes}
  OBVIOUS
<1>q. QED
  BY <1>5, <1>6, ChangeRefines

LEMMA ReplaceRefines ==
    ASSUME Owner, NEW s \in Scenes, ReplaceSceneManager(s)
    PROVE  Abstract!Next
<1>1. /\ stack \in Seq(Scenes)
      /\ life \in [Scenes -> {"fresh", "live", "deleted"}]
      /\ Front(stack) \in Seq(Scenes)
      /\ Len(stack) \in Nat \ {0}
  BY StackIsNotEmpty DEF Owner, Control, TypeOK, ReplaceSceneManager
<1>2. stack' = SubSeq(stack, 1, Len(stack) - 1) \o <<s>>
  BY <1>1, AppendIsConcat, PrefixOfSeq DEF ReplaceSceneManager
<1>3. ToSet(<<s>>) = {s} /\ s \notin Used /\ Used' = Used \cup {s} /\ Deleted' = Deleted
  BY <1>1, PushedIsUsed DEF ReplaceSceneManager
<1>4. Shown' = Shown
  BY DEF ReplaceSceneManager, frameVars, Shown
<1>5. Changes(1, <<s>>, {})
  BY <1>1, <1>2, <1>3, <1>4 DEF Changes
<1>6. 1 \in 0..2 /\ <<s>> \in {<<>>} \cup {<<t>> : t \in Scenes}
  OBVIOUS
<1>q. QED
  BY <1>5, <1>6, ChangeRefines

\* Pop, and the pop that ends the program.
LEMMA PopRefines ==
    ASSUME Owner, PopSceneManager \/ PopLastScene
    PROVE  Abstract!Next
<1>0. MayChange /\ Control
  BY DEF PopSceneManager, PopLastScene, MayChange, Owner
<1>1. stack \in Seq(Scenes) /\ Len(stack) \in Nat \ {0} /\ Front(stack) \in Seq(Scenes)
  BY <1>0, StackIsNotEmpty DEF Control, TypeOK
<1>2. stack' = Front(stack)
  <2>1. CASE PopSceneManager
    BY <2>1 DEF PopSceneManager
  <2>2. CASE PopLastScene
    BY <1>1, <2>2, EmptySeq, StackIsNotEmpty, <1>0 DEF PopLastScene
  <2>q. QED
    BY <2>1, <2>2
<1>3. stack' = SubSeq(stack, 1, Len(stack) - 1) \o <<>>
  BY <1>1, <1>2, PrefixOfSeq, ConcatEmptySeq
<1>4. life' = life /\ Shown' = Shown
  BY DEF PopSceneManager, PopLastScene, frameVars, Shown, MayChange, Swapping, Callbacks
<1>5. Used' = Used /\ Deleted' = Deleted /\ ToSet(<<>>) = {}
  BY <1>4 DEF Used, Deleted, ToSet
<1>6. Changes(1, <<>>, {})
  BY <1>1, <1>3, <1>4, <1>5 DEF Changes
<1>7. 1 \in 0..2 /\ <<>> \in {<<>>} \cup {<<t>> : t \in Scenes}
  OBVIOUS
<1>q. QED
  BY <1>6, <1>7, ChangeRefines

\* The scene popAndReplace deletes in place is neither on the stack any more nor on
\* screen: it was under the running one, and only once.
LEMMA PopAndReplaceRefines ==
    ASSUME Owner, NEW s \in Scenes, PopAndReplaceSceneManager(s)
    PROVE  Abstract!Next
<1>1. /\ MayChange
      /\ next = NoScene
      /\ life[s] = "fresh"
      /\ stack \in Seq(Scenes)
      /\ life \in [Scenes -> {"fresh", "live", "deleted"}]
      /\ Len(stack) \in Nat /\ Len(stack) > 1
      /\ current = stack[Len(stack)]
  BY StackIsNotEmpty
     DEF PopAndReplaceSceneManager, Owner, Control, TypeOK, MayChange, SwapTracksTheStack, Callbacks
<1>2. /\ \A i, j \in 1..Len(stack) : stack[i] = stack[j] => i = j
      /\ \A t \in Scenes : (\E i \in 1..Len(stack) : stack[i] = t) => life[t] = "live"
  BY <1>1 DEF Owner, OwnedOnce, MayChange, Callbacks
<1>3. /\ Front(Front(stack)) = SubSeq(stack, 1, Len(stack) - 2)
      /\ Front(Front(stack)) \in Seq(Scenes)
      /\ Second = stack[Len(stack) - 1]
  BY <1>1, PrefixOfSeq DEF Second
<1>4. /\ stack' = SubSeq(stack, 1, Len(stack) - 2) \o <<s>>
      /\ Len(stack') = Len(stack) - 1
      /\ stack' \in Seq(Scenes)
      /\ \A i \in 1..(Len(stack) - 2) : stack'[i] = stack[i]
      /\ stack'[Len(stack) - 1] = s
  <2>1. stack' = Append(Front(Front(stack)), s)
    BY DEF PopAndReplaceSceneManager
  <2>2. Len(SubSeq(stack, 1, Len(stack) - 2)) = Len(stack) - 2
        /\ \A i \in 1..(Len(stack) - 2) : SubSeq(stack, 1, Len(stack) - 2)[i] = stack[i]
    <3>1. Len(stack) - 2 \in 0..Len(stack)
      BY <1>1
    <3>q. QED
      BY <1>1, <3>1, PrefixOfSeq
  <2>q. QED
    BY <1>1, <1>3, <2>1, <2>2, AppendIsConcat, AppendToSeq
<1>5. /\ Second \in Scenes
      /\ life[Second] = "live"
      /\ Second # s
      /\ Second # current
  BY <1>1, <1>2, <1>3
<1>6. Second \notin ToSet(stack')
  <2>1. \A i \in 1..Len(stack') : stack'[i] # Second
    BY <1>1, <1>2, <1>3, <1>4, <1>5, SMTT(30)
  <2>q. QED
    BY <1>4, <2>1, ToSetOfSeq, ZenonT(60)
<1>7. Shown' = Shown /\ Shown = current
  BY <1>1 DEF PopAndReplaceSceneManager, Shown, MayChange, Swapping, Callbacks
<1>8. life' = [life EXCEPT ![Second] = "deleted", ![s] = "live"]
  BY DEF PopAndReplaceSceneManager
<1>9. Used' = Used \cup {s} /\ s \notin Used
  BY <1>1, <1>5, <1>8 DEF Used
<1>10. Deleted' = Deleted \cup {Second}
  BY <1>1, <1>5, <1>8 DEF Deleted
<1>11. ToSet(<<s>>) = {s}
  BY DEF ToSet
<1>12. {Second} \subseteq Used \ (ToSet(stack') \cup {Shown})
  BY <1>5, <1>6, <1>7 DEF Used
<1>13. Changes(2, <<s>>, {Second})
  BY <1>1, <1>4, <1>7, <1>9, <1>10, <1>11, <1>12 DEF Changes
<1>14. 2 \in 0..2 /\ <<s>> \in {<<>>} \cup {<<t>> : t \in Scenes}
  OBVIOUS
<1>q. QED
  BY <1>13, <1>14, ChangeRefines

\* Pausing and going to the background are none of the stack's business.
LEMMA SwitchRefines ==
    ASSUME Pause \/ Resume \/ StopAnimation \/ StartAnimation \/ UNCHANGED vars
    PROVE  AbstractStutters
  BY DEF Pause, Resume, StopAnimation, StartAnimation, sceneVars, vars, AbstractStutters,
         Shown, Used, Deleted

\* A step that only moves the frame hides the scene on screen when the swap begins.
LEMMA HideRefines ==
    ASSUME UNCHANGED <<stack, life>>, Shown' = NoScene
    PROVE  Abstract!Next \/ AbstractStutters
<1>1. Used' = Used /\ Deleted' = Deleted
  BY DEF Used, Deleted
<1>2. CASE Shown = NoScene
  BY <1>1, <1>2 DEF AbstractStutters
<1>3. CASE Shown # NoScene
  <2>1. Abstract!Hide
    BY <1>1, <1>3 DEF Abstract!Hide, Shown, Used, Deleted
  <2>q. QED
    BY <2>1 DEF Abstract!Next
<1>q. QED
  BY <1>2, <1>3

LEMMA DestroyRefines ==
    ASSUME Owner, EndDestroy
    PROVE  Abstract!Next
<1>0. /\ stack \in Seq(Scenes)
      /\ life \in [Scenes -> {"fresh", "live", "deleted"}]
      /\ itr \in Doomed
      /\ toDestroy[itr] \in Scenes
  BY DEF EndDestroy, Owner, Control, TypeOK, SwapPosition, Swapping, Doomed
<1>1. PICK gone \in Scenes : gone = toDestroy[itr]
  BY <1>0
<1>2. /\ life[gone] = "live"
      /\ \A i \in 1..Len(stack) : stack[i] # gone
  BY <1>0, <1>1 DEF EndDestroy, Owner, OwnedOnce
<1>3. gone \notin ToSet(stack)
  BY <1>0, <1>2, ToSetOfSeq
<1>4. Shown = NoScene /\ Shown' = NoScene
  BY DEF EndDestroy, Shown, Swapping
<1>5. life' = [life EXCEPT ![gone] = "deleted"] /\ stack' = stack
  BY <1>1 DEF EndDestroy
<1>6. Used' = Used /\ gone \in Used
  BY <1>0, <1>2, <1>5 DEF Used
<1>7. Deleted' = Deleted \cup {gone} /\ gone \notin Deleted
  BY <1>0, <1>2, <1>5 DEF Deleted
<1>8. gone # NoScene
  BY <1>1, NoSceneAssumption
<1>9. Abstract!Delete(gone)
  BY <1>3, <1>4, <1>5, <1>6, <1>7, <1>8
     DEF Abstract!Delete, Shown, Used, Deleted, ToSet, Abstract!ToSet
<1>q. QED
  BY <1>6, <1>9 DEF Abstract!Next, Used

LEMMA ActivateRefines ==
    ASSUME Owner, ActivateNext
    PROVE  Abstract!Next
<1>1. stack # <<>> /\ next = Last(stack)
  BY DEF ActivateNext, Owner, Control, SwapTracksTheStack, Swapping
<1>2. Shown = NoScene /\ Shown' = Last(stack)
  BY <1>1 DEF ActivateNext, Shown, Swapping
<1>3. stack' = stack /\ Used' = Used /\ Deleted' = Deleted
  BY DEF ActivateNext, Used, Deleted
<1>4. Abstract!Show
  BY <1>1, <1>2, <1>3 DEF Abstract!Show, Shown, Used, Deleted, Last, Abstract!Last
<1>q. QED
  BY <1>4 DEF Abstract!Next

LEMMA FrameRefines ==
    ASSUME Owner, Frame
    PROVE  Abstract!Next \/ AbstractStutters
<1> USE DEF sceneVars, Swapping
<1>1. CASE BeginFrame
  <2>1. CASE phase' = "swap"
    BY <1>1, <2>1, HideRefines DEF BeginFrame, Shown
  <2>2. CASE phase' # "swap"
    BY <1>1, <2>2 DEF BeginFrame, AfterSwap, AbstractStutters, Shown, Used, Deleted
  <2>q. QED
    BY <2>1, <2>2
<1>2. CASE EndDeactive
  BY <1>2, HideRefines DEF EndDeactive, Shown
<1>3. CASE BeginDestroy \/ EndActive \/ EndUpdate \/ EndDraw
  BY <1>3 DEF BeginDestroy, EndActive, EndUpdate, EndDraw, AfterSwap, AbstractStutters,
              Shown, Used, Deleted
<1>4. CASE EndDestroy
  BY <1>4, DestroyRefines
<1>5. CASE ActivateNext
  BY <1>5, ActivateRefines
<1>q. QED
  BY <1>1, <1>2, <1>3, <1>4, <1>5 DEF Frame

\* Every step of the director is a step of the scene stack or leaves it alone.
LEMMA StackNext == Owner /\ [Next]_vars => [Abstract!Next]_(Abstract!abstractVars)
<1> SUFFICES ASSUME Owner, [Next]_vars PROVE Abstract!Next \/ AbstractStutters
  BY StuttersIsUnchanged
<1>1. CASE Game
  BY <1>1, PushRefines, ReplaceRefines, PopRefines, PopAndReplaceRefines, SwitchRefines DEF Game
<1>2. CASE Frame
  BY <1>2, FrameRefines
<1>3. CASE Exited \/ UNCHANGED vars
  BY <1>3, SwitchRefines DEF Exited
<1>q. QED
  BY <1>1, <1>2, <1>3 DEF Next

\* The director implements the scene stack its callers think of: no scene is deleted
\* on the stack or on screen, a scene that left never comes back, and what appears
\* after a swap is the top of the stack at that moment.
THEOREM DirectorImplementsSceneStack == Spec => ImplementsSceneStack
  BY StackInit, StackNext, OwnerAlways, PTL DEF Spec, ImplementsSceneStack, Abstract!Spec
=============================================================================

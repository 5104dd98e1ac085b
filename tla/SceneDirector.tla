---------------------------- MODULE SceneDirector ----------------------------
(***************************************************************************)
(* HLDirector2D's scene management: the scene stack a game changes with    *)
(* push / replace / pop / popAndReplace, the deferred swap the next frame  *)
(* makes of it (setNextSceneManager), and the frame of the main thread     *)
(* whose callbacks are where the game makes those changes.                 *)
(*                                                                         *)
(* Everything runs on the main thread; what interleaves is the game code   *)
(* in the callbacks with the steps of the frame around them. The contract  *)
(* the game keeps is in the guards of the operations:                      *)
(*   - a scene that is pushed is a new one;                                *)
(*   - replace, pop and popAndReplace need a running scene (HLASSERT) and  *)
(*     are not called from an onDestroy callback (they would grow the      *)
(*     vector setNextSceneManager is iterating over);                      *)
(*   - popAndReplace is not called while a swap is pending (it deletes the *)
(*     second scene at once, which would then be the running one).         *)
(***************************************************************************)
EXTENDS SequencesExt

CONSTANTS Scenes,   \* the HLSceneManager objects a game ever creates
          NoScene   \* the null HLSceneManager pointer

ASSUME NoSceneAssumption == NoScene \notin Scenes

VARIABLES stack,      \* mSceneMgrStack, the top last
          toDestroy,  \* mSceneToDestroy
          itr,        \* how far setNextSceneManager is in toDestroy, 0 outside it
          current,    \* mCurrentSceneMgr
          next,       \* mNextSceneMgr
          life,       \* the memory of each scene: "fresh", "live" or "deleted"
          active,     \* the scenes whose onActive ran and no onDeactive or onDestroy since
          phase,      \* where the main thread is in its frame
          paused,     \* mPause
          invalid     \* mInvalid

vars == <<stack, toDestroy, itr, current, next, life, active, phase, paused, invalid>>
sceneVars == <<stack, toDestroy, next, life>>
frameVars == <<itr, current, active, phase, paused, invalid>>

\* The phases in which game code runs: outside drawScene (events, calls
\* scheduled by other threads), in the three scene delegates, and in the
\* delegates of update and draw. "swap" is the director's own code.
Callbacks == {"between", "onDeactive", "onDestroy", "onActive", "update", "draw"}
Phases == Callbacks \cup {"swap", "exited"}
Swapping == {"swap", "onDestroy"}

Init ==
    /\ stack = <<>>
    /\ toDestroy = <<>>
    /\ itr = 0
    /\ current = NoScene
    /\ next = NoScene
    /\ life = [s \in Scenes |-> "fresh"]
    /\ active = {}
    /\ phase = "between"
    /\ paused = FALSE
    /\ invalid = FALSE

AfterSwap == IF paused THEN "draw" ELSE "update"

-----------------------------------------------------------------------------
(* Faulty variants of the operations below, one plausible mistake each: a     *)
(* property is worth its run when it notices one of them.                     *)

\* push does not overwrite a scene that is already pending.
FirstPushWins(s) ==
    /\ phase \in Callbacks
    /\ life[s] = "fresh"
    /\ life' = [life EXCEPT ![s] = "live"]
    /\ stack' = Append(stack, s)
    /\ next' = IF next = NoScene THEN s ELSE next
    /\ UNCHANGED <<toDestroy, frameVars>>

\* replace deletes the scene at once, as the director's commented-out code did.
ReplaceDeletesAtOnce(s) ==
    /\ phase \in Callbacks \ {"onDestroy"}
    /\ current # NoScene
    /\ life[s] = "fresh"
    /\ life' = [life EXCEPT ![s] = "live", ![Last(stack)] = "deleted"]
    /\ stack' = Append(Front(stack), s)
    /\ next' = s
    /\ UNCHANGED <<toDestroy, frameVars>>

\* pop forgets to hand the popped scene to mSceneToDestroy.
PopLeaks ==
    /\ phase \in Callbacks \ {"onDestroy"}
    /\ current # NoScene
    /\ Len(stack) > 1
    /\ stack' = Front(stack)
    /\ next' = Last(stack')
    /\ UNCHANGED <<toDestroy, life, frameVars>>

\* pop leaves it to the next push to ask for a swap.
PopWithoutSwap ==
    /\ phase \in Callbacks \ {"onDestroy"}
    /\ current # NoScene
    /\ Len(stack) > 1
    /\ stack' = Front(stack)
    /\ toDestroy' = Append(toDestroy, Last(stack))
    /\ UNCHANGED <<next, life, frameVars>>

\* The swap does not tell the old scene that it goes.
BeginFrameWithoutDeactive ==
    /\ phase = "between"
    /\ ~invalid
    /\ \/ /\ next = NoScene
          /\ phase' = AfterSwap
          /\ UNCHANGED itr
       \/ /\ next # NoScene
          /\ phase' = "swap"
          /\ itr' = 1
    /\ UNCHANGED <<sceneVars, current, active, paused, invalid>>

\* The swap clears mSceneToDestroy without having destroyed all of it.
ActivateTooEarly ==
    /\ phase = "swap"
    /\ toDestroy' = <<>>
    /\ itr' = 0
    /\ current' = next
    /\ next' = NoScene
    /\ active' = active \cup {next}
    /\ phase' = "onActive"
    /\ UNCHANGED <<stack, life, paused, invalid>>

\* The swap leaves its position in mSceneToDestroy behind.
ActivateKeepsPosition ==
    /\ phase = "swap"
    /\ itr > Len(toDestroy)
    /\ toDestroy' = <<>>
    /\ current' = next
    /\ next' = NoScene
    /\ active' = active \cup {next}
    /\ phase' = "onActive"
    /\ UNCHANGED <<stack, itr, life, paused, invalid>>

-----------------------------------------------------------------------------
(* The operations of the game. *)

MayChange ==
    /\ phase \in Callbacks \ {"onDestroy"}
    /\ current # NoScene

\* runWithSceneManager is the same call, before there is a running scene.
PushSceneManager(s) ==
    /\ phase \in Callbacks
    /\ life[s] = "fresh"
    /\ life' = [life EXCEPT ![s] = "live"]
    /\ stack' = Append(stack, s)
    /\ next' = s
    /\ UNCHANGED <<toDestroy, frameVars>>

ReplaceSceneManager(s) ==
    /\ MayChange
    /\ life[s] = "fresh"
    /\ life' = [life EXCEPT ![s] = "live"]
    /\ stack' = Append(Front(stack), s)
    /\ next' = s
    /\ toDestroy' = Append(toDestroy, Last(stack))
    /\ UNCHANGED frameVars

PopSceneManager ==
    /\ MayChange
    /\ Len(stack) > 1
    /\ stack' = Front(stack)
    /\ next' = Last(stack')
    /\ toDestroy' = Append(toDestroy, Last(stack))
    /\ UNCHANGED <<life, frameVars>>

\* The scene under the top: popAndReplaceSceneManager deletes it right here, and
\* only the top one at the next swap.
Second == Last(Front(stack))

PopAndReplaceSceneManager(s) ==
    /\ MayChange
    /\ next = NoScene
    /\ life[s] = "fresh"
    /\ Len(stack) > 1
    /\ toDestroy' = Append(toDestroy, Last(stack))
    /\ stack' = Append(Front(Front(stack)), s)
    /\ next' = s
    /\ life' = [life EXCEPT ![Second] = "deleted", ![s] = "live"]
    /\ active' = active \ {Second}
    /\ UNCHANGED <<itr, current, phase, paused, invalid>>

\* Both end the program when they empty the stack, pop before it records the scene
\* to destroy and popAndReplace after.
PopLastScene ==
    /\ MayChange
    /\ Len(stack) = 1
    /\ stack' = <<>>
    /\ toDestroy' \in {toDestroy, Append(toDestroy, Last(stack))}
    /\ phase' = "exited"
    /\ UNCHANGED <<next, life, itr, current, active, paused, invalid>>

Pause ==
    /\ phase \in Callbacks
    /\ paused' = TRUE
    /\ UNCHANGED <<sceneVars, itr, current, active, phase, invalid>>

Resume ==
    /\ phase \in Callbacks
    /\ paused' = FALSE
    /\ UNCHANGED <<sceneVars, itr, current, active, phase, invalid>>

\* The application goes to the background, and comes back.
StopAnimation ==
    /\ phase = "between"
    /\ invalid' = TRUE
    /\ UNCHANGED <<sceneVars, itr, current, active, phase, paused>>

StartAnimation ==
    /\ phase = "between"
    /\ invalid' = FALSE
    /\ UNCHANGED <<sceneVars, itr, current, active, phase, paused>>

-----------------------------------------------------------------------------
(* The frame: mainLoop, drawScene and setNextSceneManager. *)

\* The running scene hears of the swap, unless it is about to be destroyed.
BeginFrame ==
    /\ phase = "between"
    /\ ~invalid
    /\ \/ /\ next = NoScene
          /\ phase' = AfterSwap
          /\ UNCHANGED <<itr, active>>
       \/ /\ next # NoScene
          /\ current # NoScene
          /\ current \notin ToSet(toDestroy)
          /\ active' = active \ {current}
          /\ phase' = "onDeactive"
          /\ UNCHANGED itr
       \/ /\ next # NoScene
          /\ current = NoScene \/ current \in ToSet(toDestroy)
          /\ phase' = "swap"
          /\ itr' = 1
          /\ UNCHANGED active
    /\ UNCHANGED <<sceneVars, current, paused, invalid>>

EndDeactive ==
    /\ phase = "onDeactive"
    /\ phase' = "swap"
    /\ itr' = 1
    /\ UNCHANGED <<sceneVars, current, active, paused, invalid>>

BeginDestroy ==
    /\ phase = "swap"
    /\ itr <= Len(toDestroy)
    /\ active' = active \ {toDestroy[itr]}
    /\ phase' = "onDestroy"
    /\ UNCHANGED <<sceneVars, itr, current, paused, invalid>>

EndDestroy ==
    /\ phase = "onDestroy"
    /\ life' = [life EXCEPT ![toDestroy[itr]] = "deleted"]
    /\ itr' = itr + 1
    /\ phase' = "swap"
    /\ UNCHANGED <<stack, toDestroy, next, current, active, paused, invalid>>

ActivateNext ==
    /\ phase = "swap"
    /\ itr > Len(toDestroy)
    /\ toDestroy' = <<>>
    /\ itr' = 0
    /\ current' = next
    /\ next' = NoScene
    /\ active' = active \cup {next}
    /\ phase' = "onActive"
    /\ UNCHANGED <<stack, life, paused, invalid>>

EndActive ==
    /\ phase = "onActive"
    /\ phase' = AfterSwap
    /\ UNCHANGED <<sceneVars, itr, current, active, paused, invalid>>

EndUpdate ==
    /\ phase = "update"
    /\ phase' = "draw"
    /\ UNCHANGED <<sceneVars, itr, current, active, paused, invalid>>

EndDraw ==
    /\ phase = "draw"
    /\ phase' = "between"
    /\ UNCHANGED <<sceneVars, itr, current, active, paused, invalid>>

\* exit(0) does not return.
Exited ==
    /\ phase = "exited"
    /\ UNCHANGED vars

Game ==
    \/ \E s \in Scenes : \/ PushSceneManager(s)
                         \/ ReplaceSceneManager(s)
                         \/ PopAndReplaceSceneManager(s)
    \/ PopSceneManager
    \/ PopLastScene
    \/ Pause
    \/ Resume
    \/ StopAnimation
    \/ StartAnimation

Frame ==
    \/ BeginFrame
    \/ EndDeactive
    \/ BeginDestroy
    \/ EndDestroy
    \/ ActivateNext
    \/ EndActive
    \/ EndUpdate
    \/ EndDraw

Next == Game \/ Frame \/ Exited

Spec == Init /\ [][Next]_vars

\* The main loop keeps running: a callback returns, and a frame begins again
\* and again as long as the application keeps coming back to the foreground.
FairSpec == Spec /\ WF_vars(Frame) /\ SF_vars(BeginFrame)

-----------------------------------------------------------------------------
(* Properties. *)

\* The state is well formed.
TypeOK ==
    /\ stack \in Seq(Scenes)
    /\ toDestroy \in Seq(Scenes)
    /\ itr \in 0..(Len(toDestroy) + 1)
    /\ current \in Scenes \cup {NoScene}
    /\ next \in Scenes \cup {NoScene}
    /\ life \in [Scenes -> {"fresh", "live", "deleted"}]
    /\ active \in SUBSET Scenes
    /\ phase \in Phases
    /\ paused \in BOOLEAN
    /\ invalid \in BOOLEAN

\* The entries of toDestroy that were not destroyed yet.
Doomed == {i \in 1..Len(toDestroy) : i >= itr}

\* Every scene that was pushed and not deleted is owned by exactly one slot of
\* the stack or of what is left of mSceneToDestroy: nothing is leaked, nothing is
\* deleted twice, and nothing on the stack is deleted memory.
OwnedOnce ==
    phase # "exited" =>
        /\ \A i, j \in 1..Len(stack) : stack[i] = stack[j] => i = j
        /\ \A i, j \in Doomed : toDestroy[i] = toDestroy[j] => i = j
        /\ \A i \in 1..Len(stack), j \in Doomed : stack[i] # toDestroy[j]
        /\ \A s \in Scenes :
              life[s] = "live" <=> \/ \E i \in 1..Len(stack) : stack[i] = s
                                   \/ \E j \in Doomed : toDestroy[j] = s

\* The scene that is updated, drawn or called back as the running one is never
\* deleted memory, whatever the game's callbacks did since it became current.
RunningSceneIsLive ==
    (phase \notin Swapping \cup {"exited"} /\ current # NoScene) => life[current] = "live"

\* The deferred swap never loses track of the stack: the pending scene is the top
\* of the stack, without a pending one the running scene is, and a scene cannot
\* wait for its destruction with no swap to come.
SwapTracksTheStack ==
    phase # "exited" =>
        /\ next # NoScene => stack # <<>> /\ next = Last(stack)
        /\ (next = NoScene /\ current # NoScene) => stack # <<>> /\ current = Last(stack)
        /\ phase \in Swapping => next # NoScene
        /\ toDestroy # <<>> => next # NoScene

\* onActive and onDeactive/onDestroy are paired: whenever a frame is updated or
\* drawn, or the game runs outside a frame, exactly the running scene is active.
ActiveIsCurrent ==
    phase \in {"between", "onActive", "update", "draw"} => active = {current} \ {NoScene}

\* A scene handed to mSceneToDestroy is deleted in the end (unless the game exits
\* first), provided the application is not left in the background for ever.
DoomedIsDeleted ==
    ([]<>(~invalid)) =>
        \A s \in Scenes :
            (s \in ToSet(toDestroy)) ~> (life[s] = "deleted" \/ phase = "exited")

\* The director implements the scene stack its callers think of: what is on screen
\* is hidden while the swap runs, and what comes back is the top of the stack.
Abstract == INSTANCE SceneStack
                WITH scenes <- stack,
                     shown <- IF phase \in Swapping THEN NoScene ELSE current,
                     used <- {s \in Scenes : life[s] # "fresh"},
                     deleted <- {s \in Scenes : life[s] = "deleted"}

ImplementsSceneStack == Abstract!Spec
=============================================================================

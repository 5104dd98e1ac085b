----------------------------- MODULE TweenSystem -----------------------------
(***************************************************************************)
(* HLTweenSystem: the animations a game commits, the update that drawScene *)
(* calls once per frame, and the functions that stop animations. Update    *)
(* and the stop functions tell an animation of its end by a callback in    *)
(* which the game commits and stops animations again, so the loops over    *)
(* the two vectors nest: calls is the stack of those that are under way.   *)
(*                                                                         *)
(* A frame takes one tick. What is left to the game:                       *)
(*   - startAnimations, the changes of properties and commitAnimations are *)
(*     made in one go, with targets that are not destroyed, or that are    *)
(*     still being destroyed by a loop over allAnimations;                 *)
(*   - nothing is committed while a stop function is in its second loop,   *)
(*     over animationsToAdd (the vector it iterates over may move);        *)
(*   - stopAllAnimations is not called in a callback, unless NestedStopAll.*)
(* The callback of stopAllAnimationsWithEntityManager is that of the other *)
(* stop functions; nothing calls it.                                       *)
(***************************************************************************)
EXTENDS SequencesExt

CONSTANTS
    Anims,          \* the TweenAnimations objects a game ever starts
    NULL,           \* the null pointer: a hole in a vector, or no animation
    Entities,       \* the entities
    Targets,        \* the entities each animation changes
    Name,           \* name of each animation
    Duration,       \* duration of each animation
    Repeat,         \* repeat of each animation, 0 for an endless one
    NestedStopAll,  \* whether callbacks call stopAllAnimations
    MaxDepth        \* the bound of the model: how deep the calls nest

ASSUME AnimsAssumption ==
    /\ NULL \notin Anims
    /\ Targets \in [Anims -> SUBSET Entities]
    /\ Anims \subseteq DOMAIN Name
    /\ Duration \in [Anims -> Nat]
    /\ Repeat \in [Anims -> Nat]
    /\ NestedStopAll \in BOOLEAN
    /\ MaxDepth \in Nat

VARIABLES
    lists,      \* "all": allAnimations, "toAdd": animationsToAdd
    calls,      \* the calls of update and of the stop functions, the innermost last
    accDt,      \* accDt of each animation
    count,      \* count of each animation
    stopped,    \* the animations whose stopped is true
    life,       \* the memory of each animation: "fresh", "live", "deleted" or "lost"
    destroyed,  \* the entities in mEntitiesToDestroy
    told        \* history: how often each animation's callback was called

vars == <<lists, calls, accDt, count, stopped, life, destroyed, told>>
progress == <<accDt, count>>

Names == {Name[a] : a \in Anims}

Init ==
    /\ lists = [l \in {"all", "toAdd"} |-> <<>>]
    /\ calls = <<>>
    /\ accDt = [a \in Anims |-> 0]
    /\ count = [a \in Anims |-> 0]
    /\ stopped = {}
    /\ life = [a \in Anims |-> "fresh"]
    /\ destroyed = {}
    /\ told = [a \in Anims |-> 0]

\* A call: which function, of which name or entity, where its loop is, and the animation
\* whose callback it waits for.
Call(op, of) == [op |-> op, of |-> of, list |-> "all", itr |-> 1, anim |-> NULL]

Top == calls[Len(calls)]

SetTop(call) == calls' = [calls EXCEPT ![Len(calls)] = call]

GameRuns == calls # <<>> => Top.anim # NULL

Looping(ops) == calls # <<>> /\ Top.anim = NULL /\ Top.op \in ops

StopOps == {"name", "entity", "every"}

-----------------------------------------------------------------------------
(* What the game does, between two updates or in a callback. *)

\* An animation that changes nothing is never added: it is lost, and never told.
Commit(a) ==
    /\ GameRuns
    /\ life[a] = "fresh"
    /\ \A i \in DOMAIN calls : calls[i].list # "toAdd"
    /\ \A e \in Targets[a] \cap destroyed :
          \E i \in DOMAIN calls : calls[i].op = "entity" /\ calls[i].of = e
    /\ IF Targets[a] = {}
       THEN /\ life' = [life EXCEPT ![a] = "lost"]
            /\ UNCHANGED lists
       ELSE /\ life' = [life EXCEPT ![a] = "live"]
            /\ lists' = [lists EXCEPT !["toAdd"] = Append(@, a)]
    /\ UNCHANGED <<calls, progress, stopped, destroyed, told>>

Stop(op, of) ==
    /\ GameRuns
    /\ Len(calls) < MaxDepth
    /\ calls' = Append(calls, Call(op, of))
    /\ UNCHANGED <<lists, progress, stopped, life, told>>

StopAnimation(name) == Stop("name", name) /\ UNCHANGED destroyed

\* destroyEntity calls stopAnimationsContainTarget.
DestroyEntity(e) ==
    /\ e \notin destroyed
    /\ destroyed' = destroyed \cup {e}
    /\ Stop("entity", e)

StopAllAnimations ==
    /\ calls = <<>> \/ NestedStopAll
    /\ Stop("every", NULL)
    /\ UNCHANGED destroyed

-----------------------------------------------------------------------------
(* The stop functions: a loop over allAnimations, then one over               *)
(* animationsToAdd.                                                           *)

Concerns(call, a) ==
    CASE call.op = "name" -> Name[a] = call.of
      [] call.op = "entity" -> call.of \in Targets[a]
      [] call.op = "every" -> TRUE

\* Mutant: an animation that is ending in update is stopped too.
HitsWithStopped ==
    LET list == lists[Top.list]
    IN  {i \in Top.itr..Len(list) : list[i] # NULL /\ Concerns(Top, list[i])}

\* What the loop of the innermost call has still to stop. An animation that is ending
\* in update is left alone (those in animationsToAdd are never that far).
Hits ==
    LET list == lists[Top.list]
    IN  {i \in Top.itr..Len(list) :
            list[i] # NULL /\ list[i] \notin stopped /\ Concerns(Top, list[i])}

FirstHit == CHOOSE i \in Hits : \A j \in Hits : i <= j

\* Mutant: the slot is emptied after the callback only.
StopKeepsSlot ==
    /\ Looping(StopOps)
    /\ Hits # {}
    /\ LET a == lists[Top.list][FirstHit]
       IN  /\ SetTop([Top EXCEPT !.itr = FirstHit, !.anim = a])
           /\ told' = [told EXCEPT ![a] = @ + 1]
    /\ UNCHANGED <<lists, progress, stopped, life, destroyed>>

\* Mutant: the slot is erased.
StopErasesSlot ==
    /\ Looping(StopOps)
    /\ Hits # {}
    /\ LET a == lists[Top.list][FirstHit]
       IN  /\ lists' = [lists EXCEPT ![Top.list] = RemoveAt(@, FirstHit)]
           /\ SetTop([Top EXCEPT !.itr = FirstHit, !.anim = a])
           /\ told' = [told EXCEPT ![a] = @ + 1]
    /\ UNCHANGED <<progress, stopped, life, destroyed>>

\* The slot is emptied before the callback, which may look at the list again.
StopNext ==
    /\ Looping(StopOps)
    /\ Hits # {}
    /\ LET a == lists[Top.list][FirstHit]
       IN  /\ lists' = [lists EXCEPT ![Top.list][FirstHit] = NULL]
           /\ SetTop([Top EXCEPT !.itr = FirstHit, !.anim = a])
           /\ told' = [told EXCEPT ![a] = @ + 1]
    /\ UNCHANGED <<progress, stopped, life, destroyed>>

\* The callback of a stopped animation returns. stopAnimation looks at its slot again.
StopReturn ==
    /\ calls # <<>>
    /\ Top.op \in StopOps
    /\ Top.anim # NULL
    /\ life' = [life EXCEPT ![Top.anim] = "deleted"]
    /\ SetTop([Top EXCEPT !.anim = NULL, !.itr = IF Top.op = "name" THEN @ ELSE @ + 1])
    /\ UNCHANGED <<lists, progress, stopped, destroyed, told>>

\* Mutant: animationsToAdd is not looked at.
EndFirstLoop ==
    /\ Looping(StopOps)
    /\ Hits = {}
    /\ calls' = Front(calls)
    /\ UNCHANGED <<lists, progress, stopped, life, destroyed, told>>

\* stopAllAnimations clears each vector after its loop.
EndLoop ==
    /\ Looping(StopOps)
    /\ Hits = {}
    /\ lists' = IF Top.op = "every" THEN [lists EXCEPT ![Top.list] = <<>>] ELSE lists
    /\ IF Top.list = "all"
       THEN SetTop([Top EXCEPT !.list = "toAdd", !.itr = 1])
       ELSE calls' = Front(calls)
    /\ UNCHANGED <<progress, stopped, life, destroyed, told>>

-----------------------------------------------------------------------------
(* HLTweenSystem::update. *)

BeginUpdate ==
    /\ calls = <<>>
    /\ lists' = [lists EXCEPT !["all"] = @ \o lists["toAdd"], !["toAdd"] = <<>>]
    /\ calls' = <<Call("update", NULL)>>
    /\ UNCHANGED <<progress, stopped, life, destroyed, told>>

Updating(a) ==
    /\ Looping({"update"})
    /\ Top.itr <= Len(lists["all"])
    /\ lists["all"][Top.itr] = a

Erase == lists' = [lists EXCEPT !["all"] = RemoveAt(@, Top.itr)]

EraseHole ==
    /\ Updating(NULL)
    /\ Erase
    /\ UNCHANGED <<calls, progress, stopped, life, destroyed, told>>

RoundEnds(a) == accDt[a] + 1 >= Duration[a]
LastRound(a) == Repeat[a] > 0 /\ count[a] + 1 = Repeat[a]

Animate(a) ==
    /\ Updating(a)
    /\ ~RoundEnds(a)
    /\ accDt' = [accDt EXCEPT ![a] = @ + 1]
    /\ SetTop([Top EXCEPT !.itr = @ + 1])
    /\ UNCHANGED <<lists, count, stopped, life, destroyed, told>>

\* Mutant: the round is subtracted, but the time of this frame was not added.
RoundBelowZero(a) ==
    /\ Updating(a)
    /\ RoundEnds(a)
    /\ ~LastRound(a)
    /\ accDt' = [accDt EXCEPT ![a] = @ - Duration[a]]
    /\ count' = [count EXCEPT ![a] = IF Repeat[a] > 0 THEN @ + 1 ELSE @]
    /\ SetTop([Top EXCEPT !.itr = @ + 1])
    /\ UNCHANGED <<lists, stopped, life, destroyed, told>>

\* Mutant: the round is not counted.
RoundUncounted(a) ==
    /\ Updating(a)
    /\ RoundEnds(a)
    /\ ~LastRound(a)
    /\ accDt' = [accDt EXCEPT ![a] = 0]
    /\ SetTop([Top EXCEPT !.itr = @ + 1])
    /\ UNCHANGED <<lists, count, stopped, life, destroyed, told>>

Round(a) ==
    /\ Updating(a)
    /\ RoundEnds(a)
    /\ ~LastRound(a)
    /\ accDt' = [accDt EXCEPT ![a] = 0]
    /\ count' = [count EXCEPT ![a] = IF Repeat[a] > 0 THEN @ + 1 ELSE @]
    /\ SetTop([Top EXCEPT !.itr = @ + 1])
    /\ UNCHANGED <<lists, stopped, life, destroyed, told>>

Complete(a) ==
    /\ Updating(a)
    /\ RoundEnds(a)
    /\ LastRound(a)
    /\ accDt' = [accDt EXCEPT ![a] = @ + 1]
    /\ count' = [count EXCEPT ![a] = @ + 1]
    /\ stopped' = stopped \cup {a}
    /\ told' = [told EXCEPT ![a] = @ + 1]
    /\ SetTop([Top EXCEPT !.anim = a])
    /\ UNCHANGED <<lists, life, destroyed>>

\* The callback of a completed animation returns.
CompleteReturn ==
    /\ calls # <<>>
    /\ Top.op = "update"
    /\ Top.anim # NULL
    /\ life' = [life EXCEPT ![Top.anim] = "deleted"]
    /\ Erase
    /\ SetTop([Top EXCEPT !.anim = NULL])
    /\ UNCHANGED <<progress, stopped, destroyed, told>>

EndUpdate ==
    /\ Looping({"update"})
    /\ Top.itr > Len(lists["all"])
    /\ calls' = <<>>
    /\ UNCHANGED <<lists, progress, stopped, life, destroyed, told>>

-----------------------------------------------------------------------------

Game ==
    \/ \E a \in Anims : Commit(a)
    \/ \E name \in Names : StopAnimation(name)
    \/ \E e \in Entities : DestroyEntity(e)
    \/ StopAllAnimations

Return == StopReturn \/ CompleteReturn

Loop ==
    \/ StopNext
    \/ EndLoop
    \/ EraseHole
    \/ EndUpdate
    \/ \E a \in Anims : Animate(a) \/ Round(a) \/ Complete(a)

Next == Game \/ BeginUpdate \/ Loop \/ Return

Spec == Init /\ [][Next]_vars

\* The loops go on; a callback returns, however often it calls the stop functions; the
\* platform lets the next frame begin.
FairSpec == Spec /\ WF_vars(Loop) /\ SF_vars(Return) /\ SF_vars(BeginUpdate)

-----------------------------------------------------------------------------
(* Properties. *)

\* The state is well formed.
TypeOK ==
    /\ lists \in [{"all", "toAdd"} -> Seq(Anims \cup {NULL})]
    /\ calls \in Seq([op : StopOps \cup {"update"}, of : Names \cup Entities \cup {NULL},
                      list : {"all", "toAdd"}, itr : Nat, anim : Anims \cup {NULL}])
    /\ accDt \in [Anims -> Nat]
    /\ count \in [Anims -> Nat]
    /\ stopped \in SUBSET Anims
    /\ life \in [Anims -> {"fresh", "live", "deleted", "lost"}]
    /\ destroyed \in SUBSET Entities
    /\ told \in [Anims -> Nat]

\* Where an animation is held: in a slot of a vector, or by the stop function that took
\* it out of its slot.
Places(a) ==
    {s \in {"all", "toAdd"} \X (1..(Len(lists["all"]) + Len(lists["toAdd"]))) :
        s[2] <= Len(lists[s[1]]) /\ lists[s[1]][s[2]] = a}
    \cup {<<"call", i>> : i \in {j \in DOMAIN calls :
                                    calls[j].op \in StopOps /\ calls[j].anim = a}}

\* However the loops nest, an animation that is alive is held in one place and one that
\* is deleted in none: no animation is deleted twice, updated after its end, or leaked.
OwnedOnce ==
    \A a \in Anims : Cardinality(Places(a)) = IF life[a] = "live" THEN 1 ELSE 0

\* The callback of an animation is called once: by the update that completes it or by
\* the first call that stops it, which then deletes it.
ToldOnce ==
    \A a \in Anims :
        told[a] = IF \/ life[a] = "deleted"
                     \/ \E i \in DOMAIN calls : calls[i].anim = a
                  THEN 1 ELSE 0

\* A loop that goes on after a callback finds the vector as it left it, apart from holes:
\* it does not run past the end, and update erases the slot of the animation it deletes.
LoopsStayInTheirLists ==
    \A i \in DOMAIN calls :
        LET call == calls[i]
            list == lists[call.list]
        IN  /\ call.anim = NULL => call.itr <= Len(list) + 1
            /\ call.op = "update" /\ call.anim # NULL =>
                   call.itr <= Len(list) /\ list[call.itr] = call.anim

\* When the calls are over, no animation is left that would change an entity that was
\* destroyed, not even one that was committed while the others were stopped.
NoTweenOfDestroyed ==
    calls = <<>> =>
        \A a \in Anims : life[a] = "live" => Targets[a] \cap destroyed = {}

\* A committed animation that is not endless is told of its end.
EveryTweenEnds ==
    \A a \in Anims : Repeat[a] > 0 => (life[a] = "live" ~> told[a] = 1)
=============================================================================

---------------------------- MODULE TimerManager ----------------------------
(***************************************************************************)
(* HLTimer and HLTimerManager: the timers a game makes, the update that    *)
(* drawScene calls once per frame, and the delegates it calls, in which    *)
(* the game makes, cancels and deletes timers while the list is iterated.  *)
(*                                                                         *)
(* Time is counted in ticks. Two things are left to the game, as the       *)
(* guards of its operations say:                                           *)
(*   - it does not delete a timer inside that timer's own delegate         *)
(*     (HLTimer::update goes on with the object afterwards);               *)
(*   - it does not call cancelAllTimers while mTimers holds a hole, the    *)
(*     NULL a deleted timer leaves until the next update passes it         *)
(*     (cancelAllTimers calls cancel on it).                               *)
(***************************************************************************)
EXTENDS SequencesExt

CONSTANTS
    Timers,     \* the HLTimer objects a game ever creates
    NULL,       \* the null pointer: a hole in a list
    Interval,   \* interval of each timer
    Repeating,  \* the timers whose repeate is true
    Priority,   \* priority of each timer
    Deltas,     \* the frame times mDeltaTime takes
    MaxTime     \* the bound of the model: how long the game runs

ASSUME TimersAssumption ==
    /\ NULL \notin Timers
    /\ Interval \in [Timers -> Nat]
    /\ Repeating \subseteq Timers
    /\ Priority \in [Timers -> Int]
    /\ Deltas \subseteq Nat
    /\ MaxTime \in Nat

VARIABLES
    timers,    \* mTimers
    toAdd,     \* mTimersToAdd
    life,      \* the memory of each timer: "fresh", "live" or "deleted"
    canceled,  \* the timers whose canceled is true
    elapsed,   \* elapsed of each timer
    delta,     \* delta of each timer
    phase,     \* where the main thread is
    itr,       \* the position of update in mTimers, 0 outside it
    dt,        \* the argument of the running update
    ordered,   \* history: mTimers was sorted without a hole in it
    now,       \* history: the frame times so far
    lived,     \* history: the time each timer was updated with
    told,      \* history: the time each delegate was told of
    due        \* history: the intervals that the calls of each delegate stand for

vars == <<timers, toAdd, life, canceled, elapsed, delta, phase, itr, dt, ordered,
          now, lived, told, due>>
clock == <<dt, now, ordered>>
counters == <<elapsed, delta, lived, told, due>>

Phases == {"game", "update", "delegate", "catchUp"}

Init ==
    /\ timers = <<>>
    /\ toAdd = <<>>
    /\ life = [t \in Timers |-> "fresh"]
    /\ canceled = {}
    /\ elapsed = [t \in Timers |-> 0]
    /\ delta = [t \in Timers |-> 0]
    /\ phase = "game"
    /\ itr = 0
    /\ dt = 0
    /\ ordered = TRUE
    /\ now = 0
    /\ lived = [t \in Timers |-> 0]
    /\ told = [t \in Timers |-> 0]
    /\ due = [t \in Timers |-> 0]

GameRuns == phase \in {"game", "delegate"}

\* A list in which a timer that is deleted leaves a hole.
Without(list, t) == [i \in DOMAIN list |-> IF list[i] = t THEN NULL ELSE list[i]]

Updating(t) ==
    /\ phase = "update"
    /\ itr <= Len(timers)
    /\ timers[itr] = t

\* HLTimer::update counts the time of the frame.
Elapse(t) ==
    /\ elapsed' = [elapsed EXCEPT ![t] = @ + dt]
    /\ lived' = [lived EXCEPT ![t] = @ + dt]

-----------------------------------------------------------------------------
(* Mutants: operations of this module as a mistake in them would have them. *)

\* The destructor looks in mTimers only.
DeleteFromTimers(t) ==
    /\ GameRuns
    /\ life[t] = "live"
    /\ phase = "delegate" => timers[itr] # t
    /\ life' = [life EXCEPT ![t] = "deleted"]
    /\ timers' = Without(timers, t)
    /\ UNCHANGED <<toAdd, canceled, counters, phase, itr, clock>>

\* The destructor erases its list node.
DeleteWithNode(t) ==
    /\ GameRuns
    /\ life[t] = "live"
    /\ phase = "delegate" => timers[itr] # t
    /\ life' = [life EXCEPT ![t] = "deleted"]
    /\ timers' = Remove(timers, t)
    /\ toAdd' = Remove(toAdd, t)
    /\ UNCHANGED <<canceled, counters, phase, itr, clock>>

\* The comparison of two timers ignores their priorities.
InOrderOfCreation(list, place) ==
    \A i, j \in DOMAIN list : i < j => place[i] < place[j]

\* A canceled timer is passed over.
SkipCanceled(t) ==
    /\ Updating(t)
    /\ t \in canceled
    /\ itr' = itr + 1
    /\ UNCHANGED <<timers, toAdd, life, canceled, counters, phase, clock>>

\* update does not look at canceled first.
FireCanceled(t) ==
    /\ Updating(t)
    /\ elapsed[t] + dt >= Interval[t]
    /\ Elapse(t)
    /\ delta' = [delta EXCEPT ![t] = @ + dt]
    /\ told' = [told EXCEPT ![t] = @ + delta'[t]]
    /\ due' = [due EXCEPT ![t] = @ + Interval[t]]
    /\ phase' = "delegate"
    /\ UNCHANGED <<timers, toAdd, life, canceled, itr, clock>>

\* delta is not reset.
AgainKeepsDelta(t) ==
    /\ phase = "delegate"
    /\ timers[itr] = t
    /\ t \in Repeating \ canceled
    /\ phase' = "catchUp"
    /\ UNCHANGED <<timers, toAdd, life, canceled, counters, itr, clock>>

\* elapsed is not reset.
AgainKeepsElapsed(t) ==
    /\ phase = "delegate"
    /\ timers[itr] = t
    /\ t \in Repeating \ canceled
    /\ delta' = [delta EXCEPT ![t] = 0]
    /\ phase' = "update"
    /\ itr' = itr + 1
    /\ UNCHANGED <<timers, toAdd, life, canceled, elapsed, lived, told, due, clock>>

\* The loop is entered without an interval too.
AgainWithoutTest(t) ==
    /\ phase = "delegate"
    /\ timers[itr] = t
    /\ t \in Repeating \ canceled
    /\ delta' = [delta EXCEPT ![t] = 0]
    /\ phase' = "catchUp"
    /\ UNCHANGED <<timers, toAdd, life, canceled, elapsed, itr, lived, told, due, clock>>

\* The loop goes on while (elapsed > 0).
CatchUpBelowZero(t) ==
    /\ phase = "catchUp"
    /\ timers[itr] = t
    /\ elapsed' = [elapsed EXCEPT ![t] = @ - Interval[t]]
    /\ IF elapsed'[t] > 0
       THEN UNCHANGED <<phase, itr>>
       ELSE /\ phase' = "update"
            /\ itr' = itr + 1
    /\ UNCHANGED <<timers, toAdd, life, canceled, delta, lived, told, due, clock>>

\* One interval is subtracted, without a loop.
CatchUpOnce(t) ==
    /\ phase = "catchUp"
    /\ timers[itr] = t
    /\ elapsed' = [elapsed EXCEPT ![t] = @ - Interval[t]]
    /\ phase' = "update"
    /\ itr' = itr + 1
    /\ UNCHANGED <<timers, toAdd, life, canceled, delta, lived, told, due, clock>>

-----------------------------------------------------------------------------
(* What the game does, between two updates or in the delegate of a timer.   *)

Create(t) ==
    /\ GameRuns
    /\ life[t] = "fresh"
    /\ life' = [life EXCEPT ![t] = "live"]
    /\ toAdd' = Append(toAdd, t)
    /\ UNCHANGED <<timers, canceled, counters, phase, itr, clock>>

Cancel(t) ==
    /\ GameRuns
    /\ life[t] = "live"
    /\ canceled' = canceled \cup {t}
    /\ UNCHANGED <<timers, toAdd, life, counters, phase, itr, clock>>

\* The destructor looks for the timer in mTimers, then in mTimersToAdd.
Delete(t) ==
    /\ GameRuns
    /\ life[t] = "live"
    /\ phase = "delegate" => timers[itr] # t
    /\ life' = [life EXCEPT ![t] = "deleted"]
    /\ timers' = Without(timers, t)
    /\ toAdd' = IF t \in ToSet(timers) THEN toAdd ELSE Without(toAdd, t)
    /\ UNCHANGED <<canceled, counters, phase, itr, clock>>

CancelAllTimers ==
    /\ GameRuns
    /\ NULL \notin ToSet(timers)
    /\ life' = [t \in Timers |-> IF t \in ToSet(toAdd) THEN "deleted" ELSE life[t]]
    /\ toAdd' = <<>>
    /\ canceled' = canceled \cup ToSet(timers)
    /\ UNCHANGED <<timers, counters, phase, itr, clock>>

-----------------------------------------------------------------------------
(* HLTimerManager::update. *)

\* list::sort is stable; the later of two timers moves ahead only if its priority is
\* higher.
InOrder(list, place) ==
    \A i, j \in DOMAIN list :
        i < j => LET a == list[place[i]]
                     b == list[place[j]]
                 IN  \/ Priority[a] > Priority[b]
                     \/ Priority[a] = Priority[b] /\ place[i] < place[j]

\* A hole compares equal to everything, which is no ordering: a list with one may end
\* up in any order.
Sorts(list) ==
    {[i \in DOMAIN list |-> list[place[i]]] :
        place \in {p \in Bijection(DOMAIN list, DOMAIN list) :
                      NULL \notin ToSet(list) => InOrder(list, p)}}

BeginUpdate(d) ==
    /\ phase = "game"
    /\ now + d <= MaxTime
    /\ IF toAdd = <<>>
       THEN UNCHANGED <<timers, ordered>>
       ELSE /\ timers' \in Sorts(timers \o toAdd)
            /\ ordered' = (NULL \notin ToSet(timers \o toAdd))
    /\ toAdd' = <<>>
    /\ phase' = "update"
    /\ itr' = 1
    /\ dt' = d
    /\ now' = now + d
    /\ UNCHANGED <<life, canceled, counters>>

EraseHole ==
    /\ Updating(NULL)
    /\ timers' = RemoveAt(timers, itr)
    /\ UNCHANGED <<toAdd, life, canceled, counters, phase, itr, clock>>

DeleteCanceled(t) ==
    /\ Updating(t)
    /\ t \in canceled
    /\ life' = [life EXCEPT ![t] = "deleted"]
    /\ timers' = Without(timers, t)
    /\ itr' = itr + 1
    /\ UNCHANGED <<toAdd, canceled, counters, phase, clock>>

Tick(t) ==
    /\ Updating(t)
    /\ t \notin canceled
    /\ elapsed[t] + dt < Interval[t]
    /\ Elapse(t)
    /\ delta' = [delta EXCEPT ![t] = @ + dt]
    /\ itr' = itr + 1
    /\ UNCHANGED <<timers, toAdd, life, canceled, told, due, phase, clock>>

Fire(t) ==
    /\ Updating(t)
    /\ t \notin canceled
    /\ elapsed[t] + dt >= Interval[t]
    /\ Elapse(t)
    /\ delta' = [delta EXCEPT ![t] = @ + dt]
    /\ told' = [told EXCEPT ![t] = @ + delta'[t]]
    /\ due' = [due EXCEPT ![t] = @ + Interval[t]]
    /\ phase' = "delegate"
    /\ UNCHANGED <<timers, toAdd, life, canceled, itr, clock>>

\* The delegate returned.
Again(t) ==
    /\ phase = "delegate"
    /\ timers[itr] = t
    /\ t \in Repeating \ canceled
    /\ delta' = [delta EXCEPT ![t] = 0]
    /\ IF Interval[t] = 0
       THEN /\ elapsed' = [elapsed EXCEPT ![t] = 0]
            /\ phase' = "update"
            /\ itr' = itr + 1
       ELSE /\ phase' = "catchUp"
            /\ UNCHANGED <<elapsed, itr>>
    /\ UNCHANGED <<timers, toAdd, life, canceled, lived, told, due, clock>>

\* One round of do elapsed -= interval while (elapsed > interval).
CatchUp(t) ==
    /\ phase = "catchUp"
    /\ timers[itr] = t
    /\ elapsed' = [elapsed EXCEPT ![t] = @ - Interval[t]]
    /\ IF elapsed'[t] > Interval[t]
       THEN UNCHANGED <<phase, itr>>
       ELSE /\ phase' = "update"
            /\ itr' = itr + 1
    /\ UNCHANGED <<timers, toAdd, life, canceled, delta, lived, told, due, clock>>

Finish(t) ==
    /\ phase = "delegate"
    /\ timers[itr] = t
    /\ t \notin Repeating \ canceled
    /\ life' = [life EXCEPT ![t] = "deleted"]
    /\ timers' = Without(timers, t)
    /\ phase' = "update"
    /\ itr' = itr + 1
    /\ UNCHANGED <<toAdd, canceled, counters, clock>>

EndUpdate ==
    /\ phase = "update"
    /\ itr > Len(timers)
    /\ phase' = "game"
    /\ itr' = 0
    /\ UNCHANGED <<timers, toAdd, life, canceled, counters, clock>>

-----------------------------------------------------------------------------

Game ==
    \/ \E t \in Timers : Create(t) \/ Cancel(t) \/ Delete(t)
    \/ CancelAllTimers

Frame == \E d \in Deltas : BeginUpdate(d)

Update ==
    \/ EraseHole
    \/ EndUpdate
    \/ \E t \in Timers : DeleteCanceled(t) \/ Tick(t) \/ Fire(t)
    \/ \E t \in Timers : Again(t) \/ CatchUp(t) \/ Finish(t)

Next == Game \/ Frame \/ Update

Spec == Init /\ [][Next]_vars

\* The loop goes on and every delegate returns; the platform calls mainLoop again.
FairSpec == Spec /\ WF_vars(Update) /\ WF_vars(Frame)

-----------------------------------------------------------------------------
(* Properties. *)

\* The state is well formed.
TypeOK ==
    /\ timers \in Seq(Timers \cup {NULL})
    /\ toAdd \in Seq(Timers \cup {NULL})
    /\ life \in [Timers -> {"fresh", "live", "deleted"}]
    /\ canceled \in SUBSET Timers
    /\ elapsed \in [Timers -> Nat]
    /\ delta \in [Timers -> Nat]
    /\ phase \in Phases
    /\ itr \in Nat
    /\ dt \in Nat
    /\ ordered \in BOOLEAN
    /\ now \in Nat
    /\ lived \in [Timers -> Nat]
    /\ told \in [Timers -> Nat]
    /\ due \in [Timers -> Nat]

\* The timers in the two lists are those that are alive, and each is there once: a
\* timer that deletes itself in update, or is deleted by the game while its list is
\* iterated, leaves no dangling pointer, and none is updated twice in a frame.
EachOnce(list) ==
    \A i, j \in DOMAIN list : list[i] = list[j] => i = j \/ list[i] = NULL

OwnedOnce ==
    /\ \A t \in Timers : life[t] = "live" <=> t \in ToSet(timers) \cup ToSet(toAdd)
    /\ ToSet(timers) \cap ToSet(toAdd) \subseteq {NULL}
    /\ EachOnce(timers)
    /\ EachOnce(toAdd)

\* The object whose update called the delegate is still there when the delegate
\* returns, and its list position is still its own.
RunningTimerIsThere ==
    phase \in {"delegate", "catchUp"} => itr \in DOMAIN timers /\ timers[itr] # NULL

InDelegate(t) == phase = "delegate" /\ timers[itr] = t

\* A delegate is told of every bit of the time its timer lived, once: the deltas add up,
\* however the frames fall.
DeltasAddUp ==
    \A t \in Timers :
        life[t] = "live" => told[t] + (IF InDelegate(t) THEN 0 ELSE delta[t]) = lived[t]

\* A timer is never ahead of its time: n calls of the delegate take n intervals.
NeverAheadOfTime ==
    \A t \in Timers : due[t] <= lived[t]

\* A timer that fell behind by many intervals is called for at most one of them in the
\* next frame: the loop after the delegate drops the others.
BacklogIsDropped ==
    phase = "game" =>
        \A t \in Timers : life[t] = "live" => elapsed[t] <= Interval[t]

\* Timers are updated in the order of their priorities, whatever was added, deleted or
\* erased since the list was sorted, unless it was sorted with a hole in it.
PriorityOrder ==
    ordered => \A i, j \in DOMAIN timers :
        i < j /\ timers[i] # NULL /\ timers[j] # NULL =>
            Priority[timers[i]] >= Priority[timers[j]]

\* The delegate of a timer that was canceled is not called again, not even later in the
\* update in which another timer's delegate canceled it.
CanceledStaysSilent ==
    [][\A t \in canceled : due'[t] = due[t] /\ told'[t] = told[t]]_vars

\* A timer that was canceled is deleted: canceling is how a game frees a timer.
CanceledIsDeleted ==
    \A t \in Timers : (t \in canceled) ~> (life[t] = "deleted")

\* Every update ends, also for a timer without an interval and for one that is behind.
UpdateEnds == (phase = "update") ~> (phase = "game")
=============================================================================

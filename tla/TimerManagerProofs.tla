------------------------- MODULE TimerManagerProofs -------------------------
(***************************************************************************)
(* Proofs about TimerManager for any timers, intervals, priorities and     *)
(* frame times. Control says where update is in mTimers; on it rest the    *)
(* ownership of the timers and the accounts of the time they are told of.  *)
(***************************************************************************)
EXTENDS TimerManager, SequenceFacts

Slots == Timers \cup {NULL}

-----------------------------------------------------------------------------
(* What update, the sort and the destructor make of a list. *)

\* A destructor leaves a hole and moves nothing.
LEMMA WithoutKeepsPlaces ==
    ASSUME NEW list \in Seq(Slots), NEW t
    PROVE  /\ Without(list, t) \in Seq(Slots)
           /\ Len(Without(list, t)) = Len(list)
           /\ \A i \in 1..Len(list) :
                 Without(list, t)[i] = IF list[i] = t THEN NULL ELSE list[i]
<1>1. Len(list) \in Nat /\ DOMAIN list = 1..Len(list)
  OBVIOUS
<1>2. \A i \in 1..Len(list) : list[i] \in Slots
  OBVIOUS
<1>3. Without(list, t) = [i \in 1..Len(list) |-> IF list[i] = t THEN NULL ELSE list[i]]
  BY <1>1 DEF Without
<1>4. \A i \in 1..Len(list) : (IF list[i] = t THEN NULL ELSE list[i]) \in Slots
  BY <1>2 DEF Slots
<1>5. Without(list, t) \in Seq(Slots) /\ Len(Without(list, t)) = Len(list)
  BY <1>1, <1>3, <1>4, IsASeq
<1>q. QED
  BY <1>3, <1>5

\* A sort moves every entry to a place of its own.
LEMMA SortPermutes ==
    ASSUME NEW list \in Seq(Slots), NEW sorted \in Sorts(list)
    PROVE  /\ sorted \in Seq(Slots)
           /\ Len(sorted) = Len(list)
           /\ \E place \in [1..Len(list) -> 1..Len(list)] :
                 /\ \A i, j \in 1..Len(list) : place[i] = place[j] => i = j
                 /\ \A j \in 1..Len(list) : \E i \in 1..Len(list) : place[i] = j
                 /\ \A i \in 1..Len(list) : sorted[i] = list[place[i]]
                 /\ NULL \notin ToSet(list) => InOrder(list, place)
<1>1. Len(list) \in Nat /\ DOMAIN list = 1..Len(list)
  OBVIOUS
<1>2. PICK place \in Bijection(DOMAIN list, DOMAIN list) :
         /\ sorted = [i \in DOMAIN list |-> list[place[i]]]
         /\ NULL \notin ToSet(list) => InOrder(list, place)
  BY DEF Sorts
<1>3. /\ place \in [1..Len(list) -> 1..Len(list)]
      /\ \A i, j \in 1..Len(list) : place[i] = place[j] => i = j
      /\ \A j \in 1..Len(list) : \E i \in 1..Len(list) : place[i] = j
  BY <1>1, <1>2 DEF Bijection, Injection, Surjection, IsInjective
<1>4. sorted = [i \in 1..Len(list) |-> list[place[i]]]
  BY <1>1, <1>2
<1>5. \A i \in 1..Len(list) : list[place[i]] \in Slots
  BY <1>3
<1>6. sorted \in Seq(Slots) /\ Len(sorted) = Len(list)
  BY <1>1, <1>4, <1>5, IsASeq
<1>q. QED
  BY <1>2, <1>3, <1>4, <1>6

\* What these do to the timers a list holds, and that none of them makes two entries of
\* one timer.
LEMMA WithoutHolds ==
    ASSUME NEW list \in Seq(Slots), NEW t \in Timers
    PROVE  /\ \A u \in Timers : u \in ToSet(Without(list, t)) <=> u \in ToSet(list) /\ u # t
           /\ ToSet(Without(list, t)) \subseteq ToSet(list) \cup {NULL}
           /\ EachOnce(list) => EachOnce(Without(list, t))
<1> DEFINE new == Without(list, t)
<1>1. /\ new \in Seq(Slots)
      /\ Len(new) = Len(list)
      /\ \A i \in 1..Len(list) : new[i] = IF list[i] = t THEN NULL ELSE list[i]
  BY WithoutKeepsPlaces
<1>2. DOMAIN list = 1..Len(list) /\ DOMAIN new = 1..Len(list)
  BY <1>1
<1>3. /\ ToSet(list) = {list[i] : i \in 1..Len(list)}
      /\ ToSet(new) = {new[i] : i \in 1..Len(list)}
  BY <1>2 DEF ToSet
<1> HIDE DEF new
<1>4. \A u \in Timers : u \in ToSet(new) <=> u \in ToSet(list) /\ u # t
  BY <1>1, <1>3, TimersAssumption
<1>5. ToSet(new) \subseteq ToSet(list) \cup {NULL}
  BY <1>1, <1>3
<1>6. EachOnce(list) => EachOnce(new)
  BY <1>1, <1>2 DEF EachOnce
<1>q. QED
  BY <1>4, <1>5, <1>6 DEF new

LEMMA RemoveAtHolds ==
    ASSUME NEW list \in Seq(Slots), NEW n \in 1..Len(list), list[n] = NULL
    PROVE  /\ \A u \in Timers : u \in ToSet(RemoveAt(list, n)) <=> u \in ToSet(list)
           /\ ToSet(RemoveAt(list, n)) \subseteq ToSet(list)
           /\ EachOnce(list) => EachOnce(RemoveAt(list, n))
<1> DEFINE new == RemoveAt(list, n)
<1>1. /\ new \in Seq(Slots)
      /\ Len(new) = Len(list) - 1
      /\ \A i \in 1..(Len(list) - 1) : new[i] = IF i < n THEN list[i] ELSE list[i + 1]
  BY RemoveAtClosesGap
<1>2. DOMAIN list = 1..Len(list) /\ DOMAIN new = 1..(Len(list) - 1)
  BY <1>1
<1>3. /\ ToSet(list) = {list[i] : i \in 1..Len(list)}
      /\ ToSet(new) = {new[i] : i \in 1..(Len(list) - 1)}
  BY <1>2 DEF ToSet
<1>4. Len(list) \in Nat /\ n \in Nat
  OBVIOUS
<1> HIDE DEF new
<1>5. ToSet(new) \subseteq ToSet(list)
  BY <1>1, <1>3, <1>4
<1>6. \A u \in Timers : u \in ToSet(list) => u \in ToSet(new)
  <2> SUFFICES ASSUME NEW u \in Timers, NEW i \in 1..Len(list), u = list[i]
               PROVE  u \in ToSet(new)
    BY <1>3
  <2>1. i # n
    BY TimersAssumption
  <2>2. CASE i < n
    BY <1>1, <1>3, <1>4, <2>2
  <2>3. CASE i > n
    <3>1. i - 1 \in 1..(Len(list) - 1) /\ ~(i - 1 < n) /\ (i - 1) + 1 = i
      BY <1>4, <2>3
    <3>2. new[i - 1] = list[i]
      BY <1>1, <3>1
    <3>q. QED
      BY <1>3, <3>1, <3>2
  <2>q. QED
    BY <1>4, <2>1, <2>2, <2>3
<1>7. EachOnce(list) => EachOnce(new)
  <2> SUFFICES ASSUME EachOnce(list),
                      NEW i \in 1..(Len(list) - 1), NEW j \in 1..(Len(list) - 1),
                      new[i] = new[j], new[i] # NULL
               PROVE  i = j
    BY <1>2 DEF EachOnce
  <2> DEFINE was(k) == IF k < n THEN k ELSE k + 1
  <2>0. ASSUME NEW k \in 1..(Len(list) - 1)
        PROVE  was(k) \in 1..Len(list) /\ new[k] = list[was(k)]
    <3>1. k \in Nat /\ k <= Len(list) - 1 /\ k >= 1
      BY <1>4
    <3>0. new[k] = IF k < n THEN list[k] ELSE list[k + 1]
      BY <1>1
    <3>2. CASE k < n
      BY <1>4, <3>0, <3>1, <3>2
    <3>3. CASE ~(k < n)
      BY <1>4, <3>0, <3>1, <3>3
    <3>q. QED
      BY <3>2, <3>3
  <2>1. /\ was(i) \in 1..Len(list) /\ was(j) \in 1..Len(list)
        /\ new[i] = list[was(i)] /\ new[j] = list[was(j)]
    BY <2>0
  <2>2. was(i) = was(j)
    BY <1>2, <2>1 DEF EachOnce
  <2>q. QED
    BY <1>4, <2>2
<1>q. QED
  BY <1>5, <1>6, <1>7 DEF new

LEMMA SortHolds ==
    ASSUME NEW list \in Seq(Slots), NEW sorted \in Sorts(list)
    PROVE  /\ ToSet(sorted) = ToSet(list)
           /\ EachOnce(list) => EachOnce(sorted)
<1>1. sorted \in Seq(Slots) /\ Len(sorted) = Len(list)
  BY SortPermutes
<1>2. PICK place \in [1..Len(list) -> 1..Len(list)] :
         /\ \A i, j \in 1..Len(list) : place[i] = place[j] => i = j
         /\ \A j \in 1..Len(list) : \E i \in 1..Len(list) : place[i] = j
         /\ \A i \in 1..Len(list) : sorted[i] = list[place[i]]
         /\ NULL \notin ToSet(list) => InOrder(list, place)
  BY SortPermutes
<1>3. DOMAIN list = 1..Len(list) /\ DOMAIN sorted = 1..Len(list)
  BY <1>1
<1>4. ToSet(sorted) = ToSet(list)
  <2>1. /\ ToSet(list) = {list[i] : i \in 1..Len(list)}
        /\ ToSet(sorted) = {sorted[i] : i \in 1..Len(list)}
    BY <1>3 DEF ToSet
  <2>2. ToSet(sorted) \subseteq ToSet(list)
    BY <1>2, <2>1
  <2>3. ToSet(list) \subseteq ToSet(sorted)
    <3> SUFFICES ASSUME NEW j \in 1..Len(list) PROVE list[j] \in ToSet(sorted)
      BY <2>1
    <3>1. PICK i \in 1..Len(list) : place[i] = j
      BY <1>2
    <3>2. sorted[i] = list[j]
      BY <1>2, <3>1
    <3>q. QED
      BY <2>1, <3>2
  <2>q. QED
    BY <2>2, <2>3
<1>5. EachOnce(list) => EachOnce(sorted)
  <2> SUFFICES ASSUME EachOnce(list),
                      NEW i \in 1..Len(list), NEW j \in 1..Len(list),
                      sorted[i] = sorted[j], sorted[i] # NULL
               PROVE  i = j
    BY <1>1, <1>3 DEF EachOnce
  <2>1. /\ place[i] \in 1..Len(list) /\ sorted[i] = list[place[i]]
        /\ place[j] \in 1..Len(list) /\ sorted[j] = list[place[j]]
    BY <1>2
  <2>2. place[i] = place[j]
    BY <1>3, <2>1 DEF EachOnce
  <2>q. QED
    BY <1>2, <2>2
<1>q. QED
  BY <1>4, <1>5

LEMMA ConcatHolds ==
    ASSUME NEW a \in Seq(Slots), NEW b \in Seq(Slots),
           EachOnce(a), EachOnce(b), ToSet(a) \cap ToSet(b) \subseteq {NULL}
    PROVE  /\ ToSet(a \o b) = ToSet(a) \cup ToSet(b)
           /\ EachOnce(a \o b)
<1>1. Len(a) \in Nat /\ Len(b) \in Nat
  OBVIOUS
<1>2. /\ a \o b \in Seq(Slots)
      /\ Len(a \o b) = Len(a) + Len(b)
      /\ \A i \in 1..(Len(a) + Len(b)) :
            (a \o b)[i] = IF i <= Len(a) THEN a[i] ELSE b[i - Len(a)]
  BY ConcatProperties
<1>3. /\ DOMAIN a = 1..Len(a)
      /\ DOMAIN b = 1..Len(b)
      /\ DOMAIN (a \o b) = 1..(Len(a) + Len(b))
  BY <1>2
<1>4. /\ \A i \in 1..Len(a) : (a \o b)[i] = a[i]
      /\ \A i \in 1..Len(b) : (a \o b)[Len(a) + i] = b[i]
  BY <1>1, <1>2
<1>5. /\ ToSet(a) = {a[i] : i \in 1..Len(a)}
      /\ ToSet(b) = {b[i] : i \in 1..Len(b)}
      /\ ToSet(a \o b) = {(a \o b)[i] : i \in 1..(Len(a) + Len(b))}
  BY <1>3 DEF ToSet
<1>6. ToSet(a \o b) \subseteq ToSet(a) \cup ToSet(b)
  BY <1>1, <1>2, <1>5
<1>7. ToSet(a) \subseteq ToSet(a \o b)
  BY <1>1, <1>4, <1>5
<1>8. ToSet(b) \subseteq ToSet(a \o b)
  <2> SUFFICES ASSUME NEW i \in 1..Len(b) PROVE b[i] \in ToSet(a \o b)
    BY <1>5
  <2>1. Len(a) + i \in 1..(Len(a) + Len(b))
    BY <1>1
  <2>q. QED
    BY <1>4, <1>5, <2>1
<1>9. EachOnce(a \o b)
  <2> SUFFICES ASSUME NEW i \in 1..(Len(a) + Len(b)), NEW j \in 1..(Len(a) + Len(b)),
                      (a \o b)[i] = (a \o b)[j], (a \o b)[i] # NULL
               PROVE  i = j
    BY <1>3 DEF EachOnce
  <2>1. CASE i <= Len(a) /\ j <= Len(a)
    BY <1>1, <1>2, <1>3, <2>1 DEF EachOnce
  <2>2. CASE i > Len(a) /\ j > Len(a)
    <3>1. /\ i - Len(a) \in 1..Len(b)
          /\ j - Len(a) \in 1..Len(b)
      BY <1>1, <2>2
    <3>2. b[i - Len(a)] = b[j - Len(a)] /\ b[i - Len(a)] # NULL
      BY <1>1, <1>2, <2>2
    <3>3. i - Len(a) = j - Len(a)
      BY <1>3, <3>1, <3>2 DEF EachOnce
    <3>q. QED
      BY <1>1, <3>3
  <2>3. CASE i <= Len(a) /\ j > Len(a)
    <3>1. (a \o b)[i] \in ToSet(a)
      BY <1>1, <1>4, <1>5, <2>3
    <3>2. (a \o b)[j] \in ToSet(b)
      <4>1. j - Len(a) \in 1..Len(b)
        BY <1>1, <2>3
      <4>q. QED
        BY <1>1, <1>2, <1>5, <2>3, <4>1
    <3>q. QED
      BY <3>1, <3>2
  <2>4. CASE i > Len(a) /\ j <= Len(a)
    <3>1. (a \o b)[j] \in ToSet(a)
      BY <1>1, <1>4, <1>5, <2>4
    <3>2. (a \o b)[i] \in ToSet(b)
      <4>1. i - Len(a) \in 1..Len(b)
        BY <1>1, <2>4
      <4>q. QED
        BY <1>1, <1>2, <1>5, <2>4, <4>1
    <3>q. QED
      BY <3>1, <3>2
  <2>q. QED
    BY <1>1, <2>1, <2>2, <2>3, <2>4
<1>q. QED
  BY <1>6, <1>7, <1>8, <1>9

LEMMA AppendHolds ==
    ASSUME NEW list \in Seq(Slots), NEW t \in Timers
    PROVE  /\ ToSet(Append(list, t)) = ToSet(list) \cup {t}
           /\ EachOnce(list) /\ t \notin ToSet(list) => EachOnce(Append(list, t))
<1> DEFINE new == Append(list, t)
<1>1. /\ new \in Seq(Slots)
      /\ Len(list) \in Nat
      /\ Len(new) = Len(list) + 1
      /\ \A i \in 1..Len(list) : new[i] = list[i]
      /\ new[Len(list) + 1] = t
  BY AppendToSeq DEF Slots
<1>2. DOMAIN list = 1..Len(list) /\ DOMAIN new = 1..(Len(list) + 1)
  BY <1>1
<1>3. /\ ToSet(list) = {list[i] : i \in 1..Len(list)}
      /\ ToSet(new) = {new[i] : i \in 1..(Len(list) + 1)}
  BY <1>2 DEF ToSet
<1> HIDE DEF new
<1>4. ToSet(new) = ToSet(list) \cup {t}
  <2>1. ToSet(new) \subseteq ToSet(list) \cup {t}
    BY <1>1, <1>3
  <2>2. ToSet(list) \subseteq ToSet(new)
    BY <1>1, <1>3
  <2>3. t \in ToSet(new)
    BY <1>1, <1>3
  <2>q. QED
    BY <2>1, <2>2, <2>3
<1>5. EachOnce(list) /\ t \notin ToSet(list) => EachOnce(new)
  BY <1>1, <1>2, <1>3 DEF EachOnce
<1>q. QED
  BY <1>4, <1>5 DEF new

-----------------------------------------------------------------------------
(* Where update is. *)

Position ==
    /\ phase = "game" => itr = 0
    /\ phase # "game" => itr >= 1
    /\ RunningTimerIsThere
    /\ phase \in {"delegate", "catchUp"} => elapsed[timers[itr]] >= Interval[timers[itr]]

Control == TypeOK /\ Position

LEMMA ControlInit == Init => Control
<1> SUFFICES ASSUME Init PROVE Control
  OBVIOUS
<1> USE DEF Init
<1>1. timers \in Seq(Slots) /\ toAdd \in Seq(Slots)
  BY EmptySeq
<1>2. TypeOK
  BY <1>1 DEF TypeOK, Slots, Phases
<1>3. Position
  BY DEF Position, RunningTimerIsThere
<1>q. QED
  BY <1>2, <1>3 DEF Control

LEMMA ControlCreate ==
    ASSUME Control, NEW t \in Timers, Create(t)
    PROVE  Control'
<1> USE DEF Control, Create, counters, clock
<1>1. toAdd' \in Seq(Slots)
  BY AppendToSeq DEF TypeOK, Slots
<1>2. TypeOK'
  BY <1>1 DEF TypeOK, Slots
<1>3. Position'
  BY DEF Position, RunningTimerIsThere
<1>q. QED
  BY <1>2, <1>3

LEMMA ControlCancel ==
    ASSUME Control, NEW t \in Timers, Cancel(t)
    PROVE  Control'
  BY DEF Control, Cancel, counters, clock, TypeOK, Position, RunningTimerIsThere

LEMMA ControlDelete ==
    ASSUME Control, NEW t \in Timers, Delete(t)
    PROVE  Control'
<1> USE DEF Control, Delete, counters, clock
<1>1. /\ timers \in Seq(Slots)
      /\ toAdd \in Seq(Slots)
  BY DEF TypeOK, Slots
<1>2. /\ timers' \in Seq(Slots)
      /\ Len(timers') = Len(timers)
      /\ \A i \in 1..Len(timers) : timers'[i] = IF timers[i] = t THEN NULL ELSE timers[i]
  BY <1>1, WithoutKeepsPlaces
<1>3. toAdd' \in Seq(Slots)
  BY <1>1, WithoutKeepsPlaces
<1>4. TypeOK'
  BY <1>2, <1>3 DEF TypeOK, Slots
<1>5. Position'
  BY <1>1, <1>2 DEF Position, RunningTimerIsThere, GameRuns
<1>q. QED
  BY <1>4, <1>5

LEMMA ControlCancelAll ==
    ASSUME Control, CancelAllTimers
    PROVE  Control'
<1> USE DEF Control, CancelAllTimers, counters, clock
<1>1. ToSet(timers) \subseteq Timers
  BY ToSetOfSeq DEF TypeOK
<1>2. toAdd' \in Seq(Slots)
  BY EmptySeq
<1>3. TypeOK'
  BY <1>1, <1>2 DEF TypeOK, Slots
<1>4. Position'
  BY DEF Position, RunningTimerIsThere
<1>q. QED
  BY <1>3, <1>4

LEMMA ControlBeginUpdate ==
    ASSUME Control, NEW d \in Deltas, BeginUpdate(d)
    PROVE  Control'
<1> USE DEF Control, BeginUpdate, counters
<1>1. timers \o toAdd \in Seq(Slots)
  BY ConcatProperties DEF TypeOK, Slots
<1>2. timers' \in Seq(Slots) /\ ordered' \in BOOLEAN
  BY <1>1, SortPermutes DEF TypeOK, Slots
<1>3. toAdd' \in Seq(Slots)
  BY EmptySeq
<1>4. d \in Nat
  BY TimersAssumption
<1>5. TypeOK'
  BY <1>2, <1>3, <1>4 DEF TypeOK, Slots, Phases
<1>6. Position'
  BY DEF Position, RunningTimerIsThere
<1>q. QED
  BY <1>5, <1>6

LEMMA ControlEraseHole ==
    ASSUME Control, EraseHole
    PROVE  Control'
<1> USE DEF Control, EraseHole, Updating, counters, clock
<1>1. timers' \in Seq(Slots)
  <2>1. itr \in 1..Len(timers)
    BY DEF TypeOK, Position
  <2>q. QED
    BY <2>1, RemoveAtClosesGap DEF TypeOK, Slots
<1>2. TypeOK'
  BY <1>1 DEF TypeOK, Slots
<1>3. Position'
  BY DEF Position, RunningTimerIsThere
<1>q. QED
  BY <1>2, <1>3

LEMMA ControlDeleteCanceled ==
    ASSUME Control, NEW t \in Timers, DeleteCanceled(t)
    PROVE  Control'
<1> USE DEF Control, DeleteCanceled, Updating, counters, clock
<1>1. timers' \in Seq(Slots)
  BY WithoutKeepsPlaces DEF TypeOK, Slots
<1>2. TypeOK'
  BY <1>1 DEF TypeOK, Slots
<1>3. Position'
  BY DEF Position, RunningTimerIsThere, TypeOK
<1>q. QED
  BY <1>2, <1>3

LEMMA AddToCount ==
    ASSUME NEW f \in [Timers -> Nat], NEW t \in Timers, NEW n \in Nat
    PROVE  /\ [f EXCEPT ![t] = @ + n] \in [Timers -> Nat]
           /\ [f EXCEPT ![t] = @ + n][t] = f[t] + n
<1>1. f[t] + n \in Nat
  OBVIOUS
<1>q. QED
  BY <1>1

LEMMA ControlTick ==
    ASSUME Control, NEW t \in Timers, Tick(t)
    PROVE  Control'
<1>1. /\ elapsed \in [Timers -> Nat] /\ lived \in [Timers -> Nat]
      /\ delta \in [Timers -> Nat] /\ dt \in Nat /\ itr \in Nat
  BY DEF Control, TypeOK
<1>2. /\ elapsed' = [elapsed EXCEPT ![t] = @ + dt]
      /\ lived' = [lived EXCEPT ![t] = @ + dt]
      /\ delta' = [delta EXCEPT ![t] = @ + dt]
      /\ itr' = itr + 1
      /\ phase = "update" /\ phase' = "update"
      /\ UNCHANGED <<timers, toAdd, life, canceled, told, due, dt, now, ordered>>
  BY DEF Tick, Elapse, Updating, clock
<1>3. /\ elapsed' \in [Timers -> Nat] /\ lived' \in [Timers -> Nat]
      /\ delta' \in [Timers -> Nat] /\ itr' \in Nat
  BY <1>1, <1>2, AddToCount
<1>4. TypeOK'
  BY <1>2, <1>3 DEF Control, TypeOK
<1>5. Position'
  BY <1>1, <1>2 DEF Control, Position, RunningTimerIsThere
<1>q. QED
  BY <1>4, <1>5 DEF Control

LEMMA ControlFire ==
    ASSUME Control, NEW t \in Timers, Fire(t)
    PROVE  Control'
<1>1. /\ elapsed \in [Timers -> Nat] /\ lived \in [Timers -> Nat]
      /\ delta \in [Timers -> Nat] /\ told \in [Timers -> Nat] /\ due \in [Timers -> Nat]
      /\ dt \in Nat /\ itr \in Nat /\ Interval[t] \in Nat
  BY TimersAssumption DEF Control, TypeOK
<1>2. /\ elapsed' = [elapsed EXCEPT ![t] = @ + dt]
      /\ lived' = [lived EXCEPT ![t] = @ + dt]
      /\ delta' = [delta EXCEPT ![t] = @ + dt]
      /\ told' = [told EXCEPT ![t] = @ + delta'[t]]
      /\ due' = [due EXCEPT ![t] = @ + Interval[t]]
      /\ phase = "update" /\ phase' = "delegate"
      /\ itr <= Len(timers) /\ timers[itr] = t
      /\ elapsed[t] + dt >= Interval[t]
      /\ UNCHANGED <<timers, toAdd, life, canceled, itr, dt, now, ordered>>
  BY DEF Fire, Elapse, Updating, clock
<1>3. /\ elapsed' \in [Timers -> Nat] /\ lived' \in [Timers -> Nat]
      /\ delta' \in [Timers -> Nat] /\ due' \in [Timers -> Nat]
      /\ elapsed'[t] = elapsed[t] + dt
  BY <1>1, <1>2, AddToCount
<1>4. told' \in [Timers -> Nat]
  <2>1. delta'[t] \in Nat
    BY <1>3
  <2>q. QED
    BY <1>1, <1>2, <2>1, AddToCount
<1>5. TypeOK'
  BY <1>2, <1>3, <1>4 DEF Control, TypeOK, Phases
<1>6. Position'
  <2>1. itr \in DOMAIN timers /\ timers[itr] # NULL
    BY <1>1, <1>2, TimersAssumption DEF Control, TypeOK, Position
  <2>2. elapsed'[timers[itr]] >= Interval[timers[itr]]
    BY <1>2, <1>3
  <2>q. QED
    BY <1>2, <2>1, <2>2 DEF Control, Position, RunningTimerIsThere
<1>q. QED
  BY <1>5, <1>6 DEF Control

LEMMA ControlAgain ==
    ASSUME Control, NEW t \in Timers, Again(t)
    PROVE  Control'
<1> USE DEF Control, Again, clock
<1>1. TypeOK'
  <2>0. /\ delta' = [delta EXCEPT ![t] = 0]
        /\ elapsed' = [elapsed EXCEPT ![t] = 0] \/ elapsed' = elapsed
        /\ delta \in [Timers -> Nat] /\ elapsed \in [Timers -> Nat]
    BY DEF TypeOK
  <2>1. delta' \in [Timers -> Nat] /\ elapsed' \in [Timers -> Nat]
    <3> HIDE DEF Again, Control
    <3>q. QED
      BY <2>0
  <2>2. itr' \in Nat /\ phase' \in Phases
    BY DEF TypeOK, Phases
  <2>3. UNCHANGED <<timers, toAdd, life, canceled, lived, told, due, dt, now, ordered>>
    OBVIOUS
  <2> HIDE DEF Again
  <2>q. QED
    BY <2>1, <2>2, <2>3 DEF TypeOK
<1>2. Position'
  <2>1. CASE Interval[t] = 0
    BY <2>1 DEF Position, RunningTimerIsThere, TypeOK
  <2>2. CASE Interval[t] # 0
    BY <2>2 DEF Position, RunningTimerIsThere
  <2>q. QED
    BY <2>1, <2>2
<1>q. QED
  BY <1>1, <1>2

LEMMA ControlCatchUp ==
    ASSUME Control, NEW t \in Timers, CatchUp(t)
    PROVE  Control'
<1> USE DEF Control, CatchUp, clock
<1>1. elapsed[t] \in Nat /\ Interval[t] \in Nat /\ elapsed[t] >= Interval[t]
  BY TimersAssumption DEF TypeOK, Position
<1>2. elapsed' \in [Timers -> Nat] /\ elapsed'[t] = elapsed[t] - Interval[t]
  BY <1>1 DEF TypeOK
<1>3. TypeOK'
  BY <1>2, SMTT(30) DEF TypeOK, Phases
<1>4. timers' = timers /\ timers[itr] = t /\ phase = "catchUp" /\ itr \in Nat
  BY DEF TypeOK
<1>5. CASE elapsed'[t] > Interval[t]
  <2>1. itr' = itr /\ phase' = "catchUp"
    BY <1>4, <1>5
  <2>2. elapsed'[timers'[itr']] >= Interval[timers'[itr']]
    BY <1>1, <1>2, <1>4, <1>5, <2>1
  <2> HIDE DEF CatchUp
  <2>q. QED
    BY <1>3, <1>4, <2>1, <2>2 DEF Position, RunningTimerIsThere
<1>6. CASE ~(elapsed'[t] > Interval[t])
  <2>1. itr' = itr + 1 /\ phase' = "update"
    BY <1>6
  <2> HIDE DEF CatchUp
  <2>q. QED
    BY <1>3, <1>4, <2>1 DEF Position, RunningTimerIsThere
<1>q. QED
  BY <1>3, <1>5, <1>6

LEMMA ControlFinish ==
    ASSUME Control, NEW t \in Timers, Finish(t)
    PROVE  Control'
<1> USE DEF Control, Finish, counters, clock
<1>1. timers' \in Seq(Slots)
  BY WithoutKeepsPlaces DEF TypeOK, Slots
<1>2. TypeOK'
  BY <1>1 DEF TypeOK, Slots, Phases
<1>3. Position'
  BY DEF Position, RunningTimerIsThere, TypeOK
<1>q. QED
  BY <1>2, <1>3

LEMMA ControlEndUpdate ==
    ASSUME Control, EndUpdate
    PROVE  Control'
  BY DEF Control, EndUpdate, counters, clock, TypeOK, Phases, Position, RunningTimerIsThere

LEMMA ControlNext == Control /\ [Next]_vars => Control'
<1> SUFFICES ASSUME Control, [Next]_vars PROVE Control'
  OBVIOUS
<1>1. CASE Game
  BY <1>1, ControlCreate, ControlCancel, ControlDelete, ControlCancelAll DEF Game
<1>2. CASE Frame
  BY <1>2, ControlBeginUpdate DEF Frame
<1>3. CASE Update
  <2>1. CASE EraseHole \/ EndUpdate
    BY <2>1, ControlEraseHole, ControlEndUpdate
  <2>2. CASE \E t \in Timers : DeleteCanceled(t) \/ Tick(t) \/ Fire(t)
    BY <2>2, ControlDeleteCanceled, ControlTick, ControlFire
  <2>3. CASE \E t \in Timers : Again(t) \/ CatchUp(t) \/ Finish(t)
    BY <2>3, ControlAgain, ControlCatchUp, ControlFinish
  <2>q. QED
    BY <1>3, <2>1, <2>2, <2>3 DEF Update
<1>4. CASE UNCHANGED vars
  BY <1>4 DEF Control, TypeOK, Position, RunningTimerIsThere, vars
<1>q. QED
  BY <1>1, <1>2, <1>3, <1>4 DEF Next

\* The lists, the clocks and the accounts of the timers are well formed: above all no
\* elapsed time becomes negative in the loop that subtracts intervals from it.
THEOREM TypeCorrect == Spec => []TypeOK
<1>1. Init => Control
  BY ControlInit
<1>2. Control /\ [Next]_vars => Control'
  BY ControlNext
<1>3. Control => TypeOK
  BY DEF Control
<1>q. QED
  BY <1>1, <1>2, <1>3, PTL DEF Spec

\* When a delegate returns, the timer that called it is still at its place in mTimers,
\* whatever the delegate created, canceled or deleted.
THEOREM RunningTimerStays == Spec => []RunningTimerIsThere
<1>1. Init => Control
  BY ControlInit
<1>2. Control /\ [Next]_vars => Control'
  BY ControlNext
<1>3. Control => RunningTimerIsThere
  BY DEF Control, Position
<1>q. QED
  BY <1>1, <1>2, <1>3, PTL DEF Spec

-----------------------------------------------------------------------------
(* The two lists own the timers. *)

Owned == Control /\ OwnedOnce

LEMMA OwnedInit == Init => OwnedOnce
  BY DEF Init, OwnedOnce, EachOnce, ToSet

LEMMA OwnedCreate ==
    ASSUME Owned, NEW t \in Timers, Create(t)
    PROVE  OwnedOnce'
<1> USE DEF Owned, Create
<1>1. toAdd \in Seq(Slots) /\ t \notin ToSet(timers) /\ t \notin ToSet(toAdd)
  BY DEF Control, TypeOK, Slots, OwnedOnce
<1>2. ToSet(toAdd') = ToSet(toAdd) \cup {t} /\ EachOnce(toAdd')
  BY <1>1, AppendHolds DEF OwnedOnce
<1>3. \A u \in Timers : life'[u] = IF u = t THEN "live" ELSE life[u]
  BY DEF Control, TypeOK
<1> HIDE DEF Create
<1>4. timers' = timers
  BY DEF Create
<1>q. QED
  BY <1>1, <1>2, <1>3, <1>4 DEF OwnedOnce

LEMMA OwnedDelete ==
    ASSUME Owned, NEW t \in Timers, Delete(t)
    PROVE  OwnedOnce'
<1> USE DEF Owned, Delete
<1>1. timers \in Seq(Slots) /\ toAdd \in Seq(Slots)
  BY DEF Control, TypeOK, Slots
<1>2. /\ \A u \in Timers : u \in ToSet(timers') <=> u \in ToSet(timers) /\ u # t
      /\ ToSet(timers') \subseteq ToSet(timers) \cup {NULL}
      /\ EachOnce(timers')
  BY <1>1, WithoutHolds DEF OwnedOnce
<1>3. /\ \A u \in Timers : u \in ToSet(toAdd') <=> u \in ToSet(toAdd) /\ u # t
      /\ ToSet(toAdd') \subseteq ToSet(toAdd) \cup {NULL}
      /\ EachOnce(toAdd')
  <2>1. CASE t \in ToSet(timers)
    <3>1. t \notin ToSet(toAdd)
      BY <2>1, TimersAssumption DEF OwnedOnce
    <3>q. QED
      BY <2>1, <3>1 DEF OwnedOnce
  <2>2. CASE t \notin ToSet(timers)
    BY <1>1, <2>2, WithoutHolds DEF OwnedOnce
  <2>q. QED
    BY <2>1, <2>2
<1>4. \A u \in Timers : life'[u] = IF u = t THEN "deleted" ELSE life[u]
  BY DEF Control, TypeOK
<1> HIDE DEF Delete
<1>q. QED
  BY <1>2, <1>3, <1>4 DEF OwnedOnce

LEMMA OwnedCancelAll ==
    ASSUME Owned, CancelAllTimers
    PROVE  OwnedOnce'
<1> USE DEF Owned, CancelAllTimers
<1>1. ToSet(toAdd') = {} /\ EachOnce(toAdd')
  BY DEF ToSet, EachOnce
<1>2. timers' = timers
  OBVIOUS
<1>3. \A u \in Timers : life'[u] = IF u \in ToSet(toAdd) THEN "deleted" ELSE life[u]
  OBVIOUS
<1>4. \A u \in Timers : u \in ToSet(timers) => u \notin ToSet(toAdd)
  BY TimersAssumption DEF OwnedOnce
<1> HIDE DEF CancelAllTimers
<1>q. QED
  BY <1>1, <1>2, <1>3, <1>4 DEF OwnedOnce

LEMMA OwnedBeginUpdate ==
    ASSUME Owned, NEW d \in Deltas, BeginUpdate(d)
    PROVE  OwnedOnce'
<1> USE DEF Owned, BeginUpdate
<1>1. timers \in Seq(Slots) /\ toAdd \in Seq(Slots)
  BY DEF Control, TypeOK, Slots
<1>2. ToSet(toAdd') = {} /\ EachOnce(toAdd')
  BY DEF ToSet, EachOnce
<1>3. ToSet(timers') = ToSet(timers) \cup ToSet(toAdd) /\ EachOnce(timers')
  <2>1. CASE toAdd = <<>>
    BY <2>1 DEF OwnedOnce, ToSet
  <2>2. CASE toAdd # <<>>
    <3>1. /\ timers \o toAdd \in Seq(Slots)
          /\ ToSet(timers \o toAdd) = ToSet(timers) \cup ToSet(toAdd)
          /\ EachOnce(timers \o toAdd)
      BY <1>1, ConcatHolds, ConcatProperties DEF OwnedOnce
    <3>q. QED
      BY <2>2, <3>1, SortHolds
  <2>q. QED
    BY <2>1, <2>2
<1>4. life' = life
  BY DEF counters
<1> HIDE DEF BeginUpdate
<1>q. QED
  BY <1>2, <1>3, <1>4 DEF OwnedOnce

LEMMA OwnedEraseHole ==
    ASSUME Owned, EraseHole
    PROVE  OwnedOnce'
<1> USE DEF Owned, EraseHole
<1>1. /\ timers \in Seq(Slots)
      /\ itr \in 1..Len(timers)
      /\ timers[itr] = NULL
  BY DEF Control, TypeOK, Slots, Position, Updating
<1>2. /\ \A u \in Timers : u \in ToSet(timers') <=> u \in ToSet(timers)
      /\ ToSet(timers') \subseteq ToSet(timers)
      /\ EachOnce(timers')
  BY <1>1, RemoveAtHolds DEF OwnedOnce
<1>3. life' = life /\ toAdd' = toAdd
  OBVIOUS
<1> HIDE DEF EraseHole
<1>q. QED
  BY <1>2, <1>3 DEF OwnedOnce

\* update deletes the timer at its position.
LEMMA OwnedSelfDelete ==
    ASSUME Owned, NEW t \in Timers,
           itr \in 1..Len(timers), timers[itr] = t,
           timers' = Without(timers, t), toAdd' = toAdd,
           life' = [life EXCEPT ![t] = "deleted"]
    PROVE  OwnedOnce'
<1> USE DEF Owned
<1>1. timers \in Seq(Slots) /\ t \in ToSet(timers)
  BY DEF Control, TypeOK, Slots, ToSet
<1>2. t \notin ToSet(toAdd)
  BY <1>1, TimersAssumption DEF OwnedOnce
<1>3. /\ \A u \in Timers : u \in ToSet(timers') <=> u \in ToSet(timers) /\ u # t
      /\ ToSet(timers') \subseteq ToSet(timers) \cup {NULL}
      /\ EachOnce(timers')
  BY <1>1, WithoutHolds DEF OwnedOnce
<1>4. \A u \in Timers : life'[u] = IF u = t THEN "deleted" ELSE life[u]
  BY DEF Control, TypeOK
<1>q. QED
  BY <1>2, <1>3, <1>4 DEF OwnedOnce

LEMMA OwnedNext == Owned /\ [Next]_vars => OwnedOnce'
<1> SUFFICES ASSUME Owned, [Next]_vars PROVE OwnedOnce'
  OBVIOUS
<1>0. /\ phase = "update" /\ itr <= Len(timers) => itr \in 1..Len(timers)
      /\ phase = "delegate" => itr \in 1..Len(timers)
  BY DEF Owned, Control, TypeOK, Position, RunningTimerIsThere
<1>1. CASE UNCHANGED <<timers, toAdd, life>>
  BY <1>1 DEF Owned, OwnedOnce
<1>2. CASE Game
  <2>1. ASSUME NEW t \in Timers, Cancel(t) PROVE OwnedOnce'
    BY <1>1, <2>1 DEF Cancel
  <2>q. QED
    BY <1>2, <2>1, OwnedCreate, OwnedDelete, OwnedCancelAll DEF Game
<1>3. CASE Frame
  BY <1>3, OwnedBeginUpdate DEF Frame
<1>4. CASE Update
  <2>1. CASE EraseHole
    BY <2>1, OwnedEraseHole
  <2>2. CASE EndUpdate
    BY <1>1, <2>2 DEF EndUpdate
  <2>3. ASSUME NEW t \in Timers, DeleteCanceled(t) PROVE OwnedOnce'
    BY <1>0, <2>3, OwnedSelfDelete DEF DeleteCanceled, Updating
  <2>4. ASSUME NEW t \in Timers, Finish(t) PROVE OwnedOnce'
    BY <1>0, <2>4, OwnedSelfDelete DEF Finish
  <2>5. ASSUME NEW t \in Timers, Tick(t) \/ Fire(t) PROVE OwnedOnce'
    BY <1>1, <2>5 DEF Tick, Fire
  <2>6. ASSUME NEW t \in Timers, Again(t) \/ CatchUp(t) PROVE OwnedOnce'
    BY <1>1, <2>6 DEF Again, CatchUp
  <2>q. QED
    BY <1>4, <2>1, <2>2, <2>3, <2>4, <2>5, <2>6 DEF Update
<1>5. CASE UNCHANGED vars
  BY <1>1, <1>5 DEF vars
<1>q. QED
  BY <1>2, <1>3, <1>4, <1>5 DEF Next

\* The two lists hold exactly the timers that are alive, each of them once.
THEOREM TimersAreOwnedOnce == Spec => []OwnedOnce
<1>1. Init => Owned
  BY ControlInit, OwnedInit DEF Owned
<1>2. Owned /\ [Next]_vars => Owned'
  BY ControlNext, OwnedNext DEF Owned
<1>3. Owned => OwnedOnce
  BY DEF Owned
<1>q. QED
  BY <1>1, <1>2, <1>3, PTL DEF Spec

-----------------------------------------------------------------------------
(* The accounts of the time. *)

\* The timer whose update is under way.
AtWork(t) == phase \in {"delegate", "catchUp"} /\ timers[itr] = t

\* While a timer is at work the interval it is called for is still in its elapsed time.
Accounts ==
    \A t \in Timers :
        /\ due[t] <= lived[t]
        /\ life[t] # "deleted" =>
              /\ told[t] + (IF InDelegate(t) THEN 0 ELSE delta[t]) = lived[t]
              /\ AtWork(t) => due[t] + elapsed[t] <= lived[t] + Interval[t]
              /\ ~AtWork(t) => due[t] + elapsed[t] <= lived[t] /\ elapsed[t] <= Interval[t]

\* All numbers are natural.
LEMMA Numbers ==
    ASSUME Control, NEW t \in Timers
    PROVE  /\ elapsed[t] \in Nat /\ delta[t] \in Nat /\ lived[t] \in Nat
           /\ told[t] \in Nat /\ due[t] \in Nat /\ Interval[t] \in Nat /\ dt \in Nat
<1>1. Interval[t] \in Nat
  BY TimersAssumption
<1>q. QED
  BY <1>1 DEF Control, TypeOK

LEMMA AccountsInit == Init => Accounts
<1> SUFFICES ASSUME Init PROVE Accounts
  OBVIOUS
<1>1. \A t \in Timers : Interval[t] \in Nat
  BY TimersAssumption
<1>q. QED
  BY <1>1 DEF Init, Accounts, InDelegate, AtWork

\* A step that leaves the counters alone and starts no work.
LEMMA AccountsSame ==
    ASSUME Accounts, UNCHANGED counters,
           \A t \in Timers : life'[t] # "deleted" =>
               /\ life[t] # "deleted"
               /\ AtWork(t)' <=> AtWork(t)
               /\ InDelegate(t)' <=> InDelegate(t)
    PROVE  Accounts'
<1> SUFFICES ASSUME NEW t \in Timers
             PROVE  /\ due'[t] <= lived'[t]
                    /\ life'[t] # "deleted" =>
                        /\ told'[t] + (IF InDelegate(t)' THEN 0 ELSE delta'[t]) = lived'[t]
                        /\ AtWork(t)' => due'[t] + elapsed'[t] <= lived'[t] + Interval[t]
                        /\ ~AtWork(t)' => /\ due'[t] + elapsed'[t] <= lived'[t]
                                          /\ elapsed'[t] <= Interval[t]
  BY DEF Accounts
<1>1. UNCHANGED <<elapsed, delta, lived, told, due>>
  BY DEF counters
<1>q. QED
  BY <1>1 DEF Accounts

LEMMA AccountsGame ==
    ASSUME Owned, Accounts, Game
    PROVE  Accounts'
<1>1. ASSUME NEW t \in Timers, Create(t) PROVE Accounts'
  BY <1>1, AccountsSame DEF Owned, Control, TypeOK, Create, AtWork, InDelegate
<1>2. ASSUME NEW t \in Timers, Cancel(t) PROVE Accounts'
  BY <1>2, AccountsSame DEF Cancel, AtWork, InDelegate
<1>3. ASSUME NEW t \in Timers, Delete(t) PROVE Accounts'
  <2>a. timers \in Seq(Slots)
    BY DEF Owned, Control, TypeOK, Slots
  <2>b. timers' = Without(timers, t)
    BY <1>3 DEF Delete
  <2>1. \A i \in 1..Len(timers) : timers'[i] = IF timers[i] = t THEN NULL ELSE timers[i]
    BY <2>a, <2>b, WithoutKeepsPlaces
  <2>2. phase' = phase /\ itr' = itr
    BY <1>3 DEF Delete
  <2>3. phase = "game" \/ (phase = "delegate" /\ itr \in 1..Len(timers) /\ timers[itr] # t)
    BY <1>3 DEF Delete, GameRuns, Owned, Control, TypeOK, Position, RunningTimerIsThere
  <2>4. \A u \in Timers : (AtWork(u)' <=> AtWork(u)) /\ (InDelegate(u)' <=> InDelegate(u))
    BY <2>1, <2>2, <2>3 DEF AtWork, InDelegate
  <2>5. \A u \in Timers : life'[u] # "deleted" => life[u] # "deleted"
    BY <1>3 DEF Delete, Owned, Control, TypeOK
  <2>q. QED
    BY <1>3, <2>4, <2>5, AccountsSame DEF Delete
<1>4. CASE CancelAllTimers
  <2>1. \A u \in Timers : life'[u] # "deleted" => life[u] # "deleted"
    BY <1>4 DEF CancelAllTimers
  <2>q. QED
    BY <1>4, <2>1, AccountsSame DEF CancelAllTimers, AtWork, InDelegate
<1>q. QED
  BY <1>1, <1>2, <1>3, <1>4 DEF Game

\* The steps of update around the work of a timer.
LEMMA AccountsIdle ==
    ASSUME Owned, Accounts, UNCHANGED counters,
           phase \in {"game", "update"}, phase' \in {"game", "update"},
           \A t \in Timers : life'[t] # "deleted" => life[t] # "deleted"
    PROVE  Accounts'
<1>1. \A t \in Timers : ~AtWork(t) /\ ~InDelegate(t) /\ ~AtWork(t)' /\ ~InDelegate(t)'
  BY DEF AtWork, InDelegate
<1>q. QED
  BY <1>1, AccountsSame

\* A timer that update has come to is alive.
LEMMA WorkIsAlive ==
    ASSUME Owned, NEW t \in Timers, itr \in 1..Len(timers), timers[itr] = t
    PROVE  life[t] = "live"
<1>1. t \in ToSet(timers)
  BY DEF Owned, Control, TypeOK, ToSet
<1>q. QED
  BY <1>1 DEF Owned, OwnedOnce

LEMMA AccountsTick ==
    ASSUME Owned, Accounts, NEW t \in Timers, Tick(t)
    PROVE  Accounts'
<1>1. /\ elapsed' = [elapsed EXCEPT ![t] = @ + dt]
      /\ lived' = [lived EXCEPT ![t] = @ + dt]
      /\ delta' = [delta EXCEPT ![t] = @ + dt]
      /\ UNCHANGED <<life, told, due, phase>>
      /\ phase = "update"
      /\ elapsed[t] + dt < Interval[t]
  BY DEF Tick, Elapse, Updating
<1>2. life[t] = "live"
  <2>1. itr \in 1..Len(timers) /\ timers[itr] = t
    BY DEF Tick, Updating, Owned, Control, TypeOK, Position
  <2>q. QED
    BY <2>1, WorkIsAlive
<1> SUFFICES ASSUME NEW u \in Timers
             PROVE  /\ due'[u] <= lived'[u]
                    /\ life'[u] # "deleted" =>
                        /\ told'[u] + delta'[u] = lived'[u]
                        /\ due'[u] + elapsed'[u] <= lived'[u]
                        /\ elapsed'[u] <= Interval[u]
  BY <1>1 DEF Accounts, AtWork, InDelegate
<1>3. /\ due[u] <= lived[u]
      /\ life[u] # "deleted" => /\ told[u] + delta[u] = lived[u]
                                /\ due[u] + elapsed[u] <= lived[u]
                                /\ elapsed[u] <= Interval[u]
  BY <1>1 DEF Accounts, AtWork, InDelegate
<1>4. CASE u = t
  <2>1. elapsed'[t] = elapsed[t] + dt /\ lived'[t] = lived[t] + dt /\ delta'[t] = delta[t] + dt
    BY <1>1 DEF Owned, Control, TypeOK
  <2>q. QED
    BY <1>1, <1>2, <1>3, <1>4, <2>1, Numbers DEF Owned
<1>5. CASE u # t
  <2>1. elapsed'[u] = elapsed[u] /\ lived'[u] = lived[u] /\ delta'[u] = delta[u]
    BY <1>1, <1>5 DEF Owned, Control, TypeOK
  <2>q. QED
    BY <1>1, <1>3, <2>1
<1>q. QED
  BY <1>4, <1>5

LEMMA AccountsFire ==
    ASSUME Owned, Accounts, NEW t \in Timers, Fire(t)
    PROVE  Accounts'
<1>1. /\ elapsed' = [elapsed EXCEPT ![t] = @ + dt]
      /\ lived' = [lived EXCEPT ![t] = @ + dt]
      /\ delta' = [delta EXCEPT ![t] = @ + dt]
      /\ told' = [told EXCEPT ![t] = @ + delta'[t]]
      /\ due' = [due EXCEPT ![t] = @ + Interval[t]]
      /\ UNCHANGED <<life, timers, itr>>
      /\ phase = "update"
      /\ phase' = "delegate"
      /\ timers[itr] = t
      /\ elapsed[t] + dt >= Interval[t]
  BY DEF Fire, Elapse, Updating
<1>2. life[t] = "live"
  <2>1. itr \in 1..Len(timers)
    BY DEF Fire, Updating, Owned, Control, TypeOK, Position
  <2>q. QED
    BY <1>1, <2>1, WorkIsAlive
<1> SUFFICES ASSUME NEW u \in Timers
             PROVE  /\ due'[u] <= lived'[u]
                    /\ life'[u] # "deleted" =>
                        /\ told'[u] + (IF u = t THEN 0 ELSE delta'[u]) = lived'[u]
                        /\ u = t => due'[u] + elapsed'[u] <= lived'[u] + Interval[u]
                        /\ u # t => /\ due'[u] + elapsed'[u] <= lived'[u]
                                    /\ elapsed'[u] <= Interval[u]
  BY <1>1 DEF Accounts, AtWork, InDelegate
<1>3. /\ due[u] <= lived[u]
      /\ life[u] # "deleted" => /\ told[u] + delta[u] = lived[u]
                                /\ due[u] + elapsed[u] <= lived[u]
                                /\ elapsed[u] <= Interval[u]
  BY <1>1 DEF Accounts, AtWork, InDelegate
<1>4. CASE u = t
  <2>1. elapsed'[t] = elapsed[t] + dt /\ lived'[t] = lived[t] + dt /\ delta'[t] = delta[t] + dt
    BY <1>1 DEF Owned, Control, TypeOK
  <2>2. told'[t] = told[t] + delta'[t] /\ due'[t] = due[t] + Interval[t]
    BY <1>1 DEF Owned, Control, TypeOK
  <2>q. QED
    BY <1>1, <1>2, <1>3, <1>4, <2>1, <2>2, Numbers DEF Owned
<1>5. CASE u # t
  <2>1. /\ elapsed'[u] = elapsed[u] /\ lived'[u] = lived[u] /\ delta'[u] = delta[u]
        /\ told'[u] = told[u] /\ due'[u] = due[u]
    BY <1>1, <1>5 DEF Owned, Control, TypeOK
  <2>q. QED
    BY <1>1, <1>3, <1>5, <2>1
<1>q. QED
  BY <1>4, <1>5

LEMMA AccountsAgain ==
    ASSUME Owned, Accounts, NEW t \in Timers, Again(t)
    PROVE  Accounts'
<1>1. /\ delta' = [delta EXCEPT ![t] = 0]
      /\ UNCHANGED <<life, timers, lived, told, due>>
      /\ phase = "delegate"
      /\ timers[itr] = t
      /\ \/ /\ Interval[t] = 0
            /\ elapsed' = [elapsed EXCEPT ![t] = 0]
            /\ phase' = "update"
         \/ /\ phase' = "catchUp"
            /\ UNCHANGED <<elapsed, itr>>
  BY DEF Again
<1>2. life[t] = "live"
  <2>1. itr \in 1..Len(timers)
    BY <1>1 DEF Owned, Control, TypeOK, Position, RunningTimerIsThere
  <2>q. QED
    BY <1>1, <2>1, WorkIsAlive
<1>3. \A u \in Timers :
         /\ due[u] <= lived[u]
         /\ life[u] # "deleted" =>
              /\ told[u] + (IF u = t THEN 0 ELSE delta[u]) = lived[u]
              /\ u = t => due[u] + elapsed[u] <= lived[u] + Interval[u]
              /\ u # t => due[u] + elapsed[u] <= lived[u] /\ elapsed[u] <= Interval[u]
  BY <1>1 DEF Accounts, AtWork, InDelegate
<1>4. \A u \in Timers : delta'[u] = IF u = t THEN 0 ELSE delta[u]
  BY <1>1 DEF Owned, Control, TypeOK
<1>5. CASE phase' = "update"
  <2>1. \A u \in Timers : ~AtWork(u)' /\ ~InDelegate(u)'
    BY <1>5 DEF AtWork, InDelegate
  <2>2. Interval[t] = 0 /\ \A u \in Timers : elapsed'[u] = IF u = t THEN 0 ELSE elapsed[u]
    BY <1>1, <1>5 DEF Owned, Control, TypeOK
  <2>3. \A u \in Timers :
           /\ due'[u] <= lived'[u]
           /\ life'[u] # "deleted" =>
                /\ told'[u] + delta'[u] = lived'[u]
                /\ due'[u] + elapsed'[u] <= lived'[u]
                /\ elapsed'[u] <= Interval[u]
    <3> TAKE u \in Timers
    <3>1. CASE u = t
      BY <1>1, <1>2, <1>3, <1>4, <2>2, <3>1, Numbers DEF Owned
    <3>2. CASE u # t
      BY <1>1, <1>3, <1>4, <2>2, <3>2
    <3>q. QED
      BY <3>1, <3>2
  <2>q. QED
    BY <2>1, <2>3 DEF Accounts
<1>6. CASE phase' = "catchUp"
  <2>1. \A u \in Timers : (AtWork(u)' <=> u = t) /\ ~InDelegate(u)'
    BY <1>1, <1>6 DEF AtWork, InDelegate
  <2>2. elapsed' = elapsed
    BY <1>1, <1>6
  <2>3. \A u \in Timers : life'[u] # "deleted" => told'[u] + delta'[u] = lived'[u]
    BY <1>1, <1>3, <1>4
  <2>q. QED
    BY <1>1, <1>3, <2>1, <2>2, <2>3 DEF Accounts
<1>q. QED
  BY <1>1, <1>5, <1>6

LEMMA AccountsCatchUp ==
    ASSUME Owned, Accounts, NEW t \in Timers, CatchUp(t)
    PROVE  Accounts'
<1>1. /\ elapsed' = [elapsed EXCEPT ![t] = @ - Interval[t]]
      /\ UNCHANGED <<life, timers, delta, lived, told, due>>
      /\ phase = "catchUp"
      /\ timers[itr] = t
      /\ \/ phase' = "update" /\ elapsed'[t] <= Interval[t]
         \/ phase' = "catchUp" /\ itr' = itr
  <2>1. elapsed'[t] \in Int /\ Interval[t] \in Int
    BY Numbers, SMTT(30) DEF CatchUp, Owned, Control, TypeOK
  <2>q. QED
    BY <2>1 DEF CatchUp
<1>2. life[t] = "live"
  <2>1. itr \in 1..Len(timers)
    BY <1>1 DEF Owned, Control, TypeOK, Position, RunningTimerIsThere
  <2>q. QED
    BY <1>1, <2>1, WorkIsAlive
<1>3. \A u \in Timers :
         /\ due[u] <= lived[u]
         /\ life[u] # "deleted" =>
              /\ told[u] + delta[u] = lived[u]
              /\ u = t => due[u] + elapsed[u] <= lived[u] + Interval[u]
              /\ u # t => due[u] + elapsed[u] <= lived[u] /\ elapsed[u] <= Interval[u]
  BY <1>1 DEF Accounts, AtWork, InDelegate
<1>4. \A u \in Timers : elapsed'[u] = IF u = t THEN elapsed[t] - Interval[t] ELSE elapsed[u]
  BY <1>1 DEF Owned, Control, TypeOK
<1>5. \A u \in Timers : ~InDelegate(u)' /\ (AtWork(u)' => u = t)
  BY <1>1 DEF AtWork, InDelegate
<1> SUFFICES ASSUME NEW u \in Timers
             PROVE  life'[u] # "deleted" =>
                        /\ AtWork(u)' => due'[u] + elapsed'[u] <= lived'[u] + Interval[u]
                        /\ ~AtWork(u)' => /\ due'[u] + elapsed'[u] <= lived'[u]
                                          /\ elapsed'[u] <= Interval[u]
  BY <1>1, <1>3, <1>5 DEF Accounts
<1>6. CASE u # t
  BY <1>1, <1>3, <1>4, <1>5, <1>6
<1>7. CASE u = t
  <2>1. due'[t] + elapsed'[t] <= lived'[t]
    BY <1>1, <1>2, <1>3, <1>4, Numbers DEF Owned
  <2>2. due'[t] + elapsed'[t] <= lived'[t] + Interval[t]
    BY <1>1, <1>2, <1>3, <1>4, Numbers DEF Owned
  <2>3. ~AtWork(t)' => elapsed'[t] <= Interval[t]
    BY <1>1 DEF AtWork
  <2>q. QED
    BY <1>7, <2>1, <2>2, <2>3
<1>q. QED
  BY <1>6, <1>7

LEMMA AccountsFinish ==
    ASSUME Owned, Accounts, NEW t \in Timers, Finish(t)
    PROVE  Accounts'
<1>1. /\ phase = "delegate" /\ phase' = "update" /\ timers[itr] = t
      /\ life' = [life EXCEPT ![t] = "deleted"]
  BY DEF Finish
<1>2. \A u \in Timers : life'[u] # "deleted" => life[u] # "deleted" /\ u # t
  BY <1>1 DEF Owned, Control, TypeOK
<1>3. \A u \in Timers : u # t => /\ ~AtWork(u) /\ ~InDelegate(u)
                                 /\ ~AtWork(u)' /\ ~InDelegate(u)'
  BY <1>1 DEF AtWork, InDelegate
<1>q. QED
  BY <1>2, <1>3, AccountsSame DEF Finish

LEMMA AccountsNext == Owned /\ Accounts /\ [Next]_vars => Accounts'
<1> SUFFICES ASSUME Owned, Accounts, [Next]_vars PROVE Accounts'
  OBVIOUS
<1>1. CASE Game
  BY <1>1, AccountsGame
<1>2. CASE Frame
  <2>1. PICK d \in Deltas : BeginUpdate(d)
    BY <1>2 DEF Frame
  <2>q. QED
    BY <2>1, AccountsIdle DEF BeginUpdate
<1>3. CASE Update
  <2>1. CASE EraseHole
    BY <2>1, AccountsIdle DEF EraseHole, Updating
  <2>2. CASE EndUpdate
    BY <2>2, AccountsIdle DEF EndUpdate
  <2>3. ASSUME NEW t \in Timers, DeleteCanceled(t) PROVE Accounts'
    <3>1. \A u \in Timers : life'[u] # "deleted" => life[u] # "deleted"
      BY <2>3 DEF DeleteCanceled, Owned, Control, TypeOK
    <3>q. QED
      BY <2>3, <3>1, AccountsIdle DEF DeleteCanceled, Updating
  <2>q. QED
    BY <1>3, <2>1, <2>2, <2>3, AccountsTick, AccountsFire, AccountsAgain,
       AccountsCatchUp, AccountsFinish DEF Update
<1>4. CASE UNCHANGED vars
  <2>1. UNCHANGED counters /\ life' = life
    BY <1>4 DEF vars, counters
  <2>q. QED
    BY <1>4, <2>1, AccountsSame DEF vars, AtWork, InDelegate
<1>q. QED
  BY <1>1, <1>2, <1>3, <1>4 DEF Next

AccountsInv == Owned /\ Accounts

LEMMA AccountsAlways == Spec => []AccountsInv
<1>1. Init => AccountsInv
  BY ControlInit, OwnedInit, AccountsInit DEF AccountsInv, Owned
<1>2. AccountsInv /\ [Next]_vars => AccountsInv'
  BY ControlNext, OwnedNext, AccountsNext DEF AccountsInv, Owned
<1>q. QED
  BY <1>1, <1>2, PTL DEF Spec

\* Every delegate is told of all the time its timer lived, for any frame times.
THEOREM ToldInFull == Spec => []DeltasAddUp
<1>1. AccountsInv => DeltasAddUp
  BY DEF AccountsInv, Accounts, DeltasAddUp
<1>q. QED
  BY <1>1, AccountsAlways, PTL

\* The calls of a delegate never stand for more intervals than have passed.
THEOREM NoCallAheadOfTime == Spec => []NeverAheadOfTime
<1>1. AccountsInv => NeverAheadOfTime
  BY DEF AccountsInv, Accounts, NeverAheadOfTime
<1>q. QED
  BY <1>1, AccountsAlways, PTL

\* Between two frames no timer is behind by more than one interval.
THEOREM BacklogAlwaysDropped == Spec => []BacklogIsDropped
<1>1. AccountsInv => BacklogIsDropped
  BY DEF AccountsInv, Accounts, BacklogIsDropped, AtWork
<1>q. QED
  BY <1>1, AccountsAlways, PTL

-----------------------------------------------------------------------------
(* Canceling and the order of the list. *)

\* The delegate of a canceled timer is not called in any step.
THEOREM CanceledIsSilent == Spec => CanceledStaysSilent
<1>1. Init => Control
  BY ControlInit
<1>2. Control /\ [Next]_vars => Control'
  BY ControlNext
<1>3. Control /\ [Next]_vars => [\A t \in canceled : due'[t] = due[t] /\ told'[t] = told[t]]_vars
  <2> SUFFICES ASSUME Control, Next, NEW t \in canceled
               PROVE  due'[t] = due[t] /\ told'[t] = told[t]
    OBVIOUS
  <2>1. t \in Timers /\ due \in [Timers -> Nat] /\ told \in [Timers -> Nat]
    BY DEF Control, TypeOK
  <2>2. ASSUME NEW u \in Timers, Fire(u) PROVE due'[t] = due[t] /\ told'[t] = told[t]
    <3>1. u # t
      BY <2>2 DEF Fire
    <3>q. QED
      BY <2>1, <2>2, <3>1 DEF Fire
  <2>3. CASE UNCHANGED <<due, told>>
    BY <2>3
  <2>4. Game \/ Frame => UNCHANGED <<due, told>>
    BY DEF Game, Create, Cancel, Delete, CancelAllTimers, Frame, BeginUpdate, counters
  <2>5. Update => UNCHANGED <<due, told>> \/ \E u \in Timers : Fire(u)
    BY DEF Update, EraseHole, EndUpdate, DeleteCanceled, Tick, Again, CatchUp, Finish,
           counters
  <2>q. QED
    BY <2>2, <2>3, <2>4, <2>5 DEF Next
<1>q. QED
  BY <1>1, <1>2, <1>3, PTL DEF Spec, CanceledStaysSilent

InPriorityOrder(list) ==
    \A i, j \in DOMAIN list :
        i < j /\ list[i] # NULL /\ list[j] # NULL => Priority[list[i]] >= Priority[list[j]]

LEMMA WithoutKeepsOrder ==
    ASSUME NEW list \in Seq(Slots), NEW t, InPriorityOrder(list)
    PROVE  InPriorityOrder(Without(list, t))
<1>1. /\ DOMAIN Without(list, t) = DOMAIN list
      /\ \A i \in DOMAIN list : Without(list, t)[i] # NULL =>
            list[i] # NULL /\ Without(list, t)[i] = list[i]
  BY WithoutKeepsPlaces DEF Without
<1>q. QED
  BY <1>1 DEF InPriorityOrder

LEMMA RemoveAtKeepsOrder ==
    ASSUME NEW list \in Seq(Slots), NEW n \in 1..Len(list), InPriorityOrder(list)
    PROVE  InPriorityOrder(RemoveAt(list, n))
<1> DEFINE new == RemoveAt(list, n)
           was(k) == IF k < n THEN k ELSE k + 1
<1>1. /\ new \in Seq(Slots)
      /\ Len(new) = Len(list) - 1
      /\ \A i \in 1..(Len(list) - 1) : new[i] = IF i < n THEN list[i] ELSE list[i + 1]
  BY RemoveAtClosesGap
<1>2. /\ DOMAIN list = 1..Len(list)
      /\ DOMAIN new = 1..(Len(list) - 1)
      /\ Len(list) \in Nat /\ n \in Nat
  BY <1>1
<1> HIDE DEF new
<1> SUFFICES ASSUME NEW i \in 1..(Len(list) - 1), NEW j \in 1..(Len(list) - 1),
                    i < j, new[i] # NULL, new[j] # NULL
             PROVE  Priority[new[i]] >= Priority[new[j]]
  BY <1>2 DEF InPriorityOrder, new
<1>3. /\ was(i) \in 1..Len(list) /\ was(j) \in 1..Len(list) /\ was(i) < was(j)
      /\ new[i] = list[was(i)] /\ new[j] = list[was(j)]
  BY <1>1, <1>2
<1> HIDE DEF was
<1>q. QED
  BY <1>2, <1>3 DEF InPriorityOrder

LEMMA SortOrders ==
    ASSUME NEW list \in Seq(Slots), NEW sorted \in Sorts(list), NULL \notin ToSet(list)
    PROVE  InPriorityOrder(sorted)
<1>1. sorted \in Seq(Slots) /\ Len(sorted) = Len(list)
  BY SortPermutes
<1>2. PICK place \in [1..Len(list) -> 1..Len(list)] :
         /\ \A i, j \in 1..Len(list) : place[i] = place[j] => i = j
         /\ \A j \in 1..Len(list) : \E i \in 1..Len(list) : place[i] = j
         /\ \A i \in 1..Len(list) : sorted[i] = list[place[i]]
         /\ NULL \notin ToSet(list) => InOrder(list, place)
  BY SortPermutes
<1>3. DOMAIN list = 1..Len(list) /\ DOMAIN sorted = 1..Len(list)
  BY <1>1
<1>4. \A i \in 1..Len(list) : list[i] \in Timers
  BY <1>3 DEF Slots, ToSet
<1>5. \A i \in 1..Len(list) : Priority[list[place[i]]] \in Int
  BY <1>2, <1>4, TimersAssumption
<1>6. ASSUME NEW i \in 1..Len(list), NEW j \in 1..Len(list), i < j
      PROVE  Priority[sorted[i]] >= Priority[sorted[j]]
  <2>1. \/ Priority[list[place[i]]] > Priority[list[place[j]]]
        \/ Priority[list[place[i]]] = Priority[list[place[j]]]
    BY <1>2, <1>3, <1>6 DEF InOrder
  <2>2. sorted[i] = list[place[i]] /\ sorted[j] = list[place[j]]
    BY <1>2
  <2>q. QED
    BY <1>5, <2>1, <2>2
<1>q. QED
  BY <1>3, <1>6 DEF InPriorityOrder

LEMMA OrderNext == Control /\ PriorityOrder /\ [Next]_vars => PriorityOrder'
<1> SUFFICES ASSUME Control, ordered => InPriorityOrder(timers), [Next]_vars
             PROVE  ordered' => InPriorityOrder(timers')
  BY DEF PriorityOrder, InPriorityOrder
<1>0. timers \in Seq(Slots) /\ toAdd \in Seq(Slots)
  BY DEF Control, TypeOK, Slots
<1>1. CASE UNCHANGED <<timers, ordered>>
  BY <1>1
<1>2. ASSUME NEW t, timers' = Without(timers, t), ordered' = ordered
      PROVE  ordered' => InPriorityOrder(timers')
  BY <1>0, <1>2, WithoutKeepsOrder
<1>3. CASE Game
  BY <1>1, <1>2, <1>3 DEF Game, Create, Cancel, Delete, CancelAllTimers, clock
<1>4. ASSUME NEW d \in Deltas, BeginUpdate(d) PROVE ordered' => InPriorityOrder(timers')
  <2>1. timers \o toAdd \in Seq(Slots)
    BY <1>0, ConcatProperties
  <2>q. QED
    BY <1>4, <2>1, SortOrders DEF BeginUpdate
<1>5. CASE EraseHole
  <2>1. itr \in 1..Len(timers)
    BY <1>5 DEF EraseHole, Updating, Control, TypeOK, Position
  <2>q. QED
    BY <1>0, <1>5, <2>1, RemoveAtKeepsOrder DEF EraseHole, clock
<1>6. CASE Update
  <2>1. ASSUME NEW t \in Timers,
               DeleteCanceled(t) \/ Tick(t) \/ Fire(t) \/ Again(t) \/ CatchUp(t) \/ Finish(t)
        PROVE  ordered' => InPriorityOrder(timers')
    BY <1>1, <1>2, <2>1 DEF DeleteCanceled, Tick, Fire, Again, CatchUp, Finish, clock
  <2>2. CASE EndUpdate
    BY <1>1, <2>2 DEF EndUpdate, clock
  <2>q. QED
    BY <1>5, <1>6, <2>1, <2>2 DEF Update
<1>7. CASE UNCHANGED vars
  BY <1>1, <1>7 DEF vars
<1>q. QED
  BY <1>3, <1>4, <1>6, <1>7 DEF Next, Frame

\* The list stays in the order of the priorities between one sort and the next, whatever
\* is deleted and erased in between.
THEOREM UpdatedInPriorityOrder == Spec => []PriorityOrder
<1> DEFINE Inv == Control /\ PriorityOrder
<1>1. Init => Inv
  BY ControlInit DEF Init, PriorityOrder
<1>2. Inv /\ [Next]_vars => Inv'
  BY ControlNext, OrderNext
<1>3. Inv => PriorityOrder
  OBVIOUS
<1>q. QED
  BY <1>1, <1>2, <1>3, PTL DEF Spec
=============================================================================

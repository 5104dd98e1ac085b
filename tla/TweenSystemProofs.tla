-------------------------- MODULE TweenSystemProofs --------------------------
(***************************************************************************)
(* Proofs about TweenSystem for any animations, entities and depth of      *)
(* nested calls, as long as no callback calls stopAllAnimations: what a    *)
(* loop of update or of a stop function finds when it goes on is its own,  *)
(* an animation is owned and told once, and none outlives its entity.      *)
(*                                                                         *)
(* Only the outermost call can be update or stopAllAnimations, so while    *)
(* other loops are under way nothing but a hole or an entry at the end     *)
(* comes into a vector.                                                    *)
(***************************************************************************)
EXTENDS TweenSystem, SequenceFacts, FiniteSetTheorems

Slots == Anims \cup {NULL}
Lists == {"all", "toAdd"}
CallSet == [op : StopOps \cup {"update"}, of : Names \cup Entities \cup {NULL},
            list : Lists, itr : Nat, anim : Slots]

-----------------------------------------------------------------------------
(* Where animations are.                                                    *)

Slot(l, i, a) == i \in 1 .. Len(lists[l]) /\ lists[l][i] = a
Held(k, a) == k \in 1 .. Len(calls) /\ calls[k].op \in StopOps /\ calls[k].anim = a

InList(a) == \E l \in Lists, i \in Nat : Slot(l, i, a)
InCall(a) == \E k \in Nat : Held(k, a)

\* Where the loop of a call is.
CallOK(k) ==
    LET call == calls[k]
    IN  /\ call.op \in {"update", "every"} => k = 1
        /\ call.itr > 0
        /\ call.itr <= Len(lists[call.list]) + 1
        /\ call.op \in StopOps /\ call.anim # NULL => Slot(call.list, call.itr, NULL)
        /\ call.op = "update" => call.list = "all"
        /\ call.op = "update" /\ call.anim # NULL =>
               Slot("all", call.itr, call.anim) /\ call.anim \in stopped
        /\ call.op = "every" => \A i \in 1 .. (call.itr - 1) : Slot(call.list, i, NULL)
        /\ call.op = "every" /\ call.list = "toAdd" => Len(lists["all"]) = 0

Control == \A k \in 1 .. Len(calls) : CallOK(k)

\* An animation that is alive is in one place.
Own(a) ==
    /\ \A l, m \in Lists, i, j \in Nat : Slot(l, i, a) /\ Slot(m, j, a) => l = m /\ i = j
    /\ \A k, m \in Nat : Held(k, a) /\ Held(m, a) => k = m
    /\ ~(InList(a) /\ InCall(a))
    /\ life[a] = "live" <=> InList(a) \/ InCall(a)

\* One that is stopped and still there is the one update is telling of its end.
Ending(a) ==
    a \in stopped =>
        /\ life[a] # "fresh"
        /\ InList(a) => Len(calls) > 0 /\ calls[1].op = "update" /\ calls[1].anim = a

Telling(a) == \E k \in 1 .. Len(calls) : calls[k].anim = a
Told(a) == told[a] = IF life[a] = "deleted" \/ Telling(a) THEN 1 ELSE 0

\* One that would change a destroyed entity is still to be found by the call that stops
\* the animations of that entity.
Ahead(k, l, i) ==
    \/ calls[k].list = l /\ i >= calls[k].itr
    \/ calls[k].list = "all" /\ l = "toAdd"

StopsFor(k, e) == k \in 1 .. Len(calls) /\ calls[k].op = "entity" /\ calls[k].of = e

Doomed(a) ==
    \A e \in Targets[a] \cap destroyed, l \in Lists, i \in Nat :
        Slot(l, i, a) => a \in stopped \/ \E k \in Nat : StopsFor(k, e) /\ Ahead(k, l, i)

Good(a) == Own(a) /\ Ending(a) /\ Told(a) /\ Doomed(a)

Inv == TypeOK /\ Control /\ \A a \in Anims : Good(a)

-----------------------------------------------------------------------------
(* Types.                                                                   *)

LEMMA Types ==
    ASSUME TypeOK
    PROVE  /\ lists \in [Lists -> Seq(Slots)]
           /\ \A l \in Lists : /\ lists[l] \in Seq(Slots)
                               /\ Len(lists[l]) \in Nat
                               /\ \A i \in 1 .. Len(lists[l]) : lists[l][i] \in Slots
           /\ calls \in Seq(CallSet)
           /\ Len(calls) \in Nat
           /\ \A k \in 1 .. Len(calls) : calls[k] \in CallSet
           /\ DOMAIN calls = 1 .. Len(calls)
<1>1. lists \in [Lists -> Seq(Slots)] /\ calls \in Seq(CallSet)
  BY DEF TypeOK, Lists, Slots, CallSet
<1>2. \A l \in Lists : lists[l] \in Seq(Slots)
  BY <1>1
<1>3. \A l \in Lists : Len(lists[l]) \in Nat /\ \A i \in 1 .. Len(lists[l]) : lists[l][i] \in Slots
  BY <1>2
<1>4. Len(calls) \in Nat /\ (\A k \in 1 .. Len(calls) : calls[k] \in CallSet)
  BY <1>1
<1>5. DOMAIN calls = 1 .. Len(calls)
  BY <1>1
<1>q. QED
  BY <1>1, <1>2, <1>3, <1>4, <1>5

LEMMA TopTypes ==
    ASSUME TypeOK, calls # <<>>
    PROVE  /\ Len(calls) \in Nat \ {0} /\ Len(calls) \in 1 .. Len(calls)
           /\ Top = calls[Len(calls)] /\ Top \in CallSet
           /\ Top.op \in StopOps \cup {"update"} /\ Top.list \in Lists /\ Top.itr \in Nat
           /\ Top.anim \in Slots
<1>1. Len(calls) \in Nat \ {0}
  BY Types, EmptySeq
<1>2. Len(calls) \in 1 .. Len(calls)
  BY <1>1
<1>3. Top = calls[Len(calls)] /\ Top \in CallSet
  BY <1>2, Types DEF Top
<1>q. QED
  BY <1>1, <1>2, <1>3 DEF CallSet

\* The innermost call goes on.
LEMMA SetTopStep ==
    ASSUME TypeOK, calls # <<>>, NEW c \in CallSet, SetTop(c)
    PROVE  /\ calls' \in Seq(CallSet) /\ Len(calls') = Len(calls)
           /\ calls'[Len(calls)] = c
           /\ \A k \in 1 .. Len(calls) : k # Len(calls) => calls'[k] = calls[k]
<1>1. calls \in Seq(CallSet) /\ Len(calls) \in 1 .. Len(calls)
  BY Types, TopTypes
<1>2. calls' = [calls EXCEPT ![Len(calls)] = c]
  BY DEF SetTop
<1>3. /\ calls' \in Seq(CallSet) /\ Len(calls') = Len(calls)
      /\ \A k \in 1 .. Len(calls) : calls'[k] = IF k = Len(calls) THEN c ELSE calls[k]
  BY <1>1, <1>2, ExceptSeq
<1>q. QED
  BY <1>1, <1>3

\* A call returns.
LEMMA FrontStep ==
    ASSUME TypeOK, calls # <<>>, calls' = Front(calls)
    PROVE  /\ calls' \in Seq(CallSet) /\ Len(calls') = Len(calls) - 1
           /\ \A k \in 1 .. Len(calls') : k \in 1 .. Len(calls) /\ calls'[k] = calls[k]
<1>1. calls \in Seq(CallSet) /\ Len(calls) \in Nat \ {0}
  BY Types, TopTypes
<1>2. /\ Front(calls) \in Seq(CallSet) /\ Len(Front(calls)) = Len(calls) - 1
      /\ \A i \in 1 .. (Len(calls) - 1) : Front(calls)[i] = calls[i]
  BY <1>1, FrontOfSeq
<1>q. QED
  BY <1>1, <1>2

\* Who is told of his end is in the slot update looks at, or held by a stop function.
LEMMA TellingSomewhere ==
    ASSUME TypeOK, Control, NEW a \in Anims, Telling(a)
    PROVE  \/ InCall(a)
           \/ InList(a) /\ a \in stopped
<1>1. PICK k \in 1 .. Len(calls) : calls[k].anim = a
  BY DEF Telling
<1>2. /\ calls[k] \in CallSet /\ k \in Nat /\ a # NULL /\ CallOK(k)
  BY Types, AnimsAssumption DEF Control
<1>3. CASE calls[k].op \in StopOps
  BY <1>1, <1>2, <1>3 DEF InCall, Held
<1>4. CASE calls[k].op = "update"
  <2>1. Slot("all", calls[k].itr, a) /\ a \in stopped
    BY <1>1, <1>2, <1>4 DEF CallOK
  <2>2. "all" \in Lists /\ calls[k].itr \in Nat
    BY <1>2 DEF Lists, CallSet
  <2>q. QED
    BY <2>1, <2>2 DEF InList
<1>q. QED
  BY <1>2, <1>3, <1>4 DEF CallSet

LEMMA InvInit == Init => Inv
<1> SUFFICES ASSUME Init PROVE Inv
  OBVIOUS
<1>1. lists["all"] = <<>> /\ lists["toAdd"] = <<>> /\ calls = <<>> /\ Len(calls) = 0
  BY DEF Init
<1>2. \A l \in Lists : Len(lists[l]) = 0
  BY <1>1 DEF Lists
<1>3. TypeOK
  BY AnimsAssumption DEF Init, TypeOK
<1>4. Control
  BY <1>1 DEF Control
<1>5. ASSUME NEW a \in Anims
      PROVE  Good(a)
  <2>1. ~InList(a) /\ ~InCall(a) /\ ~Telling(a)
    BY <1>1, <1>2 DEF InList, InCall, Slot, Held, Telling
  <2>2. life[a] = "fresh" /\ told[a] = 0
    BY DEF Init
  <2>3. /\ \A l \in Lists, i \in Nat : ~Slot(l, i, a)
        /\ \A k \in Nat : ~Held(k, a)
    BY <2>1 DEF InList, InCall
  <2>4. stopped = {}
    BY DEF Init
  <2>q. QED
    BY <2>1, <2>2, <2>3, <2>4 DEF Good, Own, Ending, Told, Doomed
<1>q. QED
  BY <1>3, <1>4, <1>5 DEF Inv

-----------------------------------------------------------------------------
(* The game.                                                                *)

\* A list gets an entry at its end: who was in the lists stays where he is.
LEMMA CommitKeeps ==
    ASSUME Inv, NEW a \in Anims, Commit(a)
    PROVE  Inv'
<1>1. /\ life[a] = "fresh"
      /\ \A k \in 1 .. Len(calls) : calls[k].list # "toAdd"
      /\ \A e \in Targets[a] \cap destroyed : \E k \in 1 .. Len(calls) : StopsFor(k, e)
      /\ UNCHANGED <<calls, accDt, count, stopped, destroyed, told>>
  BY Types DEF Commit, progress, Inv, StopsFor
<1>2. Good(a) /\ ~InList(a) /\ ~InCall(a)
  BY <1>1 DEF Inv, Good, Own
<1>3. CASE Targets[a] = {}
  <2>1. life' = [life EXCEPT ![a] = "lost"] /\ UNCHANGED lists
    BY <1>3 DEF Commit
  <2>2. /\ life' \in [Anims -> {"fresh", "live", "deleted", "lost"}]
        /\ \A b \in Anims : life'[b] = IF b = a THEN "lost" ELSE life[b]
    BY <2>1 DEF Inv, TypeOK
  <2>3. TypeOK'
    BY <1>1, <2>1, <2>2 DEF Inv, TypeOK
  <2>4. Control'
    BY <1>1, <2>1 DEF Inv, Control, CallOK, Slot
  <2>5. ASSUME NEW b \in Anims
        PROVE  Good(b)'
    <3>1. Good(b)
      BY DEF Inv
    <3>2. /\ \A l, i : Slot(l, i, b)' <=> Slot(l, i, b)
          /\ \A k : Held(k, b)' <=> Held(k, b)
          /\ Telling(b)' <=> Telling(b)
      BY <1>1, <2>1 DEF Slot, Held, Telling
    <3>3. (InList(b)' <=> InList(b)) /\ (InCall(b)' <=> InCall(b))
      BY <3>2 DEF InList, InCall
    <3>4. Own(b)'
      BY <1>1, <1>2, <2>2, <3>1, <3>2, <3>3 DEF Good, Own
    <3>5. Ending(b)' /\ Told(b)'
      BY <1>1, <2>2, <3>1, <3>2, <3>3 DEF Good, Ending, Told
    <3>6. Doomed(b)'
      BY <1>1, <2>1, <3>1, <3>2 DEF Good, Doomed, StopsFor, Ahead
    <3>q. QED
      BY <3>4, <3>5, <3>6 DEF Good
  <2>q. QED
    BY <2>3, <2>4, <2>5 DEF Inv
<1>4. CASE Targets[a] # {}
  <2>1. /\ life' = [life EXCEPT ![a] = "live"]
        /\ lists' = [lists EXCEPT !["toAdd"] = Append(@, a)]
    BY <1>4 DEF Commit
  <2>2. /\ life' \in [Anims -> {"fresh", "live", "deleted", "lost"}]
        /\ \A b \in Anims : life'[b] = IF b = a THEN "live" ELSE life[b]
    BY <2>1 DEF Inv, TypeOK
  <2>3. /\ lists["toAdd"] \in Seq(Slots) /\ a \in Slots
        /\ Len(lists["toAdd"]) \in Nat /\ Len(lists["all"]) \in Nat
    BY Types DEF Inv, Slots, Lists
  <2>4. /\ lists' \in [Lists -> Seq(Slots)]
        /\ lists'["all"] = lists["all"]
        /\ Len(lists'["toAdd"]) = Len(lists["toAdd"]) + 1
        /\ \A i \in 1 .. Len(lists["toAdd"]) : lists'["toAdd"][i] = lists["toAdd"][i]
        /\ lists'["toAdd"][Len(lists["toAdd"]) + 1] = a
    <3>1. lists'["toAdd"] = Append(lists["toAdd"], a) /\ lists'["all"] = lists["all"]
      BY <2>1, Types DEF Inv, Lists
    <3>2. lists' \in [Lists -> Seq(Slots)]
      BY <2>1, <2>3, Types, AppendToSeq DEF Inv
    <3>q. QED
      BY <2>3, <3>1, <3>2, AppendToSeq
  <2>5. ASSUME NEW l \in Lists, NEW i, NEW b
        PROVE  Slot(l, i, b)' <=> \/ Slot(l, i, b)
                                  \/ l = "toAdd" /\ i = Len(lists["toAdd"]) + 1 /\ b = a
    <3>1. 1 .. Len(lists'["toAdd"]) = 1 .. Len(lists["toAdd"]) \cup {Len(lists["toAdd"]) + 1}
      BY <2>3, <2>4
    <3>q. QED
      BY <2>3, <2>4, <3>1 DEF Slot, Lists
  <2>6. TypeOK'
    BY <1>1, <2>2, <2>4 DEF Inv, TypeOK, Lists, Slots
  <2>7. ASSUME NEW k \in 1 .. Len(calls)
        PROVE  CallOK(k)'
    <3>1. CallOK(k) /\ calls[k].list = "all" /\ calls'[k] = calls[k]
      <4>1. CallOK(k) /\ calls[k] \in CallSet /\ calls[k].list # "toAdd" /\ calls'[k] = calls[k]
        BY <1>1, Types DEF Inv, Control
      <4>q. QED
        BY <4>1 DEF CallSet, Lists
    <3>2. \A i, b : Slot("all", i, b)' <=> Slot("all", i, b)
      BY <2>4 DEF Slot
    <3>q. QED
      BY <1>1, <2>4, <3>1, <3>2 DEF CallOK
  <2>8. ASSUME NEW b \in Anims
        PROVE  Good(b)'
    <3>1. Good(b)
      BY DEF Inv
    <3>2. /\ \A k : Held(k, b)' <=> Held(k, b)
          /\ Telling(b)' <=> Telling(b)
      BY <1>1 DEF Held, Telling
    <3>3. InCall(b)' <=> InCall(b)
      BY <3>2 DEF InCall
    <3>4. CASE b = a
      <4>1. \A l \in Lists, i \in Nat :
               Slot(l, i, b)' <=> l = "toAdd" /\ i = Len(lists["toAdd"]) + 1
        BY <1>2, <2>5, <3>4 DEF InList
      <4>2. InList(b)'
        <5>1. "toAdd" \in Lists /\ Len(lists["toAdd"]) + 1 \in Nat
          BY <2>3 DEF Lists
        <5>q. QED
          BY <4>1, <5>1 DEF InList
      <4>3. Own(b)'
        BY <1>2, <2>2, <3>2, <3>3, <3>4, <4>1, <4>2 DEF Own, InCall
      <4>4. ~Telling(b)
        BY <1>2, <3>4, TellingSomewhere DEF Inv
      <4>5. Told(b)'
        BY <1>1, <2>2, <3>1, <3>2, <3>4, <4>4 DEF Told, Good
      <4>6. Ending(b)'
        BY <1>1, <3>1, <3>4 DEF Ending, Good
      <4>7. Doomed(b)'
        <5>1. ASSUME NEW e \in Targets[b] \cap destroyed
              PROVE  \E k \in Nat : StopsFor(k, e)' /\ calls'[k].list = "all"
          <6>1. PICK k \in 1 .. Len(calls) : StopsFor(k, e)
            BY <1>1, <3>4, <5>1
          <6>2. calls[k] \in CallSet /\ calls[k].list # "toAdd" /\ k \in Nat
            BY <1>1, Types DEF Inv
          <6>3. calls[k].list = "all"
            BY <6>2 DEF CallSet, Lists
          <6>q. QED
            BY <1>1, <6>1, <6>2, <6>3 DEF StopsFor
        <5>q. QED
          BY <1>1, <4>1, <5>1 DEF Doomed, Ahead
      <4>q. QED
        BY <4>3, <4>5, <4>6, <4>7 DEF Good
    <3>5. CASE b # a
      <4>1. \A l \in Lists, i \in Nat : Slot(l, i, b)' <=> Slot(l, i, b)
        BY <2>5, <3>5
      <4>2. InList(b)' <=> InList(b)
        BY <4>1 DEF InList
      <4>3. Own(b)'
        BY <2>2, <3>1, <3>2, <3>3, <3>5, <4>1, <4>2 DEF Good, Own
      <4>4. Ending(b)' /\ Told(b)'
        BY <1>1, <2>2, <3>1, <3>2, <3>5, <4>2 DEF Good, Ending, Told
      <4>5. Doomed(b)'
        BY <1>1, <3>1, <4>1 DEF Good, Doomed, StopsFor, Ahead
      <4>q. QED
        BY <4>3, <4>4, <4>5 DEF Good
    <3>q. QED
      BY <3>4, <3>5
  <2>q. QED
    BY <2>6, <2>7, <2>8, <1>1 DEF Inv, Control
<1>q. QED
  BY <1>3, <1>4

\* A new call has its whole way before it, and the entity it is about is destroyed only now.
LEMMA NewCallKeeps ==
    ASSUME Inv, NEW c \in CallSet, calls' = Append(calls, c),
           c.op \in StopOps, c.list = "all", c.itr = 1, c.anim = NULL,
           c.op = "every" => calls = <<>>,
           UNCHANGED <<lists, accDt, count, stopped, life, told>>,
           destroyed' \in SUBSET Entities,
           \A e \in destroyed' : e \in destroyed \/ (c.op = "entity" /\ c.of = e)
    PROVE  Inv'
<1>1. /\ calls' \in Seq(CallSet) /\ Len(calls) \in Nat /\ Len(calls') = Len(calls) + 1
      /\ \A k \in 1 .. Len(calls) : calls'[k] = calls[k]
      /\ calls'[Len(calls) + 1] = c
  BY Types, AppendToSeq DEF Inv
<1>2. 1 .. Len(calls') = 1 .. Len(calls) \cup {Len(calls) + 1}
  BY <1>1
<1>3. TypeOK'
  BY <1>1 DEF Inv, TypeOK, CallSet, Lists, Slots
<1>4. \A l, i, b : Slot(l, i, b)' <=> Slot(l, i, b)
  BY DEF Slot
<1>5. ASSUME NEW k \in 1 .. Len(calls')
      PROVE  CallOK(k)'
  <2>1. CASE k \in 1 .. Len(calls)
    BY <1>1, <1>4, <2>1 DEF Inv, Control, CallOK
  <2>2. CASE k = Len(calls) + 1
    <3>1. c.op # "update"
      BY DEF StopOps
    <3>2. c.op = "every" => k = 1
      BY <1>1, <2>2
    <3>3. Len(lists["all"]) \in Nat
      BY Types DEF Inv, Lists
    <3>q. QED
      BY <1>1, <2>2, <3>1, <3>2, <3>3 DEF CallOK
  <2>q. QED
    BY <1>2, <2>1, <2>2
<1>6. ASSUME NEW b \in Anims
      PROVE  Good(b)'
  <2>1. Good(b) /\ b # NULL
    BY AnimsAssumption DEF Inv
  <2>2. \A k : Held(k, b)' <=> Held(k, b)
    BY <1>1, <1>2, <2>1 DEF Held
  <2>3. Telling(b)' <=> Telling(b)
    BY <1>1, <1>2, <2>1 DEF Telling
  <2>4. (InList(b)' <=> InList(b)) /\ (InCall(b)' <=> InCall(b))
    BY <1>4, <2>2 DEF InList, InCall
  <2>5. Own(b)' /\ Told(b)'
    BY <1>4, <2>1, <2>2, <2>3, <2>4 DEF Good, Own, Told
  <2>6. Ending(b)'
    BY <1>1, <2>1, <2>4 DEF Good, Ending
  <2>7. Doomed(b)'
    <3>1. ASSUME NEW e \in Targets[b], e \in destroyed', NEW l \in Lists, NEW i \in Nat,
                 Slot(l, i, b)', b \notin stopped'
          PROVE  \E k \in Nat : StopsFor(k, e)' /\ Ahead(k, l, i)'
      <4>1. CASE e \in destroyed
        <5>1. PICK k \in Nat : StopsFor(k, e) /\ Ahead(k, l, i)
          BY <1>4, <2>1, <3>1, <4>1 DEF Good, Doomed
        <5>q. QED
          BY <1>1, <1>2, <5>1 DEF StopsFor, Ahead
      <4>2. CASE c.op = "entity" /\ c.of = e
        <5>0. PICK k \in Nat : k = Len(calls) + 1
          BY <1>1
        <5>1. StopsFor(k, e)'
          BY <1>1, <1>2, <4>2, <5>0 DEF StopsFor
        <5>2. i >= 1
          BY <3>1 DEF Slot
        <5>3. Ahead(k, l, i)'
          BY <1>1, <5>0, <5>2 DEF Ahead, Lists
        <5>q. QED
          BY <5>1, <5>3
      <4>q. QED
        BY <3>1, <4>1, <4>2
    <3>q. QED
      BY <3>1 DEF Doomed
  <2>q. QED
    BY <2>5, <2>6, <2>7 DEF Good
<1>q. QED
  BY <1>3, <1>5, <1>6 DEF Inv, Control

LEMMA StopKeeps ==
    ASSUME Inv, NEW op, NEW of, Stop(op, of), op \in StopOps,
           of \in Names \cup Entities \cup {NULL},
           op = "every" => calls = <<>>,
           destroyed' \in SUBSET Entities,
           \A e \in destroyed' : e \in destroyed \/ (op = "entity" /\ of = e)
    PROVE  Inv'
<1>1. PICK c : c = Call(op, of)
  OBVIOUS
<1>2. /\ c \in CallSet
      /\ c.op = op /\ c.of = of /\ c.list = "all" /\ c.itr = 1 /\ c.anim = NULL
  BY <1>1 DEF Call, CallSet, Lists, Slots
<1>3. /\ calls' = Append(calls, c)
      /\ UNCHANGED <<lists, accDt, count, stopped, life, told>>
  BY <1>1 DEF Stop, progress
<1>q. QED
  BY <1>2, <1>3, NewCallKeeps

LEMMA GameKeeps ==
    ASSUME ~NestedStopAll, Inv, Game
    PROVE  Inv'
<1>1. ASSUME NEW name \in Names, StopAnimation(name)
      PROVE  Inv'
  BY <1>1, StopKeeps DEF StopAnimation, StopOps, Inv, TypeOK
<1>2. ASSUME NEW e \in Entities, DestroyEntity(e)
      PROVE  Inv'
  BY <1>2, StopKeeps DEF DestroyEntity, StopOps, Inv, TypeOK
<1>3. ASSUME StopAllAnimations
      PROVE  Inv'
  BY <1>3, StopKeeps DEF StopAllAnimations, StopOps, Inv, TypeOK
<1>q. QED
  BY <1>1, <1>2, <1>3, CommitKeeps DEF Game

-----------------------------------------------------------------------------
(* The stop functions.                                                      *)

ConcernsIt(a) == Concerns(Top, a)

LEMMA TopConcerns ==
    ASSUME NEW a
    PROVE  /\ Top.op = "every" => ConcernsIt(a)
           /\ Top.op = "entity" /\ Top.of \in Targets[a] => ConcernsIt(a)
  BY DEF ConcernsIt, Concerns

\* What a search passes over.
Passed(i) ==
    LET a == lists[Top.list][i]
    IN  a = NULL \/ a \in stopped \/ ~ConcernsIt(a)

LEMMA FirstHitIsFirst ==
    ASSUME TypeOK, Looping(StopOps), Hits # {}, Top.itr > 0
    PROVE  /\ FirstHit \in Nat /\ FirstHit >= Top.itr /\ FirstHit \in 1 .. Len(lists[Top.list])
           /\ lists[Top.list][FirstHit] \in Anims
           /\ lists[Top.list][FirstHit] \notin stopped
           /\ \A i \in Top.itr .. (FirstHit - 1) : Passed(i)
<1>1. Top.itr \in Nat /\ Top.list \in Lists
  BY TopTypes DEF Looping
<1>2. Len(lists[Top.list]) \in Nat
  BY <1>1, Types
<1>3. PICK hits : hits = Hits
  OBVIOUS
<1>4. hits \in SUBSET Nat /\ hits # {}
  BY <1>1, <1>2, <1>3 DEF Hits
<1>5. \E i \in hits : \A j \in hits : i <= j
  BY <1>4, HasSmallest
<1>6. FirstHit \in hits /\ \A j \in hits : FirstHit <= j
  BY <1>3, <1>5 DEF FirstHit
<1>7. /\ FirstHit \in Top.itr .. Len(lists[Top.list])
      /\ lists[Top.list][FirstHit] # NULL /\ lists[Top.list][FirstHit] \notin stopped
  BY <1>3, <1>6 DEF Hits
<1>8. FirstHit \in 1 .. Len(lists[Top.list])
  BY <1>1, <1>2, <1>7
<1>9. lists[Top.list][FirstHit] \in Anims
  BY <1>1, <1>7, <1>8, Types DEF Slots
<1>10. ASSUME NEW i \in Top.itr .. (FirstHit - 1)
       PROVE  Passed(i)
  <2>1. i \notin hits /\ i \in Top.itr .. Len(lists[Top.list])
    BY <1>1, <1>2, <1>4, <1>6, <1>7
  <2>q. QED
    BY <1>3, <2>1 DEF Hits, Passed, ConcernsIt
<1>q. QED
  BY <1>1, <1>7, <1>8, <1>9, <1>10

LEMMA NoHitIsLeft ==
    ASSUME Hits = {}
    PROVE  \A i \in Top.itr .. Len(lists[Top.list]) : Passed(i)
  BY DEF Hits, Passed, ConcernsIt

\* While the outermost call is a stop function no animation is ending, and one that is
\* ending is not this call's to stop.
LEMMA NoneEnding ==
    ASSUME Inv, calls # <<>>, calls[1].op \in StopOps, NEW a \in Anims, InList(a)
    PROVE  a \notin stopped
  BY DEF Inv, Good, Ending, StopOps

\* The slot is a hole before the callback runs, and the animation the call's own.
LEMMA StopNextKeeps ==
    ASSUME Inv, StopNext
    PROVE  Inv'
<1> DEFINE n == Len(calls)
<1>1. /\ Looping(StopOps) /\ Hits # {} /\ calls # <<>> /\ Top.anim = NULL
      /\ Top.op \in StopOps
      /\ UNCHANGED <<accDt, count, stopped, life, destroyed>>
  BY DEF StopNext, Looping, progress
<1>2. /\ n \in Nat \ {0} /\ n \in 1 .. n /\ Top = calls[n] /\ Top \in CallSet
      /\ Top.list \in Lists /\ CallOK(n)
  BY <1>1, TopTypes DEF Inv, Control
<1>3. PICK L, F : L = Top.list /\ F = FirstHit
  OBVIOUS
<1>4. PICK x : x = lists[L][F]
  OBVIOUS
<1>5. /\ L \in Lists /\ F \in Nat /\ F >= Top.itr /\ F \in 1 .. Len(lists[L]) /\ Top.itr > 0
      /\ x \in Anims /\ x # NULL /\ x \notin stopped
      /\ \A i \in Top.itr .. (F - 1) : Passed(i)
  <2>1. Top.itr > 0
    BY <1>2 DEF CallOK
  <2>q. QED
    BY <1>1, <1>2, <1>3, <1>4, <2>1, FirstHitIsFirst, AnimsAssumption DEF Inv
<1>6. PICK c : c = [Top EXCEPT !.itr = F, !.anim = x]
  OBVIOUS
<1>7. /\ c \in CallSet
      /\ c.op = Top.op /\ c.of = Top.of /\ c.list = L /\ c.itr = F /\ c.anim = x
  BY <1>2, <1>3, <1>5, <1>6 DEF CallSet, Slots
<1>8. /\ calls' \in Seq(CallSet) /\ Len(calls') = n
      /\ calls'[n] = c
      /\ \A k \in 1 .. n : k # n => calls'[k] = calls[k]
  <2>1. SetTop(c)
    BY <1>3, <1>4, <1>6 DEF StopNext
  <2>q. QED
    BY <1>1, <1>7, <2>1, SetTopStep DEF Inv
<1>9. /\ lists' = [lists EXCEPT ![L][F] = NULL]
      /\ told' = [told EXCEPT ![x] = @ + 1]
  BY <1>3, <1>4 DEF StopNext
<1>10. /\ told' \in [Anims -> Nat]
       /\ \A b \in Anims : told'[b] = IF b = x THEN told[b] + 1 ELSE told[b]
  BY <1>5, <1>9 DEF Inv, TypeOK
<1>11. /\ lists' \in [Lists -> Seq(Slots)]
       /\ \A l \in Lists : /\ Len(lists'[l]) = Len(lists[l])
                           /\ \A i \in 1 .. Len(lists[l]) :
                                 lists'[l][i] = IF l = L /\ i = F THEN NULL ELSE lists[l][i]
  <2>1. lists' = [lists EXCEPT ![L] = [lists[L] EXCEPT ![F] = NULL]]
    BY <1>9
  <2>2. lists[L] \in Seq(Slots) /\ NULL \in Slots
    BY <1>5, Types DEF Inv, Slots
  <2>3. /\ [lists[L] EXCEPT ![F] = NULL] \in Seq(Slots)
        /\ Len([lists[L] EXCEPT ![F] = NULL]) = Len(lists[L])
        /\ \A i \in 1 .. Len(lists[L]) :
              [lists[L] EXCEPT ![F] = NULL][i] = IF i = F THEN NULL ELSE lists[L][i]
    BY <1>5, <2>2, ExceptSeq
  <2>4. \A l \in Lists : lists'[l] = IF l = L THEN [lists[L] EXCEPT ![F] = NULL] ELSE lists[l]
    BY <1>5, <2>1, Types DEF Inv
  <2>5. lists' \in [Lists -> Seq(Slots)]
    BY <1>5, <2>1, <2>3, Types DEF Inv
  <2>q. QED
    BY <2>3, <2>4, <2>5
<1>12. ASSUME NEW l \in Lists, NEW i
       PROVE  /\ \A b \in Anims : Slot(l, i, b)' <=> Slot(l, i, b) /\ ~(l = L /\ i = F)
              /\ Slot(l, i, NULL)' <=> Slot(l, i, NULL) \/ (l = L /\ i = F)
  BY <1>5, <1>11, AnimsAssumption DEF Slot
<1>13. Slot(L, F, x)
  BY <1>4, <1>5 DEF Slot
<1>14. TypeOK'
  BY <1>1, <1>8, <1>10, <1>11 DEF Inv, TypeOK, Lists, Slots, CallSet
<1>15. ASSUME NEW k \in 1 .. n
       PROVE  CallOK(k)'
  <2>1. CallOK(k) /\ calls[k] \in CallSet
    BY <1>2, Types DEF Inv, Control
  <2>2. "all" \in Lists /\ calls[k].list \in Lists
    BY <2>1 DEF Lists, CallSet
  <2>3. CASE k # n
    <3>1. calls'[k] = calls[k]
      BY <1>8, <2>3
    <3>2. calls[k].op = "update" /\ calls[k].anim # NULL =>
              Slot("all", calls[k].itr, calls[k].anim)' /\ calls[k].anim \in stopped
      <4>1. SUFFICES ASSUME calls[k].op = "update", calls[k].anim # NULL
                     PROVE  Slot("all", calls[k].itr, calls[k].anim)'
                            /\ calls[k].anim \in stopped
        OBVIOUS
      <4>2. PICK i, b : i = calls[k].itr /\ b = calls[k].anim
        OBVIOUS
      <4>3. Slot("all", i, b) /\ b \in stopped /\ b \in Anims
        BY <2>1, <4>1, <4>2 DEF CallOK, CallSet, Slots
      <4>4. ~("all" = L /\ i = F)
        BY <1>5, <1>13, <4>3 DEF Slot
      <4>5. Slot("all", i, b)'
        BY <1>12, <2>2, <4>3, <4>4
      <4>q. QED
        BY <3>1, <4>2, <4>3, <4>5
    <3>q. QED
      BY <1>1, <1>11, <1>12, <2>1, <2>2, <3>1, <3>2 DEF CallOK
  <2>4. CASE k = n
    <3>1. c.op \in StopOps /\ c.op # "update" /\ (c.op = "every" => n = 1)
      BY <1>1, <1>2, <1>7 DEF StopOps, CallOK
    <3>2. F > 0 /\ F <= Len(lists'[L]) + 1
      BY <1>5, <1>11, Types DEF Inv
    <3>3. Slot(L, F, NULL)'
      BY <1>5, <1>12
    <3>4. ASSUME c.op = "every", NEW i \in 1 .. (F - 1)
          PROVE  Slot(L, i, NULL)
      <4>1. CASE i < Top.itr
        <5>1. i \in 1 .. (Top.itr - 1)
          BY <1>2, <1>5, <4>1 DEF CallSet
        <5>q. QED
          BY <1>2, <1>3, <1>7, <3>4, <5>1 DEF CallOK
      <4>2. CASE i >= Top.itr
        <5>1. Passed(i) /\ i \in 1 .. Len(lists[L]) /\ i \in Nat
          BY <1>2, <1>5, <4>2, Types DEF CallSet, Inv
        <5>2. ConcernsIt(lists[L][i]) /\ lists[L][i] \in Slots
          BY <1>5, <1>7, <3>4, <5>1, TopConcerns, Types DEF Inv
        <5>3. lists[L][i] = NULL \/ lists[L][i] \in stopped
          BY <1>3, <5>1, <5>2 DEF Passed
        <5>4. lists[L][i] # NULL => lists[L][i] \in Anims /\ InList(lists[L][i])
          BY <1>5, <5>1, <5>2 DEF InList, Slot, Slots
        <5>5. calls[1].op \in StopOps
          BY <1>2, <1>7, <3>1, <3>4
        <5>6. lists[L][i] = NULL
          BY <1>1, <5>3, <5>4, <5>5, NoneEnding
        <5>q. QED
          BY <5>1, <5>6 DEF Slot
      <4>q. QED
        BY <1>2, <1>5, <4>1, <4>2 DEF CallSet
    <3>5. c.op = "every" /\ L = "toAdd" => Len(lists'["all"]) = 0
      BY <1>2, <1>3, <1>7, <1>11, <2>2 DEF CallOK
    <3>6. ASSUME c.op = "every", NEW i \in 1 .. (F - 1)
          PROVE  Slot(L, i, NULL)'
      BY <1>5, <1>12, <3>4, <3>6
    <3>q. QED
      BY <1>7, <1>8, <2>4, <3>1, <3>2, <3>3, <3>5, <3>6 DEF CallOK
  <2>q. QED
    BY <2>3, <2>4
<1>16. ASSUME NEW b \in Anims
       PROVE  Good(b)'
  <2>1. Good(b) /\ Good(x) /\ b # NULL
    BY <1>5, AnimsAssumption DEF Inv
  <2>2. \A l \in Lists, i \in Nat : Slot(l, i, b)' <=> Slot(l, i, b) /\ ~(l = L /\ i = F)
    BY <1>12
  <2>3. \A k \in Nat : Held(k, b)' <=> Held(k, b) \/ (k = n /\ b = x)
    BY <1>1, <1>2, <1>7, <1>8, <2>1 DEF Held
  <2>4. Telling(b)' <=> Telling(b) \/ b = x
    BY <1>1, <1>2, <1>7, <1>8, <2>1 DEF Telling
  <2>5. InList(b)' => InList(b)
    BY <2>2 DEF InList
  <2>6. Ending(b)'
    <3>1. n = 1 => calls[1].op \in StopOps
      BY <1>1, <1>2
    <3>2. n # 1 => calls'[1] = calls[1]
      BY <1>2, <1>8
    <3>3. n = 1 /\ InList(b)' => b \notin stopped
      BY <1>1, <2>5, <3>1, NoneEnding
    <3>q. QED
      BY <1>1, <1>2, <1>8, <2>1, <2>5, <3>2, <3>3 DEF Good, Ending
  <2>7. Doomed(b)'
    <3> SUFFICES ASSUME NEW e \in Targets[b], e \in destroyed, NEW l \in Lists, NEW i \in Nat,
                        Slot(l, i, b), ~(l = L /\ i = F), b \notin stopped
                 PROVE  \E k \in Nat : StopsFor(k, e)' /\ Ahead(k, l, i)'
      BY <1>1, <2>2 DEF Doomed
    <3>1. PICK k \in Nat : StopsFor(k, e) /\ Ahead(k, l, i)
      BY <2>1 DEF Good, Doomed
    <3>2. CASE k # n
      BY <1>8, <3>1, <3>2 DEF StopsFor, Ahead
    <3>3. CASE k = n
      <4>1. StopsFor(k, e)'
        BY <1>2, <1>7, <1>8, <3>1, <3>3 DEF StopsFor
      <4>2. ASSUME l = L, i >= Top.itr, i < F
            PROVE  FALSE
        <5>1. Passed(i) /\ lists[L][i] = b
          BY <1>2, <1>5, <4>2 DEF Slot, CallSet
        <5>2. ConcernsIt(b)
          BY <1>2, <3>1, <3>3, TopConcerns DEF StopsFor
        <5>q. QED
          BY <1>3, <2>1, <5>1, <5>2 DEF Passed
      <4>3. Ahead(k, l, i)'
        BY <1>2, <1>3, <1>5, <1>7, <1>8, <3>1, <3>3, <4>2 DEF Ahead
      <4>q. QED
        BY <4>1, <4>3
    <3>q. QED
      BY <3>2, <3>3
  <2>8. CASE b = x
    <3>1. InList(x) /\ ~InCall(x) /\ life[x] = "live"
      BY <1>5, <1>13, <2>1 DEF InList, Good, Own
    <3>2. ~InList(b)'
      BY <1>5, <1>13, <2>1, <2>2, <2>8 DEF InList, Good, Own
    <3>3. InCall(b)' /\ \A k \in Nat : Held(k, b)' <=> k = n
      BY <1>2, <2>3, <2>8, <3>1 DEF InCall
    <3>4. Own(b)'
      BY <1>1, <2>2, <2>1, <2>8, <3>1, <3>2, <3>3 DEF Own, Good
    <3>5. ~Telling(x)
      BY <1>5, <3>1, TellingSomewhere DEF Inv
    <3>6. told[x] = 0
      BY <2>1, <3>1, <3>5 DEF Good, Told
    <3>7. Told(b)'
      BY <1>10, <2>4, <2>8, <3>6 DEF Told
    <3>q. QED
      BY <2>6, <2>7, <3>4, <3>7 DEF Good
  <2>9. CASE b # x
    <3>1. \A l \in Lists, i \in Nat : Slot(l, i, b)' <=> Slot(l, i, b)
      BY <1>13, <2>2, <2>9 DEF Slot
    <3>2. (InList(b)' <=> InList(b)) /\ (InCall(b)' <=> InCall(b))
      BY <2>3, <2>9, <3>1 DEF InList, InCall
    <3>3. Own(b)'
      BY <1>1, <2>1, <2>3, <2>9, <3>1, <3>2 DEF Good, Own
    <3>4. Told(b)'
      BY <1>1, <1>10, <2>1, <2>4, <2>9 DEF Good, Told
    <3>q. QED
      BY <2>6, <2>7, <3>3, <3>4 DEF Good
  <2>q. QED
    BY <2>8, <2>9
<1>q. QED
  BY <1>8, <1>14, <1>15, <1>16 DEF Inv, Control

LEMMA StopReturnKeeps ==
    ASSUME Inv, StopReturn
    PROVE  Inv'
<1> DEFINE n == Len(calls)
<1>1. /\ calls # <<>> /\ Top.op \in StopOps /\ Top.anim # NULL
      /\ UNCHANGED <<lists, accDt, count, stopped, destroyed, told>>
  BY DEF StopReturn, progress
<1>2. /\ n \in Nat \ {0} /\ n \in 1 .. n /\ Top = calls[n] /\ Top \in CallSet
      /\ Top.list \in Lists /\ Top.itr \in Nat /\ CallOK(n)
  BY <1>1, TopTypes DEF Inv, Control
<1>3. PICK L, p, x : L = Top.list /\ p = Top.itr /\ x = Top.anim
  OBVIOUS
<1>4. /\ L \in Lists /\ p \in Nat /\ p > 0 /\ x \in Anims
      /\ Slot(L, p, NULL) /\ Held(n, x)
  BY <1>1, <1>2, <1>3 DEF CallSet, Slots, CallOK, Held
<1>5. PICK q : q = IF Top.op = "name" THEN p ELSE p + 1
  OBVIOUS
<1>6. PICK c : c = [Top EXCEPT !.anim = NULL, !.itr = q]
  OBVIOUS
<1>7. /\ c \in CallSet /\ q \in {p, p + 1}
      /\ c.op = Top.op /\ c.of = Top.of /\ c.list = L /\ c.itr = q /\ c.anim = NULL
  <2>1. q \in {p, p + 1} /\ q \in Nat
    BY <1>4, <1>5
  <2>q. QED
    BY <1>2, <1>3, <1>6, <2>1 DEF CallSet, Slots
<1>8. /\ calls' \in Seq(CallSet) /\ Len(calls') = n
      /\ calls'[n] = c
      /\ \A k \in 1 .. n : k # n => calls'[k] = calls[k]
  <2>1. SetTop(c)
    BY <1>2, <1>3, <1>5, <1>6 DEF StopReturn, CallSet
  <2>q. QED
    BY <1>1, <1>7, <2>1, SetTopStep DEF Inv
<1>9. /\ life' \in [Anims -> {"fresh", "live", "deleted", "lost"}]
      /\ \A b \in Anims : life'[b] = IF b = x THEN "deleted" ELSE life[b]
  BY <1>3, <1>4 DEF StopReturn, Inv, TypeOK
<1>10. \A l, i, b : Slot(l, i, b)' <=> Slot(l, i, b)
  BY <1>1 DEF Slot
<1>11. TypeOK'
  BY <1>1, <1>8, <1>9 DEF Inv, TypeOK, Lists, Slots, CallSet
<1>12. ASSUME NEW k \in 1 .. n
       PROVE  CallOK(k)'
  <2>1. CASE k # n
    BY <1>1, <1>8, <1>10, <2>1 DEF Inv, Control, CallOK
  <2>2. CASE k = n
    <3>1. c.op # "update" /\ (c.op = "every" => n = 1)
      BY <1>1, <1>2, <1>7 DEF StopOps, CallOK
    <3>2. q > 0 /\ q <= Len(lists[L]) + 1
      <4>1. p <= Len(lists[L]) /\ Len(lists[L]) \in Nat
        BY <1>4, Types DEF Slot, Inv
      <4>q. QED
        BY <1>4, <1>7, <4>1
    <3>3. ASSUME c.op = "every", NEW i \in 1 .. (q - 1)
          PROVE  Slot(L, i, NULL)
      <4>1. i \in 1 .. (p - 1) \/ i = p
        BY <1>4, <1>7
      <4>q. QED
        BY <1>2, <1>3, <1>4, <1>7, <3>3, <4>1 DEF CallOK
    <3>4. c.op = "every" /\ L = "toAdd" => Len(lists["all"]) = 0
      BY <1>2, <1>3, <1>7 DEF CallOK
    <3>q. QED
      BY <1>1, <1>7, <1>8, <1>10, <2>2, <3>1, <3>2, <3>3, <3>4 DEF CallOK
  <2>q. QED
    BY <2>1, <2>2
<1>13. ASSUME NEW b \in Anims
       PROVE  Good(b)'
  <2>1. Good(b) /\ b # NULL
    BY AnimsAssumption DEF Inv
  <2>2. \A k \in Nat : Held(k, b)' <=> Held(k, b) /\ k # n
    BY <1>2, <1>7, <1>8, <2>1 DEF Held
  <2>3. InList(b)' <=> InList(b)
    BY <1>10 DEF InList
  <2>4. Ending(b)'
    <3>1. n = 1 => calls[1].op \in StopOps
      BY <1>1, <1>2
    <3>2. n # 1 => calls'[1] = calls[1]
      BY <1>2, <1>8
    <3>3. n = 1 /\ InList(b) => b \notin stopped
      BY <1>1, <3>1, NoneEnding
    <3>4. life'[b] = "fresh" => life[b] = "fresh"
      BY <1>9
    <3>q. QED
      BY <1>1, <1>2, <1>8, <2>1, <2>3, <3>2, <3>3, <3>4 DEF Good, Ending
  <2>5. Doomed(b)'
    <3> SUFFICES ASSUME NEW e \in Targets[b], e \in destroyed, NEW l \in Lists, NEW i \in Nat,
                        Slot(l, i, b), b \notin stopped
                 PROVE  \E k \in Nat : StopsFor(k, e)' /\ Ahead(k, l, i)'
      BY <1>1, <1>10 DEF Doomed
    <3>1. PICK k \in Nat : StopsFor(k, e) /\ Ahead(k, l, i)
      BY <2>1 DEF Good, Doomed
    <3>2. CASE k # n
      BY <1>8, <3>1, <3>2 DEF StopsFor, Ahead
    <3>3. CASE k = n
      <4>1. StopsFor(k, e)'
        BY <1>2, <1>7, <1>8, <3>1, <3>3 DEF StopsFor
      <4>2. ~(l = L /\ i = p)
        BY <1>4, <2>1 DEF Slot
      <4>3. Ahead(k, l, i)'
        BY <1>2, <1>3, <1>4, <1>7, <1>8, <3>1, <3>3, <4>2 DEF Ahead
      <4>q. QED
        BY <4>1, <4>3
    <3>q. QED
      BY <3>2, <3>3
  <2>6. CASE b = x
    <3>1. n \in Nat /\ InCall(b)
      BY <1>2, <1>4, <2>6 DEF InCall
    <3>2. ~InList(b) /\ ~InCall(b)'
      <4>1. \A k \in Nat : Held(k, b) => k = n
        BY <1>4, <2>1, <2>6, <3>1 DEF Good, Own
      <4>q. QED
        BY <2>1, <2>2, <3>1, <4>1 DEF Good, Own, InCall
    <3>3. Own(b)'
      BY <1>9, <1>10, <2>1, <2>2, <2>3, <2>6, <3>2 DEF Good, Own
    <3>4. Telling(b)
      BY <1>4, <2>6 DEF Telling, Held
    <3>5. Told(b)'
      BY <1>1, <1>9, <2>1, <2>6, <3>4 DEF Good, Told
    <3>q. QED
      BY <2>4, <2>5, <3>3, <3>5 DEF Good
  <2>7. CASE b # x
    <3>1. \A k \in Nat : Held(k, b)' <=> Held(k, b)
      BY <1>4, <2>2, <2>7 DEF Held
    <3>2. InCall(b)' <=> InCall(b)
      BY <3>1 DEF InCall
    <3>3. Own(b)'
      BY <1>9, <1>10, <2>1, <2>3, <2>7, <3>1, <3>2 DEF Good, Own
    <3>4. Telling(b)' <=> Telling(b)
      BY <1>2, <1>3, <1>7, <1>8, <2>1, <2>7 DEF Telling
    <3>5. Told(b)'
      BY <1>1, <1>9, <2>1, <2>7, <3>4 DEF Good, Told
    <3>q. QED
      BY <2>4, <2>5, <3>3, <3>5 DEF Good
  <2>q. QED
    BY <2>6, <2>7
<1>q. QED
  BY <1>8, <1>11, <1>12, <1>13 DEF Inv, Control

\* A loop ends when all that is left has been passed over; stopAllAnimations, which
\* passes nothing over, clears a vector in which there are only holes.
LEMMA EndLoopKeeps ==
    ASSUME Inv, EndLoop
    PROVE  Inv'
<1> DEFINE n == Len(calls)
<1>1. /\ Looping(StopOps) /\ Hits = {} /\ calls # <<>> /\ Top.anim = NULL
      /\ Top.op \in StopOps
      /\ UNCHANGED <<accDt, count, stopped, life, destroyed, told>>
  BY DEF EndLoop, Looping, progress
<1>2. /\ n \in Nat \ {0} /\ n \in 1 .. n /\ Top = calls[n] /\ Top \in CallSet
      /\ Top.list \in Lists /\ Top.itr \in Nat /\ CallOK(n)
  BY <1>1, TopTypes DEF Inv, Control
<1>3. PICK L, p : L = Top.list /\ p = Top.itr
  OBVIOUS
<1>4. /\ L \in Lists /\ p \in Nat /\ p > 0 /\ Len(lists[L]) \in Nat
      /\ \A i \in p .. Len(lists[L]) : Passed(i)
  BY <1>1, <1>2, <1>3, NoHitIsLeft, Types DEF CallOK, Inv
<1>5. ASSUME Top.op = "every"
      PROVE  n = 1 /\ \A b \in Anims : \A i : ~Slot(L, i, b)
  <2>1. n = 1 /\ calls[1].op \in StopOps
    BY <1>1, <1>2, <1>5 DEF CallOK
  <2>2. ASSUME NEW b \in Anims, NEW i, Slot(L, i, b)
        PROVE  FALSE
    <3>1. b # NULL /\ i \in 1 .. Len(lists[L]) /\ lists[L][i] = b
      BY <2>2, AnimsAssumption DEF Slot
    <3>2. ~(i \in 1 .. (p - 1))
      BY <1>2, <1>3, <1>5, <3>1 DEF CallOK, Slot
    <3>3. i \in p .. Len(lists[L])
      BY <1>4, <3>1, <3>2
    <3>4. Passed(i) /\ ConcernsIt(b)
      BY <1>4, <1>5, <3>3, TopConcerns
    <3>5. b \in stopped
      BY <1>3, <3>1, <3>4 DEF Passed
    <3>6. InList(b)
      BY <1>4, <2>2, <3>1 DEF InList
    <3>q. QED
      BY <1>1, <2>1, <3>5, <3>6, NoneEnding
  <2>q. QED
    BY <2>1, <2>2
<1>6. /\ lists' \in [Lists -> Seq(Slots)]
      /\ \A l \in Lists : lists'[l] = IF Top.op = "every" /\ l = L THEN <<>> ELSE lists[l]
  <2>1. lists' = IF Top.op = "every" THEN [lists EXCEPT ![L] = <<>>] ELSE lists
    BY <1>3 DEF EndLoop
  <2>2. lists \in [Lists -> Seq(Slots)] /\ <<>> \in Seq(Slots)
    BY Types, EmptySeq DEF Inv
  <2>q. QED
    BY <1>4, <2>1, <2>2
<1>7. ASSUME NEW b \in Anims, NEW l \in Lists, NEW i
      PROVE  Slot(l, i, b)' <=> Slot(l, i, b)
  <2>1. CASE Top.op = "every" /\ l = L
    <3>1. Len(lists'[l]) = 0
      BY <1>6, <2>1
    <3>2. ~Slot(l, i, b)'
      BY <3>1 DEF Slot
    <3>q. QED
      BY <1>5, <2>1, <3>2
  <2>2. CASE ~(Top.op = "every" /\ l = L)
    BY <1>6, <2>2 DEF Slot
  <2>q. QED
    BY <2>1, <2>2
<1>8. n # 1 => UNCHANGED lists
  BY <1>5 DEF EndLoop
<1>9. /\ calls' \in Seq(CallSet) /\ Len(calls') \in Nat /\ Len(calls') <= n
      /\ \A k \in 1 .. Len(calls') : k # n => k \in 1 .. n /\ calls'[k] = calls[k]
      /\ n - 1 <= Len(calls')
      /\ L = "all" => /\ Len(calls') = n
                      /\ calls'[n].op = Top.op /\ calls'[n].of = Top.of
                      /\ calls'[n].list = "toAdd" /\ calls'[n].itr = 1 /\ calls'[n].anim = NULL
      /\ L = "toAdd" => Len(calls') = n - 1
  <2>1. CASE L = "all"
    <3>1. PICK c : c = [Top EXCEPT !.list = "toAdd", !.itr = 1]
      OBVIOUS
    <3>2. /\ c \in CallSet /\ c.op = Top.op /\ c.of = Top.of
          /\ c.list = "toAdd" /\ c.itr = 1 /\ c.anim = NULL
      BY <1>1, <1>2, <3>1 DEF CallSet, Lists
    <3>3. SetTop(c)
      BY <1>3, <2>1, <3>1 DEF EndLoop
    <3>4. /\ calls' \in Seq(CallSet) /\ Len(calls') = n
          /\ calls'[n] = c
          /\ \A k \in 1 .. n : k # n => calls'[k] = calls[k]
      BY <1>1, <3>2, <3>3, SetTopStep DEF Inv
    <3>q. QED
      BY <1>2, <2>1, <3>2, <3>4
  <2>2. CASE L = "toAdd"
    <3>1. calls' = Front(calls)
      BY <1>3, <2>2 DEF EndLoop
    <3>2. /\ calls' \in Seq(CallSet) /\ Len(calls') = n - 1
          /\ \A k \in 1 .. Len(calls') : k \in 1 .. n /\ calls'[k] = calls[k]
      BY <1>1, <3>1, FrontStep DEF Inv
    <3>q. QED
      BY <1>2, <2>2, <3>2
  <2>q. QED
    BY <1>4, <2>1, <2>2 DEF Lists
<1>10. TypeOK'
  BY <1>1, <1>6, <1>9 DEF Inv, TypeOK, Lists, Slots, CallSet
<1>11. ASSUME NEW k \in 1 .. Len(calls')
       PROVE  CallOK(k)'
  <2>1. CASE k # n
    <3>1. k \in 1 .. n /\ calls'[k] = calls[k] /\ lists' = lists
      BY <1>2, <1>8, <1>9, <2>1
    <3>q. QED
      BY <1>1, <3>1 DEF Inv, Control, CallOK, Slot
  <2>2. CASE k = n
    <3>1. L = "all"
      BY <1>2, <1>4, <1>9, <2>2 DEF Lists
    <3>2. calls'[n].op # "update" /\ (calls'[n].op = "every" => n = 1)
      BY <1>1, <1>2, <1>9, <3>1 DEF StopOps, CallOK
    <3>3. Len(lists'["toAdd"]) \in Nat
      BY <1>6 DEF Lists
    <3>4. Top.op = "every" => Len(lists'["all"]) = 0
      BY <1>6, <3>1 DEF Lists
    <3>q. QED
      BY <1>9, <2>2, <3>1, <3>2, <3>3, <3>4 DEF CallOK
  <2>q. QED
    BY <2>1, <2>2
<1>12. ASSUME NEW b \in Anims
       PROVE  Good(b)'
  <2>1. Good(b) /\ b # NULL
    BY AnimsAssumption DEF Inv
  <2>2. \A k \in Nat : Held(k, b)' <=> Held(k, b)
    <3>1. \A k \in Nat : Held(k, b) => k # n
      BY <1>1, <1>2, <2>1 DEF Held
    <3>2. \A k \in Nat : Held(k, b)' => k # n
      BY <1>4, <1>9, <2>1 DEF Held, Lists
    <3>q. QED
      BY <1>2, <1>9, <3>1, <3>2 DEF Held
  <2>3. Telling(b)' <=> Telling(b)
    <3>1. ASSUME NEW k \in 1 .. Len(calls'), calls'[k].anim = b
          PROVE  k # n
      BY <1>2, <1>4, <1>9, <2>1, <3>1 DEF Lists
    <3>2. ASSUME NEW k \in 1 .. n, calls[k].anim = b
          PROVE  k \in 1 .. Len(calls') /\ k # n
      BY <1>1, <1>2, <1>9, <2>1, <3>2
    <3>q. QED
      BY <1>9, <3>1, <3>2 DEF Telling
  <2>4. (InList(b)' <=> InList(b)) /\ (InCall(b)' <=> InCall(b))
    BY <1>7, <2>2 DEF InList, InCall
  <2>5. Own(b)' /\ Told(b)'
    BY <1>1, <1>7, <2>1, <2>2, <2>3, <2>4 DEF Good, Own, Told
  <2>6. Ending(b)'
    <3>1. n = 1 => calls[1].op \in StopOps
      BY <1>1, <1>2
    <3>2. n # 1 => Len(calls') > 0 /\ calls'[1] = calls[1]
      <4> SUFFICES ASSUME n # 1
                   PROVE  Len(calls') > 0 /\ calls'[1] = calls[1]
        OBVIOUS
      <4>1. n \in Nat \ {0} /\ Len(calls') \in Nat /\ n - 1 <= Len(calls')
        BY <1>2, <1>9
      <4> HIDE DEF n
      <4>2. Len(calls') > 0 /\ 1 \in 1 .. Len(calls')
        BY <4>1
      <4>3. \A k \in 1 .. Len(calls') : k # n => calls'[k] = calls[k]
        BY <1>9
      <4>q. QED
        BY <4>2, <4>3
    <3>3. n = 1 /\ InList(b) => b \notin stopped
      BY <1>1, <3>1, NoneEnding
    <3>q. QED
      BY <1>1, <1>2, <2>1, <2>4, <3>2, <3>3 DEF Good, Ending
  <2>7. Doomed(b)'
    <3> SUFFICES ASSUME NEW e \in Targets[b], e \in destroyed, NEW l \in Lists, NEW i \in Nat,
                        Slot(l, i, b), b \notin stopped
                 PROVE  \E k \in Nat : StopsFor(k, e)' /\ Ahead(k, l, i)'
      BY <1>1, <1>7 DEF Doomed
    <3>1. PICK k \in Nat : StopsFor(k, e) /\ Ahead(k, l, i)
      BY <2>1 DEF Good, Doomed
    <3>2. CASE k # n
      <4>1. k \in 1 .. Len(calls') /\ calls'[k] = calls[k]
        BY <1>2, <1>9, <3>1, <3>2 DEF StopsFor
      <4>q. QED
        BY <3>1, <4>1 DEF StopsFor, Ahead
    <3>3. CASE k = n
      <4>1. ~(l = L /\ i >= p)
        <5>1. SUFFICES ASSUME l = L, i >= p
                       PROVE  FALSE
          OBVIOUS
        <5>2. Passed(i) /\ lists[L][i] = b
          BY <1>4, <5>1 DEF Slot
        <5>3. ConcernsIt(b)
          BY <1>2, <3>1, <3>3, TopConcerns DEF StopsFor
        <5>q. QED
          BY <1>3, <2>1, <5>2, <5>3 DEF Passed
      <4>2. L = "all" /\ l = "toAdd"
        BY <1>2, <1>3, <3>1, <3>3, <4>1 DEF Ahead
      <4>3. i >= 1
        BY DEF Slot
      <4>4. StopsFor(k, e)' /\ Ahead(k, l, i)'
        BY <1>2, <1>9, <3>1, <3>3, <4>2, <4>3 DEF StopsFor, Ahead
      <4>q. QED
        BY <4>4
    <3>q. QED
      BY <3>2, <3>3
  <2>q. QED
    BY <2>5, <2>6, <2>7 DEF Good
<1>q. QED
  BY <1>10, <1>11, <1>12 DEF Inv, Control

-----------------------------------------------------------------------------
(* HLTweenSystem::update.                                                   *)

\* Between two callbacks of update, and between two calls, no animation is ending and
\* none is left of a destroyed entity.
LEMMA QuietBefore ==
    ASSUME Inv, NEW a \in Anims, InList(a),
           calls = <<>> \/ (Len(calls) = 1 /\ calls[1].op = "update" /\ calls[1].anim # a)
    PROVE  a \notin stopped /\ Targets[a] \cap destroyed = {}
<1>1. Good(a)
  BY DEF Inv
<1>2. Len(calls) = 0 \/ (Len(calls) = 1 /\ calls[1].op = "update" /\ calls[1].anim # a)
  BY Types, EmptySeq DEF Inv
<1>3. a \notin stopped
  BY <1>1, <1>2 DEF Good, Ending
<1>4. ASSUME NEW e \in Targets[a] \cap destroyed
      PROVE  FALSE
  <2>1. PICK l \in Lists, i \in Nat : Slot(l, i, a)
    BY DEF InList
  <2>2. PICK k \in Nat : StopsFor(k, e)
    BY <1>1, <1>3, <2>1 DEF Good, Doomed
  <2>q. QED
    BY <1>2, <2>2 DEF StopsFor
<1>q. QED
  BY <1>3, <1>4

LEMMA QuietAfter ==
    ASSUME NEW a \in Anims,
           InList(a)' => a \notin stopped' /\ Targets[a] \cap destroyed' = {},
           a \in stopped' => life'[a] # "fresh"
    PROVE  Ending(a)' /\ Doomed(a)'
<1>1. Ending(a)'
  BY DEF Ending
<1>2. \A l \in Lists, i \in Nat : Slot(l, i, a)' => InList(a)'
  BY DEF InList
<1>q. QED
  BY <1>1, <1>2 DEF Doomed

\* update is the outermost call.
LEMMA UpdateIsOutermost ==
    ASSUME Inv, calls # <<>>, Top.op = "update"
    PROVE  /\ Len(calls) = 1 /\ Top = calls[1] /\ Top \in CallSet /\ CallOK(1)
           /\ Top.list = "all" /\ Top.itr \in Nat /\ Top.itr > 0
           /\ lists["all"] \in Seq(Slots) /\ Len(lists["all"]) \in Nat
           /\ Top.itr <= Len(lists["all"]) + 1
<1>1. /\ Len(calls) \in 1 .. Len(calls) /\ Top = calls[Len(calls)] /\ Top \in CallSet
      /\ Top.itr \in Nat
  BY TopTypes DEF Inv
<1>2. CallOK(Len(calls))
  BY <1>1 DEF Inv, Control
<1>3. Len(calls) = 1
  BY <1>1, <1>2 DEF CallOK
<1>4. lists["all"] \in Seq(Slots) /\ Len(lists["all"]) \in Nat
  BY Types DEF Inv, Lists
<1>q. QED
  BY <1>1, <1>2, <1>3, <1>4 DEF CallOK

\* The animations that wait are put at the end of the others.
LEMMA BeginUpdateKeeps ==
    ASSUME Inv, BeginUpdate
    PROVE  Inv'
<1>1. /\ calls = <<>> /\ Len(calls) = 0
      /\ UNCHANGED <<accDt, count, stopped, life, destroyed, told>>
  BY EmptySeq DEF BeginUpdate, progress
<1>2. PICK c : c = Call("update", NULL)
  OBVIOUS
<1>3. /\ c \in CallSet /\ c.op = "update" /\ c.list = "all" /\ c.itr = 1 /\ c.anim = NULL
  BY <1>2 DEF Call, CallSet, Lists, Slots
<1>4. calls' = <<c>> /\ calls' \in Seq(CallSet) /\ Len(calls') = 1 /\ calls'[1] = c
  BY <1>2, <1>3 DEF BeginUpdate
<1>5. PICK s, t : s = lists["all"] /\ t = lists["toAdd"]
  OBVIOUS
<1>6. s \in Seq(Slots) /\ t \in Seq(Slots) /\ Len(s) \in Nat /\ Len(t) \in Nat
  BY <1>5, Types DEF Inv, Lists
<1>7. /\ s \o t \in Seq(Slots) /\ Len(s \o t) = Len(s) + Len(t)
      /\ \A i \in 1 .. (Len(s) + Len(t)) :
            (s \o t)[i] = IF i <= Len(s) THEN s[i] ELSE t[i - Len(s)]
  BY <1>6, ConcatProperties
<1>8. /\ lists' \in [Lists -> Seq(Slots)]
      /\ lists'["all"] = s \o t /\ lists'["toAdd"] = <<>> /\ Len(lists'["toAdd"]) = 0
  <2>1. lists' = [lists EXCEPT !["all"] = s \o t, !["toAdd"] = <<>>]
    BY <1>5 DEF BeginUpdate
  <2>2. <<>> \in Seq(Slots) /\ Len(<<>>) = 0
    BY EmptySeq
  <2>q. QED
    BY <2>1, <2>2, <1>7, Types DEF Inv, Lists
<1>9. ASSUME NEW b
      PROVE  /\ \A i \in Nat : ~Slot("toAdd", i, b)'
             /\ \A i \in Nat : Slot("all", i, b)' <=>
                   IF i <= Len(s) THEN Slot("all", i, b) ELSE Slot("toAdd", i - Len(s), b)
  <2>1. \A i \in Nat : ~Slot("toAdd", i, b)'
    BY <1>8 DEF Slot
  <2>2. ASSUME NEW i \in Nat
        PROVE  Slot("all", i, b)' <=>
                   IF i <= Len(s) THEN Slot("all", i, b) ELSE Slot("toAdd", i - Len(s), b)
    <3>1. CASE i <= Len(s)
      <4>1. i \in 1 .. (Len(s) + Len(t)) <=> i \in 1 .. Len(s)
        BY <1>6, <3>1
      <4>2. i \in 1 .. Len(s) => (s \o t)[i] = s[i]
        BY <1>7, <3>1, <4>1
      <4>q. QED
        BY <1>5, <1>7, <1>8, <3>1, <4>1, <4>2 DEF Slot
    <3>2. CASE ~(i <= Len(s))
      <4>1. i \in 1 .. (Len(s) + Len(t)) <=> i - Len(s) \in 1 .. Len(t)
        BY <1>6, <3>2
      <4>2. i - Len(s) \in 1 .. Len(t) => (s \o t)[i] = t[i - Len(s)]
        BY <1>7, <3>2, <4>1
      <4>q. QED
        BY <1>5, <1>7, <1>8, <3>2, <4>1, <4>2 DEF Slot
    <3>q. QED
      BY <3>1, <3>2
  <2>q. QED
    BY <2>1, <2>2
<1>10. TypeOK'
  BY <1>1, <1>4, <1>8 DEF Inv, TypeOK, Lists, Slots, CallSet
<1>11. CallOK(1)'
  <2>1. Len(lists'["all"]) \in Nat
    BY <1>6, <1>7, <1>8
  <2>q. QED
    BY <1>3, <1>4, <2>1 DEF CallOK, StopOps
<1>12. ASSUME NEW b \in Anims
       PROVE  Good(b)'
  <2>1. Good(b) /\ b # NULL
    BY AnimsAssumption DEF Inv
  <2>2. \A k \in Nat : ~Held(k, b) /\ ~Held(k, b)'
    BY <1>1, <1>3, <1>4, <2>1 DEF Held
  <2>3. ~Telling(b) /\ ~Telling(b)'
    BY <1>1, <1>3, <1>4, <2>1 DEF Telling
  <2>4. ~InCall(b) /\ ~InCall(b)'
    BY <2>2 DEF InCall
  <2>5. InList(b)' <=> InList(b)
    <3>1. ASSUME NEW l \in Lists, NEW i \in Nat, Slot(l, i, b)'
          PROVE  InList(b)
      <4>1. l = "all"
        BY <1>9, <3>1 DEF Lists
      <4>2. CASE i <= Len(s)
        BY <1>9, <3>1, <4>1, <4>2 DEF InList, Lists
      <4>3. CASE ~(i <= Len(s))
        <5>1. Slot("toAdd", i - Len(s), b) /\ i - Len(s) \in Nat
          BY <1>6, <1>9, <3>1, <4>1, <4>3
        <5>q. QED
          BY <5>1 DEF InList, Lists
      <4>q. QED
        BY <4>2, <4>3
    <3>2. ASSUME NEW l \in Lists, NEW i \in Nat, Slot(l, i, b)
          PROVE  InList(b)'
      <4>1. CASE l = "all"
        <5>1. i <= Len(s)
          BY <1>5, <3>2, <4>1 DEF Slot
        <5>2. Slot("all", i, b)'
          BY <1>9, <3>2, <4>1, <5>1
        <5>q. QED
          BY <5>2 DEF InList, Lists
      <4>2. CASE l = "toAdd"
        <5>1. PICK j : j = i + Len(s)
          OBVIOUS
        <5>2. j \in Nat /\ ~(j <= Len(s)) /\ j - Len(s) = i
          BY <1>5, <1>6, <3>2, <4>2, <5>1 DEF Slot
        <5>3. Slot("all", j, b)'
          BY <1>9, <3>2, <4>2, <5>2
        <5>q. QED
          BY <5>2, <5>3 DEF InList, Lists
      <4>q. QED
        BY <4>1, <4>2 DEF Lists
    <3>q. QED
      BY <3>1, <3>2 DEF InList
  <2>6. ASSUME NEW l \in Lists, NEW m \in Lists, NEW i \in Nat, NEW j \in Nat,
               Slot(l, i, b)', Slot(m, j, b)'
        PROVE  l = m /\ i = j
    <3>1. l = "all" /\ m = "all"
      BY <1>9, <2>6 DEF Lists
    <3>2. \A y, z \in Lists, k, h \in Nat : Slot(y, k, b) /\ Slot(z, h, b) => y = z /\ k = h
      BY <2>1 DEF Good, Own
    <3>3. /\ IF i <= Len(s) THEN Slot("all", i, b) ELSE Slot("toAdd", i - Len(s), b)
          /\ IF j <= Len(s) THEN Slot("all", j, b) ELSE Slot("toAdd", j - Len(s), b)
      BY <1>9, <2>6, <3>1
    <3>4. (~(i <= Len(s)) => i - Len(s) \in Nat) /\ (~(j <= Len(s)) => j - Len(s) \in Nat)
      BY <1>6
    <3>5. "all" \in Lists /\ "toAdd" \in Lists
      BY DEF Lists
    <3>6. CASE i <= Len(s) /\ j <= Len(s)
      BY <3>1, <3>2, <3>3, <3>5, <3>6
    <3>7. CASE ~(i <= Len(s)) /\ ~(j <= Len(s))
      <4>1. i - Len(s) = j - Len(s)
        BY <3>2, <3>3, <3>4, <3>5, <3>7
      <4>q. QED
        BY <1>6, <3>1, <4>1
    <3>8. CASE (i <= Len(s)) # (j <= Len(s))
      BY <3>2, <3>3, <3>4, <3>5, <3>8
    <3>q. QED
      BY <3>6, <3>7, <3>8
  <2>7. Own(b)' /\ Told(b)'
    BY <1>1, <2>1, <2>2, <2>3, <2>4, <2>5, <2>6 DEF Good, Own, Told
  <2>8. Ending(b)' /\ Doomed(b)'
    BY <1>1, <2>1, <2>5, QuietBefore, QuietAfter DEF Good, Ending
  <2>q. QED
    BY <2>7, <2>8 DEF Good
<1>q. QED
  BY <1>4, <1>10, <1>11, <1>12 DEF Inv, Control

\* update erases a slot: what is behind it moves up.
LEMMA EraseStep ==
    ASSUME Inv, calls # <<>>, Top.op = "update", Erase, NEW p \in 1 .. Len(lists["all"]),
           p = Top.itr
    PROVE  /\ lists' \in [Lists -> Seq(Slots)]
           /\ Len(lists'["all"]) = Len(lists["all"]) - 1
           /\ \A b : \A i \in Nat :
                 /\ Slot("toAdd", i, b)' <=> Slot("toAdd", i, b)
                 /\ i < p => (Slot("all", i, b)' <=> Slot("all", i, b))
                 /\ i >= p => (Slot("all", i, b)' <=> Slot("all", i + 1, b))
<1>1. PICK s : s = lists["all"]
  OBVIOUS
<1>2. s \in Seq(Slots) /\ Len(s) \in Nat /\ p \in 1 .. Len(s)
  BY <1>1, UpdateIsOutermost
<1>3. /\ RemoveAt(s, p) \in Seq(Slots)
      /\ Len(RemoveAt(s, p)) = Len(s) - 1
      /\ \A i \in 1 .. (Len(s) - 1) : RemoveAt(s, p)[i] = IF i < p THEN s[i] ELSE s[i + 1]
  BY <1>2, RemoveAtClosesGap
<1>4. lists' = [lists EXCEPT !["all"] = RemoveAt(s, p)]
  BY <1>1 DEF Erase
<1>5. /\ lists' \in [Lists -> Seq(Slots)]
      /\ lists'["all"] = RemoveAt(s, p) /\ lists'["toAdd"] = lists["toAdd"]
  <2>1. lists \in [Lists -> Seq(Slots)] /\ "all" \in Lists /\ "toAdd" \in Lists
    BY Types DEF Inv, Lists
  <2>q. QED
    BY <1>3, <1>4, <2>1
<1>6. ASSUME NEW b, NEW i \in Nat
      PROVE  /\ Slot("toAdd", i, b)' <=> Slot("toAdd", i, b)
             /\ i < p => (Slot("all", i, b)' <=> Slot("all", i, b))
             /\ i >= p => (Slot("all", i, b)' <=> Slot("all", i + 1, b))
  <2>1. Slot("toAdd", i, b)' <=> Slot("toAdd", i, b)
    BY <1>5 DEF Slot
  <2>2. ASSUME i < p
        PROVE  Slot("all", i, b)' <=> Slot("all", i, b)
    <3>1. i \in 1 .. (Len(s) - 1) <=> i \in 1 .. Len(s)
      BY <1>2, <2>2
    <3>q. QED
      BY <1>1, <1>3, <1>5, <2>2, <3>1 DEF Slot
  <2>3. ASSUME i >= p
        PROVE  Slot("all", i, b)' <=> Slot("all", i + 1, b)
    <3>1. i \in 1 .. (Len(s) - 1) <=> i + 1 \in 1 .. Len(s)
      BY <1>2, <2>3
    <3>2. i \in 1 .. (Len(s) - 1) => RemoveAt(s, p)[i] = s[i + 1]
      BY <1>2, <1>3, <2>3
    <3>q. QED
      BY <1>1, <1>3, <1>5, <3>1, <3>2 DEF Slot
  <2>q. QED
    BY <2>1, <2>2, <2>3
<1>q. QED
  BY <1>1, <1>3, <1>5, <1>6

\* Who was not in that slot is still there, once.
LEMMA EraseLeavesOthers ==
    ASSUME Inv, calls # <<>>, Top.op = "update", Erase, NEW p \in 1 .. Len(lists["all"]),
           p = Top.itr, NEW b \in Anims
    PROVE  /\ InList(b)' <=> InList(b) /\ ~Slot("all", p, b)
           /\ \A l, m \in Lists, i, j \in Nat : Slot(l, i, b)' /\ Slot(m, j, b)' => l = m /\ i = j
<1>1. \A i \in Nat :
          /\ Slot("toAdd", i, b)' <=> Slot("toAdd", i, b)
          /\ i < p => (Slot("all", i, b)' <=> Slot("all", i, b))
          /\ i >= p => (Slot("all", i, b)' <=> Slot("all", i + 1, b))
  BY EraseStep
<1>2. \A y, z \in Lists, k, h \in Nat : Slot(y, k, b) /\ Slot(z, h, b) => y = z /\ k = h
  BY DEF Inv, Good, Own
<1>3. "all" \in Lists /\ "toAdd" \in Lists /\ p \in Nat /\ p > 0
  BY DEF Lists
<1>4. ASSUME NEW l \in Lists, NEW i \in Nat, Slot(l, i, b)'
      PROVE  \E j \in Nat : /\ Slot(l, j, b) /\ ~(l = "all" /\ j = p)
                            /\ j = IF l = "all" /\ i >= p THEN i + 1 ELSE i
  <2>1. CASE l = "toAdd"
    BY <1>1, <1>4, <2>1
  <2>2. CASE l = "all" /\ i < p
    BY <1>1, <1>3, <1>4, <2>2
  <2>3. CASE l = "all" /\ i >= p
    <3>1. Slot("all", i + 1, b) /\ i + 1 \in Nat /\ i + 1 # p
      BY <1>1, <1>3, <1>4, <2>3
    <3>q. QED
      BY <2>3, <3>1
  <2>q. QED
    BY <1>3, <2>1, <2>2, <2>3 DEF Lists
<1>5. InList(b)' => InList(b) /\ ~Slot("all", p, b)
  <2>1. SUFFICES ASSUME NEW l \in Lists, NEW i \in Nat, Slot(l, i, b)'
                 PROVE  InList(b) /\ ~Slot("all", p, b)
    BY DEF InList
  <2>2. PICK j \in Nat : Slot(l, j, b) /\ ~(l = "all" /\ j = p)
    BY <1>4, <2>1
  <2>q. QED
    BY <1>2, <1>3, <2>2 DEF InList
<1>6. InList(b) /\ ~Slot("all", p, b) => InList(b)'
  <2>1. SUFFICES ASSUME NEW l \in Lists, NEW i \in Nat, Slot(l, i, b), ~Slot("all", p, b)
                 PROVE  InList(b)'
    BY DEF InList
  <2>2. CASE l = "toAdd"
    <3>1. Slot("toAdd", i, b)'
      BY <1>1, <2>1, <2>2
    <3>q. QED
      BY <1>3, <3>1 DEF InList
  <2>3. CASE l = "all" /\ i < p
    <3>1. Slot("all", i, b)'
      BY <1>1, <2>1, <2>3
    <3>q. QED
      BY <1>3, <3>1 DEF InList
  <2>4. CASE l = "all" /\ i > p
    <3>1. PICK j : j = i - 1
      OBVIOUS
    <3>2. j \in Nat /\ j >= p /\ j + 1 = i
      BY <1>3, <2>4, <3>1
    <3>3. Slot("all", j, b)'
      BY <1>1, <2>1, <2>4, <3>2
    <3>q. QED
      BY <1>3, <3>2, <3>3 DEF InList
  <2>5. ~(l = "all" /\ i = p)
    BY <2>1
  <2>q. QED
    BY <1>3, <2>2, <2>3, <2>4, <2>5 DEF Lists
<1>7. ASSUME NEW l \in Lists, NEW m \in Lists, NEW i \in Nat, NEW j \in Nat,
             Slot(l, i, b)', Slot(m, j, b)'
      PROVE  l = m /\ i = j
  <2>1. PICK k \in Nat : /\ Slot(l, k, b) /\ ~(l = "all" /\ k = p)
                         /\ k = IF l = "all" /\ i >= p THEN i + 1 ELSE i
    BY <1>4, <1>7
  <2>2. PICK h \in Nat : /\ Slot(m, h, b) /\ ~(m = "all" /\ h = p)
                         /\ h = IF m = "all" /\ j >= p THEN j + 1 ELSE j
    BY <1>4, <1>7
  <2>3. l = m /\ k = h
    BY <1>2, <2>1, <2>2
  <2>4. i = j
    BY <1>3, <2>1, <2>2, <2>3
  <2>q. QED
    BY <2>3, <2>4
<1>q. QED
  BY <1>5, <1>6, <1>7

LEMMA EraseHoleKeeps ==
    ASSUME Inv, EraseHole
    PROVE  Inv'
<1>1. /\ calls # <<>> /\ Top.op = "update" /\ Top.anim = NULL
      /\ Top.itr <= Len(lists["all"]) /\ lists["all"][Top.itr] = NULL
      /\ Erase
      /\ UNCHANGED <<calls, accDt, count, stopped, life, destroyed, told>>
  BY DEF EraseHole, Updating, Looping, progress
<1>2. PICK p : p = Top.itr
  OBVIOUS
<1>3. /\ p \in 1 .. Len(lists["all"]) /\ lists["all"][p] = NULL /\ Len(lists["all"]) \in Nat
      /\ Len(calls) = 1 /\ Top = calls[1] /\ Top \in CallSet /\ CallOK(1)
      /\ Top.list = "all"
  BY <1>1, <1>2, UpdateIsOutermost
<1>4. /\ lists' \in [Lists -> Seq(Slots)]
      /\ Len(lists'["all"]) = Len(lists["all"]) - 1
  BY <1>1, <1>2, <1>3, EraseStep
<1>5. TypeOK'
  BY <1>1, <1>4 DEF Inv, TypeOK, Lists, Slots, CallSet
<1>6. CallOK(1)'
  BY <1>1, <1>2, <1>3, <1>4 DEF CallOK, StopOps
<1>7. ASSUME NEW b \in Anims
      PROVE  Good(b)'
  <2>1. Good(b) /\ b # NULL
    BY AnimsAssumption DEF Inv
  <2>2. ~Slot("all", p, b)
    BY <1>3, <2>1 DEF Slot
  <2>3. /\ InList(b)' <=> InList(b)
        /\ \A l, m \in Lists, i, j \in Nat : Slot(l, i, b)' /\ Slot(m, j, b)' => l = m /\ i = j
    BY <1>1, <1>2, <1>3, <2>2, EraseLeavesOthers
  <2>4. /\ \A k \in Nat : Held(k, b)' <=> Held(k, b)
        /\ Telling(b)' <=> Telling(b)
    BY <1>1 DEF Held, Telling
  <2>5. InCall(b)' <=> InCall(b)
    BY <2>4 DEF InCall
  <2>6. Own(b)' /\ Told(b)'
    BY <1>1, <2>1, <2>3, <2>4, <2>5 DEF Good, Own, Told
  <2>7. InList(b) => b \notin stopped /\ Targets[b] \cap destroyed = {}
    BY <1>1, <1>3, <2>1, QuietBefore
  <2>8. Ending(b)' /\ Doomed(b)'
    BY <1>1, <2>1, <2>3, <2>7, QuietAfter DEF Good, Ending
  <2>q. QED
    BY <2>6, <2>8 DEF Good
<1>q. QED
  BY <1>1, <1>3, <1>5, <1>6, <1>7 DEF Inv, Control

\* An animation goes on.
LEMMA StepKeeps ==
    ASSUME Inv, NEW a \in Anims, Updating(a),
           SetTop([Top EXCEPT !.itr = @ + 1]),
           accDt' \in [Anims -> Nat], count' \in [Anims -> Nat],
           UNCHANGED <<lists, stopped, life, destroyed, told>>
    PROVE  Inv'
<1>1. /\ calls # <<>> /\ Top.op = "update" /\ Top.anim = NULL
      /\ Top.itr <= Len(lists["all"])
  BY DEF Updating, Looping
<1>2. /\ Len(lists["all"]) \in Nat
      /\ Len(calls) = 1 /\ Top = calls[1] /\ Top \in CallSet /\ Top.itr \in Nat
      /\ Top.itr > 0 /\ Top.list = "all"
  BY <1>1, UpdateIsOutermost
<1>3. PICK c : c = [Top EXCEPT !.itr = @ + 1]
  OBVIOUS
<1>4. /\ c \in CallSet /\ c.op = "update" /\ c.list = "all" /\ c.anim = NULL
      /\ c.itr = Top.itr + 1
  <2>1. PICK top : top = Top
    OBVIOUS
  <2>2. top \in CallSet /\ top.itr + 1 \in Nat
    BY <1>2, <2>1
  <2>3. PICK n : n = top.itr + 1
    OBVIOUS
  <2>4. c = [top EXCEPT !.itr = n] /\ n \in Nat
    BY <1>3, <2>1, <2>2, <2>3
  <2>5. c \in CallSet /\ c.op = top.op /\ c.list = top.list /\ c.anim = top.anim /\ c.itr = n
    BY <2>2, <2>4 DEF CallSet
  <2>q. QED
    BY <1>1, <1>2, <2>1, <2>3, <2>5
<1>5. calls' \in Seq(CallSet) /\ Len(calls') = 1 /\ calls'[1] = c
  BY <1>1, <1>2, <1>3, <1>4, SetTopStep DEF Inv
<1>6. TypeOK'
  BY <1>5 DEF Inv, TypeOK, Lists, Slots, CallSet
<1>7. CallOK(1)'
  BY <1>1, <1>2, <1>4, <1>5 DEF CallOK, StopOps
<1>8. ASSUME NEW b \in Anims
      PROVE  Good(b)'
  <2>1. Good(b) /\ b # NULL
    BY AnimsAssumption DEF Inv
  <2>2. \A l, i : Slot(l, i, b)' <=> Slot(l, i, b)
    BY DEF Slot
  <2>3. \A k \in Nat : Held(k, b)' <=> Held(k, b)
    BY <1>1, <1>2, <1>4, <1>5, <2>1 DEF Held
  <2>4. Telling(b)' <=> Telling(b)
    BY <1>1, <1>2, <1>4, <1>5, <2>1 DEF Telling
  <2>5. (InList(b)' <=> InList(b)) /\ (InCall(b)' <=> InCall(b))
    BY <2>2, <2>3 DEF InList, InCall
  <2>6. Own(b)' /\ Told(b)'
    BY <2>1, <2>2, <2>3, <2>4, <2>5 DEF Good, Own, Told
  <2>7. InList(b) => b \notin stopped /\ Targets[b] \cap destroyed = {}
    BY <1>1, <1>2, <2>1, QuietBefore
  <2>8. Ending(b)' /\ Doomed(b)'
    BY <2>1, <2>5, <2>7, QuietAfter DEF Good, Ending
  <2>q. QED
    BY <2>6, <2>8 DEF Good
<1>q. QED
  BY <1>5, <1>6, <1>7, <1>8 DEF Inv, Control

LEMMA AnimateKeeps ==
    ASSUME Inv, NEW a \in Anims, Animate(a)
    PROVE  Inv'
<1>1. accDt \in [Anims -> Nat] /\ count \in [Anims -> Nat]
  BY DEF Inv, TypeOK
<1>2. accDt' = [accDt EXCEPT ![a] = @ + 1] /\ UNCHANGED count
  BY DEF Animate
<1>3. accDt' \in [Anims -> Nat] /\ count' \in [Anims -> Nat]
  BY <1>1, <1>2
<1>q. QED
  BY <1>3, StepKeeps DEF Animate

LEMMA RoundKeeps ==
    ASSUME Inv, NEW a \in Anims, Round(a)
    PROVE  Inv'
<1>1. accDt \in [Anims -> Nat] /\ count \in [Anims -> Nat]
  BY DEF Inv, TypeOK
<1>2. /\ accDt' = [accDt EXCEPT ![a] = 0]
      /\ count' = [count EXCEPT ![a] = IF Repeat[a] > 0 THEN @ + 1 ELSE @]
  BY DEF Round
<1>3. (IF Repeat[a] > 0 THEN count[a] + 1 ELSE count[a]) \in Nat
  BY <1>1
<1>4. accDt' \in [Anims -> Nat] /\ count' \in [Anims -> Nat]
  BY <1>1, <1>2, <1>3
<1>q. QED
  BY <1>4, StepKeeps DEF Round

\* update tells an animation of its end; nothing else has told it, or will.
LEMMA CompleteKeeps ==
    ASSUME Inv, NEW a \in Anims, Complete(a)
    PROVE  Inv'
<1>1. /\ calls # <<>> /\ Top.op = "update" /\ Top.anim = NULL
      /\ Top.itr <= Len(lists["all"]) /\ lists["all"][Top.itr] = a
      /\ accDt' = [accDt EXCEPT ![a] = @ + 1]
      /\ count' = [count EXCEPT ![a] = @ + 1]
      /\ stopped' = stopped \cup {a}
      /\ told' = [told EXCEPT ![a] = @ + 1]
      /\ SetTop([Top EXCEPT !.anim = a])
      /\ UNCHANGED <<lists, life, destroyed>>
  BY DEF Complete, Updating, Looping
<1>2. /\ Len(lists["all"]) \in Nat
      /\ Len(calls) = 1 /\ Top = calls[1] /\ Top \in CallSet /\ Top.itr \in Nat
      /\ Top.itr > 0 /\ Top.list = "all"
  BY <1>1, UpdateIsOutermost
<1>3. PICK c : c = [Top EXCEPT !.anim = a]
  OBVIOUS
<1>4. /\ c \in CallSet /\ c.op = "update" /\ c.list = "all" /\ c.anim = a
      /\ c.itr = Top.itr
  BY <1>1, <1>2, <1>3 DEF CallSet, Slots
<1>5. calls' \in Seq(CallSet) /\ Len(calls') = 1 /\ calls'[1] = c
  BY <1>1, <1>2, <1>3, <1>4, SetTopStep DEF Inv
<1>6. /\ accDt' \in [Anims -> Nat] /\ count' \in [Anims -> Nat]
      /\ told' \in [Anims -> Nat]
      /\ \A b \in Anims : told'[b] = IF b = a THEN told[b] + 1 ELSE told[b]
  <2>1. accDt \in [Anims -> Nat] /\ count \in [Anims -> Nat] /\ told \in [Anims -> Nat]
    BY DEF Inv, TypeOK
  <2>2. accDt' \in [Anims -> Nat] /\ count' \in [Anims -> Nat]
    BY <1>1, <2>1
  <2>q. QED
    BY <1>1, <2>1, <2>2
<1>7. TypeOK'
  BY <1>1, <1>5, <1>6 DEF Inv, TypeOK, Lists, Slots, CallSet
<1>8. Top.itr \in 1 .. Len(lists["all"]) /\ a # NULL
  BY <1>1, <1>2, AnimsAssumption
<1>9. CallOK(1)'
  BY <1>1, <1>2, <1>4, <1>5, <1>8 DEF CallOK, StopOps, Slot
<1>10. ASSUME NEW b \in Anims
       PROVE  Good(b)'
  <2>1. Good(b) /\ b # NULL
    BY AnimsAssumption DEF Inv
  <2>2. \A l, i : Slot(l, i, b)' <=> Slot(l, i, b)
    BY <1>1 DEF Slot
  <2>3. \A k \in Nat : ~Held(k, b) /\ ~Held(k, b)'
    BY <1>1, <1>2, <1>4, <1>5 DEF Held, StopOps
  <2>4. ~Telling(b) /\ (Telling(b)' <=> b = a)
    BY <1>1, <1>2, <1>4, <1>5, <2>1 DEF Telling
  <2>5. (InList(b)' <=> InList(b)) /\ ~InCall(b) /\ ~InCall(b)'
    BY <2>2, <2>3 DEF InList, InCall
  <2>6. b = a => InList(b)
    BY <1>1, <1>8 DEF InList, Slot, Lists
  <2>7. InList(b) <=> life[b] = "live"
    BY <2>1, <2>5 DEF Good, Own
  <2>8. Own(b)'
    BY <1>1, <2>1, <2>2, <2>3, <2>5 DEF Good, Own
  <2>9. Told(b)'
    BY <1>1, <1>6, <2>1, <2>4, <2>6, <2>7 DEF Good, Told
  <2>10. InList(b) => b \notin stopped /\ Targets[b] \cap destroyed = {}
    BY <1>1, <1>2, <2>1, QuietBefore
  <2>11. Ending(b)'
    BY <1>1, <1>4, <1>5, <2>1, <2>5, <2>6, <2>7, <2>10 DEF Good, Ending
  <2>12. Doomed(b)'
    <3>1. \A l \in Lists, i \in Nat : Slot(l, i, b)' => InList(b)
      BY <2>2 DEF InList
    <3>q. QED
      BY <1>1, <2>10, <3>1 DEF Doomed
  <2>q. QED
    BY <2>8, <2>9, <2>11, <2>12 DEF Good
<1>q. QED
  BY <1>5, <1>7, <1>9, <1>10 DEF Inv, Control

LEMMA CompleteReturnKeeps ==
    ASSUME Inv, CompleteReturn
    PROVE  Inv'
<1>1. /\ calls # <<>> /\ Top.op = "update" /\ Top.anim # NULL
      /\ Erase
      /\ SetTop([Top EXCEPT !.anim = NULL])
      /\ UNCHANGED <<accDt, count, stopped, destroyed, told>>
  BY DEF CompleteReturn, progress
<1>2. /\ Len(lists["all"]) \in Nat
      /\ Len(calls) = 1 /\ Top = calls[1] /\ Top \in CallSet /\ Top.itr \in Nat
      /\ Top.itr > 0 /\ Top.list = "all" /\ CallOK(1)
  BY <1>1, UpdateIsOutermost
<1>3. PICK p, x : p = Top.itr /\ x = Top.anim
  OBVIOUS
<1>4. /\ x \in Anims /\ Slot("all", p, x) /\ x \in stopped
      /\ p \in 1 .. Len(lists["all"]) /\ p \in Nat
  BY <1>1, <1>2, <1>3 DEF CallOK, CallSet, Slots, Slot
<1>5. PICK c : c = [Top EXCEPT !.anim = NULL]
  OBVIOUS
<1>6. /\ c \in CallSet /\ c.op = "update" /\ c.list = "all" /\ c.anim = NULL /\ c.itr = p
  BY <1>1, <1>2, <1>3, <1>5 DEF CallSet, Slots
<1>7. calls' \in Seq(CallSet) /\ Len(calls') = 1 /\ calls'[1] = c
  BY <1>1, <1>2, <1>5, <1>6, SetTopStep DEF Inv
<1>8. /\ life' \in [Anims -> {"fresh", "live", "deleted", "lost"}]
      /\ \A b \in Anims : life'[b] = IF b = x THEN "deleted" ELSE life[b]
  BY <1>3, <1>4 DEF CompleteReturn, Inv, TypeOK
<1>9. /\ lists' \in [Lists -> Seq(Slots)]
      /\ Len(lists'["all"]) = Len(lists["all"]) - 1
  BY <1>1, <1>3, <1>4, EraseStep
<1>10. TypeOK'
  BY <1>1, <1>7, <1>8, <1>9 DEF Inv, TypeOK, Lists, Slots, CallSet
<1>11. CallOK(1)'
  BY <1>2, <1>4, <1>6, <1>7, <1>9 DEF CallOK, StopOps
<1>12. ASSUME NEW b \in Anims
       PROVE  Good(b)'
  <2>1. Good(b) /\ b # NULL
    BY AnimsAssumption DEF Inv
  <2>2. Slot("all", p, b) <=> b = x
    BY <1>4 DEF Slot
  <2>3. /\ InList(b)' <=> InList(b) /\ b # x
        /\ \A l, m \in Lists, i, j \in Nat : Slot(l, i, b)' /\ Slot(m, j, b)' => l = m /\ i = j
    BY <1>1, <1>3, <1>4, <2>2, EraseLeavesOthers
  <2>4. \A k \in Nat : ~Held(k, b) /\ ~Held(k, b)'
    BY <1>1, <1>2, <1>6, <1>7 DEF Held, StopOps
  <2>5. ~Telling(b)' /\ (Telling(b) <=> b = x)
    BY <1>2, <1>3, <1>6, <1>7, <2>1 DEF Telling
  <2>6. ~InCall(b) /\ ~InCall(b)'
    BY <2>4 DEF InCall
  <2>7. Own(b)'
    BY <1>8, <2>1, <2>3, <2>4, <2>6 DEF Good, Own
  <2>8. Told(b)'
    BY <1>1, <1>8, <2>1, <2>5 DEF Good, Told
  <2>9. InList(b) /\ b # x => b \notin stopped /\ Targets[b] \cap destroyed = {}
    BY <1>1, <1>2, <1>3, <2>1, QuietBefore
  <2>10. Ending(b)' /\ Doomed(b)'
    BY <1>1, <1>8, <2>1, <2>3, <2>9, QuietAfter DEF Good, Ending
  <2>q. QED
    BY <2>7, <2>8, <2>10 DEF Good
<1>q. QED
  BY <1>7, <1>10, <1>11, <1>12 DEF Inv, Control

LEMMA EndUpdateKeeps ==
    ASSUME Inv, EndUpdate
    PROVE  Inv'
<1>1. /\ calls # <<>> /\ Top.op = "update" /\ Top.anim = NULL
      /\ calls' = <<>> /\ Len(calls') = 0
      /\ UNCHANGED <<lists, accDt, count, stopped, life, destroyed, told>>
  BY EmptySeq DEF EndUpdate, Looping, progress
<1>2. Len(calls) = 1 /\ Top = calls[1] /\ Top \in CallSet
  BY <1>1, UpdateIsOutermost
<1>3. TypeOK' /\ Control'
  BY <1>1 DEF Inv, TypeOK, Control
<1>4. ASSUME NEW b \in Anims
      PROVE  Good(b)'
  <2>1. Good(b) /\ b # NULL
    BY AnimsAssumption DEF Inv
  <2>2. \A l, i : Slot(l, i, b)' <=> Slot(l, i, b)
    BY <1>1 DEF Slot
  <2>3. \A k \in Nat : ~Held(k, b) /\ ~Held(k, b)'
    BY <1>1, <1>2 DEF Held, StopOps
  <2>4. ~Telling(b) /\ ~Telling(b)'
    BY <1>1, <1>2, <2>1 DEF Telling
  <2>5. (InList(b)' <=> InList(b)) /\ ~InCall(b) /\ ~InCall(b)'
    BY <2>2, <2>3 DEF InList, InCall
  <2>6. Own(b)' /\ Told(b)'
    BY <1>1, <2>1, <2>2, <2>3, <2>4, <2>5 DEF Good, Own, Told
  <2>7. InList(b) => b \notin stopped /\ Targets[b] \cap destroyed = {}
    BY <1>1, <1>2, <2>1, QuietBefore
  <2>8. Ending(b)' /\ Doomed(b)'
    BY <1>1, <2>1, <2>5, <2>7, QuietAfter DEF Good, Ending
  <2>q. QED
    BY <2>6, <2>8 DEF Good
<1>q. QED
  BY <1>3, <1>4 DEF Inv

LEMMA StutterKeeps ==
    ASSUME Inv, UNCHANGED vars
    PROVE  Inv'
<1>1. UNCHANGED <<lists, calls, accDt, count, stopped, life, destroyed, told>>
  BY DEF vars
<1>2. TypeOK' /\ Control'
  BY <1>1 DEF Inv, TypeOK, Control, CallOK, Slot
<1>3. ASSUME NEW b \in Anims
      PROVE  Good(b)'
  <2>1. /\ \A l, i : Slot(l, i, b)' <=> Slot(l, i, b)
        /\ \A k : Held(k, b)' <=> Held(k, b)
        /\ Telling(b)' <=> Telling(b)
    BY <1>1 DEF Slot, Held, Telling
  <2>2. (InList(b)' <=> InList(b)) /\ (InCall(b)' <=> InCall(b))
    BY <2>1 DEF InList, InCall
  <2>3. Good(b)
    BY DEF Inv
  <2>q. QED
    BY <1>1, <2>1, <2>2, <2>3 DEF Good, Own, Ending, Told, Doomed, StopsFor, Ahead
<1>q. QED
  BY <1>2, <1>3 DEF Inv

LEMMA InvNext ==
    ASSUME ~NestedStopAll
    PROVE  Inv /\ [Next]_vars => Inv'
<1> SUFFICES ASSUME Inv, [Next]_vars PROVE Inv'
  OBVIOUS
<1>1. CASE Game
  BY <1>1, GameKeeps
<1>2. CASE BeginUpdate
  BY <1>2, BeginUpdateKeeps
<1>3. CASE Loop
  BY <1>3, StopNextKeeps, EndLoopKeeps, EraseHoleKeeps, EndUpdateKeeps, AnimateKeeps,
     RoundKeeps, CompleteKeeps DEF Loop
<1>4. CASE Return
  BY <1>4, StopReturnKeeps, CompleteReturnKeeps DEF Return
<1>5. CASE UNCHANGED vars
  BY <1>5, StutterKeeps
<1>q. QED
  BY <1>1, <1>2, <1>3, <1>4, <1>5 DEF Next

LEMMA Invariance ==
    ASSUME ~NestedStopAll
    PROVE  Spec => []Inv
  BY InvInit, InvNext, PTL DEF Spec

-----------------------------------------------------------------------------
(* What follows. The hypothesis is the engine's own use of stopAllAnimations: *)
(* nothing calls it from a callback; MCTweenNested has what happens then.     *)

\* The state is well formed: no loop erases a slot that is not there.
THEOREM TypeCorrect ==
    ASSUME ~NestedStopAll
    PROVE  Spec => []TypeOK
<1>1. Inv => TypeOK
  BY DEF Inv
<1>q. QED
  BY Invariance, <1>1, PTL

\* However deep update and the stop functions nest, an animation that is alive is in one
\* slot or in the hands of one call, and a deleted one nowhere (HLTweenSystem::update,
\* stopAnimation, stopAnimationsContainTarget).
THEOREM TweensAreOwnedOnce ==
    ASSUME ~NestedStopAll
    PROVE  Spec => []OwnedOnce
<1>1. ASSUME Inv
      PROVE  OwnedOnce
  <2> SUFFICES ASSUME NEW a \in Anims
               PROVE  Cardinality(Places(a)) = IF life[a] = "live" THEN 1 ELSE 0
    BY DEF OwnedOnce
  <2>1. Own(a) /\ Len(lists["all"]) \in Nat /\ Len(lists["toAdd"]) \in Nat
        /\ DOMAIN calls = 1 .. Len(calls) /\ Len(calls) \in Nat
    BY <1>1, Types DEF Inv, Good, Lists
  <2>2. \A l \in Lists, i \in Nat : <<l, i>> \in Places(a) <=> Slot(l, i, a)
    <3>1. ASSUME NEW l \in Lists, NEW i \in Nat
          PROVE  /\ i \in 1 .. Len(lists[l]) <=>
                       /\ i \in 1 .. (Len(lists["all"]) + Len(lists["toAdd"]))
                       /\ i <= Len(lists[l])
                 /\ l # "call"
      <4>0. PICK m, n : m = Len(lists["all"]) /\ n = Len(lists["toAdd"])
        OBVIOUS
      <4>m. m \in Nat /\ n \in Nat
        BY <2>1, <4>0
      <4>n. (i \in 1 .. m <=> i \in 1 .. (m + n) /\ i <= m)
            /\ (i \in 1 .. n <=> i \in 1 .. (m + n) /\ i <= n)
        BY <4>m
      <4>1. CASE l = "all"
        BY <4>0, <4>n, <4>1
      <4>2. CASE l = "toAdd"
        BY <4>0, <4>n, <4>2
      <4>q. QED
        BY <4>1, <4>2 DEF Lists
    <3>q. QED
      BY <3>1 DEF Places, Slot, Lists
  <2>3. \A k \in Nat : <<"call", k>> \in Places(a) <=> Held(k, a)
    BY <2>1 DEF Places, Held
  <2>4. \A s \in Places(a) : \/ \E l \in Lists, i \in Nat : s = <<l, i>>
                             \/ \E k \in Nat : s = <<"call", k>>
    <3>1. PICK inLists :
             inLists = {s \in Lists \X (1 .. (Len(lists["all"]) + Len(lists["toAdd"]))) :
                          s[2] <= Len(lists[s[1]]) /\ lists[s[1]][s[2]] = a}
      OBVIOUS
    <3>2. PICK held : held = {j \in DOMAIN calls : calls[j].op \in StopOps /\ calls[j].anim = a}
      OBVIOUS
    <3>3. Places(a) = inLists \cup {<<"call", i>> : i \in held}
      BY <3>1, <3>2 DEF Places, Lists
    <3>4. \A s \in inLists : \E l \in Lists, i \in Nat : s = <<l, i>>
      <4>0. PICK m, n : m = Len(lists["all"]) /\ n = Len(lists["toAdd"])
        OBVIOUS
      <4>k. m + n \in Nat
        <5>1. m \in Nat /\ n \in Nat
          BY <2>1, <4>0
        <5>q. QED
          BY <5>1
      <4>m. \A i \in 1 .. (m + n) : i \in Nat
        BY <4>k
      <4>1. 1 .. (Len(lists["all"]) + Len(lists["toAdd"])) \subseteq Nat
        BY <4>0, <4>m
      <4>2. inLists \subseteq Lists \X Nat
        BY <3>1, <4>1
      <4>q. QED
        BY <4>2
    <3>5. held \subseteq Nat
      BY <2>1, <3>2
    <3>q. QED
      BY <3>3, <3>4, <3>5
  <2>5. CASE life[a] = "live"
    <3>1. \E s : Places(a) = {s}
      <4>1. CASE InList(a)
        <5>1. PICK l \in Lists, i \in Nat : Slot(l, i, a)
          BY <4>1 DEF InList
        <5>2. \A k \in Nat : ~Held(k, a)
          BY <2>1, <4>1 DEF Own, InCall
        <5>3. ASSUME NEW s \in Places(a)
              PROVE  s = <<l, i>>
          BY <2>1, <2>2, <2>3, <2>4, <5>1, <5>2 DEF Own
        <5>q. QED
          BY <2>2, <5>1, <5>3
      <4>2. CASE InCall(a)
        <5>1. PICK k \in Nat : Held(k, a)
          BY <4>2 DEF InCall
        <5>2. \A l \in Lists, i \in Nat : ~Slot(l, i, a)
          BY <2>1, <4>2 DEF Own, InList
        <5>3. ASSUME NEW s \in Places(a)
              PROVE  s = <<"call", k>>
          BY <2>1, <2>2, <2>3, <2>4, <5>1, <5>2 DEF Own
        <5>q. QED
          BY <2>3, <5>1, <5>3
      <4>q. QED
        BY <2>1, <2>5, <4>1, <4>2 DEF Own
    <3>2. PICK s : Places(a) = {s}
      BY <3>1
    <3>q. QED
      BY <2>5, <3>2, FS_Singleton
  <2>6. CASE life[a] # "live"
    <3>1. ~InList(a) /\ ~InCall(a)
      BY <2>1, <2>6 DEF Own
    <3>2. Places(a) = {}
      BY <2>2, <2>3, <2>4, <3>1 DEF InList, InCall
    <3>q. QED
      BY <2>6, <3>2, FS_EmptySet
  <2>q. QED
    BY <2>5, <2>6
<1>q. QED
  BY Invariance, <1>1, PTL

\* The end of an animation is told once, by update or by the first call that stops it.
THEOREM TweensAreToldOnce ==
    ASSUME ~NestedStopAll
    PROVE  Spec => []ToldOnce
<1>1. ASSUME Inv
      PROVE  ToldOnce
  <2>1. DOMAIN calls = 1 .. Len(calls)
    BY <1>1, Types DEF Inv
  <2>2. \A a \in Anims : Told(a)
    BY <1>1 DEF Inv, Good
  <2>q. QED
    BY <2>1, <2>2 DEF ToldOnce, Told, Telling
<1>q. QED
  BY Invariance, <1>1, PTL

\* A loop that goes on after a callback is within its vector, and update finds the
\* animation whose slot it is about to erase in that slot.
THEOREM LoopsAreInTheirLists ==
    ASSUME ~NestedStopAll
    PROVE  Spec => []LoopsStayInTheirLists
<1>1. ASSUME Inv
      PROVE  LoopsStayInTheirLists
  <2>1. DOMAIN calls = 1 .. Len(calls)
    BY <1>1, Types DEF Inv
  <2>2. \A k \in 1 .. Len(calls) : CallOK(k)
    BY <1>1 DEF Inv, Control
  <2>3. ASSUME NEW k \in 1 .. Len(calls)
        PROVE  /\ calls[k].itr <= Len(lists[calls[k].list]) + 1
               /\ calls[k].op = "update" /\ calls[k].anim # NULL =>
                      /\ calls[k].itr <= Len(lists[calls[k].list])
                      /\ lists[calls[k].list][calls[k].itr] = calls[k].anim
    BY <2>2 DEF CallOK, Slot
  <2>q. QED
    BY <2>1, <2>3 DEF LoopsStayInTheirLists
<1>q. QED
  BY Invariance, <1>1, PTL

\* When the calls are over, destroyEntity has stopped what would change the entity, and
\* what a callback committed meanwhile (stopAnimationsContainTarget).
THEOREM NoneOutlivesItsTarget ==
    ASSUME ~NestedStopAll
    PROVE  Spec => []NoTweenOfDestroyed
<1>1. ASSUME Inv
      PROVE  NoTweenOfDestroyed
  <2> SUFFICES ASSUME calls = <<>>, NEW a \in Anims, life[a] = "live"
               PROVE  Targets[a] \cap destroyed = {}
    BY DEF NoTweenOfDestroyed
  <2>1. ~InCall(a)
    BY EmptySeq DEF InCall, Held
  <2>2. InList(a)
    BY <1>1, <2>1 DEF Inv, Good, Own
  <2>q. QED
    BY <1>1, <2>2, QuietBefore
<1>q. QED
  BY Invariance, <1>1, PTL
=============================================================================

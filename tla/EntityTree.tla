----------------------------- MODULE EntityTree -----------------------------
(***************************************************************************)
(* HLSceneManager::update and the tree of entities it walks while the      *)
(* onUpdate of every entity may change it: the children lists of           *)
(* HLTransform2DComponent, kept in the order of zOrder, whose slots become *)
(* holes when a child goes; the children that wait while their parent is   *)
(* being updated; and HLEntityManager, which deletes what was destroyed    *)
(* when the update is over.                                                *)
(*                                                                         *)
(* Every entity of the model has a transform and was created before; a     *)
(* game does not change the tree in the callbacks of destroyEntity:        *)
(* onDestroy, the tweens it stops, the deactive of the components.         *)
(***************************************************************************)
EXTENDS SequencesExt

CONSTANTS
    Entities,
    NoEntity,    \* the null pointer, which a hole holds
    Orders,      \* the values of zOrder
    MaxCalls,    \* bound: how many of the calls that change the tree a game makes
    MaxLength    \* bound: the slots of a children list, holes included

ASSUME NoEntityAssumption == NoEntity \notin Entities
ASSUME OrdersAssumption == Orders \subseteq Int /\ 0 \in Orders
ASSUME BoundsAssumption == MaxCalls \in Nat /\ MaxLength \in Nat

VARIABLES
    parent,      \* m_parent
    zOrder,      \* m_zOrder
    children,    \* m_children of each entity, with its holes
    toAdd,       \* _childrenToAdd
    locked,      \* the entities whose _lockChildren is set
    roots,       \* HLSceneManager::entities
    destroyed,   \* the entities destroyEntity was called for
    deleted,     \* those that were deleted
    pos,         \* the place of update in roots; 0 between two updates
    stack,       \* the calls of updateEntity under way: the entity, the children of
                 \* the copied list still to come, and the part of the call
    calls,       \* history: how many calls the game made
    stray        \* history: entities destroyed while they waited for a parent that stayed

tree == <<parent, zOrder, children, toAdd>>
life == <<destroyed, deleted>>
vars == <<parent, zOrder, children, toAdd, locked, roots, destroyed, deleted, pos,
          stack, calls, stray>>

Parts == {"below", "own", "ownAlone", "above", "adding"}

Init ==
    /\ parent = [e \in Entities |-> NoEntity]
    /\ zOrder = [e \in Entities |-> 0]
    /\ children = [e \in Entities |-> <<>>]
    /\ toAdd = [e \in Entities |-> <<>>]
    /\ locked = {}
    /\ roots = <<>>
    /\ destroyed = {}
    /\ deleted = {}
    /\ pos = 0
    /\ stack = <<>>
    /\ calls = 0
    /\ stray = {}

Live == Entities \ destroyed

Below(e) == (ToSet(children[e]) \cup ToSet(toAdd[e])) \ ({NoEntity} \cup destroyed)

\* The entities of es and what is below them: the least set that has them all.
Subtrees(es) ==
    {e \in Entities : \A s \in SUBSET Entities :
                          es \subseteq s /\ (\A p \in s : Below(p) \subseteq s) => e \in s}

Waiting == UNION {ToSet(toAdd[e]) : e \in Live}

\* A list without its holes.
Present(list) ==
    LET present[n \in 0 .. Len(list)] ==
            IF n = 0 THEN <<>>
            ELSE IF list[n] = NoEntity THEN present[n - 1] ELSE Append(present[n - 1], list[n])
    IN  present[Len(list)]

Without(list, es) == [i \in DOMAIN list |-> IF list[i] \in es THEN NoEntity ELSE list[i]]

-----------------------------------------------------------------------------
(* The operations on lists of children. *)

\* Mutant: a child goes to the end of the list.
InsertLast(list, child, order) == Append(list, child)

\* addChild's place for a child: at the end if the last one has no greater zOrder,
\* or else before the first that has; holes on the way are erased.
Insert(list, child, order) ==
    LET greater == {i \in DOMAIN list : list[i] # NoEntity /\ order[list[i]] > order[child]}
    IN  IF list # <<>> /\ Last(list) # NoEntity /\ order[Last(list)] <= order[child]
        THEN Append(list, child)
        ELSE IF greater = {}
        THEN Append(Present(list), child)
        ELSE LET first == Min(greater)
             IN  Present(SubSeq(list, 1, first - 1)) \o <<child>>
                     \o SubSeq(list, first, Len(list))

\* addChild of child to p, where lists are the children as they are by then. While
\* p is being updated the child has to wait, without a parent.
Add(p, child, order, lists) ==
    /\ zOrder' = order
    /\ IF p \in locked
       THEN /\ toAdd' = [toAdd EXCEPT ![p] = Append(@, child)]
            /\ parent' = [parent EXCEPT ![child] = NoEntity]
            /\ children' = lists
       ELSE /\ children' = [lists EXCEPT ![p] = Insert(@, child, order)]
            /\ parent' = [parent EXCEPT ![child] = p]
            /\ UNCHANGED toAdd

\* Mutant: the entity keeps its slot in its parent's list.
DestroyInPlace(es, lists) ==
    LET gone == Subtrees(es \ destroyed)
    IN  /\ destroyed' = destroyed \cup gone
        /\ toAdd' = [e \in Entities |-> IF e \in gone THEN <<>> ELSE toAdd[e]]
        /\ roots' = Without(roots, gone)
        /\ stray' = stray \cup (gone \cap UNION {ToSet(toAdd[e]) : e \in Live \ gone})
        /\ children' = lists

\* destroyEntity of the entities es, of each with what is below it or waits to be,
\* where lists are the children as they are without them.
Destroy(es, lists) ==
    LET gone == Subtrees(es \ destroyed)
    IN  /\ destroyed' = destroyed \cup gone
        /\ children' = [e \in Entities |-> Without(lists[e], {c \in gone : parent[c] = e})]
        /\ toAdd' = [e \in Entities |-> IF e \in gone THEN <<>> ELSE toAdd[e]]
        /\ roots' = Without(roots, gone)
        /\ stray' = stray \cup (gone \cap UNION {ToSet(toAdd[e]) : e \in Live \ gone})

-----------------------------------------------------------------------------
(* What a game calls: between two updates, or in the onUpdate of an entity. *)

\* A list holds an entity that was deleted: what follows is undefined.
Dangling == \E e \in Live : ToSet(children[e]) \cap deleted # {}

GameRuns ==
    /\ stack = <<>> => pos = 0
    /\ stack # <<>> => Last(stack).part \in {"own", "ownAlone"}
    /\ calls < MaxCalls
    /\ ~Dangling

Called ==
    /\ GameRuns
    /\ calls' = calls + 1
    /\ UNCHANGED <<locked, deleted, pos, stack>>

Free(e) == e \in Live \ (ToSet(roots) \cup Waiting) /\ parent[e] = NoEntity

AddEntity(e) ==
    /\ Called
    /\ Free(e)
    /\ roots' = Append(roots, e)
    /\ UNCHANGED <<tree, destroyed, stray>>

\* addChild; a game keeps the tree a tree.
AddChild(p, child, z) ==
    /\ Called
    /\ p \in Live
    /\ Free(child)
    /\ p \notin Subtrees({child})
    /\ Len(children[p]) < MaxLength
    /\ Add(p, child, [zOrder EXCEPT ![child] = z], children)
    /\ UNCHANGED <<roots, destroyed, stray>>

\* The lists after removeChild of e by its parent.
Removed(e) == [children EXCEPT ![parent[e]] = Without(@, {e})]

\* set_zOrder; after the parent is gone it is undefined.
SetZOrder(e, z) ==
    /\ Called
    /\ e \in Live
    /\ z # zOrder[e]
    /\ IF parent[e] = NoEntity
       THEN zOrder' = [zOrder EXCEPT ![e] = z] /\ UNCHANGED <<parent, children, toAdd>>
       ELSE /\ parent[e] \in Live
            /\ Len(children[parent[e]]) < MaxLength
            /\ Add(parent[e], e, [zOrder EXCEPT ![e] = z], Removed(e))
    /\ UNCHANGED <<roots, destroyed, stray>>

\* removeChild and removeFromParent without clean-up.
RemoveChild(e) ==
    /\ Called
    /\ e \in Live
    /\ parent[e] \in Live
    /\ parent' = [parent EXCEPT ![e] = NoEntity]
    /\ children' = Removed(e)
    /\ UNCHANGED <<zOrder, toAdd, roots, destroyed, stray>>

\* The same with clean-up.
RemoveAndDestroyChild(e) ==
    /\ Called
    /\ e \in Live
    /\ parent[e] \in Live
    /\ parent' = [parent EXCEPT ![e] = NoEntity]
    /\ Destroy({e}, Removed(e))
    /\ UNCHANGED zOrder

\* removeAllChildren with clean-up. Without it the children would keep their parent,
\* and nothing in the engine calls it so.
RemoveAllChildren(p) ==
    /\ Called
    /\ p \in Live
    /\ ToSet(children[p]) \ {NoEntity} # {}
    /\ Destroy(ToSet(children[p]) \ {NoEntity}, [children EXCEPT ![p] = <<>>])
    /\ UNCHANGED <<parent, zOrder>>

DestroyEntity(e) ==
    /\ Called
    /\ e \in Live
    /\ Destroy({e}, children)
    /\ UNCHANGED <<parent, zOrder>>

GameCalls ==
    \E e \in Entities :
        \/ AddEntity(e)
        \/ \E p \in Entities, z \in Orders : AddChild(p, e, z)
        \/ \E z \in Orders : SetZOrder(e, z)
        \/ RemoveChild(e)
        \/ RemoveAndDestroyChild(e)
        \/ RemoveAllChildren(e)
        \/ DestroyEntity(e)

-----------------------------------------------------------------------------
(* update. *)

BeginUpdate ==
    /\ pos = 0
    /\ ~Dangling
    /\ pos' = 1
    /\ UNCHANGED <<tree, locked, roots, life, stack, calls, stray>>

\* updateEntity of e, called by the calls of below.
Enter(e, below) ==
    IF e \in destroyed
    THEN stack' = below /\ UNCHANGED locked
    ELSE /\ locked' = locked \cup {e}
         /\ stack' = Append(below,
                [entity |-> e, rest |-> children[e],
                 part |-> IF children[e] = <<>> THEN "ownAlone" ELSE "below"])

\* Mutant: a hole is erased and the next root passed over.
SkipHole ==
    /\ pos > 0
    /\ stack = <<>>
    /\ pos <= Len(roots)
    /\ roots[pos] = NoEntity
    /\ roots' = RemoveAt(roots, pos)
    /\ pos' = pos + 1
    /\ UNCHANGED <<tree, locked, life, stack, calls, stray>>

EraseHole ==
    /\ pos > 0
    /\ stack = <<>>
    /\ pos <= Len(roots)
    /\ roots[pos] = NoEntity
    /\ roots' = RemoveAt(roots, pos)
    /\ UNCHANGED <<tree, locked, life, pos, stack, calls, stray>>

\* A root that is not enabled is passed over.
UpdateRoot ==
    /\ pos > 0
    /\ stack = <<>>
    /\ pos <= Len(roots)
    /\ roots[pos] # NoEntity
    /\ pos' = pos + 1
    /\ Enter(roots[pos], stack) \/ UNCHANGED <<locked, stack>>
    /\ UNCHANGED <<tree, roots, life, calls, stray>>

\* The call at the top goes on with another part, or with the rest of its children.
Continue(part, rest) ==
    Append(Front(stack), [entity |-> Last(stack).entity, rest |-> rest, part |-> part])

In(part) == stack # <<>> /\ Last(stack).part = part

\* The children with a zOrder below 0 come first ...
UpdateBelow ==
    /\ In("below")
    /\ LET e == Last(stack).entity
           rest == Last(stack).rest
       IN  \/ /\ rest # <<>>
              /\ Head(rest) = NoEntity
              /\ stack' = Continue("below", Tail(rest))
              /\ UNCHANGED locked
           \/ /\ rest # <<>>
              /\ Head(rest) # NoEntity
              /\ zOrder[Head(rest)] < 0
              /\ Enter(Head(rest), Continue("below", Tail(rest)))
           \/ /\ rest # <<>> => Head(rest) # NoEntity /\ zOrder[Head(rest)] >= 0
              /\ stack' = IF e \in destroyed THEN Front(stack) ELSE Continue("own", rest)
              /\ UNCHANGED locked
    /\ UNCHANGED <<tree, roots, life, pos, calls, stray>>

\* ... then the entity's own onUpdate, in which the game runs ...
EndOnUpdate ==
    /\ In("own")
    /\ stack' = IF Last(stack).entity \in destroyed
                THEN Front(stack) ELSE Continue("above", Last(stack).rest)
    /\ UNCHANGED <<tree, locked, roots, life, pos, calls, stray>>

\* ... then the other children of the copy.
UpdateAbove ==
    /\ In("above")
    /\ Last(stack).rest # <<>>
    /\ LET next == Head(Last(stack).rest)
           below == Continue("above", Tail(Last(stack).rest))
       IN  IF next = NoEntity THEN stack' = below /\ UNCHANGED locked ELSE Enter(next, below)
    /\ UNCHANGED <<tree, roots, life, pos, calls, stray>>

\* The list is unlocked, and the children that wait are added, one by one.
Unlock ==
    /\ In("ownAlone") \/ (In("above") /\ Last(stack).rest = <<>>)
    /\ LET e == Last(stack).entity
       IN  /\ locked' = locked \ {e}
           /\ stack' = IF e \in destroyed THEN Front(stack) ELSE Continue("adding", <<>>)
    /\ UNCHANGED <<tree, roots, life, pos, calls, stray>>

ProcessAddChildren ==
    /\ In("adding")
    /\ LET e == Last(stack).entity
       IN  IF toAdd[e] = <<>>
           THEN stack' = Front(stack) /\ UNCHANGED tree
           ELSE LET child == Head(toAdd[e])
                IN  /\ children' = [children EXCEPT ![e] = Insert(@, child, zOrder)]
                    /\ parent' = [parent EXCEPT ![child] = e]
                    /\ toAdd' = [toAdd EXCEPT ![e] = Tail(@)]
                    /\ UNCHANGED <<zOrder, stack>>
    /\ UNCHANGED <<locked, roots, life, pos, calls, stray>>

\* destroyEntities. Nothing is left of what a deleted entity knew.
EndUpdate ==
    /\ pos > Len(roots)
    /\ stack = <<>>
    /\ deleted' = destroyed
    /\ locked' = locked \ destroyed
    /\ children' = [e \in Entities |-> IF e \in destroyed THEN <<>> ELSE children[e]]
    /\ parent' = [e \in Entities |-> IF e \in destroyed THEN NoEntity ELSE parent[e]]
    /\ pos' = 0
    /\ UNCHANGED <<zOrder, toAdd, roots, destroyed, stack, calls, stray>>

Update ==
    \/ BeginUpdate
    \/ EraseHole
    \/ UpdateRoot
    \/ UpdateBelow
    \/ EndOnUpdate
    \/ UpdateAbove
    \/ Unlock
    \/ ProcessAddChildren
    \/ EndUpdate

Next == GameCalls \/ Update

Spec == Init /\ [][Next]_vars

-----------------------------------------------------------------------------
(* Properties. *)

\* The state is well formed.
TypeOK ==
    /\ parent \in [Entities -> Entities \cup {NoEntity}]
    /\ zOrder \in [Entities -> Orders]
    /\ children \in [Entities -> Seq(Entities \cup {NoEntity})]
    /\ toAdd \in [Entities -> Seq(Entities)]
    /\ locked \in SUBSET Entities
    /\ roots \in Seq(Entities \cup {NoEntity})
    /\ destroyed \in SUBSET Entities
    /\ deleted \in SUBSET destroyed
    /\ pos \in 0 .. Len(roots) + 1
    /\ stack \in Seq([entity : Entities, rest : Seq(Entities \cup {NoEntity}), part : Parts])
    /\ calls \in 0 .. MaxCalls
    /\ stray \in SUBSET destroyed

\* Nothing that a later frame visits was deleted: not a root, a child, a child that
\* waits, nor a parent; except entities that were destroyed while they waited, which
\* are added all the same (processAddChildren, HLTransform2DComponent.cpp:364).
NoDeletedInTree ==
    /\ ToSet(roots) \cap deleted = {}
    /\ \A e \in Live :
          /\ (ToSet(children[e]) \cup ToSet(toAdd[e])) \cap deleted \subseteq stray
          /\ parent[e] \notin deleted

\* The two ends of the relation agree: a child in a list has that parent and is there
\* once, and an entity with a parent is in its list.
ParentsAgree ==
    /\ \A p \in Live : \A i \in DOMAIN children[p] :
          LET c == children[p][i]
          IN  c \notin stray \cup {NoEntity} =>
                 /\ parent[c] = p
                 /\ c \notin Waiting
                 /\ \A j \in DOMAIN children[p] : children[p][j] = c => j = i
    /\ \A e \in Live :
          parent[e] = NoEntity \/ e \in ToSet(children[parent[e]])

\* The children are in the order of zOrder, by which they are drawn and updated.
InOrder ==
    \A p \in Live :
        LET list == children[p]
        IN  \A i, j \in {k \in DOMAIN list : list[k] # NoEntity} :
                i < j => zOrder[list[i]] <= zOrder[list[j]]

\* Between two updates no entity is locked or keeps a child waiting.
SettledBetweenUpdates == pos = 0 => locked \cap Live = {} /\ Waiting = {}

\* Whatever the entities call while they are updated, the tree stays one: parents and
\* children agree, in the order of zOrder, and nothing waits when the update is over
\* (addChild, set_zOrder, removeChild, HLTransform2DComponent.cpp:74, 392, 474).
TreeIsSound == ParentsAgree /\ InOrder /\ SettledBetweenUpdates
=============================================================================

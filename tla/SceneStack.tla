----------------------------- MODULE SceneStack -----------------------------
(***************************************************************************)
(* What HLDirector2D promises a game about its scenes, without the way the *)
(* director keeps the promise: scenes sit on a stack, at most one of them  *)
(* is on screen, a scene that leaves the stack never comes back, and no    *)
(* scene is deleted while it is on the stack or on screen.                 *)
(***************************************************************************)
EXTENDS SequencesExt

CONSTANTS Scenes,   \* the HLSceneManager objects a game ever creates
          NoScene   \* the null HLSceneManager pointer

VARIABLES scenes,   \* the stack, the top last
          shown,    \* the scene on screen
          used,     \* the scenes that were pushed so far
          deleted   \* the scenes that were deleted so far

abstractVars == <<scenes, shown, used, deleted>>

Init ==
    /\ scenes = <<>>
    /\ shown = NoScene
    /\ used = {}
    /\ deleted = {}

\* The game removes up to two scenes from the top and may push a new one. A
\* removed scene may be deleted at once, unless it is the one on screen.
Change(n, pushed) ==
    /\ n <= Len(scenes)
    /\ scenes' = SubSeq(scenes, 1, Len(scenes) - n) \o pushed
    /\ ToSet(pushed) \cap used = {}
    /\ used' = used \cup ToSet(pushed)
    /\ \E gone \in SUBSET (used \ (ToSet(scenes') \cup {shown})) :
          deleted' = deleted \cup gone
    /\ UNCHANGED shown

Hide ==
    /\ shown # NoScene
    /\ shown' = NoScene
    /\ UNCHANGED <<scenes, used, deleted>>

\* What comes on screen is the scene on top of the stack at that moment.
Show ==
    /\ shown = NoScene
    /\ scenes # <<>>
    /\ shown' = Last(scenes)
    /\ UNCHANGED <<scenes, used, deleted>>

Delete(s) ==
    /\ s \notin deleted
    /\ s \notin ToSet(scenes)
    /\ s # shown
    /\ deleted' = deleted \cup {s}
    /\ UNCHANGED <<scenes, shown, used>>

Next ==
    \/ \E n \in 0..2, pushed \in {<<>>} \cup {<<s>> : s \in Scenes} :
          Change(n, pushed)
    \/ Hide
    \/ Show
    \/ \E s \in used : Delete(s)

Spec == Init /\ [][Next]_abstractVars
=============================================================================

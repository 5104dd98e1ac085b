---------------------------- MODULE MCTweenSystem ----------------------------
(***************************************************************************)
(* Three animations of two entities: one of both entities that ends after  *)
(* its second round, a short one that shares its name, an endless one. And *)
(* one that changes nothing.                                               *)
(***************************************************************************)
EXTENDS TweenSystem

CONSTANTS both, short, endless, nothing, e1, e2

MCAnims == {both, short, endless, nothing}
MCEntities == {e1, e2}
MCTargets == both :> {e1, e2} @@ short :> {e1} @@ endless :> {e2} @@ nothing :> {}
MCName == both :> "move" @@ short :> "move" @@ endless :> "spin" @@ nothing :> "spin"
MCDuration == both :> 1 @@ short :> 0 @@ endless :> 2 @@ nothing :> 1
MCRepeat == both :> 2 @@ short :> 1 @@ endless :> 0 @@ nothing :> 0
=============================================================================

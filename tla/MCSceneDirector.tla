--------------------------- MODULE MCSceneDirector ---------------------------
(***************************************************************************)
(* Four scenes: enough for a popAndReplace (two scenes below, one pushed)  *)
(* followed by one more change before the swap.                            *)
(***************************************************************************)
EXTENDS SceneDirector

CONSTANTS s1, s2, s3, s4

MCScenes == {s1, s2, s3, s4}
=============================================================================

---------------------------- MODULE MCHttpNetwork ----------------------------
(***************************************************************************)
(* Two requests, so that one is queued or performed while the other is     *)
(* called back.                                                            *)
(***************************************************************************)
EXTENDS HttpNetwork

CONSTANTS r1, r2

MCRequests == {r1, r2}

\* One is started again after its answer.
MCMaxStarts == r1 :> 2 @@ r2 :> 1
=============================================================================

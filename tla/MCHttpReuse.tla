----------------------------- MODULE MCHttpReuse -----------------------------
(***************************************************************************)
(* One request that is started, answered, and started again.               *)
(***************************************************************************)
EXTENDS HttpNetwork

CONSTANT r1

MCRequests == {r1}
MCMaxStarts == r1 :> 2
=============================================================================

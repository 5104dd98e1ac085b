---------------------------- MODULE RequestBroker ----------------------------
(***************************************************************************)
(* What HLHttpNetwork promises a game: a request that is started joins the *)
(* end of a line, and the line is answered from its front, one callback    *)
(* per start.                                                              *)
(***************************************************************************)
EXTENDS SequencesExt

CONSTANT Requests   \* the HLHttpRequest objects

VARIABLE line       \* the requests that were started and not answered yet

Init == line = <<>>

Start(r) == line' = Append(line, r)

Answer ==
    /\ line # <<>>
    /\ line' = Tail(line)

Next == Answer \/ \E r \in Requests : Start(r)

Spec == Init /\ [][Next]_line /\ WF_line(Answer)
=============================================================================

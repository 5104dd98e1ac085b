---------------------------- MODULE MCTimerClock ----------------------------
(***************************************************************************)
(* The time of timers: one that repeats every second tick and one for      *)
(* every frame; frames of no time, of one tick, and of five, which leave   *)
(* the first timer two intervals behind.                                   *)
(***************************************************************************)
EXTENDS TimerManager

CONSTANTS repeat, always

MCTimers == {repeat, always}
MCInterval == repeat :> 2 @@ always :> 0
MCPriority == repeat :> 0 @@ always :> 1
=============================================================================

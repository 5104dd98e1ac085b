---------------------------- MODULE MCTimerLists ----------------------------
(***************************************************************************)
(* The lists of timers: a repeating timer, a one-shot timer that goes      *)
(* before it, and one more; every frame lets all of them fire.             *)
(***************************************************************************)
EXTENDS TimerManager

CONSTANTS first, second, once

MCTimers == {first, second, once}
MCInterval == first :> 1 @@ second :> 0 @@ once :> 1
MCRepeating == {first, second}
MCPriority == first :> 0 @@ second :> 0 @@ once :> 1
=============================================================================

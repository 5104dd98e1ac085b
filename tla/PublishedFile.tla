---------------------------- MODULE PublishedFile ----------------------------
(***************************************************************************)
(* What a download promises the game that opens the file: under its final  *)
(* name there is nothing, or one whole version of the file the server has. *)
(* A version may be withdrawn for a while, but what comes back is never    *)
(* older than what was there.                                              *)
(***************************************************************************)
EXTENDS Naturals

CONSTANT MaxVersion   \* the last version the server ever has

VARIABLES file,      \* the version under the final name, 0 for none
          newest,    \* the newest version that was ever there
          latest     \* the version the server has, 0 for none

fileVars == <<file, newest, latest>>

Init ==
    /\ file = 0
    /\ newest = 0
    /\ latest = 0

Release ==
    /\ latest < MaxVersion
    /\ latest' = latest + 1
    /\ UNCHANGED <<file, newest>>

Publish ==
    /\ newest' \in (newest .. latest) \ {0}
    /\ file' = newest'
    /\ UNCHANGED latest

Withdraw ==
    /\ file' = 0
    /\ UNCHANGED <<newest, latest>>

Next == Release \/ Publish \/ Withdraw

Spec == Init /\ [][Next]_fileVars
=============================================================================

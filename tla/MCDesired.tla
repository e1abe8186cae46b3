----------------------------- MODULE MCDesired -----------------------------
(* Two generations and every failure of a step; the container is stopped   *)
(* between attempts, or anywhere.                                          *)
EXTENDS Desired

Anywhere == PCs
BetweenAttempts == {"idle"}
EveryFault == PCs \cup {"load"}
=============================================================================

---------------------------- MODULE MCKillSwitch ----------------------------
(***************************************************************************)
(* Three calls at a time: two that race each other and one that clears.    *)
(***************************************************************************)
EXTENDS KillSwitch, TLC

CONSTANTS poll, stream, operator

ActorSymmetry == Permutations(Actors)
=============================================================================

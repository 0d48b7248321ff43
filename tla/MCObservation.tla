---------------------------- MODULE MCObservation ----------------------------
(* Instances of Observation for TLC.                                         *)
EXTENDS Observation, TLC

CONSTANTS p1, p2, p3

PidsAreAlike == Permutations(Pids)
==============================================================================

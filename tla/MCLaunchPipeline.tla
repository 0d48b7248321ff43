--------------------------- MODULE MCLaunchPipeline ---------------------------
(* Instances of LaunchPipeline for TLC: two Guards, a registered Desktop and   *)
(* its update, or a bare executable.                                           *)
EXTENDS LaunchPipeline, TLC

CONSTANTS g1, g2, app, updated, bare

GuardSymmetry == Permutations(Guards)
==============================================================================

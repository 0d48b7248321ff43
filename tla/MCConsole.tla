------------------------------ MODULE MCConsole ------------------------------
(* Instances of Console for TLC.                                             *)
EXTENDS Console

CONSTANTS e1, e2
==============================================================================

--------------------------- MODULE MCEngineSession ---------------------------
(* Instances of EngineSession for TLC.                                        *)
EXTENDS EngineSession

CONSTANTS e1, e2

\* A managed configuration whose Home may be missing or relative.
OneHomeless == {[port |-> e2, manage |-> TRUE]}
==============================================================================

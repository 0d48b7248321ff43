---------------------------- MODULE MCConfigStore ----------------------------
(* Instances of ConfigStore for TLC: two Guard processes, two endpoints, a   *)
(* default Home and, where aliasing matters, a second spelling of it.        *)
EXTENDS ConfigStore, TLC

CONSTANTS p1, p2, e1, e2, h1, h2

OneHome    == [h \in Homes |-> h]
AliasHomes == [h \in Homes |-> h1]

Consented(port, home) == [port |-> port, manage |-> TRUE, home |-> home]

\* Deletion, unusable bytes of both kinds, and files a user may have written.
ExternalOutcomes ==
  {Missing, Marked, Plain, Consented(e2, CHOOSE h \in Homes : h # Canonical[DefaultHome] \/ Homes = {h}),
   [port |-> e2, manage |-> FALSE, home |-> DefaultHome]}

ProcSymmetry == Permutations(Procs)
==============================================================================

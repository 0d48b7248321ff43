\* Two Guard processes, one edit by another program, one crash.
SPECIFICATION Spec
CONSTANTS
  p1 = p1
  p2 = p2
  e1 = e1
  e2 = e2
  h1 = h1
  h2 = h2
  Procs = {p1, p2}
  Ports = {e1, e2}
  Homes = {h1}
  Canonical <- OneHome
  DefaultPort = e1
  DefaultHome = h1
  NoHome = NoHome
  NoBlock = NoBlock
  Missing = Missing
  Marked = Marked
  Plain = Plain
  ExternalFiles <- ExternalOutcomes
  MaxEdits = 1
  MaxFaults = 0
  MaxCrashes = 1
SYMMETRY ProcSymmetry
INVARIANTS LeaseHolds TransactionHolds
PROPERTIES NoGuardStepOrphansBlock LaunchSeesCurrentBlock MutationsKeepTheRest

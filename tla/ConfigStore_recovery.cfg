\* One Guard process, two spellings of one Home, several edits by other programs, one failure, one crash.
SPECIFICATION Spec
CONSTANTS
  p1 = p1
  p2 = p2
  e1 = e1
  e2 = e2
  h1 = h1
  h2 = h2
  Procs = {p1}
  Ports = {e1, e2}
  Homes = {h1, h2}
  Canonical <- AliasHomes
  DefaultPort = e1
  DefaultHome = h1
  NoHome = NoHome
  NoBlock = NoBlock
  Missing = Missing
  Marked = Marked
  Plain = Plain
  ExternalFiles <- ExternalOutcomes
  MaxEdits = 3
  MaxFaults = 1
  MaxCrashes = 1
PROPERTIES MissingFileLosesConsent NoGuardStepOrphansBlock

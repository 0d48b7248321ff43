\* Two endpoints, entries of at most three bytes and lists of at most two; four
\* packages of two families; two steps of other programs.
SPECIFICATION Spec
CONSTANTS
  e1 = e1
  e2 = e2
  Endpoints = {e1, e2}
  Default = e1
  Foreign = Foreign
  NoValue = NoValue
  MaxEntries = 2
  MaxLength = 3
  Lists <- MCLists
  Values <- MCValues
  MaxEdits = 2
  c1 = c1
  c2 = c2
  c3 = c3
  l1 = l1
  Packages = {c1, c2, c3, l1}
  Installed <- MCInstalled
  NoPackage = NoPackage
  Manifest <- MCManifest
  Overrides <- MCOverrides
  NoOverride = NoOverride
  MaxPackages = 2
INVARIANTS BlocksAreRecognised DiscoveredCanBeLaunched BestPackageIsTaken
PROPERTIES PreparedCanBeTakenBack OtherLinesAreKept
CHECK_DEADLOCK FALSE

\* Three pids, five kinds of process, three started by others.
SPECIFICATION Spec
CONSTANTS
  p1 = p1
  p2 = p2
  p3 = p3
  Pids = {p1, p2, p3}
  NoPid = NoPid
  Desktop = Desktop
  Elevated = Elevated
  Moved = Moved
  Stray = Stray
  Stranger = Stranger
  Neighbours = {Desktop, Stranger}
  MaxSpawns = 3
  MaxTime = 2
SYMMETRY PidsAreAlike
INVARIANTS StoppedIsObserved RootIsReported ReceiptIsVerified ReceiptsAreAccepted
CHECK_DEADLOCK FALSE

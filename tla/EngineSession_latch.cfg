\* A refresh after a timed-out operation.
SPECIFICATION Spec
CONSTANTS
  e1 = e1
  e2 = e2
  Ports = {e1, e2}
  DefaultPort = e1
  Broken = Broken
  Registered = FALSE
  Homeless <- OneHomeless
  Elevated = FALSE
  None = None
  RngFails = FALSE
  MaxOps = 2
  MaxUpsets = 0
PROPERTIES RefreshRecovers
CHECK_DEADLOCK FALSE

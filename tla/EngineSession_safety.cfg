\* Three operations, and one failure or one step of another program.
SPECIFICATION Spec
CONSTANTS
  e1 = e1
  e2 = e2
  Ports = {e1, e2}
  DefaultPort = e1
  Broken = Broken
  Registered = TRUE
  Homeless <- OneHomeless
  Elevated = FALSE
  None = None
  RngFails = FALSE
  MaxOps = 3
  MaxUpsets = 1
INVARIANTS OneForegroundEffect AuthorizationFitsView EndpointWasOnDisk
PROPERTIES KeepsContract GateReopens ConfirmationsAreSingleUse ConsentChangesAsShown CommittedFactsSurvive
CHECK_DEADLOCK FALSE

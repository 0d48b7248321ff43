\* A child that writes one chunk too many and ends.
SPECIFICATION Spec
CONSTANTS
  out = out
  err = err
  Streams = {out}
  Room = 1
  Limit = 1
  Request = 2
  MaxOutput = 2
  MaxFaults = 0
INVARIANTS OutputLimitIsEnforced
CHECK_DEADLOCK FALSE

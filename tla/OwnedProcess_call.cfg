\* One output stream, a request of up to two chunks, one failing system call.
SPECIFICATION Spec
CONSTANTS
  out = out
  err = err
  Streams = {out}
  Room = 1
  Limit = 1
  Request = 2
  MaxOutput = 2
  MaxFaults = 1
INVARIANTS NothingLeftBehind ActivationNeverDenied SuccessIsNatural
PROPERTIES Returns
CHECK_DEADLOCK FALSE

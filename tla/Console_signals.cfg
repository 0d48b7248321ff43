\* Both front ends over one session, three operations, one signal.
SPECIFICATION Spec
CONSTANTS
  e1 = e1
  e2 = e2
  Endpoints = {e1}
  Blank = Blank
  Garbled = Garbled
  Panics = TRUE
  MaxOps = 3
  MaxSignals = 1
INVARIANT IdleCtrlCIsNoOp
CHECK_DEADLOCK FALSE

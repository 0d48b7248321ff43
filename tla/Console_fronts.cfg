\* Both front ends over one session, three operations, two signals.
SPECIFICATION Spec
CONSTANTS
  e1 = e1
  e2 = e2
  Endpoints = {e1}
  Blank = Blank
  Garbled = Garbled
  Panics = TRUE
  MaxOps = 3
  MaxSignals = 2
INVARIANTS TypeOK OfferedActionsAreAccepted FinishedWorkIsPrinted
PROPERTIES ConfirmsWhatWasShown FailureIsReported ResultIsRetained Leaves SignalsReachTheOperation
CHECK_DEADLOCK FALSE

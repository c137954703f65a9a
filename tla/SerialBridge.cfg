SPECIFICATION Spec
CONSTANTS
  MaxSends = 3
  Links <- BothPaces
  Requests <- SomeRequests
  InitialGain <- Tuned
CHECK_DEADLOCK FALSE
INVARIANTS
  Answered
  AbsoluteApplied
PROPERTIES
  OnlyItsOwnGain
  ImplementsTuner

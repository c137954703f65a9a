SPECIFICATION Spec
CONSTANTS
  MaxSends = 3
  Links <- Calm
  Requests <- SomeRequests
  InitialGain <- Tuned
CHECK_DEADLOCK FALSE
INVARIANTS
  LineHandled

SPECIFICATION Spec
CONSTANTS
  MAX_CONTROL_OUTPUT = 5
  MAX_ACCEL = 2
  Factor = 3
  HalfWord = 16
  TimerRate = 20
  ZERO_SPEED = 5
  ForwardLevel = TRUE
  Commands <- SomeCommands
  StepBound = 2
  SlipBound = 4
INVARIANTS
  TypeOK
  StopsInTime
  DirectionOfSpeed
  RateAsCommanded
PROPERTIES
  AccelerationLimited
  SlipOnlyAtReversal
  ComesToRest

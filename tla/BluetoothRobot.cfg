SPECIFICATION Spec
CONSTANTS
  Word = 4
  DefaultTime = 3
  SampleTime = 2
  PwmMax = 3
  OutLimit = 1
  RotLimit = 1
  SlackA = 2
  SlackB = 3
  MaxTurn = 1
  Commands <- SomeCommands
  Answers = {"gains1"}
  MaxSends = 3
  MaxUnread = 2
CHECK_DEADLOCK FALSE
INVARIANTS
  SlackOnce
  AsAsked
PROPERTIES
  ComputedOnTime
  KeepsBalancing

SPECIFICATION Spec
CONSTANTS
  Full = 6
  Speeds <- SomeSpeeds
  MinSpeeds = {0, 2, 6}
INVARIANTS
  TypeOK
  MoveApplied

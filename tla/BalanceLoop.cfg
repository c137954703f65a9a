SPECIFICATION Spec
CONSTANTS
  Samples = 3
  MaxDev = 3
  Rest = 4
  Shaken <- ShakenReadings
  HalfLong = 32
  HalfWord = 3
  ITERM_MAX_ERROR = 1
  ITERM_MAX = 1
INVARIANTS
  TypeOK
  DtIsElapsed
  NewSample
  IntegralCleared
  OffsetNearMean
PROPERTIES
  Calibrated

SPECIFICATION Spec
CONSTANTS
  Half = 1
  Patient = FALSE
  MAX_THROTTLE = 550
  MAX_STEERING = 140
  MAX_TARGET_ANGLE = 14
  MAX_THROTTLE_PRO = 780
  MAX_STEERING_PRO = 260
  MAX_TARGET_ANGLE_PRO = 26
  Requests <- RaceRequests
INVARIANTS
  TypeOK
  ProMode
  CommandApplied
  ScreensApart
  AsleepByToggle
PROPERTIES
  LimitsFollowMode
  SettingsKeepDrive
  MessageTaken
  Wakes

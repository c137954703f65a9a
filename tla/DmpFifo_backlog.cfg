SPECIFICATION Spec
CONSTANTS
  packetSize = 2
  Capacity = 7
  Paced = TRUE
PROPERTIES
  CatchesUp

SPECIFICATION Spec
CONSTANTS
  packetSize = 2
  Capacity = 7
  Paced = FALSE
INVARIANTS
  TypeOK
  ReadWithinFifo
  ComputeUsesNewest
  GarbageOnlyIfLate
  NoComputeMisaligned
PROPERTIES
  OverflowRecovers

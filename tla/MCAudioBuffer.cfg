CONSTANTS
  Silence = 0
  FrameSize = 2
  Capacities <- MCCapacities
  MaxBurst = 4
  MaxWritten = 9
SPECIFICATION Spec
INVARIANTS
  TypeOK
  NewestInOrder
  NothingVanishes
PROPERTIES
  LossOnlyWhenFull
  FifoSpec

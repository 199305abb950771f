CONSTANTS
  Silence = "silence"
  Nobody = Nobody
  EventKinds <- MCKinds
  Offered <- MCOffered
  ChanCap = 1
  MaxEvents = 6
  FrameSize = 1
  BufferCap = 1
  DeltaSize = 1
  MaxCall = FALSE
  SilenceTimeout = 0
  MaxStarved = 0
  Mishaps = {}
SPECIFICATION LiveSpec
INVARIANTS
  TurnsInOrder

CONSTANTS
  Silence = "silence"
  Nobody = Nobody
  EventKinds <- MCKinds
  ChanCap = 1
  MaxEvents = 2
  FrameSize = 1
  BufferCap = 1
  DeltaSize = 1
  MaxCall = TRUE
  SilenceTimeout = 0
  MaxStarved = 0
  Mishaps = {"hangup", "session"}
SPECIFICATION FairSpec
PROPERTIES
  HangupEnds
  NoLeak
  EndsTogether

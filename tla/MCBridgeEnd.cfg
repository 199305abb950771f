CONSTANTS
  Silence = "silence"
  Nobody = Nobody
  EventKinds <- MCKinds
  ChanCap = 1
  MaxEvents = 1
  FrameSize = 1
  BufferCap = 1
  DeltaSize = 1
  MaxCall = TRUE
  SilenceTimeout = 1
  MaxStarved = 0
  Mishaps <- MCMishaps
SPECIFICATION Spec
INVARIANTS
  NamedEnd
  ReasonsAreTrue
  ResultIsFinal
  SessionBlamed
  TranscriptKept
PROPERTIES
  LifecycleSpec

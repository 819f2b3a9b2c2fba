SPECIFICATION FairSpec
CONSTANTS
  RxBdCount = 2
  RxRingSize = 2
  MaxFrames = 2
  Oversized = {}
  RdsrLatched = FALSE
  NvicEnabled = FALSE
PROPERTY FramesAreReceived
CHECK_DEADLOCK FALSE

SPECIFICATION FairSpec
CONSTANTS
  RxBdCount = 3
  RxRingSize = 4
  MaxFrames = 6
  Oversized = {5}
  RdsrLatched = TRUE
  NvicEnabled = TRUE
INVARIANTS ConsumedAsReceived RingWindow
PROPERTIES AnnouncedIsConsumed RingIsFifo
CHECK_DEADLOCK FALSE

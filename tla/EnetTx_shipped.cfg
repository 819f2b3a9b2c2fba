\* as the firmware ships, the handler never runs; initialised up to three times
SPECIFICATION FairSpec
CONSTANTS
  TxBdCount = 3
  TxRingSize = 4
  MaxFrames = 7
  MaxInits = 3
  NvicEnabled = FALSE
INVARIANTS
  AcceptedIsSent
  SentWholeOnce
  RingNeverFull
CHECK_DEADLOCK FALSE

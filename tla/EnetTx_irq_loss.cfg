\* ERR_OK with the handler enabled
SPECIFICATION Spec
CONSTANTS
  TxBdCount = 3
  TxRingSize = 3
  MaxFrames = 3
  MaxInits = 1
  NvicEnabled = TRUE
INVARIANT AcceptedIsSent
CHECK_DEADLOCK FALSE

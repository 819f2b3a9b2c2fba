\* with IRQ 114 enabled in the NVIC
SPECIFICATION FairSpec
CONSTANTS
  TxBdCount = 3
  TxRingSize = 3
  MaxFrames = 5
  MaxInits = 1
  NvicEnabled = TRUE
INVARIANTS
  TypeOK
  SentInOrderOnce
  HeadMeetsDevice
PROPERTIES
  DriverKeepsOff
  OutputReturns
  TxfServed
CHECK_DEADLOCK FALSE

SPECIFICATION Spec
CONSTANTS
  RxBdCount = 2
  RxRingSize = 2
  MaxFrames = 3
  Oversized = {1}
  RdsrLatched = TRUE
  NvicEnabled = TRUE
PROPERTY ReceptionGoesOn
CHECK_DEADLOCK FALSE

SPECIFICATION FairSpec
CONSTANTS
  Conn = {c1, c2, c3}
  RecvSize = 1
  AcceptSize = 2
  Static = FALSE
  CoreLocked = TRUE
  MayFail = TRUE
  DhcpRetries = 1
  MaxConnects = 3
CHECK_DEADLOCK FALSE
INVARIANTS FreeIsDetached NoneLeaked AssertionsHold NotStranded
           SignalledOnce
PROPERTIES UsesPool AnnouncedListens ClientServed

\* as shipped: static address, lwIP's default mailbox sizes, no tcpip_init
SPECIFICATION FairSpec
CONSTANTS
  Conn = {c1, c2}
  RecvSize = 0
  AcceptSize = 0
  Static = TRUE
  CoreLocked = FALSE
  MayFail = FALSE
  DhcpRetries = 1
  MaxConnects = 1
CHECK_DEADLOCK FALSE
PROPERTIES AnnouncedListens

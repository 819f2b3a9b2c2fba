SPECIFICATION FairSpec
CONSTANTS
  EcrBits = {"RESET", "ETHEREN"}
  Events = {"MII", "RXF", "TXF"}
  Bits = {"b15", "b2"}
  PollBudget = 6
  NvicEnabled = TRUE
INVARIANTS IrqLevel InitEnablesMac ReadsAreRight NoStaleCompletion
PROPERTIES EcrRelocks  InitSucceeds
CHECK_DEADLOCK FALSE

SPECIFICATION FairSpec
CONSTANTS
  Capacity <- OneLun
  BlkSize = 2
  Slots = 2
  SenseDepth = 2
  U32 = 64
  U16 = 8
  Commands <- FaultCommands
  MediaFaults = TRUE
  Timeouts = FALSE
  PortResets = FALSE
  AutoSense = FALSE
PROPERTIES RefusalAnswered
CHECK_DEADLOCK FALSE

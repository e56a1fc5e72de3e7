SPECIFICATION FairSpec
CONSTANTS
  Capacity <- OneLun
  BlkSize = 2
  Slots = 2
  SenseDepth = 2
  U32 = 64
  U16 = 8
  Commands <- AllCommands
  MediaFaults = FALSE
  Timeouts = FALSE
  PortResets = FALSE
  AutoSense = TRUE
INVARIANTS VerdictIsOwn SenseIsOfFailure
PROPERTIES Answered

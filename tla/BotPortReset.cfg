SPECIFICATION Spec
CONSTANTS
  Capacity <- OneLun
  BlkSize = 2
  Slots = 2
  SenseDepth = 2
  U32 = 64
  U16 = 8
  Commands <- PortResetCommands
  MediaFaults = TRUE
  Timeouts = TRUE
  PortResets = TRUE
  AutoSense = FALSE
INVARIANTS IdleArmed
PROPERTIES ImplementsService

SPECIFICATION Spec
CONSTANTS
  Capacity <- TwoLuns
  BlkSize = 2
  Slots = 2
  SenseDepth = 2
  U32 = 64
  U16 = 8
  Commands <- TwoLunCommands
  MediaFaults = FALSE
  Timeouts = FALSE
  PortResets = FALSE
  AutoSense = FALSE
INVARIANTS AcceptedInRange

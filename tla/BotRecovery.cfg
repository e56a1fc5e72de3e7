SPECIFICATION Spec
CONSTANTS
  Capacity <- OneLun
  BlkSize = 2
  Slots = 2
  SenseDepth = 2
  U32 = 64
  U16 = 8
  Commands <- RecoveryCommands
  MediaFaults = TRUE
  Timeouts = TRUE
  PortResets = FALSE
  AutoSense = FALSE
INVARIANTS TypeOK Discipline IdleReady PassedMovedAll ResidueIsRest ResidueReported
PROPERTIES TransmitWaits BufferHeld ImplementsService

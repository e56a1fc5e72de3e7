SPECIFICATION FairSpec
CONSTANTS
  MaxItems = 2
  Lengths = {2, 4, 8}
  Base = 1
  FrameWords = 11
  Faults = {"OVF", "TE", "FE"}
INVARIANTS TypeOK RingOrder PrintsWholeFrame
PROPERTIES Quiet MainLeaves
CHECK_DEADLOCK FALSE

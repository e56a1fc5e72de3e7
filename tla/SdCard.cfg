SPECIFICATION FairSpec
CONSTANTS
  Capacity = 3
  MaxCount = 3
  Faults = {"command", "data"}
  MaxFaults = 3
INVARIANTS TypeOK OkMoved OwnAnswer
PROPERTIES Returns

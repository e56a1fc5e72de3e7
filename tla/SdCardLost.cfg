SPECIFICATION Spec
CONSTANTS
  Capacity = 3
  MaxCount = 2
  Faults = {"data"}
  MaxFaults = 1
INVARIANTS ReadyAgain

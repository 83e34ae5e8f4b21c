SPECIFICATION StagedSpec
CONSTANTS
  Runs = {r1}
  MaxGeneration = 2
  MaxFaults = 2
  Faults = {"crash", "cleanup"}
INVARIANTS
  ChildrenKeepTheirFiles
CHECK_DEADLOCK FALSE

SPECIFICATION StagedSpec
CONSTANTS
  Runs = {r1, r2}
  MaxGeneration = 2
  MaxFaults = 1
  Faults = {"crash", "io"}
SYMMETRY Symmetry
INVARIANTS
  DatabaseMatchesFiles
PROPERTIES
  ImplementsDurableHistory
CHECK_DEADLOCK FALSE

SPECIFICATION StagedSpec
CONSTANTS
  Runs = {r1}
  MaxGeneration = 3
  MaxFaults = 3
  Faults = {"crash", "io", "cleanup", "sync"}
INVARIANTS
  HistoryIsTrue
PROPERTIES
  FrozenAnswersAreCommitted
  RestartHeals
CHECK_DEADLOCK FALSE

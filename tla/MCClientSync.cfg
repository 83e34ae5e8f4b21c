SPECIFICATION Spec
CONSTANTS
  Capacity = 1
  MaxBuffer = 1
  Retries = 1
  Faults = {"drop", "restart", "frame", "open"}
  MaxFaults = 1
  MaxSequence = 3
  MaxSteps = 1
  MaxDeltas = 1
INVARIANTS
  NothingIsForgotten
  TextIsExact
PROPERTIES
  Settles
CHECK_DEADLOCK FALSE

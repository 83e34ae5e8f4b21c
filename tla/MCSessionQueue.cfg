SPECIFICATION Spec
CONSTANTS
  MaxInputs = 2
  MaxAttempts = 2
  MaxRestarts = 2
  Drivers = {1, 2}
  Failures = {"store", "start"}
  LateReports = FALSE
CHECK_DEADLOCK FALSE
INVARIANTS
  MemoryMatchesStore
  OneExecution
PROPERTIES
  FailClosed
  QueueIsServed

SPECIFICATION Spec
CONSTANTS
  MaxRuns = 3
  MaxFailures = 2
  MaxInputs = 2
  MaxGoals = 1
  MaxGeneration = 3
  MaxRestarts = 0
CHECK_DEADLOCK FALSE
INVARIANTS
  Restartable

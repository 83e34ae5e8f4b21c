SPECIFICATION Spec
CONSTANTS
  MaxInputs = 2
  MaxAttempts = 2
  MaxRestarts = 2
  Drivers = {1, 2}
  Failures = {"store", "start", "journal", "panic"}
  LateReports = TRUE
CHECK_DEADLOCK FALSE
INVARIANTS
  AttemptRunsOnce
PROPERTY
  OutcomeIsFinal

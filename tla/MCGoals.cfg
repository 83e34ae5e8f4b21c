SPECIFICATION Spec
CONSTANTS
  MaxRuns = 3
  MaxFailures = 2
  MaxInputs = 3
  MaxGoals = 2
  MaxGeneration = 3
  MaxRestarts = 1
CHECK_DEADLOCK FALSE
INVARIANTS
  MirrorsStore
  ContinuationsFollowTheGoal
  PreparedForItsGoal
  GateIsFinal
PROPERTIES
  OldRunsAreInert
  ClaimsAreCurrent
  CurrentInputIsServed

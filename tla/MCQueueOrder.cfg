SPECIFICATION Spec
CONSTANTS
  Roles = {"plain", "hosted", "controller"}
  MaxRows = 4
  MaxPriority = 4
INVARIANTS
  QueueIsRecoverable
  FifoUnlessPromoted
  RevisionIdentifiesQueue
CHECK_DEADLOCK FALSE

SPECIFICATION Spec
CONSTANTS
  Calls = {1, 2}
  Children = {2}
  PrintOf <- OneRule
  Mcp = {2}
  Requests = {1, 2}
  MaxMoves = 2
INVARIANTS
  NobodyIsStranded
  AnswersAreObeyed
  EventsTellTheQueue
PROPERTIES
  RulesGuardTools
  ResolvingEnds
CHECK_DEADLOCK FALSE

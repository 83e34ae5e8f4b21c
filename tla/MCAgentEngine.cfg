SPECIFICATION Spec
CONSTANTS
  Fingerprints = {f1, f2}
  Batches <- EveryBatch
  MaxSteps = 2
  MaxToolCalls = 3
  RepeatGuard <- EnforceAtTwo
  FailureGuard <- EnforceAtTwo
INVARIANTS
  FencedSideEffects
  TruthfulLedger
  CleanTermination
  HardBudgets
  GuardrailsStop
  SerialOrder
PROPERTIES
  ImplementsToolExchange
  CancelConverges

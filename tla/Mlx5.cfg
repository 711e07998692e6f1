CONSTANTS
  Scenarios <- BcastScenarios
  MaxBatch <- Batch
SPECIFICATION MlxSpec
INVARIANTS TeamsAgree AllDelivered KeptForChildren BuffersKept
PROPERTY AllComplete

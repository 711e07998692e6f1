CONSTANTS
  Scenarios <- BcastScenarios
  MaxBatch <- Batch
SPECIFICATION JoinSpec
PROPERTY OthersReturn

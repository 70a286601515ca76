SPECIFICATION FairSpec
CONSTANTS
  ChunkSize = 2
  Capacity = 2
  MaxLen = 5
  Maximum = 4
  Faults = {"input", "store", "engine", "cancel"}
INVARIANTS
  CommittedIsTheInput
  ResultsAreTrue
PROPERTIES
  OperationDrains
  AsyncLearnsOfResult
  EveryCallerReturns
CHECK_DEADLOCK FALSE

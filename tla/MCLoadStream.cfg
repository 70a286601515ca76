SPECIFICATION FairSpec
CONSTANTS
  ChunkSize = 2
  Capacity = 2
  MaxLen = 7
  Faults = {"output", "store", "engine", "cancel"}
INVARIANTS
  ResultsAreTrue
  OutputIsThePayload
PROPERTIES
  OperationDrains
  EveryCallerReturns
CHECK_DEADLOCK FALSE

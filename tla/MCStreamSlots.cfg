SPECIFICATION FairSpec
CONSTANTS
  Facades = {"blocking", "tokio"}
  ChunkSize = 1
  Capacity = 1
  MaxLen = 2
  MaxSlots = 2
  PipeCapacity = 1
INVARIANT
  CopyIsWhole
PROPERTIES
  StreamsFinish
  CancellationReleasesClose
CHECK_DEADLOCK FALSE

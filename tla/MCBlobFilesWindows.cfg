SPECIFICATION Spec
CONSTANTS
  Keys = {k1}
  Values = {v1, v2}
  Ids = {i1}
  NoId = NoId
  NoFile = NoFile
  Absent = Absent
  Windows = TRUE
  MaxClock = 1
  MaxBack = 1
  MinAge = 1
SYMMETRY FileSymmetry
INVARIANTS
  ResultsTellTheTruth
  QuarantineKeepsBlobs
  SuccessLeavesNoStaging
PROPERTY CleanupSparesTheYoung

SPECIFICATION Spec
CONSTANTS
  Keys = {k1}
  Values = {v1}
  Ids = {i1}
  NoId = NoId
  NoFile = NoFile
  Absent = Absent
  Windows = FALSE
  MaxClock = 0
  MaxBack = 0
  MinAge = 1
SYMMETRY FileSymmetry
INVARIANT ClearIsSynced

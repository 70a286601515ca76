SPECIFICATION Spec
CONSTANTS
  Keys = {k1, k2, k3}
  Ops = {o1, o2, o3, o4}
  Maintenances = {}
  Flushes = {f1}
  Closes = {}
  NoCall = NoCall
  MaxConcurrent = 2
  Faults = {"spawn", "job"}
SYMMETRY CallSymmetry
INVARIANTS
  TypeOK
  SameKeyOrder
  SameKeyAnswerOrder
  EveryJobHasAWorker
  NothingLeftBehind

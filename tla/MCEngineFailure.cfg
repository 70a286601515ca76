SPECIFICATION Spec
CONSTANTS
  Keys = {k1, k2}
  Ops = {o1, o2}
  Maintenances = {m1}
  Flushes = {f1}
  Closes = {c1}
  NoCall = NoCall
  MaxConcurrent = 2
  Faults = {"spawn", "job", "exit", "panic"}
SYMMETRY CallSymmetry
INVARIANTS
  StoppedIsQuiet
  NoCallLost
  EngineInv
  MaintenanceBarrier
  FlushBarrier
  CloseCut
PROPERTY ImplementsContract

SPECIFICATION FairSpec
CONSTANTS
  Keys = {k1}
  Ops = {o1}
  Maintenances = {m1}
  Flushes = {f1}
  Closes = {c1, c2}
  NoCall = NoCall
  MaxConcurrent = 1
  Faults = {"spawn", "job", "exit"}
INVARIANT
  CloseAgreement
PROPERTIES
  EveryCallAnswered
  StoreStops

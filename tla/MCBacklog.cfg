SPECIFICATION FairSpec
CONSTANTS
  Keys = {k1, k2, k3}
  MaxSlots = 3
  MaxQueue = 2
  MaxPending = 3
PROPERTIES
  NoOperationStarves
  NothingStaysPending

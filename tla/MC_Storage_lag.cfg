CONSTANTS
  HeapBase <- MCHeapBase
  DevSize <- MCDevSize
  IdeSize <- MCIdeSize
  Lbas = {0}
  Counts = {1}
  Present = {0}
  Lba48 = {}
  Capacity = 2
  StatusLag = TRUE
  MaxDevices = 2
  MaxCalls = 4
  MaxPages = 2
SPECIFICATION Spec
INVARIANT SuccessMeansTransferred


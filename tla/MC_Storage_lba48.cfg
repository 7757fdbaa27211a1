CONSTANTS
  HeapBase <- MCHeapBase
  DevSize <- MCDevSize
  IdeSize <- MCIdeSize
  Lbas = {1}
  Counts = {1}
  Present = {0}
  Lba48 = {0}
  Capacity = 16777218
  StatusLag = FALSE
  MaxDevices = 2
  MaxCalls = 4
  MaxPages = 2
SPECIFICATION Spec
INVARIANT SuccessMeansTransferred


CONSTANTS
  HeapBase <- MCHeapBase
  DevSize <- MCDevSize
  IdeSize <- MCIdeSize
  Lbas <- MCLbas
  Counts <- MCCounts
  Present = {0}
  Lba48 = {}
  Capacity = 2
  StatusLag = FALSE
  MaxDevices = 2
  MaxCalls = 4
  MaxPages = 2
SPECIFICATION Spec
INVARIANT NoUseAfterFree


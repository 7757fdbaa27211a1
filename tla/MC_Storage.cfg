CONSTANTS
  HeapBase <- MCHeapBase
  DevSize <- MCDevSize
  IdeSize <- MCIdeSize
  Lbas <- MCLbas
  Counts <- MCCounts
  Present = {0}
  Lba48 = {0}
  Capacity = 2
  StatusLag = TRUE
  MaxDevices = 2
  MaxCalls = 4
  MaxPages = 2
SPECIFICATION Spec
INVARIANTS TypeOK NoLeak RegistryLive
PROPERTY CallsReturn

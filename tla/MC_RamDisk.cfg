CONSTANTS
  HeapBase <- MCHeapBase
  Names <- MCNames
  LongNames <- MCLongNames
  FSSize <- MCFSSize
  RamDiskSize <- MCRamDiskSize
  DataSize <- MCDataSize
  NodeSize <- MCNodeSize
  Offsets <- MCOffsets
  Sizes <- MCSizes
  MaxFiles = 2
  MaxPages = 3
  MaxStart = 20
SPECIFICATION Spec
INVARIANTS TypeOK ReadInOwnBlocks
